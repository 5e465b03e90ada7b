------------------------------ MODULE OdohWire ------------------------------
(***************************************************************************)
(* The wire format of Oblivious DoH (internal/odoh/odoh.go): fields with   *)
(* two-byte length prefixes.  A byte string is a sequence of numbers; what *)
(* cryptography makes (keys, digests, sealed text) is a number, too large  *)
(* for a byte, that stands for it.  A parser returns a record with an      *)
(* error, None when val is what it read.                                   *)
(***************************************************************************)
EXTENDS Naturals, Sequences

CONSTANTS Base,      \* the values of a byte: 256
          None

ASSUME BaseAssumption == Base \in Nat \ {0, 1}
ASSUME NoneAssumption == None \notin {"malformed", "unsupported", "keyid", "open"}

maxField == Base * Base - 1

Kem == 2
Kdf == 1
Aead == 1
ConfigVersion == 1
MessageTypeQuery == 1
MessageTypeResponse == 2

wireLen(n) == IF n > maxField THEN maxField ELSE n

U16(n) == <<n \div Base, n % Base>>
Uint16(b, i) == b[i] * Base + b[i + 1]
Field(f) == U16(wireLen(Len(f))) \o f
From(b, i) == SubSeq(b, i, Len(b))

Malformed == [err |-> "malformed"]
Read(v) == [err |-> None, val |-> v]

-----------------------------------------------------------------------------
(* ConfigContents: Marshal is also what the key ID is the digest of.       *)
MarshalContents(c) == U16(c.kem) \o U16(c.kdf) \o U16(c.aead) \o Field(c.pub)
MarshalConfig(c) == U16(ConfigVersion) \o Field(MarshalContents(c))
MarshalConfigs(c) == Field(MarshalConfig(c))

(* Bytes after the public key are passed over.                             *)
parseConfigContents(b) ==
    IF Len(b) < 8 \/ Uint16(b, 7) = 0 \/ Uint16(b, 7) > Len(b) - 8 THEN Malformed
    ELSE Read([kem |-> Uint16(b, 1), kdf |-> Uint16(b, 3), aead |-> Uint16(b, 5),
               pub |-> SubSeq(b, 9, 8 + Uint16(b, 7))])

Supported(c) == c.kem = Kem /\ c.kdf = Kdf /\ c.aead = Aead

(* Mutant of ParseConfigs: the first config, of whatever version and suite. *)
ParseConfigsFirst(b) == parseConfigContents(SubSeq(b, 7, 6 + Uint16(b, 5)))

(* The first config of a known version and suite; the others are skipped,  *)
(* malformed contents are not.                                             *)
ParseConfigs(b) ==
    LET contents(i) == SubSeq(b, i + 4, i + 3 + Uint16(b, i + 2))
        fits(i) == i + 3 <= Len(b) /\ i + 3 + Uint16(b, i + 2) <= Len(b)
        from[i \in 3 .. Len(b) + 1] ==
            LET c == parseConfigContents(contents(i))
                known == Uint16(b, i) = ConfigVersion
            IN  IF i = Len(b) + 1 THEN [err |-> "unsupported"]
                ELSE IF ~fits(i) THEN Malformed
                ELSE IF known /\ c.err # None THEN Malformed
                ELSE IF known /\ Supported(c.val) THEN c
                ELSE from[i + 4 + Uint16(b, i + 2)]
    IN  IF Len(b) < 2 \/ Uint16(b, 1) # Len(b) - 2 THEN Malformed ELSE from[3]

-----------------------------------------------------------------------------
MarshalMessage(m) == <<m.type>> \o Field(m.keyId) \o Field(m.encrypted)

(* Mutant of ParseMessage: the last length may be less than what follows.  *)
ParseMessageAtMost(b) ==
    LET klen == Uint16(b, 2)
        rest == From(b, 4 + klen)
        elen == Uint16(rest, 1)
    IN  IF \/ Len(b) < 3 \/ klen > Len(b) - 3
           \/ Len(rest) < 2 \/ elen > Len(rest) - 2 \/ elen = 0
        THEN Malformed
        ELSE Read([type |-> b[1], keyId |-> SubSeq(b, 4, 3 + klen),
                   encrypted |-> SubSeq(rest, 3, 2 + elen)])

ParseMessage(b) ==
    LET klen == Uint16(b, 2)
        rest == From(b, 4 + klen)
        elen == Uint16(rest, 1)
    IN  IF \/ Len(b) < 3 \/ klen > Len(b) - 3
           \/ Len(rest) < 2 \/ elen # Len(rest) - 2 \/ elen = 0
        THEN Malformed
        ELSE Read([type |-> b[1], keyId |-> SubSeq(b, 4, 3 + klen),
                   encrypted |-> From(rest, 3)])

MarshalPlaintext(p) == Field(p.dns) \o Field(p.padding)

ParsePlaintext(b) ==
    LET dlen == Uint16(b, 1)
        rest == From(b, 3 + dlen)
    IN  IF \/ Len(b) < 2 \/ dlen = 0 \/ dlen > Len(b) - 2
           \/ Len(rest) < 2 \/ Uint16(rest, 1) # Len(rest) - 2
           \/ \E i \in 3 .. Len(rest) : rest[i] # 0
        THEN Malformed
        ELSE Read([dns |-> SubSeq(b, 3, 2 + dlen), padding |-> From(rest, 3)])
=============================================================================
