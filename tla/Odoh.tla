-------------------------------- MODULE Odoh --------------------------------
(***************************************************************************)
(* The Oblivious DoH exchange (internal/odoh): clients that know a config  *)
(* of the target seal queries to its key, the target opens and answers     *)
(* them, a proxy carries the messages.  The target makes a new key at each *)
(* start.  The proxy may lose, delay, repeat and reorder what it carries.  *)
(*                                                                         *)
(* HPKE, HKDF and AES-GCM are ideal: what was sealed opens only with the   *)
(* same key and additional data.  A sealed text is the number of what was  *)
(* sealed, filled up to the length it has.                                 *)
(***************************************************************************)
EXTENDS OdohWire, FiniteSets

CONSTANTS Client, Name,    \* DNS names are bytes
          Padding,         \* the lengths of padding callers ask for
          Foreign,         \* what may precede a config in a list, encoded
          MaxKeys,         \* bound: starts of the target
          MaxQueries,      \* bound
          MaxResponses     \* bound

ASSUME ByteAssumption == Name \subseteq Nat /\ Padding \subseteq Nat
ASSUME BoundAssumption == MaxKeys \in Nat \ {0} /\ MaxQueries \in Nat /\ MaxResponses \in Nat

VARIABLES key,       \* the number of the target's key pair
          config,    \* the config each client has, None before the first
          queries,   \* the sealed queries: the table that opens them
          pending,   \* those whose client has no response yet
          accepted,  \* what DecryptResponse returned: [query, dns]
          work,      \* the query contexts of the target
          responses, \* the sealed responses
          net        \* all messages ever sent, encoded

vars == <<key, config, queries, pending, accepted, work, responses, net>>

(* The numbers that stand for what is no byte.                             *)
Pub(k) == 100 + k
Digest(k) == 200 + k
Enc(i) == 300 + i
Sealed(i) == 400 + i
Nonce(j) == 500 + j
SealedResponse(j) == 600 + j

Zeros(n) == [i \in 1 .. n |-> 0]
(* A ciphertext is longer than its plaintext by a tag, here one byte.      *)
Ciphertext(number, plain) == <<number>> \o Zeros(Len(plain))

checkField(n) == n <= maxField

-----------------------------------------------------------------------------
(* NewTarget                                                               *)
Contents(k) == [kem |-> Kem, kdf |-> Kdf, aead |-> Aead, pub |-> <<Pub(k)>>]

(* x is a list of configs that clients pass over, which start at the       *)
(* places starts: of another version, or of a suite that is not supported. *)
PassedOver(x, starts) ==
    /\ {1, Len(x) + 1} \subseteq starts
    /\ \A i \in starts \ {Len(x) + 1} :
           /\ i + 3 <= Len(x) /\ i + 4 + Uint16(x, i + 2) \in starts
           /\ LET c == parseConfigContents(SubSeq(x, i + 4, i + 3 + Uint16(x, i + 2)))
              IN  Uint16(x, i) = ConfigVersion => c.err = None /\ ~Supported(c.val)

(* Such lists may precede the target's config, if the whole has a length.  *)
ASSUME ForeignAssumption ==
    \A x \in Foreign :
        /\ x \in Seq(Nat)
        /\ \E starts \in SUBSET (1 .. Len(x) + 1) : PassedOver(x, starts)
        /\ \A k \in 1 .. MaxKeys : checkField(Len(x \o MarshalConfig(Contents(k))))

(* The digest of MarshalContents, which differ in the key.                 *)
KeyID(c) == <<Digest(c.pub[1] - Pub(0))>>

(* A new process: a fresh key, and the contexts of the old one are gone.   *)
Restart == /\ key < MaxKeys
           /\ key' = key + 1
           /\ work' = {}
           /\ UNCHANGED <<config, queries, pending, accepted, responses, net>>

(* The published list, which other configs may come to precede.            *)
Published(x) == Field(x \o MarshalConfig(Contents(key)))

(* A client reads the list; NewClient takes what ParseConfigs returns.     *)
Fetch(c, x) ==
    LET r == ParseConfigs(Published(x))
    IN  /\ r.err = None
        /\ config' = [config EXCEPT ![c] = r.val]
        /\ UNCHANGED <<key, queries, pending, accepted, work, responses, net>>

(* EncryptQuery: the lengths of the two parts are checked, not that of the *)
(* sealed text.                                                            *)
EncryptQuery(c, n, pad) ==
    LET i == Len(queries) + 1
        plain == MarshalPlaintext([dns |-> <<n>>, padding |-> Zeros(pad)])
        keyId == KeyID(config[c])
    IN  /\ config[c] # None
        /\ i <= MaxQueries
        /\ checkField(pad)
        /\ queries' = Append(queries, [pub |-> config[c].pub, aad |-> keyId, plain |-> plain])
        /\ pending' = pending \cup {i}
        /\ net' = net \cup {MarshalMessage([type |-> MessageTypeQuery, keyId |-> keyId,
                                            encrypted |-> <<Enc(i)>> \o
                                                          Ciphertext(Sealed(i), plain)])}
        /\ UNCHANGED <<key, config, accepted, work, responses>>

-----------------------------------------------------------------------------
(* recipient.Open with the key pair k.                                     *)
Opens(k, m, i) == /\ m.encrypted[1] = Enc(i)
                  /\ m.encrypted = <<Enc(i)>> \o Ciphertext(Sealed(i), queries[i].plain)
                  /\ queries[i].pub = <<Pub(k)>>
                  /\ queries[i].aad = m.keyId

(* Mutant of Decrypt: the key ID is looked at when opening has failed.     *)
DecryptOpensFirst(k, m) ==
    LET opened == {i \in DOMAIN queries : Opens(k, m, i)}
    IN  IF m.type # MessageTypeQuery \/ Len(m.encrypted) <= 1 THEN Malformed
        ELSE IF opened = {} THEN [err |-> "open"]
        ELSE IF m.keyId # KeyID(Contents(k)) THEN [err |-> "keyid"]
        ELSE LET i == CHOOSE i \in opened : TRUE
                 p == ParsePlaintext(queries[i].plain)
             IN  IF p.err # None THEN p ELSE Read([query |-> i, dns |-> p.val.dns])

(* DecryptQuery                                                            *)
Decrypt(k, m) ==
    LET opened == {i \in DOMAIN queries : Opens(k, m, i)}
    IN  IF m.type # MessageTypeQuery THEN Malformed
        ELSE IF m.keyId # KeyID(Contents(k)) THEN [err |-> "keyid"]
        ELSE IF Len(m.encrypted) <= 1 THEN Malformed
        ELSE IF opened = {} THEN [err |-> "open"]
        ELSE LET i == CHOOSE i \in opened : TRUE
                 p == ParsePlaintext(queries[i].plain)
             IN  IF p.err # None THEN p ELSE Read([query |-> i, dns |-> p.val.dns])

(* What the target makes of bytes that arrive.                             *)
Receive(k, b) == LET m == ParseMessage(b)
                 IN  IF m.err # None THEN m ELSE Decrypt(k, m.val)

DecryptQuery(b) ==
    LET r == Receive(key, b)
    IN  /\ b \in net
        /\ r.err = None
        /\ work' = work \cup {r.val}
        /\ UNCHANGED <<key, config, queries, pending, accepted, responses, net>>

(* Mutant of secrets: the context of the query is left out.                *)
secretsOfPlain(i) == <<queries[i].plain>>

(* deriveResponseSecrets: from the query's HPKE context and plaintext; the *)
(* nonce is that of the response.                                          *)
secrets(i) == <<Enc(i), queries[i].plain>>

(* EncryptResponse, with the DNS message the resolver gave for w: one byte,*)
(* the name asked for, or none.                                            *)
EncryptResponse(w, dns, pad) ==
    LET j == Len(responses) + 1
        plain == MarshalPlaintext([dns |-> dns, padding |-> Zeros(pad)])
    IN  /\ w \in work
        /\ j <= MaxResponses
        /\ checkField(pad)
        /\ work' = work \ {w}
        /\ responses' = Append(responses, [secrets |-> secrets(w.query), query |-> w.query,
                                           plain |-> plain])
        /\ net' = net \cup {MarshalMessage([type |-> MessageTypeResponse,
                                            keyId |-> <<Nonce(j)>>,
                                            encrypted |-> Ciphertext(SealedResponse(j), plain)])}
        /\ UNCHANGED <<key, config, queries, pending, accepted>>

(* DecryptResponse of the pending query i.                                 *)
OpenResponse(i, m) ==
    LET opened == {j \in DOMAIN responses :
                      /\ m.keyId = <<Nonce(j)>>
                      /\ m.encrypted = Ciphertext(SealedResponse(j), responses[j].plain)
                      /\ responses[j].secrets = secrets(i)}
    IN  IF m.type # MessageTypeResponse \/ Len(m.keyId) # 1 THEN Malformed
        ELSE IF opened = {} THEN [err |-> "open"]
        ELSE LET j == CHOOSE j \in opened : TRUE
                 p == ParsePlaintext(responses[j].plain)
             IN  IF p.err # None THEN p ELSE Read([response |-> j, dns |-> p.val.dns])

DecryptResponse(i, b) ==
    LET m == ParseMessage(b)
        r == OpenResponse(i, m.val)
    IN  /\ b \in net /\ i \in pending
        /\ m.err = None /\ r.err = None
        /\ pending' = pending \ {i}
        /\ accepted' = accepted \cup {[query |-> i, response |-> r.val.response,
                                       dns |-> r.val.dns]}
        /\ UNCHANGED <<key, config, queries, work, responses, net>>

-----------------------------------------------------------------------------
Init == /\ key = 1
        /\ config = [c \in Client |-> None]
        /\ queries = <<>> /\ responses = <<>>
        /\ pending = {} /\ accepted = {} /\ work = {} /\ net = {}

Next == \/ Restart
        \/ \E c \in Client, x \in Foreign : Fetch(c, x)
        \/ \E c \in Client, n \in Name, pad \in Padding : EncryptQuery(c, n, pad)
        \/ \E b \in net : DecryptQuery(b)
        \/ \E w \in work, pad \in Padding : \E dns \in {w.dns, <<>>} :
               EncryptResponse(w, dns, pad)
        \/ \E i \in pending, b \in net : DecryptResponse(i, b)

Spec == Init /\ [][Next]_vars

-----------------------------------------------------------------------------
TypeOK == /\ key \in 1 .. MaxKeys
          /\ config \in [Client -> {Contents(k) : k \in 1 .. MaxKeys} \cup {None}]
          /\ pending \subseteq DOMAIN queries
          /\ \A w \in work : w.query \in DOMAIN queries /\ w.dns \in {<<n>> : n \in Name}
          /\ Len(queries) <= MaxQueries /\ Len(responses) <= MaxResponses

(* The receiver of a message reads what was sent or reports it malformed:  *)
(* one too long for its length prefix is refused rather than read as a     *)
(* shorter one, and of one cut short nothing is read, or, when the cut is  *)
(* just where a saturated prefix says it ends, opened.  In the published   *)
(* list the target's config is found whatever stands before it.            *)
FramingIsExact ==
    /\ \A x \in Foreign : ParseConfigs(Published(x)) = Read(Contents(key))
    /\ \A b \in net :
           LET m == ParseMessage(b)
               fits == Len(b) <= maxField + 6
           IN  /\ IF fits THEN m.err = None /\ MarshalMessage(m.val) = b ELSE m = Malformed
               /\ \A n \in 0 .. Len(b) - 1 :
                      LET cut == SubSeq(b, 1, n)
                      IN  IF fits THEN ParseMessage(cut) = Malformed
                          ELSE Receive(key, cut).err # None

(* A query sealed to a key the target no longer holds is always told so    *)
(* (the client then fetches the config anew) and never looks like a        *)
(* damaged one; one sealed to the present key opens, however often and     *)
(* late it arrives.                                                        *)
StaleIsToldSo ==
    \A b \in net :
        LET m == ParseMessage(b)
            i == m.val.encrypted[1] - Enc(0)
        IN  m.err = None /\ m.val.type = MessageTypeQuery =>
                Receive(key, b).err = IF queries[i].pub = <<Pub(key)>> THEN None ELSE "keyid"

(* A client accepts a response only to the query it holds, whatever is     *)
(* reordered or repeated and although others asked for the same name.      *)
ResponseForItsQuery ==
    \A a \in accepted : /\ responses[a.response].query = a.query
                        /\ a.dns = ParsePlaintext(queries[a.query].plain).val.dns
=============================================================================
