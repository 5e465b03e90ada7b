----------------------------- MODULE DnsResponse -----------------------------
(***************************************************************************)
(* One query through SimpleHandler.ServeDNS of internal/dnsutil or         *)
(* DnscheckHandler.ServeDNS of internal/zones/dnscheck.                    *)
(*                                                                         *)
(* Both build the response in a body with early returns and in deferred    *)
(* functions that run in reverse order.  phase is the part that runs next; *)
(* a return goes to the deferred function registered last (see Then).      *)
(* Every query has a goroutine and a response of its own; what it shares,  *)
(* the stores behind the generator and the rate limiter, is a choice.      *)
(*                                                                         *)
(* A section is the set of types of its records, all of which are owned by *)
(* the name in the question but for the SOA record; "A" stands for A and   *)
(* AAAA.  A signature names the type it covers, its key and its validity.  *)
(***************************************************************************)
EXTENDS Naturals, FiniteSets

CONSTANTS Nobody,        \* no query yet
          ApexRecords,   \* sets of types a zone may have static records of, at its apex
          WwwRecords,    \* likewise at the name www
          UdpSize,       \* payload sizes clients offer
          MsgSize        \* sizes of packed responses

ASSUME SizeAssumption == UdpSize \subseteq Nat /\ MsgSize \subseteq Nat \ {0}

(* Only the apex has the records that make a zone: nothing is delegated.   *)
ASSUME WwwAssumption == \A s \in WwwRecords : s \cap {"NS", "SOA", "DNSKEY"} = {}

VARIABLES zone,          \* the handler that serves, and its configuration
          req,           \* the query
          phase,         \* what runs next
          resp,          \* the response
          wire           \* transport, payload size offered, and size of the response

vars == <<zone, req, phase, resp, wire>>

(* host is a name the generator knows or, under dnscheck, a label of       *)
(* options; nowhere is neither, nor has it static records.                 *)
Name == {"apex", "www", "host", "nowhere"}
Data == {"A", "HTTPS", "TXT", "MX", "NS", "SOA", "DNSKEY", "CAA"}
Type == Data \cup {"ANY", "OPT", "NXNAME", "RRSIG", "NSEC", "AXFR"}
RecordType == Data \cup {"CNAME", "HINFO", "NSEC"}
Signature == [covers : RecordType, key : {"zone", "bad"},
              life : {"prepared", "fresh", "expired"}]

(* What a zone has static records of are types of records: ANY and AXFR    *)
(* cannot be stored.                                                       *)
ASSUME RecordsAssumption == \A s \in ApexRecords \cup WwwRecords : s \subseteq RecordType

DefaultNsecTypes ==
    {"A", "NS", "SOA", "MX", "TXT", "RRSIG", "NSEC", "DNSKEY", "HTTPS"}

(* nsec is NsecTypes or its default; keyed tells whether there is a        *)
(* DnssecProvider, and with it a prepared signature of the SOA record.     *)
Zone == [kind : {"simple", "dnscheck"}, keyed : BOOLEAN,
         apex : ApexRecords, www : WwwRecords,
         nsec : {DefaultNsecTypes, DefaultNsecTypes \cup {"CAA"}}]

(* The options ParseOptions can return: at most one about signatures, one  *)
(* about the content and one about truncation.                             *)
Options == [sign : {"usual", "bad", "expired", "none"},
            content : {"usual", "nxdomain", "refused", "nullip", "txtfill"},
            cut : {"usual", "truncate", "notruncate"}]
DefaultOptions == [sign |-> "usual", content |-> "usual", cut |-> "usual"]

Edns == {e \in [version : {"none", "zero", "bad"}, do : BOOLEAN, co : BOOLEAN] :
            e.version = "none" => ~e.do /\ ~e.co}

Request == [op : {"query", "update"}, class : {"IN", "CH"}, edns : Edns,
            name : Name, type : Type, options : Options]

(* Requests that differ only in what the handler of the zone does not look *)
(* at are one.                                                             *)
Arrives(r) ==
    /\ r.options # DefaultOptions => zone.kind = "dnscheck" /\ r.name = "host"
    /\ \/ r.op = "query" /\ r.class = "IN" /\ r.edns.version # "bad"
       \/ r.type = "A" /\ r.options = DefaultOptions

(* opt.Do(): signatures are asked for.                                     *)
Do == req.edns.do

(* opts # nil                                                              *)
HasOptions == zone.kind = "dnscheck" /\ req.name \in {"apex", "host"}

(* What the name asks of its signatures.                                   *)
Asked == IF HasOptions THEN req.options.sign ELSE "usual"

NewResponse(rcode) ==
    [rcode |-> rcode, opt |-> FALSE, tc |-> FALSE, bitmap |-> {},
     answer |-> {}, answerSigs |-> {}, ns |-> {}, nsSigs |-> {}]

NoWire == [proto |-> "none", offer |-> 0, size |-> 0, padded |-> FALSE]

TypeOK ==
    /\ zone \in Zone
    /\ req \in Request \cup {Nobody}
    /\ phase \in {"idle", "edns", "screen", "keys", "static", "generate", "options",
                  "any", "soa", "prove", "resize", "write", "sent"}
    /\ resp.rcode \in {"NOERROR", "NXDOMAIN", "SERVFAIL", "REFUSED", "FORMERR",
                       "NOTIMP", "BADVERS"}
    /\ resp.opt => req.edns.version # "none"
    /\ resp.answer \cup resp.ns \subseteq RecordType
    /\ resp.answerSigs \cup resp.nsSigs \subseteq Signature
    /\ resp.bitmap \subseteq Type
    /\ resp.tc \in BOOLEAN
    /\ wire.size \in Nat

-----------------------------------------------------------------------------
(* The records of StaticRecords at a name, and Get: those of the type that *)
(* is asked for, and any CNAME.                                            *)
StaticAt(name) ==
    CASE name = "apex" -> zone.apex
      [] name = "www"  -> zone.www
      [] OTHER         -> {}
Get(name, type) == StaticAt(name) \cap {type, "CNAME"}

(* The SOA record comes with the prepared signature if one is asked for.   *)
SoaSigs == IF Do /\ zone.keyed
           THEN {[covers |-> "SOA", key |-> "zone", life |-> "prepared"]} ELSE {}

(* The deferred functions, in the order they run.  SimpleHandler defers    *)
(* the default answer to ANY; DnscheckHandler gives it in its body.        *)
Then == [any |-> "soa", soa |-> "prove", prove |-> "resize", resize |-> "write"]
Return == phase' = IF zone.kind = "simple" THEN "any" ELSE Then["any"]

(* Only queries are served.                                                *)
Receive ==
    /\ phase = "idle"
    /\ \E r \in Request :
         /\ Arrives(r)
         /\ req' = r
         /\ IF r.op = "query"
            THEN phase' = "edns" /\ UNCHANGED resp
            ELSE phase' = "write" /\ resp' = NewResponse("NOTIMP")
    /\ UNCHANGED <<zone, wire>>

(* Mutant of CheckAndSetEdns: the response always gets an OPT record.      *)
CheckAndSetEdnsAlways ==
    /\ phase = "edns"
    /\ resp' = [resp EXCEPT !.opt = TRUE]
    /\ phase' = "screen"
    /\ UNCHANGED <<zone, req, wire>>

CheckAndSetEdns ==
    /\ phase = "edns"
    /\ IF req.edns.version = "bad"
       THEN /\ resp' = [resp EXCEPT !.opt = TRUE, !.rcode = "BADVERS"]
            /\ phase' = Then["resize"]
       ELSE /\ resp' = [resp EXCEPT !.opt = (req.edns.version = "zero")]
            /\ phase' = "screen"
    /\ UNCHANGED <<zone, req, wire>>

(* Why a query gets no further than the checks on its class and type.      *)
Refusal ==
    CASE req.class # "IN"               -> "NOTIMP"
      [] req.type \in {"OPT", "NXNAME"} -> "FORMERR"
      [] req.type \in {"RRSIG", "NSEC"} -> "REFUSED"
      [] req.type = "AXFR"              -> "NOTIMP"
      [] OTHER                          -> "none"

Screen ==
    /\ phase = "screen"
    /\ \/ /\ Refusal # "none"
          /\ resp' = [resp EXCEPT !.rcode = Refusal]
          /\ phase' = Then["resize"]
       \/ /\ Refusal = "none"
          /\ phase' = "keys"
          /\ UNCHANGED resp
    /\ UNCHANGED <<zone, req, wire>>

(* The zone's key is the whole answer; else the name is assumed not to     *)
(* exist until it is found.                                                *)
ProvideKeys ==
    /\ phase = "keys"
    /\ IF zone.keyed /\ req.type = "DNSKEY" /\ req.name = "apex"
       THEN /\ resp' = [resp EXCEPT !.answer = {"DNSKEY"}]
            /\ phase' = Then["soa"]
       ELSE /\ resp' = [resp EXCEPT !.rcode = "NXDOMAIN"]
            /\ phase' = "static"
    /\ UNCHANGED <<zone, req, wire>>

(* The records of the apex, then the static ones.                          *)
AnswerStatic ==
    LET apex == IF req.name = "apex" THEN {req.type} \cap {"SOA", "NS"} ELSE {}
    IN  /\ phase = "static"
        /\ resp' = [resp EXCEPT
               !.answer = apex \cup Get(req.name, req.type),
               !.answerSigs = IF "SOA" \in apex THEN SoaSigs ELSE {},
               !.rcode = IF req.name = "apex" \/ StaticAt(req.name) # {}
                         THEN "NOERROR" ELSE @]
        /\ phase' = IF zone.kind = "simple" THEN "generate" ELSE "options"
        /\ UNCHANGED <<zone, req, wire>>

(* The generator knows the name, whether or not it has records for it.     *)
ValidName == req.name = "host"

(* What a generator may answer: addresses and texts from its stores, which *)
(* change meanwhile.                                                       *)
Generates == IF ValidName THEN {req.type} \cap {"A", "TXT"} ELSE {}

Generate ==
    /\ phase = "generate"
    /\ \/ \E records \in SUBSET Generates :
            resp' = [resp EXCEPT !.answer = @ \cup records,
                                 !.rcode = IF ValidName THEN "NOERROR" ELSE @]
       \/ Generates # {} /\ resp' = NewResponse("SERVFAIL")
    /\ Return
    /\ UNCHANGED <<zone, req, wire>>

(* The records DnscheckHandler makes up for the type that is asked for.    *)
Made(content) ==
    LET copied == IF req.name = "apex" THEN {} ELSE Get("apex", req.type) \ {"CNAME"}
    IN  CASE req.type = "A"            -> IF content = "nullip" THEN {"A"} ELSE copied
          [] req.type = "HTTPS"        -> IF content = "nullip" THEN {} ELSE copied
          [] req.type \in {"TXT", "MX"} -> {req.type}
          [] OTHER                     -> {}

(* DnscheckHandler after the static records: as the options say.           *)
ServeOptions ==
    /\ phase = "options"
    /\ \/ /\ ~HasOptions
          /\ UNCHANGED resp
       \/ /\ HasOptions
          /\ req.options.content \in {"nxdomain", "refused"}
          /\ resp' = [resp EXCEPT !.rcode = IF req.options.content = "nxdomain"
                                            THEN "NXDOMAIN" ELSE "REFUSED"]
       \/ /\ HasOptions
          /\ req.options.content \notin {"nxdomain", "refused"}
          /\ resp' = [resp EXCEPT
                 !.rcode = "NOERROR",
                 !.answer = IF req.type = "ANY" /\ @ = {} THEN {"HINFO"}
                            ELSE @ \cup Made(req.options.content)]
       \/ /\ HasOptions       \* LargeResponseLimiter does not allow it
          /\ req.options.content = "txtfill"
          /\ req.type = "TXT"
          /\ resp' = [resp EXCEPT !.rcode = "REFUSED"]
    /\ Return
    /\ UNCHANGED <<zone, req, wire>>

-----------------------------------------------------------------------------
(* Deferred: the default answer to ANY.                                    *)
AnswerAny ==
    /\ phase = "any"
    /\ resp' = [resp EXCEPT !.answer = IF req.type = "ANY" /\ resp.rcode = "NOERROR" /\ @ = {}
                                       THEN {"HINFO"} ELSE @]
    /\ phase' = Then["any"]
    /\ UNCHANGED <<zone, req, wire>>

(* Mutant of AddSoa: for an empty answer only, not for NXDOMAIN.           *)
AddSoaToEmpty ==
    /\ phase = "soa"
    /\ resp' = IF resp.rcode = "NOERROR" /\ resp.answer = {}
               THEN [resp EXCEPT !.ns = @ \cup {"SOA"}, !.nsSigs = @ \cup SoaSigs]
               ELSE resp
    /\ phase' = Then["soa"]
    /\ UNCHANGED <<zone, req, wire>>

(* Deferred: the SOA record of a negative answer.                          *)
AddSoa ==
    /\ phase = "soa"
    /\ resp' = IF \/ resp.rcode = "NOERROR" /\ resp.answer = {}
                 \/ resp.rcode = "NXDOMAIN"
               THEN [resp EXCEPT !.ns = @ \cup {"SOA"}, !.nsSigs = @ \cup SoaSigs]
               ELSE resp
    /\ phase' = Then["soa"]
    /\ UNCHANGED <<zone, req, wire>>

(* The types a signer lists; BadDnssecProvider is made without a list.     *)
Listed == IF Asked = "bad" THEN DefaultNsecTypes ELSE zone.nsec

(* Mutant of NsecTypes: the apex is treated as any other name.             *)
NsecTypesOfAnyName(rcode) ==
    IF rcode = "NXDOMAIN" THEN {"RRSIG", "NSEC", "NXNAME"}
    ELSE Listed \ {req.type, "NS", "SOA", "DNSKEY"}

(* The types a proof of absence says exist: all those a name of the zone   *)
(* may have but the one that was asked for.                                *)
NsecTypes(rcode) ==
    IF rcode = "NXDOMAIN" THEN {"RRSIG", "NSEC", "NXNAME"}
    ELSE Listed \ ({req.type} \cup
                   IF req.name = "apex" THEN {} ELSE {"NS", "SOA", "DNSKEY"})

(* Mutant of Sign: signs again what has been signed.                       *)
SignAgain(types, sigs, key, life) ==
    sigs \cup {[covers |-> t, key |-> key, life |-> life] : t \in types}

(* One signature per type that has none.                                   *)
Sign(types, sigs, key, life) ==
    sigs \cup {[covers |-> t, key |-> key, life |-> life] :
                  t \in {u \in types : \A s \in sigs : s.covers # u}}

(* Mutant of Signer: badsig is signed with the key of the zone.            *)
SignerOfZone == [key |-> "zone", life |-> IF Asked = "expired" THEN "expired" ELSE "fresh"]

(* badsig signs with the key of BadDnssecProvider, expiredsig in the past. *)
Signer == [key |-> IF Asked = "bad" THEN "bad" ELSE "zone",
           life |-> IF Asked = "expired" THEN "expired" ELSE "fresh"]

(* The response with its proofs: a negative one gets an NSEC record, and   *)
(* says that the name does not exist only to who knows compact denial.     *)
WithProof(r) ==
    LET negative == r.answer = {}
        ns == r.ns \cup IF negative THEN {"NSEC"} ELSE {}
    IN  [r EXCEPT
           !.rcode = IF negative /\ ~req.edns.co THEN "NOERROR" ELSE @,
           !.bitmap = IF negative THEN NsecTypes(r.rcode) ELSE {},
           !.ns = ns,
           !.answerSigs = Sign(r.answer, @, Signer.key, Signer.life),
           !.nsSigs = Sign(ns, @, Signer.key, Signer.life)]

(* Whether Prove has anything to do.                                       *)
Provable == /\ zone.keyed
            /\ resp.rcode \in {"NOERROR", "NXDOMAIN"}
            /\ Do
            /\ Asked # "none"

(* Mutant of Prove: an error changes the response code and nothing else.   *)
ProveKeepsRecords ==
    /\ phase = "prove"
    /\ IF Provable
       THEN \/ resp' = WithProof(resp)
            \/ resp' = [resp EXCEPT !.rcode = "SERVFAIL"]
       ELSE UNCHANGED resp
    /\ phase' = Then["prove"]
    /\ UNCHANGED <<zone, req, wire>>

(* Deferred: the proof, which may fail.                                    *)
Prove ==
    /\ phase = "prove"
    /\ IF Provable
       THEN \/ resp' = WithProof(resp)
            \/ resp' = NewResponse("SERVFAIL")
       ELSE UNCHANGED resp
    /\ phase' = Then["prove"]
    /\ UNCHANGED <<zone, req, wire>>

-----------------------------------------------------------------------------
MinMsgSize == 512
MaxUdpMsgSize == 1400
ResponsePaddingBlockLength == 468

(* Mutant of GetMaxUdpSize: the offer of the client is taken as it is.     *)
GetMaxUdpSizeAsOffered(offer) ==
    IF req.edns.version = "none" \/ offer < MinMsgSize THEN MinMsgSize ELSE offer

GetMaxUdpSize(offer) ==
    CASE req.edns.version = "none" \/ offer < MinMsgSize -> MinMsgSize
      [] req.edns.version # "none" /\ offer > MaxUdpMsgSize -> MaxUdpMsgSize
      [] OTHER -> offer

(* The padding option adds four bytes and fills the last block.            *)
AddPadding(size) ==
    LET length == size + 4
        over == length % ResponsePaddingBlockLength
    IN  IF over = 0 THEN length ELSE length + ResponsePaddingBlockLength - over

(* A response that has lost some of its last records or all.               *)
Shortened == {[resp EXCEPT !.tc = TRUE, !.ns = {}, !.nsSigs = {}, !.bitmap = {}],
              [resp EXCEPT !.tc = TRUE, !.ns = {}, !.nsSigs = {}, !.bitmap = {},
                           !.answer = {}, !.answerSigs = {}]}

Cut == IF HasOptions THEN req.options.cut ELSE "usual"

(* Deferred: a response over UDP is cut to what the client takes, unless   *)
(* the options say otherwise.  The transport matters only here, so it is   *)
(* chosen here, and so is the size that packing the response gives.        *)
ResizeUdp(offer, size) ==
    /\ phase = "resize"
    /\ \/ /\ Cut = "usual" => size <= GetMaxUdpSize(offer)
          /\ Cut # "truncate"
          /\ wire' = [NoWire EXCEPT !.proto = "udp", !.offer = offer, !.size = size]
          /\ UNCHANGED resp
       \/ /\ Cut = "truncate"
          /\ wire' = [NoWire EXCEPT !.proto = "udp", !.offer = offer, !.size = MinMsgSize]
          /\ resp' \in {r \in Shortened : r.answer = {}}
       \/ /\ Cut = "usual"
          /\ size > GetMaxUdpSize(offer)
          /\ wire' = [NoWire EXCEPT !.proto = "udp", !.offer = offer,
                                    !.size = GetMaxUdpSize(offer)]
          /\ resp' \in Shortened
    /\ phase' = Then["resize"]
    /\ UNCHANGED <<zone, req>>

(* Deferred: over TCP nothing changes; over TLS and QUIC a response is     *)
(* padded if the query was and the response has an OPT record.             *)
ResizeStream(size, padding) ==
    /\ phase = "resize"
    /\ padding => req.edns.version # "none"
    /\ wire' = IF padding /\ resp.opt
               THEN [NoWire EXCEPT !.proto = "stream", !.padded = TRUE,
                                   !.size = AddPadding(size)]
               ELSE [NoWire EXCEPT !.proto = "stream", !.size = size]
    /\ phase' = Then["resize"]
    /\ UNCHANGED <<zone, req, resp>>

(* Deferred first, so it runs last: WriteMsg.                              *)
Write ==
    /\ phase = "write"
    /\ phase' = "sent"
    /\ UNCHANGED <<zone, req, resp, wire>>

-----------------------------------------------------------------------------
Init ==
    /\ zone \in Zone
    /\ req = Nobody
    /\ phase = "idle"
    /\ resp = NewResponse("NOERROR")
    /\ wire = NoWire

Handle ==
    \/ CheckAndSetEdns \/ Screen \/ ProvideKeys \/ AnswerStatic
    \/ Generate \/ ServeOptions
    \/ AnswerAny \/ AddSoa \/ Prove
    \/ \E size \in MsgSize :
         \/ \E offer \in UdpSize : ResizeUdp(offer, size)
         \/ \E padding \in BOOLEAN : ResizeStream(size, padding)
    \/ Write

Next == Receive \/ Handle

Spec == Init /\ [][Next]_vars

-----------------------------------------------------------------------------
(* What the zone can ever answer about the name in the question, and       *)
(* whether the name exists, said without reference to the handlers.        *)
Servable ==
    StaticAt(req.name)
    \cup (IF req.name = "apex" THEN {"SOA", "NS"} ELSE {})
    \cup (IF req.name = "apex" /\ zone.keyed THEN {"DNSKEY"} ELSE {})
    \cup (IF zone.kind = "simple" /\ req.name = "host" THEN {"A", "TXT"} ELSE {})
    \cup (IF HasOptions THEN {"TXT", "MX"} ELSE {})
    \cup (IF HasOptions /\ req.name = "host"
          THEN zone.apex \cap {"A", "HTTPS"} ELSE {})
    \cup (IF HasOptions /\ req.options.content = "nullip" THEN {"A"} ELSE {})

Exists == \/ req.name = "apex"
          \/ req.name = "host" /\ req.options.content # "nxdomain"
          \/ req.name = "www" /\ zone.www # {}

Complete == phase = "sent" /\ ~resp.tc /\ resp.rcode \in {"NOERROR", "NXDOMAIN"}

(* Whoever asks for signatures of a signed zone and gets an empty answer   *)
(* gets the SOA record and an NSEC record with it, and the response code   *)
(* NXDOMAIN only if it is able to interpret compact denial: ServeDNS adds  *)
(* the one and Prove the other, in deferred functions of their own.        *)
NegativeIsProved ==
    Complete /\ zone.keyed /\ Do /\ resp.answer = {}
             /\ Asked # "none"
    => {"SOA", "NSEC"} \subseteq resp.ns /\ (resp.rcode = "NXDOMAIN" => req.edns.co)

(* Each set of records is signed once if signatures are asked for, never   *)
(* twice (the SOA record brings a signature of its own to Prove), and      *)
(* nothing is signed that is not there or for who did not ask.             *)
SignedOnce ==
    LET covering(t, sigs) == {s \in sigs : s.covers = t}
        once(types, sigs) ==
            /\ \A s \in sigs : s.covers \in types
            /\ \A t \in types :
                 Cardinality(covering(t, sigs)) =
                     IF zone.keyed /\ Do
                        /\ (Asked = "none" => covering(t, sigs) # {})
                     THEN 1 ELSE 0
    IN  Complete => once(resp.answer, resp.answerSigs) /\ once(resp.ns, resp.nsSigs)

(* A test name breaks the signatures it promises to break and no others:   *)
(* all of the answer and of the proof of absence, by key or by time, and   *)
(* the names that ask for nothing get good ones.  Only the prepared        *)
(* signature of a negative answer's SOA record is always good.             *)
BrokenAsAsked ==
    LET as(s) == CASE Asked = "bad"     -> s.key = "bad"
                   [] Asked = "expired" -> s.life = "expired"
                   [] Asked = "none"    -> FALSE
                   [] OTHER             -> s.key = "zone" /\ s.life # "expired"
    IN  Complete /\ req.name # "apex" =>
            /\ \A s \in resp.answerSigs : as(s)
            /\ \A s \in resp.nsSigs : as(s) \/ (s.covers = "SOA" /\ s.life = "prepared")

(* No two answers about a name contradict each other: a positive one is of *)
(* a type the name can have, NXDOMAIN and NXNAME are said of no name that  *)
(* exists, and a proof of absence denies only the type that was asked for, *)
(* so that a resolver that keeps it denies nothing the zone would answer   *)
(* (of the types NsecTypes lists).                                         *)
AnswersAgree ==
    Complete =>
        /\ resp.answer \ {"HINFO"} \subseteq Servable
        /\ resp.answer # {} => Exists
        /\ resp.rcode = "NXDOMAIN" => ~Exists
        /\ "NSEC" \in resp.ns =>
             /\ "NXNAME" \in resp.bitmap <=> ~Exists
             /\ req.type \notin resp.bitmap
             /\ Exists => (Servable \cap zone.nsec) \ {req.type} \subseteq resp.bitmap

(* When the generator or the signer fails, no record that was collected    *)
(* before is sent: half an answer would be cached as a whole one.          *)
FailureIsBare ==
    phase = "sent" /\ resp.rcode = "SERVFAIL" =>
        /\ resp.answer \cup resp.ns = {}
        /\ resp.answerSigs \cup resp.nsSigs = {}

(* Over UDP nobody gets more than the client offered, or than RFC 9715     *)
(* advises, unless the name says notruncate; a padded response fills its   *)
(* blocks.                                                                 *)
SizeFits ==
    phase = "sent" =>
        /\ wire.proto = "udp" /\ Cut # "notruncate" =>
             /\ wire.size <= MaxUdpMsgSize
             /\ wire.size > MinMsgSize =>
                  req.edns.version # "none" /\ wire.size <= wire.offer
        /\ wire.padded => wire.size % ResponsePaddingBlockLength = 0
=============================================================================
