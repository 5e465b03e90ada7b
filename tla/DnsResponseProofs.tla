-------------------------- MODULE DnsResponseProofs --------------------------
(* Proofs about DnsResponse, for every choice of static records and sizes, *)
(* and, at the end, about the signatures of SoaSig.                        *)
EXTENDS DnsResponse, SoaSig, FiniteSetTheorems, TLAPS

Body == {"static", "generate", "options"}
Early == {"idle", "edns", "screen", "keys"}
Deferred == {"any", "soa", "prove", "resize", "write", "sent"}
Positive == {"NOERROR", "NXDOMAIN"}

(* resp has the fields of a response.                                      *)
Shaped(r) ==
    r = [rcode |-> r.rcode, opt |-> r.opt, tc |-> r.tc, bitmap |-> r.bitmap,
         answer |-> r.answer, answerSigs |-> r.answerSigs,
         ns |-> r.ns, nsSigs |-> r.nsSigs]

Bare(r) == r.answer = {} /\ r.ns = {} /\ r.answerSigs = {} /\ r.nsSigs = {}

(* Nothing is in the response before the body fills it, and the body works *)
(* on a response that has not failed.                                      *)
BodyInv ==
    /\ phase \in Early \cup Body \cup Deferred
    /\ Shaped(resp)
    /\ phase \in Early => Bare(resp) /\ resp.rcode = "NOERROR"
    /\ phase \in Body => resp.rcode \in Positive
    /\ phase \in Body \cup {"any", "soa"} => resp.ns = {}
    /\ resp.rcode = "SERVFAIL" => Bare(resp)

(* A negative response gets its SOA record before Prove and its NSEC       *)
(* record from it.                                                         *)
NegativeInv ==
    /\ phase = "prove" /\ resp.answer = {} /\ resp.rcode \in Positive
         => "SOA" \in resp.ns
    /\ phase \in {"resize", "write", "sent"} /\ ~resp.tc /\ resp.rcode \in Positive
         /\ zone.keyed /\ Do /\ resp.answer = {} /\ Asked # "none"
         => {"SOA", "NSEC"} \subseteq resp.ns /\ (resp.rcode = "NXDOMAIN" => req.edns.co)

IInv == BodyInv /\ NegativeInv

LEMMA InitEstablishes == Init => IInv
  BY DEF Init, IInv, BodyInv, NegativeInv, NewResponse, Shaped, Bare, Early, Body,
         Deferred

LEMMA ReceiveKeeps == IInv /\ Receive => IInv'
  BY DEF Receive, IInv, BodyInv, NegativeInv, NewResponse, Shaped, Bare, Early, Body,
         Deferred, Positive

LEMMA CheckKeeps == IInv /\ (CheckAndSetEdns \/ Screen \/ ProvideKeys) => IInv'
<1> SUFFICES ASSUME IInv, CheckAndSetEdns \/ Screen \/ ProvideKeys PROVE IInv'
  OBVIOUS
<1> USE DEF IInv, BodyInv, NegativeInv, Shaped, Bare, Early, Body, Deferred, Positive, Then
<1>1. CASE CheckAndSetEdns
  BY <1>1 DEF CheckAndSetEdns
<1>2. CASE Screen
  BY <1>2 DEF Screen, Refusal
<1>3. CASE ProvideKeys
  BY <1>3 DEF ProvideKeys
<1> QED
  BY <1>1, <1>2, <1>3

LEMMA BodyKeeps == IInv /\ (AnswerStatic \/ Generate \/ ServeOptions) => IInv'
<1> SUFFICES ASSUME IInv, AnswerStatic \/ Generate \/ ServeOptions PROVE IInv'
  OBVIOUS
<1> USE DEF IInv, BodyInv, NegativeInv, Shaped, Bare, Early, Body, Deferred, Positive, Then
<1>1. CASE AnswerStatic
  BY <1>1 DEF AnswerStatic
<1>2. CASE Generate
  <2>1. CASE \E records \in SUBSET Generates :
               resp' = [resp EXCEPT !.answer = @ \cup records,
                                    !.rcode = IF ValidName THEN "NOERROR" ELSE @]
    <3>1. PICK records : resp' = [resp EXCEPT
                 !.answer = @ \cup records,
                 !.rcode = IF ValidName THEN "NOERROR" ELSE @]
      BY <2>1
    <3>2. Shaped(resp') /\ resp'.ns = resp.ns /\ resp'.rcode \in Positive
      BY <1>2, <3>1 DEF Generate
    <3> QED
      BY <1>2, <3>2 DEF Generate, Return
  <2>2. CASE resp' = NewResponse("SERVFAIL")
    BY <1>2, <2>2 DEF Generate, Return, NewResponse
  <2> QED
    BY <1>2, <2>1, <2>2 DEF Generate
<1>3. CASE ServeOptions
  BY <1>3 DEF ServeOptions, Return
<1> QED
  BY <1>1, <1>2, <1>3

(* What Prove does to the fields the invariant is about.                   *)
LEMMA WithProofFields ==
    ASSUME NEW r, Shaped(r)
    PROVE  /\ Shaped(WithProof(r))
           /\ WithProof(r).tc = r.tc
           /\ WithProof(r).answer = r.answer
           /\ r.answer # {} => WithProof(r).rcode = r.rcode
           /\ r.answer # {} => WithProof(r).ns = r.ns
           /\ r.answer = {} => /\ WithProof(r).ns = r.ns \cup {"NSEC"}
                               /\ WithProof(r).bitmap = NsecTypes(r.rcode)
           /\ r.answer = {} /\ req.edns.co => WithProof(r).rcode = r.rcode
           /\ r.answer = {} /\ ~req.edns.co => WithProof(r).rcode = "NOERROR"
<1> DEFINE rcode == IF r.answer = {} /\ ~req.edns.co THEN "NOERROR" ELSE r.rcode
           bitmap == IF r.answer = {} THEN NsecTypes(r.rcode) ELSE {}
           ns == r.ns \cup IF r.answer = {} THEN {"NSEC"} ELSE {}
           answerSigs == Sign(r.answer, r.answerSigs, Signer.key, Signer.life)
           nsSigs == Sign(ns, r.nsSigs, Signer.key, Signer.life)
<1>1. WithProof(r) = [r EXCEPT !.rcode = rcode, !.bitmap = bitmap, !.ns = ns,
                               !.answerSigs = answerSigs, !.nsSigs = nsSigs]
  BY Zenon DEF WithProof
<1>2. /\ Shaped(WithProof(r))
      /\ WithProof(r).rcode = rcode
      /\ WithProof(r).bitmap = bitmap
      /\ WithProof(r).ns = ns
      /\ WithProof(r).answer = r.answer
      /\ WithProof(r).tc = r.tc
  <2> HIDE DEF rcode, bitmap, ns, answerSigs, nsSigs
  <2> QED
    BY <1>1 DEF Shaped
<1>3. CASE r.answer # {}
  BY <1>2, <1>3
<1>4. CASE r.answer = {}
  BY <1>2, <1>4
<1> QED
  BY <1>3, <1>4

LEMMA DeferredKeeps == IInv /\ (AnswerAny \/ AddSoa \/ Prove \/ Write) => IInv'
<1> SUFFICES ASSUME IInv, AnswerAny \/ AddSoa \/ Prove \/ Write PROVE IInv'
  OBVIOUS
<1> USE DEF IInv, BodyInv, NegativeInv, Shaped, Bare, Early, Body, Deferred, Positive, Then
<1>1. CASE AnswerAny
  BY <1>1 DEF AnswerAny
<1>2. CASE AddSoa
  BY <1>2 DEF AddSoa
<1>3. CASE Prove
  <2>1. CASE Provable /\ resp' = WithProof(resp)
    <3>1. UNCHANGED <<zone, req, wire>> /\ phase = "prove" /\ phase' = "resize"
      BY <1>3 DEF Prove
    <3>2. resp.rcode \in Positive
      BY <2>1 DEF Provable
    <3>3. resp'.rcode \in Positive
      BY <2>1, <3>2, WithProofFields
    <3>4. BodyInv'
      BY <2>1, <3>1, <3>3, WithProofFields
    <3>5. resp'.answer = {} =>
             /\ {"SOA", "NSEC"} \subseteq resp'.ns
             /\ resp'.rcode = "NXDOMAIN" => req.edns.co
      BY <2>1, <3>1, <3>2, WithProofFields
    <3> QED
      BY <3>1, <3>4, <3>5
  <2>2. CASE resp' = NewResponse("SERVFAIL")
    BY <1>3, <2>2 DEF Prove, NewResponse
  <2>3. CASE ~Provable /\ UNCHANGED resp
    BY <1>3, <2>3 DEF Prove, Provable, Do, Asked, HasOptions
  <2> QED
    BY <1>3, <2>1, <2>2, <2>3 DEF Prove
<1>4. CASE Write
  BY <1>4 DEF Write, Do, Asked, HasOptions
<1> QED
  BY <1>1, <1>2, <1>3, <1>4
LEMMA ResizeKeeps ==
    ASSUME IInv, NEW size \in MsgSize,
           \/ \E offer \in UdpSize : ResizeUdp(offer, size)
           \/ \E padding \in BOOLEAN : ResizeStream(size, padding)
    PROVE  IInv'
<1> USE DEF IInv, BodyInv, NegativeInv, Shaped, Bare, Early, Body, Deferred, Positive, Then
<1>1. CASE UNCHANGED <<resp, zone, req>> /\ phase = "resize" /\ phase' = "write"
  BY <1>1 DEF Do, Asked, HasOptions
<1>2. CASE resp' \in Shortened /\ phase = "resize" /\ phase' = "write"
  BY <1>2 DEF Shortened
<1> QED
  BY <1>1, <1>2 DEF ResizeUdp, ResizeStream

THEOREM Inductive == Spec => []IInv
<1>1. IInv /\ [Next]_vars => IInv'
  <2> SUFFICES ASSUME IInv, [Next]_vars PROVE IInv'
    OBVIOUS
  <2>1. CASE UNCHANGED vars
    BY <2>1 DEF vars, IInv, BodyInv, NegativeInv, Do, Asked, HasOptions
  <2>2. CASE Receive
    BY <2>2, ReceiveKeeps
  <2>3. CASE Handle
    BY <2>3, CheckKeeps, BodyKeeps, DeferredKeeps, ResizeKeeps DEF Handle
  <2> QED
    BY <2>1, <2>2, <2>3 DEF Next
<1> QED
  BY InitEstablishes, <1>1, PTL DEF Spec

(* Whoever asks a signed zone for signatures and gets an empty answer gets *)
(* it proved: ServeDNS adds the SOA record, Prove the NSEC record.         *)
THEOREM NegativesProved == Spec => []NegativeIsProved
<1>1. IInv => NegativeIsProved
  BY DEF IInv, NegativeInv, NegativeIsProved, Complete, Positive
<1> QED
  BY Inductive, <1>1, PTL

(* A failing generator or signer leaves nothing of what was collected.     *)
THEOREM FailuresBare == Spec => []FailureIsBare
<1>1. IInv => FailureIsBare
  BY DEF IInv, BodyInv, Bare, FailureIsBare
<1> QED
  BY Inductive, <1>1, PTL

-----------------------------------------------------------------------------
(***************************************************************************)
(* Answers agree.  The body knows of a name what exists when it is done:   *)
(* the response code is NOERROR exactly for names that exist, and only     *)
(* their records are collected.  Prove lists the types of that name.       *)
(***************************************************************************)
QueryInv ==
    /\ zone \in Zone
    /\ phase # "idle" => /\ req.name \in Name
                         /\ req.options \in Options
                         /\ req.options # DefaultOptions =>
                              zone.kind = "dnscheck" /\ req.name = "host"
    /\ phase \in {"keys", "any", "soa", "prove", "resize"} \cup Body
         => req.type \notin {"RRSIG", "NSEC", "NXNAME"}
    /\ phase = "generate" => zone.kind = "simple"
    /\ phase = "options" => zone.kind = "dnscheck"

Collected == /\ resp.answer \ {"HINFO"} \subseteq Servable
             /\ resp.answer # {} => resp.rcode = "NOERROR"

Proofs == /\ resp.answer \ {"HINFO"} \subseteq Servable
          /\ resp.answer # {} => Exists
          /\ resp.rcode = "NXDOMAIN" => ~Exists
          /\ "NSEC" \in resp.ns =>
               /\ "NXNAME" \in resp.bitmap <=> ~Exists
               /\ req.type \notin resp.bitmap
               /\ Exists => (Servable \cap zone.nsec) \ {req.type} \subseteq resp.bitmap

AgreeInv ==
    /\ phase = "static" => resp.rcode = "NXDOMAIN" /\ resp.answer = {}
    /\ phase \in {"generate", "options"} =>
         /\ Collected
         /\ resp.rcode = IF req.name = "apex" \/ StaticAt(req.name) # {}
                         THEN "NOERROR" ELSE "NXDOMAIN"
    /\ phase \in {"any", "soa", "prove"} /\ resp.rcode \in Positive =>
         /\ resp.answer \ {"HINFO"} \subseteq Servable
         /\ resp.answer # {} => Exists
         /\ resp.rcode = "NOERROR" <=> Exists
         /\ "NSEC" \notin resp.ns
    /\ phase \in {"resize", "write", "sent"} /\ resp.rcode \in Positive /\ ~resp.tc
         => Proofs

QInv == IInv /\ QueryInv

LEMMA QueryInit == Init => QueryInv
  BY DEF Init, QueryInv, Body

LEMMA QueryStep == QInv /\ [Next]_vars => QueryInv'
<1> SUFFICES ASSUME QInv, [Next]_vars PROVE QueryInv'
  OBVIOUS
<1> USE DEF QInv, QueryInv, Body, Then
<1>1. CASE UNCHANGED vars
  BY <1>1 DEF vars
<1>2. CASE Receive
  <2>1. PICK r \in Request : Arrives(r) /\ req' = r /\ phase' \in {"edns", "write"}
    BY <1>2 DEF Receive
  <2>2. zone' = zone
    BY <1>2 DEF Receive
  <2> QED
    BY <2>1, <2>2 DEF Arrives, Request
<1>3. CASE CheckAndSetEdns
  BY <1>3 DEF CheckAndSetEdns
<1>4. CASE Screen
  BY <1>4 DEF Screen, Refusal
<1>5. CASE ProvideKeys
  BY <1>5 DEF ProvideKeys
<1>6. CASE AnswerStatic
  BY <1>6 DEF AnswerStatic, Zone
<1>7. CASE Generate
  BY <1>7 DEF Generate, Return
<1>8. CASE ServeOptions
  BY <1>8 DEF ServeOptions, Return
<1>9. CASE AnswerAny \/ AddSoa \/ Prove \/ Write
  BY <1>9 DEF AnswerAny, AddSoa, Prove, Write
<1>10. CASE \E size \in MsgSize :
              \/ \E offer \in UdpSize : ResizeUdp(offer, size)
              \/ \E padding \in BOOLEAN : ResizeStream(size, padding)
  BY <1>10 DEF ResizeUdp, ResizeStream
<1> QED
  BY <1>1, <1>2, <1>3, <1>4, <1>5, <1>6, <1>7, <1>8, <1>9, <1>10 DEF Next, Handle

(* What the body and the deferred functions read does not change in them.  *)
Fixed == UNCHANGED <<zone, req>>

LEMMA FixedFacts ==
    ASSUME Fixed
    PROVE  /\ Servable' = Servable
           /\ Exists' <=> Exists
           /\ HasOptions' <=> HasOptions
           /\ StaticAt(req.name)' = StaticAt(req.name)
  BY DEF Fixed, Servable, Exists, HasOptions, StaticAt

(* The static records of a name are among what it may be asked for, and a  *)
(* name that has some exists.                                              *)
LEMMA StaticFacts ==
    ASSUME QueryInv, phase # "idle"
    PROVE  /\ StaticAt(req.name) \subseteq Servable
           /\ StaticAt(req.name) # {} => req.name \in {"apex", "www"}
           /\ req.name \in {"apex", "www"} /\ StaticAt(req.name) # {} => Exists
  BY DEF QueryInv, StaticAt, Servable, Exists, Name

LEMMA AgreeStatic == QInv /\ AgreeInv /\ AnswerStatic => AgreeInv'
<1> SUFFICES ASSUME QInv, AgreeInv, AnswerStatic PROVE AgreeInv'
  OBVIOUS
<1> DEFINE apex == IF req.name = "apex" THEN {req.type} \cap {"SOA", "NS"} ELSE {}
<1>1. /\ phase = "static" /\ phase' \in {"generate", "options"}
      /\ Fixed
  BY DEF AnswerStatic, Fixed
<1>2. /\ resp'.answer = apex \cup Get(req.name, req.type)
      /\ resp'.rcode = IF req.name = "apex" \/ StaticAt(req.name) # {}
                       THEN "NOERROR" ELSE "NXDOMAIN"
  BY <1>1 DEF AnswerStatic, AgreeInv, QInv, IInv, BodyInv, Shaped
<1>3. Get(req.name, req.type) \subseteq StaticAt(req.name)
  BY DEF Get
<1>4. apex \subseteq Servable /\ (apex # {} => req.name = "apex")
  BY DEF Servable
<1>5. resp'.answer \subseteq Servable /\ (resp'.answer # {} => resp'.rcode = "NOERROR")
  BY <1>1, <1>2, <1>3, <1>4, StaticFacts DEF QInv
<1>6. Collected'
  BY <1>1, <1>5, FixedFacts DEF Collected
<1>7. (resp.rcode = IF req.name = "apex" \/ StaticAt(req.name) # {}
                    THEN "NOERROR" ELSE "NXDOMAIN")'
  BY <1>1, <1>2 DEF Fixed, StaticAt
<1> QED
  BY <1>1, <1>6, <1>7 DEF AgreeInv

LEMMA AgreeGenerate == QInv /\ AgreeInv /\ Generate => AgreeInv'
<1> SUFFICES ASSUME QInv, AgreeInv, Generate PROVE AgreeInv'
  OBVIOUS
<1>1. /\ phase = "generate" /\ phase' = "any" /\ Fixed
      /\ zone.kind = "simple" /\ resp.ns = {} /\ Collected
      /\ resp.rcode = IF req.name = "apex" \/ StaticAt(req.name) # {}
                      THEN "NOERROR" ELSE "NXDOMAIN"
  BY DEF Generate, Return, Fixed, QInv, QueryInv, IInv, BodyInv, AgreeInv, Body
<1>2. CASE resp' = NewResponse("SERVFAIL")
  BY <1>1, <1>2 DEF AgreeInv, Positive, NewResponse
<1>3. CASE \E records \in SUBSET Generates :
              resp' = [resp EXCEPT !.answer = @ \cup records,
                                   !.rcode = IF ValidName THEN "NOERROR" ELSE @]
  <2>1. PICK records \in SUBSET Generates :
              resp' = [resp EXCEPT !.answer = @ \cup records,
                                   !.rcode = IF ValidName THEN "NOERROR" ELSE @]
    BY <1>3
  <2>2. /\ resp'.answer = resp.answer \cup records
        /\ resp'.rcode = IF ValidName THEN "NOERROR" ELSE resp.rcode
        /\ resp'.ns = {}
    BY <1>1, <2>1 DEF QInv, IInv, BodyInv, Shaped
  <2>3. records \subseteq Servable /\ (records # {} => ValidName)
    BY <1>1 DEF Generates, ValidName, Servable
  <2>4. resp'.rcode = "NOERROR" <=> Exists
    BY <1>1, <2>2, StaticFacts
       DEF ValidName, Exists, StaticAt, QInv, QueryInv, Name, DefaultOptions
  <2>5. resp'.answer \ {"HINFO"} \subseteq Servable /\ (resp'.answer # {} => Exists)
    BY <1>1, <2>2, <2>3, <2>4 DEF Collected
  <2>6. /\ (resp.answer \ {"HINFO"} \subseteq Servable)'
        /\ (resp.answer # {} => Exists)'
        /\ (resp.rcode = "NOERROR" <=> Exists)'
    BY <1>1, <2>4, <2>5, FixedFacts
  <2> QED
    BY <1>1, <2>2, <2>6 DEF AgreeInv
<1> QED
  BY <1>2, <1>3 DEF Generate

(* The records dnscheck makes up are of types its names can have.          *)
LEMMA MadeFacts ==
    ASSUME QueryInv, HasOptions, phase # "idle"
    PROVE  /\ Made(req.options.content) \subseteq Servable
           /\ req.name \in {"apex", "host"}
<1>1. req.name \in {"apex", "host"}
  BY DEF HasOptions
<1>2. StaticAt("apex") = zone.apex
  BY Zenon DEF StaticAt
<1>3. CASE req.type = "A"
  BY <1>1, <1>2, <1>3 DEF Made, Get, Servable
<1>4. CASE req.type = "HTTPS"
  BY <1>1, <1>2, <1>4 DEF Made, Get, Servable
<1>5. CASE req.type \in {"TXT", "MX"}
  BY <1>1, <1>5 DEF Made, Servable
<1>6. CASE req.type \notin {"A", "HTTPS", "TXT", "MX"}
  BY <1>1, <1>6 DEF Made
<1> QED
  BY <1>1, <1>3, <1>4, <1>5, <1>6

LEMMA AgreeOptions == QInv /\ AgreeInv /\ ServeOptions => AgreeInv'
<1> SUFFICES ASSUME QInv, AgreeInv, ServeOptions PROVE AgreeInv'
  OBVIOUS
<1>1. /\ phase = "options" /\ phase' = "soa" /\ Fixed
      /\ zone.kind = "dnscheck" /\ resp.ns = {} /\ Collected /\ Shaped(resp)
      /\ resp.rcode = IF req.name = "apex" \/ StaticAt(req.name) # {}
                      THEN "NOERROR" ELSE "NXDOMAIN"
  BY DEF ServeOptions, Return, Then, Fixed, QInv, QueryInv, IInv, BodyInv, AgreeInv, Body
<1>2. SUFFICES ASSUME resp'.rcode \in Positive
               PROVE  /\ resp'.answer \ {"HINFO"} \subseteq Servable
                      /\ resp'.answer # {} => Exists
                      /\ resp'.rcode = "NOERROR" <=> Exists
                      /\ resp'.ns = {}
  BY <1>1, FixedFacts DEF AgreeInv
<1>3. CASE ~HasOptions /\ UNCHANGED resp
  <2>1. resp.rcode = "NOERROR" <=> Exists
    BY <1>1, <1>3, StaticFacts
       DEF HasOptions, Exists, StaticAt, QInv, QueryInv, Name
  <2> QED
    BY <1>1, <1>3, <2>1 DEF Collected
<1>4. CASE resp'.rcode = "REFUSED"
  BY <1>2, <1>4 DEF Positive
<1>5. CASE /\ HasOptions /\ req.options.content = "nxdomain"
           /\ resp' = [resp EXCEPT !.rcode = "NXDOMAIN"]
  <2>1. req.name = "host"
    BY <1>1, <1>5 DEF QInv, QueryInv, DefaultOptions, HasOptions
  <2>2. ~Exists /\ resp.answer = {}
    BY <1>1, <1>5, <2>1 DEF Exists, Collected, StaticAt
  <2> QED
    BY <1>1, <1>5, <2>2 DEF Collected, Shaped
<1>6. CASE /\ HasOptions /\ req.options.content # "nxdomain"
           /\ resp' = [resp EXCEPT
                 !.rcode = "NOERROR",
                 !.answer = IF req.type = "ANY" /\ @ = {} THEN {"HINFO"}
                            ELSE @ \cup Made(req.options.content)]
  <2>1. /\ resp'.rcode = "NOERROR"
        /\ resp'.answer = IF req.type = "ANY" /\ resp.answer = {} THEN {"HINFO"}
                          ELSE resp.answer \cup Made(req.options.content)
        /\ resp'.ns = {}
    BY <1>1, <1>6 DEF Shaped
  <2>2. Made(req.options.content) \subseteq Servable /\ Exists
    BY <1>1, <1>6, MadeFacts DEF QInv, Exists
  <2> QED
    BY <1>1, <2>1, <2>2 DEF Collected
<1>7. CASE /\ HasOptions /\ req.options.content \in {"nxdomain", "refused"}
           /\ resp' = [resp EXCEPT !.rcode = IF req.options.content = "nxdomain"
                                             THEN "NXDOMAIN" ELSE "REFUSED"]
  <2>1. CASE req.options.content = "nxdomain"
    BY <1>5, <1>7, <2>1
  <2>2. CASE req.options.content = "refused"
    <3>1. resp'.rcode = "REFUSED"
      BY <1>1, <1>7, <2>2 DEF Shaped
    <3> QED
      BY <1>4, <3>1
  <2> QED
    BY <1>7, <2>1, <2>2
<1>8. CASE resp' = [resp EXCEPT !.rcode = "REFUSED"]
  <2>1. resp'.rcode = "REFUSED"
    BY <1>1, <1>8 DEF Shaped
  <2> QED
    BY <1>4, <2>1
<1> QED
  BY <1>3, <1>6, <1>7, <1>8 DEF ServeOptions

LEMMA AgreeEarly ==
    QInv /\ AgreeInv /\ (Receive \/ CheckAndSetEdns \/ Screen \/ ProvideKeys) => AgreeInv'
<1> SUFFICES ASSUME QInv, AgreeInv, Receive \/ CheckAndSetEdns \/ Screen \/ ProvideKeys
             PROVE  AgreeInv'
  OBVIOUS
<1> USE DEF AgreeInv, QInv, IInv, BodyInv, Shaped, Bare, Early, Positive, Then
<1>1. CASE Receive
  BY <1>1 DEF Receive, NewResponse
<1>2. CASE CheckAndSetEdns
  BY <1>2 DEF CheckAndSetEdns
<1>3. CASE Screen
  <2>1. CASE Refusal = "none"
    BY <1>3, <2>1 DEF Screen
  <2>2. CASE Refusal # "none"
    <3>1. Refusal \notin Positive
      BY <2>2 DEF Refusal
    <3>2. resp'.rcode = Refusal /\ phase' = "write"
      BY <1>3, <2>2 DEF Screen, Then
    <3> QED
      BY <3>1, <3>2
  <2> QED
    BY <2>1, <2>2
<1>4. CASE ProvideKeys
  <2>1. CASE zone.keyed /\ req.type = "DNSKEY" /\ req.name = "apex"
    <3>1. phase' = "prove" /\ Fixed /\ resp'.answer = {"DNSKEY"} /\ resp'.ns = {}
          /\ resp'.rcode = "NOERROR"
      BY <1>4, <2>1 DEF ProvideKeys, Fixed
    <3>2. "DNSKEY" \in Servable /\ Exists
      BY <2>1 DEF Servable, Exists
    <3>3. "DNSKEY" \in Servable' /\ Exists'
      BY <3>1, <3>2, FixedFacts
    <3> QED
      BY <3>1, <3>3
  <2>2. CASE ~(zone.keyed /\ req.type = "DNSKEY" /\ req.name = "apex")
    BY <1>4, <2>2 DEF ProvideKeys
  <2> QED
    BY <2>1, <2>2
<1> QED
  BY <1>1, <1>2, <1>3, <1>4

LEMMA AgreeAny == QInv /\ AgreeInv /\ (AnswerAny \/ AddSoa) => AgreeInv'
<1> SUFFICES ASSUME QInv, AgreeInv, AnswerAny \/ AddSoa PROVE AgreeInv'
  OBVIOUS
<1>1. /\ phase \in {"any", "soa"} /\ phase' \in {"soa", "prove"}
      /\ Fixed /\ Shaped(resp)
  <2>1. Shaped(resp)
    BY DEF QInv, IInv, BodyInv
  <2> QED
    BY <2>1 DEF AnswerAny, AddSoa, Then, Fixed
<1>2. /\ resp'.rcode = resp.rcode
      /\ \/ resp'.answer = resp.answer
         \/ resp'.answer = {"HINFO"} /\ resp.rcode = "NOERROR"
      /\ resp'.ns = resp.ns \/ resp'.ns = resp.ns \cup {"SOA"}
  BY <1>1 DEF AnswerAny, AddSoa, Shaped
<1>3. SUFFICES ASSUME resp.rcode \in Positive
               PROVE  /\ resp'.answer \ {"HINFO"} \subseteq Servable
                      /\ resp'.answer # {} => Exists
                      /\ resp'.rcode = "NOERROR" <=> Exists
                      /\ "NSEC" \notin resp'.ns
  BY <1>1, <1>2, FixedFacts DEF AgreeInv
<1> QED
  BY <1>1, <1>2, <1>3 DEF AgreeInv

(* The types that NsecTypes lists are those of a name that exists, and of  *)
(* a name that does not exist none but its own.                            *)
LEMMA BitmapFacts ==
    ASSUME QueryInv, phase = "prove", resp.rcode \in Positive,
           resp.rcode = "NOERROR" <=> Exists
    PROVE  /\ "NXNAME" \in NsecTypes(resp.rcode) <=> ~Exists
           /\ req.type \notin NsecTypes(resp.rcode)
           /\ Exists => (Servable \cap zone.nsec) \ {req.type}
                          \subseteq NsecTypes(resp.rcode)
<1>1. CASE resp.rcode = "NXDOMAIN"
  BY <1>1 DEF NsecTypes, QueryInv
<1>2. CASE resp.rcode = "NOERROR"
  <2>1. NsecTypes(resp.rcode) =
          Listed \ ({req.type} \cup
                    IF req.name = "apex" THEN {} ELSE {"NS", "SOA", "DNSKEY"})
    BY <1>2 DEF NsecTypes
  <2>2. "NXNAME" \notin Listed
    BY DEF QueryInv, Zone, Listed, DefaultNsecTypes
  <2>3. req.name # "apex" => Servable \cap {"NS", "SOA", "DNSKEY"} = {}
    <3>1. zone.www \cap {"NS", "SOA", "DNSKEY"} = {}
      BY WwwAssumption DEF QueryInv, Zone
    <3>2. req.name # "apex" => StaticAt(req.name) \cap {"NS", "SOA", "DNSKEY"} = {}
      BY <3>1 DEF StaticAt, QueryInv, Name
    <3> QED
      BY <3>2 DEF Servable
  <2>4. Servable \cap zone.nsec \subseteq Listed
    <3>1. CASE Asked # "bad"
      BY <3>1 DEF Listed
    <3>2. CASE Asked = "bad"
      <4>1. zone.kind = "dnscheck" /\ req.name = "host"
        BY <3>2 DEF Asked, QueryInv, DefaultOptions
      <4>2. StaticAt(req.name) = {}
        BY <4>1 DEF StaticAt
      <4>3. Servable \subseteq {"A", "HTTPS", "TXT", "MX"}
        BY <4>1, <4>2 DEF Servable
      <4>4. Listed = DefaultNsecTypes
        BY <3>2 DEF Listed
      <4> QED
        BY <4>3, <4>4 DEF DefaultNsecTypes
    <3> QED
      BY <3>1, <3>2
  <2> QED
    BY <1>2, <2>1, <2>2, <2>3, <2>4
<1> QED
  BY <1>1, <1>2 DEF Positive

LEMMA AgreeProve == QInv /\ AgreeInv /\ Prove => AgreeInv'
<1> SUFFICES ASSUME QInv, AgreeInv, Prove PROVE AgreeInv'
  OBVIOUS
<1>1. phase = "prove" /\ phase' = "resize" /\ Fixed /\ Shaped(resp) /\ QueryInv
  BY DEF Prove, Then, Fixed, QInv, IInv, BodyInv
<1>2. CASE resp' = NewResponse("SERVFAIL")
  BY <1>1, <1>2 DEF AgreeInv, Positive, NewResponse
<1>3. ASSUME resp.rcode \in Positive, UNCHANGED resp \/ resp' = WithProof(resp)
      PROVE  Proofs'
  <2>1. /\ resp.answer \ {"HINFO"} \subseteq Servable
        /\ resp.answer # {} => Exists
        /\ resp.rcode = "NOERROR" <=> Exists
        /\ "NSEC" \notin resp.ns
    BY <1>1, <1>3 DEF AgreeInv
  <2>2. /\ resp'.answer = resp.answer
        /\ resp'.rcode = "NXDOMAIN" => resp.rcode = "NXDOMAIN"
        /\ "NSEC" \in resp'.ns => resp'.bitmap = NsecTypes(resp.rcode)
    BY <1>1, <1>3, <2>1, WithProofFields
  <2>3. /\ resp'.answer \ {"HINFO"} \subseteq Servable
        /\ resp'.answer # {} => Exists
        /\ resp'.rcode = "NXDOMAIN" => ~Exists
        /\ "NSEC" \in resp'.ns =>
             /\ "NXNAME" \in resp'.bitmap <=> ~Exists
             /\ req.type \notin resp'.bitmap
             /\ Exists => (Servable \cap zone.nsec) \ {req.type} \subseteq resp'.bitmap
    BY <1>1, <1>3, <2>1, <2>2, BitmapFacts
  <2> QED
    BY <1>1, <2>3, FixedFacts DEF Proofs, Fixed
<1>4. CASE UNCHANGED resp
  BY <1>1, <1>3, <1>4 DEF AgreeInv
<1>5. CASE Provable /\ resp' = WithProof(resp)
  BY <1>1, <1>3, <1>5 DEF AgreeInv, Provable, Positive
<1> QED
  BY <1>2, <1>4, <1>5 DEF Prove

LEMMA AgreeLast ==
    ASSUME QInv, AgreeInv,
           \/ Write
           \/ \E size \in MsgSize :
                \/ \E offer \in UdpSize : ResizeUdp(offer, size)
                \/ \E padding \in BOOLEAN : ResizeStream(size, padding)
    PROVE  AgreeInv'
<1>1. /\ phase \in {"resize", "write"} /\ phase' \in {"write", "sent"} /\ Fixed
      /\ UNCHANGED resp \/ resp' \in Shortened
  BY DEF Write, ResizeUdp, ResizeStream, Then, Fixed
<1>2. CASE UNCHANGED resp
  <2>1. Proofs => Proofs'
    BY <1>1, <1>2, FixedFacts DEF Proofs, Fixed
  <2> QED
    BY <1>1, <1>2, <2>1 DEF AgreeInv
<1>3. CASE resp' \in Shortened
  <2>1. resp'.tc
    BY <1>3 DEF Shortened, QInv, IInv, BodyInv, Shaped
  <2> QED
    BY <1>1, <2>1 DEF AgreeInv
<1> QED
  BY <1>1, <1>2, <1>3

LEMMA AgreeStutter == AgreeInv /\ UNCHANGED vars => AgreeInv'
<1> SUFFICES ASSUME AgreeInv, UNCHANGED vars PROVE AgreeInv'
  OBVIOUS
<1>1. Fixed /\ UNCHANGED <<phase, resp>>
  BY DEF vars, Fixed
<1>2. (Collected <=> Collected') /\ (Proofs <=> Proofs')
  BY <1>1, FixedFacts DEF Collected, Proofs, Fixed
<1>3. StaticAt(req.name)' = StaticAt(req.name)
  BY <1>1, FixedFacts
<1> QED
  BY <1>1, <1>2, <1>3, FixedFacts DEF AgreeInv, Fixed

(* No two answers about a name contradict each other: what is answered is  *)
(* of a name that exists, and a proof of absence denies no type but the    *)
(* one that was asked for.                                                 *)
THEOREM AnswersConsistent == Spec => []AnswersAgree
<1>1. Init => QueryInv /\ AgreeInv
  BY QueryInit DEF Init, AgreeInv
<1>2. QInv /\ AgreeInv /\ [Next]_vars => AgreeInv'
  BY AgreeStutter, AgreeEarly, AgreeStatic, AgreeGenerate, AgreeOptions, AgreeAny,
     AgreeProve, AgreeLast DEF Next, Handle
<1>3. IInv /\ QueryInv /\ AgreeInv /\ [Next]_vars => QueryInv' /\ AgreeInv'
  BY <1>2, QueryStep DEF QInv
<1>4. Spec => [](QueryInv /\ AgreeInv)
  BY Inductive, <1>1, <1>3, PTL DEF Spec
<1>5. AgreeInv => AnswersAgree
  BY DEF AgreeInv, Proofs, AnswersAgree, Complete, Positive
<1> QED
  BY <1>4, <1>5, PTL

-----------------------------------------------------------------------------
(***************************************************************************)
(* Sizes fit.  Nothing is sized before the deferred resize, and what that  *)
(* decides is not undone.                                                  *)
(***************************************************************************)
Fits ==
    /\ wire.proto = "udp" /\ Cut # "notruncate" =>
         /\ wire.size <= MaxUdpMsgSize
         /\ wire.size > MinMsgSize =>
              req.edns.version # "none" /\ wire.size <= wire.offer
    /\ wire.padded => wire.size % ResponsePaddingBlockLength = 0

SizeInv ==
    /\ phase \in Early \cup Body \cup {"any", "soa", "prove", "resize"} => wire = NoWire
    /\ phase \in {"write", "sent"} => Fits

LEMMA PaddedSize ==
    ASSUME NEW size \in Nat PROVE AddPadding(size) % ResponsePaddingBlockLength = 0
  BY DEF AddPadding, ResponsePaddingBlockLength

LEMMA OfferedSize ==
    ASSUME NEW offer \in Nat
    PROVE  /\ GetMaxUdpSize(offer) \in Nat
           /\ GetMaxUdpSize(offer) <= MaxUdpMsgSize
           /\ GetMaxUdpSize(offer) > MinMsgSize =>
                req.edns.version # "none" /\ GetMaxUdpSize(offer) <= offer
  BY DEF GetMaxUdpSize, MaxUdpMsgSize, MinMsgSize

LEMMA SizeUdp ==
    ASSUME SizeInv, QueryInv, NEW offer \in UdpSize, NEW size \in MsgSize,
           ResizeUdp(offer, size)
    PROVE  SizeInv'
<1>1. /\ offer \in Nat /\ size \in Nat
      /\ phase = "resize" /\ phase' = "write" /\ UNCHANGED <<zone, req>>
  BY SizeAssumption DEF ResizeUdp, Then
<1>2. Cut' = Cut /\ Cut \in {"usual", "truncate", "notruncate"}
  BY <1>1 DEF Cut, HasOptions, QueryInv, Options
<1>3. \E s \in {size, MinMsgSize, GetMaxUdpSize(offer)} :
        /\ wire' = [NoWire EXCEPT !.proto = "udp", !.offer = offer, !.size = s]
        /\ s = size => Cut = "notruncate" \/ s <= GetMaxUdpSize(offer) \/ s = MinMsgSize
  <2> DEFINE sized(s) == [NoWire EXCEPT !.proto = "udp", !.offer = offer, !.size = s]
  <2>1. \/ wire' = sized(size) /\ (Cut = "usual" => size <= GetMaxUdpSize(offer))
           /\ Cut # "truncate"
        \/ wire' = sized(MinMsgSize)
        \/ wire' = sized(GetMaxUdpSize(offer)) /\ size > GetMaxUdpSize(offer)
    BY DEF ResizeUdp
  <2>2. CASE wire' = sized(size) /\ (Cut = "usual" => size <= GetMaxUdpSize(offer))
             /\ Cut # "truncate"
    BY <1>2, <2>2
  <2>3. CASE wire' = sized(MinMsgSize)
    BY <2>3
  <2>4. CASE wire' = sized(GetMaxUdpSize(offer)) /\ size > GetMaxUdpSize(offer)
    <3>1. GetMaxUdpSize(offer) # size
      BY <1>1, <2>4, OfferedSize
    <3> QED
      BY <2>4, <3>1
  <2> QED
    BY <2>1, <2>2, <2>3, <2>4
<1>4. PICK s \in {size, MinMsgSize, GetMaxUdpSize(offer)} :
        /\ wire' = [NoWire EXCEPT !.proto = "udp", !.offer = offer, !.size = s]
        /\ s = size => Cut = "notruncate" \/ s <= GetMaxUdpSize(offer) \/ s = MinMsgSize
  BY <1>3
<1>5. /\ wire'.size = s /\ wire'.offer = offer /\ wire'.padded = FALSE
      /\ wire'.proto = "udp"
  BY <1>4 DEF NoWire
<1>6. s \in Nat /\ (Cut = "notruncate" \/ s = MinMsgSize \/ s <= GetMaxUdpSize(offer))
  BY <1>1, <1>4, OfferedSize DEF MinMsgSize
<1>7. Cut # "notruncate" =>
         /\ s <= MaxUdpMsgSize
         /\ s > MinMsgSize => req.edns.version # "none" /\ s <= offer
  BY <1>1, <1>6, OfferedSize DEF MinMsgSize, MaxUdpMsgSize
<1>8. Fits'
  BY <1>1, <1>2, <1>5, <1>7 DEF Fits, MinMsgSize, MaxUdpMsgSize
<1> QED
  BY <1>1, <1>8 DEF SizeInv, Early, Body

LEMMA SizeStream ==
    ASSUME SizeInv, NEW padding \in BOOLEAN, NEW size \in MsgSize,
           ResizeStream(size, padding)
    PROVE  SizeInv'
<1>1. size \in Nat /\ phase' = "write"
  BY SizeAssumption DEF ResizeStream, Then
<1>2. wire'.proto = "stream" /\ (wire'.padded => wire'.size = AddPadding(size))
  BY DEF ResizeStream, NoWire
<1> QED
  BY <1>1, <1>2, PaddedSize DEF SizeInv, Fits, Early, Body

LEMMA SizeStep == QInv /\ SizeInv /\ [Next]_vars => SizeInv'
<1> SUFFICES ASSUME QInv, SizeInv, [Next]_vars PROVE SizeInv'
  OBVIOUS
<1>1. CASE UNCHANGED <<zone, req, wire>> /\ phase = "write" /\ phase' \in {"write", "sent"}
  BY <1>1 DEF SizeInv, Fits, Cut, HasOptions, Early, Body
<1>2. ASSUME UNCHANGED wire, wire = NoWire PROVE SizeInv'
  BY <1>2 DEF SizeInv, Fits, NoWire, Cut
<1>3. CASE \E size \in MsgSize :
              \/ \E offer \in UdpSize : ResizeUdp(offer, size)
              \/ \E padding \in BOOLEAN : ResizeStream(size, padding)
  BY <1>3, SizeUdp, SizeStream DEF QInv
<1>4. CASE UNCHANGED vars
  BY <1>4 DEF vars, SizeInv, Fits, Cut, HasOptions
<1>5. CASE Receive \/ CheckAndSetEdns \/ Screen \/ ProvideKeys \/ AnswerStatic
  <2>1. UNCHANGED wire /\ phase \in Early \cup Body
    BY <1>5 DEF Receive, CheckAndSetEdns, Screen, ProvideKeys, AnswerStatic, Early, Body
  <2> QED
    BY <1>2, <2>1 DEF SizeInv
<1>6. CASE Generate \/ ServeOptions \/ AnswerAny \/ AddSoa \/ Prove
  <2>1. UNCHANGED wire /\ phase \in Body \cup {"any", "soa", "prove"}
    BY <1>6 DEF Generate, ServeOptions, AnswerAny, AddSoa, Prove, Body
  <2> QED
    BY <1>2, <2>1 DEF SizeInv
<1>7. CASE Write
  BY <1>1, <1>7 DEF Write
<1> QED
  BY <1>3, <1>4, <1>5, <1>6, <1>7 DEF Next, Handle

(* What goes out over UDP fits the client and RFC 9715, and a padded       *)
(* response fills its blocks, for every offer and every response.          *)
THEOREM SizesFit == Spec => []SizeFits
<1>1. Init => QueryInv /\ SizeInv
  BY QueryInit DEF Init, SizeInv
<1>2. IInv /\ QueryInv /\ SizeInv /\ [Next]_vars => QueryInv' /\ SizeInv'
  BY SizeStep, QueryStep DEF QInv
<1>3. Spec => [](QueryInv /\ SizeInv)
  BY Inductive, <1>1, <1>2, PTL DEF Spec
<1>4. SizeInv => SizeFits
  BY DEF SizeInv, Fits, SizeFits
<1> QED
  BY <1>3, <1>4, PTL

-----------------------------------------------------------------------------
(***************************************************************************)
(* Signatures.  Until Prove the only one there can be is the prepared one  *)
(* of the SOA record; Prove signs the rest, or leaves everything as it is. *)
(***************************************************************************)
Prepared(types) == IF "SOA" \in types THEN SoaSigs ELSE {}

Unsigned == /\ resp.answerSigs = Prepared(resp.answer)
            /\ resp.nsSigs = Prepared(resp.ns)

Signed ==
    /\ resp.answerSigs = Sign(resp.answer, Prepared(resp.answer), Signer.key, Signer.life)
    /\ resp.nsSigs = Sign(resp.ns, Prepared(resp.ns), Signer.key, Signer.life)

SigInv ==
    /\ "SOA" \in resp.answer => req.name = "apex"
    /\ phase \in Early \cup Body \cup {"any", "soa", "prove"} => Unsigned
    /\ phase \in {"resize", "write", "sent"} /\ ~resp.tc /\ resp.rcode \in Positive =>
         IF zone.keyed /\ Do /\ Asked # "none" THEN Signed ELSE Unsigned

LEMMA FixedSigs ==
    ASSUME Fixed
    PROVE  /\ SoaSigs' = SoaSigs /\ (Do' <=> Do)
           /\ Asked' = Asked /\ Signer' = Signer
           /\ \A types : Prepared(types)' = Prepared(types)
  BY DEF Fixed, SoaSigs, Do, Asked, HasOptions, Signer, Prepared

(* A step that only adds records without a signature keeps the invariant.  *)
LEMMA SigsAlone ==
    ASSUME SigInv, Fixed,
           phase \in Early \cup Body \cup {"any", "soa", "prove"},
           phase' \in Early \cup Body \cup {"any", "soa", "prove"} \/ resp'.rcode \notin Positive,
           "SOA" \in resp'.answer <=> "SOA" \in resp.answer,
           "SOA" \in resp'.ns <=> "SOA" \in resp.ns,
           resp'.answerSigs = resp.answerSigs, resp'.nsSigs = resp.nsSigs
    PROVE  SigInv'
<1>1. UNCHANGED req /\ ("SOA" \in resp'.answer => req'.name = "apex")
  BY DEF SigInv, Fixed
<1>2. Unsigned'
  BY FixedSigs DEF SigInv, Unsigned, Prepared
<1> QED
  BY <1>1, <1>2 DEF SigInv, Early, Body

(* A response that fails has no signatures and needs none.                 *)
LEMMA SigsFail ==
    ASSUME NEW rcode, rcode \notin Positive, resp' = NewResponse(rcode)
    PROVE  SigInv'
<1>1. resp'.answer = {} /\ resp'.ns = {} /\ resp'.answerSigs = {} /\ resp'.nsSigs = {}
      /\ resp'.rcode = rcode
  BY DEF NewResponse
<1> QED
  BY <1>1 DEF SigInv, Unsigned, Prepared

LEMMA SigsEarly ==
    QInv /\ SigInv /\ (Receive \/ CheckAndSetEdns \/ Screen \/ ProvideKeys) => SigInv'
<1> SUFFICES ASSUME QInv, SigInv, Receive \/ CheckAndSetEdns \/ Screen \/ ProvideKeys
             PROVE  SigInv'
  OBVIOUS
<1>0. Shaped(resp) /\ (phase \in Early => Bare(resp) /\ resp.rcode = "NOERROR")
  BY DEF QInv, IInv, BodyInv
<1>1. CASE Receive
  <2>1. Bare(resp) /\ Bare(resp') /\ (phase' # "edns" => resp'.rcode \notin Positive)
        /\ phase' \in {"edns", "write"}
    BY <1>0, <1>1 DEF Receive, Early, NewResponse, Bare, Positive
  <2> QED
    BY <2>1 DEF SigInv, Unsigned, Prepared, Bare
<1>2. CASE CheckAndSetEdns \/ Screen \/ ProvideKeys
  <2>1. phase \in Early /\ Fixed
    BY <1>2 DEF CheckAndSetEdns, Screen, ProvideKeys, Early, Fixed
  <2>2. /\ resp'.ns = resp.ns /\ resp'.answerSigs = resp.answerSigs
        /\ resp'.nsSigs = resp.nsSigs
        /\ resp'.answer = resp.answer \/ resp'.answer = {"DNSKEY"}
    BY <1>0, <1>2 DEF CheckAndSetEdns, Screen, ProvideKeys, Shaped
  <2>3. phase' \in {"screen", "keys", "static", "prove"} \/ resp'.rcode \notin Positive
    <3>1. CASE CheckAndSetEdns
      BY <1>0, <3>1 DEF CheckAndSetEdns, Shaped, Positive
    <3>2. CASE Screen
      <4>1. Refusal # "none" => Refusal \notin Positive
        BY DEF Refusal, Positive
      <4> QED
        BY <1>0, <3>2, <4>1 DEF Screen, Shaped
    <3>3. CASE ProvideKeys
      BY <3>3 DEF ProvideKeys, Then
    <3> QED
      BY <1>2, <3>1, <3>2, <3>3
  <2>4. "SOA" \notin resp.answer /\ "SOA" \notin resp'.answer
    BY <1>0, <2>1, <2>2 DEF Bare
  <2> QED
    BY <2>1, <2>2, <2>3, <2>4, SigsAlone DEF Early, Body
<1> QED
  BY <1>1, <1>2

LEMMA SigsStatic == QInv /\ SigInv /\ AnswerStatic => SigInv'
<1> SUFFICES ASSUME QInv, SigInv, AnswerStatic
             PROVE  SigInv'
  OBVIOUS
<1> DEFINE apex == IF req.name = "apex" THEN {req.type} \cap {"SOA", "NS"} ELSE {}
<1>1. /\ phase = "static" /\ phase' \in {"generate", "options"} /\ Fixed
      /\ Shaped(resp) /\ resp.ns = {}
  BY DEF AnswerStatic, Fixed, QInv, IInv, BodyInv, Body
<1>2. /\ resp'.answer = apex \cup Get(req.name, req.type)
      /\ resp'.answerSigs = IF "SOA" \in apex THEN SoaSigs ELSE {}
      /\ resp'.ns = {} /\ resp'.nsSigs = resp.nsSigs
  BY <1>1 DEF AnswerStatic, Shaped
<1>3. resp.nsSigs = {}
  BY <1>1 DEF SigInv, Unsigned, Prepared, Body
<1>4. "SOA" \in Get(req.name, req.type) => "SOA" \in apex
  <2> SUFFICES ASSUME "SOA" \in Get(req.name, req.type)
               PROVE  "SOA" \in apex
    OBVIOUS
  <2>1. req.type = "SOA" /\ "SOA" \in StaticAt(req.name)
    BY DEF Get
  <2>2. "SOA" \notin zone.www
    BY WwwAssumption DEF QInv, QueryInv, Zone
  <2>3. req.name = "apex"
    BY <2>1, <2>2 DEF StaticAt
  <2> QED
    BY <2>1, <2>3
<1>5. "SOA" \in resp'.answer <=> "SOA" \in apex
  BY <1>2, <1>4
<1>6. Unsigned'
  BY <1>1, <1>2, <1>3, <1>5, FixedSigs DEF Unsigned, Prepared
<1>7. "SOA" \in resp'.answer => req'.name = "apex"
  BY <1>1, <1>5 DEF Fixed
<1> QED
  BY <1>1, <1>6, <1>7 DEF SigInv

LEMMA SigsGenerate == QInv /\ SigInv /\ Generate => SigInv'
<1> SUFFICES ASSUME QInv, SigInv, Generate
             PROVE  SigInv'
  OBVIOUS
<1>1. CASE resp' = NewResponse("SERVFAIL")
  BY <1>1, SigsFail DEF Positive
<1>2. CASE \E records \in SUBSET Generates :
              resp' = [resp EXCEPT !.answer = @ \cup records,
                                   !.rcode = IF ValidName THEN "NOERROR" ELSE @]
  <2>1. PICK records \in SUBSET Generates :
              resp' = [resp EXCEPT !.answer = @ \cup records,
                                   !.rcode = IF ValidName THEN "NOERROR" ELSE @]
    BY <1>2
  <2>2. "SOA" \notin records
    BY DEF Generates
  <2>3. /\ resp'.answer = resp.answer \cup records /\ resp'.ns = resp.ns
        /\ resp'.answerSigs = resp.answerSigs /\ resp'.nsSigs = resp.nsSigs
    BY <2>1 DEF QInv, IInv, BodyInv, Shaped
  <2>4. Fixed /\ phase \in Body /\ phase' \in {"any", "soa"}
    BY DEF Generate, Fixed, Body, Return, Then
  <2> QED
    BY <2>2, <2>3, <2>4, SigsAlone
<1> QED
  BY <1>1, <1>2 DEF Generate

LEMMA SigsOptions == QInv /\ SigInv /\ ServeOptions => SigInv'
<1> SUFFICES ASSUME QInv, SigInv, ServeOptions
             PROVE  SigInv'
  OBVIOUS
<1>1. Fixed /\ phase \in Body /\ phase' \in {"any", "soa"} /\ Shaped(resp)
  BY DEF ServeOptions, Fixed, Body, Return, Then, QInv, IInv, BodyInv
<1>2. "SOA" \notin Made(req.options.content)
  BY DEF Made, Get
<1>3. CASE UNCHANGED resp
  BY <1>1, <1>3, SigsAlone
<1>4. CASE \E rcode : resp' = [resp EXCEPT !.rcode = rcode]
  <2>1. /\ resp'.answer = resp.answer /\ resp'.ns = resp.ns
        /\ resp'.answerSigs = resp.answerSigs /\ resp'.nsSigs = resp.nsSigs
    BY <1>1, <1>4 DEF Shaped
  <2> QED
    BY <1>1, <2>1, SigsAlone
<1>5. CASE resp' = [resp EXCEPT
                 !.rcode = "NOERROR",
                 !.answer = IF req.type = "ANY" /\ @ = {} THEN {"HINFO"}
                            ELSE @ \cup Made(req.options.content)]
  <2>1. /\ resp'.answer = IF req.type = "ANY" /\ resp.answer = {} THEN {"HINFO"}
                          ELSE resp.answer \cup Made(req.options.content)
        /\ resp'.ns = resp.ns
        /\ resp'.answerSigs = resp.answerSigs /\ resp'.nsSigs = resp.nsSigs
    BY <1>1, <1>5 DEF Shaped
  <2>2. "SOA" \in resp'.answer <=> "SOA" \in resp.answer
    BY <1>2, <2>1
  <2> QED
    BY <1>1, <2>1, <2>2, SigsAlone
<1> QED
  BY <1>3, <1>4, <1>5 DEF ServeOptions

LEMMA SigsAny == QInv /\ SigInv /\ (AnswerAny \/ AddSoa) => SigInv'
<1> SUFFICES ASSUME QInv, SigInv, AnswerAny \/ AddSoa
             PROVE  SigInv'
  OBVIOUS
<1>0. Shaped(resp)
  BY DEF QInv, IInv, BodyInv
<1>1. Fixed /\ phase \in {"any", "soa"} /\ phase' \in {"soa", "prove"}
  BY DEF AnswerAny, AddSoa, Fixed, Then
<1>2. CASE AnswerAny
  <2>1. /\ resp'.answer = resp.answer \/ (resp.answer = {} /\ resp'.answer = {"HINFO"})
        /\ resp'.ns = resp.ns
        /\ resp'.answerSigs = resp.answerSigs /\ resp'.nsSigs = resp.nsSigs
    BY <1>0, <1>2 DEF AnswerAny, Shaped
  <2> QED
    BY <1>1, <2>1, SigsAlone
<1>3. CASE UNCHANGED resp
  BY <1>1, <1>3, SigsAlone
<1>4. CASE resp' = [resp EXCEPT !.ns = @ \cup {"SOA"}, !.nsSigs = @ \cup SoaSigs]
  <2>1. /\ resp'.answer = resp.answer /\ resp'.answerSigs = resp.answerSigs
        /\ "SOA" \in resp'.ns /\ resp'.nsSigs = resp.nsSigs \cup SoaSigs
    BY <1>0, <1>4 DEF Shaped
  <2>2. Unsigned /\ Unsigned'
    BY <1>1, <2>1, FixedSigs DEF SigInv, Unsigned, Prepared
  <2> QED
    BY <1>1, <2>1, <2>2 DEF SigInv, Fixed
<1> QED
  BY <1>2, <1>3, <1>4 DEF AddSoa

(* What Prove does to the signatures and to the bitmap.                    *)
LEMMA WithProofSigs ==
    ASSUME NEW r, Shaped(r)
    PROVE  /\ WithProof(r).answerSigs = Sign(r.answer, r.answerSigs, Signer.key, Signer.life)
           /\ WithProof(r).nsSigs = Sign(WithProof(r).ns, r.nsSigs, Signer.key, Signer.life)
           /\ WithProof(r).bitmap = IF r.answer = {} THEN NsecTypes(r.rcode) ELSE {}
           /\ WithProof(r).opt = r.opt
<1> DEFINE rcode == IF r.answer = {} /\ ~req.edns.co THEN "NOERROR" ELSE r.rcode
           bitmap == IF r.answer = {} THEN NsecTypes(r.rcode) ELSE {}
           ns == r.ns \cup IF r.answer = {} THEN {"NSEC"} ELSE {}
           answerSigs == Sign(r.answer, r.answerSigs, Signer.key, Signer.life)
           nsSigs == Sign(ns, r.nsSigs, Signer.key, Signer.life)
<1>1. WithProof(r) = [r EXCEPT !.rcode = rcode, !.bitmap = bitmap, !.ns = ns,
                               !.answerSigs = answerSigs, !.nsSigs = nsSigs]
  BY Zenon DEF WithProof
<1>2. /\ WithProof(r).ns = ns
      /\ WithProof(r).answerSigs = answerSigs
      /\ WithProof(r).nsSigs = nsSigs
      /\ WithProof(r).bitmap = bitmap
      /\ WithProof(r).opt = r.opt
  <2> HIDE DEF rcode, bitmap, ns, answerSigs, nsSigs
  <2> QED
    BY <1>1 DEF Shaped
<1> QED
  BY <1>2

LEMMA SigsProve == QInv /\ SigInv /\ Prove => SigInv'
<1> SUFFICES ASSUME QInv, SigInv, Prove
             PROVE  SigInv'
  OBVIOUS
<1>1. phase = "prove" /\ phase' = "resize" /\ Fixed /\ Shaped(resp)
  BY DEF Prove, Then, Fixed, QInv, IInv, BodyInv
<1>2. Unsigned
  BY <1>1 DEF SigInv
<1>3. CASE resp' = NewResponse("SERVFAIL")
  BY <1>3, SigsFail DEF Positive
<1>4. CASE ~Provable /\ UNCHANGED resp
  <2>1. Unsigned'
    BY <1>1, <1>2, <1>4, FixedSigs DEF Unsigned
  <2>2. resp'.rcode \in Positive => ~(zone.keyed /\ Do /\ Asked # "none")'
    BY <1>1, <1>4, FixedSigs DEF Provable, Positive, Fixed
  <2> QED
    BY <1>1, <1>4, <2>1, <2>2 DEF SigInv, Fixed, Early, Body
<1>5. CASE Provable /\ resp' = WithProof(resp)
  <2>1. (zone.keyed /\ Do /\ Asked # "none")'
    BY <1>1, <1>5, FixedSigs DEF Provable, Fixed
  <2>2. /\ resp'.answer = resp.answer
        /\ "SOA" \in resp'.ns <=> "SOA" \in resp.ns
    BY <1>1, <1>5, WithProofFields
  <2>3. resp'.answerSigs = Sign(resp.answer, Prepared(resp.answer), Signer.key, Signer.life)
    BY <1>1, <1>2, <1>5, WithProofSigs DEF Unsigned
  <2>4. resp'.nsSigs = Sign(resp'.ns, Prepared(resp.ns), Signer.key, Signer.life)
    BY <1>1, <1>2, <1>5, WithProofSigs DEF Unsigned
  <2>5. Signed'
    BY <1>1, <2>2, <2>3, <2>4, FixedSigs DEF Signed, Sign, Prepared
  <2>6. "SOA" \in resp'.answer => req'.name = "apex"
    BY <1>1, <2>2 DEF SigInv, Fixed
  <2> QED
    BY <1>1, <2>1, <2>5, <2>6 DEF SigInv, Early, Body
<1> QED
  BY <1>3, <1>4, <1>5 DEF Prove

LEMMA SigsLast ==
    ASSUME QInv, SigInv,
           \/ Write
           \/ \E size \in MsgSize :
                \/ \E offer \in UdpSize : ResizeUdp(offer, size)
                \/ \E padding \in BOOLEAN : ResizeStream(size, padding)
    PROVE  SigInv'
<1>1. /\ phase \in {"resize", "write"} /\ phase' \in {"write", "sent"} /\ Fixed
      /\ UNCHANGED resp \/ resp' \in Shortened
  BY DEF Write, ResizeUdp, ResizeStream, Then, Fixed
<1>2. CASE UNCHANGED resp
  <2>1. (Signed => Signed') /\ (Unsigned => Unsigned')
    BY <1>1, <1>2, FixedSigs DEF Signed, Unsigned, Sign
  <2>2. (zone.keyed /\ Do /\ Asked # "none") <=> (zone.keyed /\ Do /\ Asked # "none")'
    BY <1>1, FixedSigs DEF Fixed
  <2> QED
    BY <1>1, <1>2, <2>1, <2>2 DEF SigInv, Fixed, Early, Body
<1>3. CASE resp' \in Shortened
  <2>1. resp'.tc /\ resp'.answer \subseteq resp.answer
    BY <1>3 DEF Shortened, QInv, IInv, BodyInv, Shaped
  <2> QED
    BY <1>1, <2>1 DEF SigInv, Fixed, Early, Body
<1> QED
  BY <1>1, <1>2, <1>3

LEMMA SigsStutter == SigInv /\ UNCHANGED vars => SigInv'
<1> SUFFICES ASSUME SigInv, UNCHANGED vars
             PROVE  SigInv'
  OBVIOUS
<1>1. Fixed /\ UNCHANGED <<phase, resp>>
  BY DEF vars, Fixed
<1>2. (Signed => Signed') /\ (Unsigned => Unsigned')
  BY <1>1, FixedSigs DEF Signed, Unsigned, Sign
<1>3. (zone.keyed /\ Do /\ Asked # "none") <=> (zone.keyed /\ Do /\ Asked # "none")'
  BY <1>1, FixedSigs DEF Fixed
<1> QED
  BY <1>1, <1>2, <1>3 DEF SigInv, Fixed

LEMMA SigInductive == Spec => [](QueryInv /\ SigInv)
<1>1. Init => QueryInv /\ SigInv
  BY QueryInit DEF Init, SigInv, Unsigned, Prepared, NewResponse
<1>2. QInv /\ SigInv /\ [Next]_vars => SigInv'
  BY SigsStutter, SigsEarly, SigsStatic, SigsGenerate, SigsOptions, SigsAny, SigsProve,
     SigsLast DEF Next, Handle
<1>3. IInv /\ QueryInv /\ SigInv /\ [Next]_vars => QueryInv' /\ SigInv'
  BY <1>2, QueryStep DEF QInv
<1> QED
  BY Inductive, <1>1, <1>3, PTL DEF Spec

(* The signatures over a set of types: one for each type if there is a     *)
(* signer, and that of the SOA record only if there is none.               *)
Covering(t, sigs) == {s \in sigs : s.covers = t}

LEMMA PreparedCovers ==
    ASSUME NEW types, NEW t
    PROVE  /\ \A s \in Prepared(types) : s.covers = "SOA" /\ "SOA" \in types
           /\ ~(zone.keyed /\ Do) => Prepared(types) = {}
           /\ t \in types => Cardinality(Covering(t, Prepared(types))) =
                                IF zone.keyed /\ Do /\ t = "SOA" THEN 1 ELSE 0
<1> DEFINE soa == [covers |-> "SOA", key |-> "zone", life |-> "prepared"]
<1>1. soa.covers = "SOA"
  OBVIOUS
<1>2. Prepared(types) = IF "SOA" \in types /\ Do /\ zone.keyed THEN {soa} ELSE {}
  BY DEF Prepared, SoaSigs
<1> HIDE DEF soa
<1>3. t \in types => Covering(t, Prepared(types)) =
          IF zone.keyed /\ Do /\ t = "SOA" THEN {soa} ELSE {}
  BY <1>1, <1>2 DEF Covering
<1>4. Cardinality({soa}) = 1 /\ Cardinality({}) = 0
  BY FS_Singleton, FS_EmptySet
<1> QED
  BY <1>1, <1>2, <1>3, <1>4

LEMMA SignCovers ==
    ASSUME NEW types, NEW t \in types, NEW key, NEW life, zone.keyed, Do
    PROVE  Cardinality(Covering(t, Sign(types, Prepared(types), key, life))) = 1
<1> DEFINE soa == [covers |-> "SOA", key |-> "zone", life |-> "prepared"]
           made(u) == [covers |-> u, key |-> key, life |-> life]
           sigs == Sign(types, Prepared(types), key, life)
           one == IF t = "SOA" THEN soa ELSE made(t)
<1>1. soa.covers = "SOA" /\ \A u : made(u).covers = u
  OBVIOUS
<1>2. Prepared(types) = IF "SOA" \in types THEN {soa} ELSE {}
  BY DEF Prepared, SoaSigs
<1>3. sigs = Prepared(types) \cup {made(u) : u \in {u \in types : \A s \in Prepared(types) : s.covers # u}}
  BY DEF Sign
<1> HIDE DEF soa, made, sigs
<1>4. \A s : s \in sigs <=> \/ "SOA" \in types /\ s = soa
                            \/ \E u \in types : u # "SOA" /\ s = made(u)
  BY <1>1, <1>2, <1>3
<1>5. Covering(t, sigs) = {one}
  BY <1>1, <1>4 DEF Covering
<1>6. Cardinality({one}) = 1
  BY FS_Singleton
<1> QED
  BY <1>5, <1>6 DEF sigs

LEMMA SignOnly ==
    ASSUME NEW types, NEW key, NEW life
    PROVE  \A s \in Sign(types, Prepared(types), key, life) :
             /\ s.covers \in types
             /\ \/ s.key = key /\ s.life = life
                \/ s.covers = "SOA" /\ s.key = "zone" /\ s.life = "prepared"
<1> DEFINE soa == [covers |-> "SOA", key |-> "zone", life |-> "prepared"]
<1>1. TAKE s \in Sign(types, Prepared(types), key, life)
<1>2. CASE s \in Prepared(types)
  <2>1. "SOA" \in types /\ s = soa
    BY <1>2 DEF Prepared, SoaSigs
  <2> QED
    BY <2>1
<1>3. CASE \E u \in types : s = [covers |-> u, key |-> key, life |-> life]
  BY <1>3
<1> QED
  BY <1>2, <1>3 DEF Sign

(* What SignedOnce says of a section.                                      *)
Once(types, sigs) ==
    /\ \A s \in sigs : s.covers \in types
    /\ \A t \in types :
         Cardinality(Covering(t, sigs)) =
             IF zone.keyed /\ Do /\ (Asked = "none" => Covering(t, sigs) # {})
             THEN 1 ELSE 0

LEMMA OnceUnsigned ==
    ASSUME NEW types, ~(zone.keyed /\ Do /\ Asked # "none")
    PROVE  Once(types, Prepared(types))
<1> DEFINE sigs == Prepared(types)
<1>1. \A s \in sigs : s.covers \in types
  BY PreparedCovers
<1>2. ASSUME NEW t \in types
      PROVE  Cardinality(Covering(t, sigs)) =
                 IF zone.keyed /\ Do /\ (Asked = "none" => Covering(t, sigs) # {})
                 THEN 1 ELSE 0
  <2>1. Cardinality(Covering(t, sigs)) = IF zone.keyed /\ Do /\ t = "SOA" THEN 1 ELSE 0
    BY PreparedCovers
  <2>2. zone.keyed /\ Do => (Covering(t, sigs) # {} <=> t = "SOA")
    <3> DEFINE soa == [covers |-> "SOA", key |-> "zone", life |-> "prepared"]
    <3>1. soa.covers = "SOA"
      OBVIOUS
    <3>2. zone.keyed /\ Do => sigs = IF "SOA" \in types THEN {soa} ELSE {}
      BY DEF Prepared, SoaSigs
    <3> HIDE DEF soa, sigs
    <3> QED
      BY <3>1, <3>2 DEF Covering
  <2> HIDE DEF sigs
  <2> QED
    BY <2>1, <2>2
<1> QED
  BY <1>1, <1>2 DEF Once

LEMMA OnceSigned ==
    ASSUME NEW types, zone.keyed, Do, Asked # "none"
    PROVE  Once(types, Sign(types, Prepared(types), Signer.key, Signer.life))
<1> DEFINE sigs == Sign(types, Prepared(types), Signer.key, Signer.life)
<1>1. \A s \in sigs : s.covers \in types
  BY SignOnly
<1>2. \A t \in types : Cardinality(Covering(t, sigs)) = 1
  BY SignCovers
<1> HIDE DEF sigs
<1>3. Once(types, sigs)
  BY <1>1, <1>2 DEF Once
<1> QED
  BY <1>3 DEF sigs

(* Who asks a signed zone for signatures gets one over each set of records *)
(* that is there and none over anything else, although the SOA record may  *)
(* have brought its own before Prove signs the response.                   *)
THEOREM EachSignedOnce == Spec => []SignedOnce
<1>1. SigInv /\ Complete => Once(resp.answer, resp.answerSigs) /\ Once(resp.ns, resp.nsSigs)
  <2> SUFFICES ASSUME SigInv, Complete
               PROVE  Once(resp.answer, resp.answerSigs) /\ Once(resp.ns, resp.nsSigs)
    OBVIOUS
  <2>1. CASE zone.keyed /\ Do /\ Asked # "none"
    <3>1. Signed
      BY <2>1 DEF SigInv, Complete, Positive
    <3> QED
      BY <2>1, <3>1, OnceSigned DEF Signed
  <2>2. CASE ~(zone.keyed /\ Do /\ Asked # "none")
    <3>1. Unsigned
      BY <2>2 DEF SigInv, Complete, Positive
    <3> QED
      BY <2>2, <3>1, OnceUnsigned DEF Unsigned
  <2> QED
    BY <2>1, <2>2
<1>2. SigInv => SignedOnce
  BY <1>1 DEF SignedOnce, Once, Covering
<1> QED
  BY SigInductive, <1>2, PTL

(* A test name breaks the signatures it promises to break, all of them and *)
(* no others, whatever the zone holds: only the prepared signature of the  *)
(* SOA record of a negative answer stays good.                             *)
THEOREM BrokenAsPromised == Spec => []BrokenAsAsked
<1> DEFINE as(s) == CASE Asked = "bad"     -> s.key = "bad"
                      [] Asked = "expired" -> s.life = "expired"
                      [] Asked = "none"    -> FALSE
                      [] OTHER             -> s.key = "zone" /\ s.life # "expired"
<1>1. ASSUME QueryInv, SigInv, Complete, req.name # "apex"
      PROVE  /\ \A s \in resp.answerSigs : as(s)
             /\ \A s \in resp.nsSigs : as(s) \/ (s.covers = "SOA" /\ s.life = "prepared")
  <2>1. "SOA" \notin resp.answer
    BY <1>1 DEF SigInv
  <2>2. Asked \in {"usual", "bad", "expired", "none"}
    BY <1>1 DEF Asked, QueryInv, Complete, Options
  <2>3. CASE zone.keyed /\ Do /\ Asked # "none"
    <3>1. Signed
      BY <1>1, <2>3 DEF SigInv, Complete, Positive
    <3>2. ASSUME NEW s, s.key = Signer.key, s.life = Signer.life
          PROVE  as(s)
      BY <2>2, <2>3, <3>2 DEF Signer
    <3>3. ASSUME NEW s \in resp.answerSigs
          PROVE  as(s)
      <4>1. s.covers # "SOA"
        BY <2>1, <3>1, SignOnly DEF Signed
      <4>2. s.key = Signer.key /\ s.life = Signer.life
        BY <3>1, <4>1, SignOnly DEF Signed
      <4> QED
        BY <3>2, <4>2
    <3>4. ASSUME NEW s \in resp.nsSigs
          PROVE  as(s) \/ (s.covers = "SOA" /\ s.life = "prepared")
      <4>1. \/ s.key = Signer.key /\ s.life = Signer.life
            \/ s.covers = "SOA" /\ s.life = "prepared"
        BY <3>1, SignOnly DEF Signed
      <4> HIDE DEF as
      <4> QED
        BY <3>2, <4>1
    <3> QED
      BY <3>3, <3>4
  <2>4. CASE ~(zone.keyed /\ Do /\ Asked # "none")
    <3>1. Unsigned
      BY <1>1, <2>4 DEF SigInv, Complete, Positive
    <3> QED
      BY <2>1, <3>1 DEF Unsigned, Prepared, SoaSigs
  <2> QED
    BY <2>3, <2>4
<1>2. QueryInv /\ SigInv => BrokenAsAsked
  BY <1>1 DEF BrokenAsAsked
<1> QED
  BY SigInductive, <1>2, PTL

-----------------------------------------------------------------------------
(***************************************************************************)
(* Types.                                                                  *)
(***************************************************************************)
Rcode == {"NOERROR", "NXDOMAIN", "SERVFAIL", "REFUSED", "FORMERR", "NOTIMP", "BADVERS"}

(* The fields of a response have their types.                              *)
Typed(r) ==
    /\ r.rcode \in Rcode
    /\ r.answer \subseteq RecordType /\ r.ns \subseteq RecordType
    /\ r.answerSigs \subseteq Signature /\ r.nsSigs \subseteq Signature
    /\ r.bitmap \subseteq Type
    /\ r.tc \in BOOLEAN

TypeInv ==
    /\ req \in Request \cup {Nobody}
    /\ phase = "idle" => resp = NewResponse("NOERROR")
    /\ phase # "idle" => req \in Request
    /\ Typed(resp)
    /\ resp.opt => phase # "idle" /\ req.edns.version # "none"
    /\ wire.size \in Nat

TInv == QInv /\ TypeInv

LEMMA TypedNew == ASSUME NEW rcode \in Rcode PROVE Typed(NewResponse(rcode))
<1> DEFINE r == NewResponse(rcode)
<1>1. /\ r.rcode = rcode /\ r.answer = {} /\ r.ns = {} /\ r.answerSigs = {}
      /\ r.nsSigs = {} /\ r.bitmap = {} /\ r.tc = FALSE
  BY DEF NewResponse
<1> QED
  BY <1>1 DEF Typed

(* The records that the static ones and the options put into an answer,    *)
(* and the signatures that Prove puts on one, are of the right type.       *)
LEMMA TypedParts ==
    ASSUME QueryInv
    PROVE  /\ \A name, type : Get(name, type) \subseteq RecordType
           /\ Made(req.options.content) \subseteq RecordType
           /\ SoaSigs \subseteq Signature
<1>1. zone.apex \subseteq RecordType /\ zone.www \subseteq RecordType
  BY RecordsAssumption DEF QueryInv, Zone
<1>2. \A name : StaticAt(name) \subseteq RecordType
  BY <1>1 DEF StaticAt
<1>3. \A name, type : Get(name, type) \subseteq RecordType
  BY <1>2 DEF Get
<1>4. Made(req.options.content) \subseteq RecordType
  <2> DEFINE copied == IF req.name = "apex" THEN {} ELSE Get("apex", req.type) \ {"CNAME"}
  <2>1. copied \subseteq RecordType
    BY <1>3
  <2>2. Made(req.options.content) \subseteq copied \cup {"A"} \cup {"TXT", "MX"}
    BY Zenon DEF Made
  <2>3. {"A", "TXT", "MX"} \subseteq RecordType
    BY DEF RecordType, Data
  <2> HIDE DEF copied
  <2> QED
    BY <2>1, <2>2, <2>3
<1>5. SoaSigs \subseteq Signature
  BY DEF SoaSigs, Signature, RecordType, Data
<1> QED
  BY <1>3, <1>4, <1>5

LEMMA TypedProof ==
    ASSUME QueryInv, Shaped(resp), Typed(resp), req \in Request, Provable
    PROVE  Typed(WithProof(resp)) /\ WithProof(resp).opt = resp.opt
<1>1. Signer.key \in {"zone", "bad"} /\ Signer.life \in {"prepared", "fresh", "expired"}
  BY DEF Signer
<1>2. ASSUME NEW types, types \subseteq RecordType, NEW sigs, sigs \subseteq Signature
      PROVE  Sign(types, sigs, Signer.key, Signer.life) \subseteq Signature
  <2> DEFINE key == Signer.key
             life == Signer.life
  <2>1. key \in {"zone", "bad"} /\ life \in {"prepared", "fresh", "expired"}
    BY <1>1
  <2> HIDE DEF key, life
  <2>2. Sign(types, sigs, key, life) \subseteq Signature
    BY <1>2, <2>1 DEF Sign, Signature
  <2> QED
    BY <2>2 DEF key, life
<1>3. /\ WithProof(resp).answer = resp.answer /\ WithProof(resp).tc = resp.tc
      /\ WithProof(resp).rcode \in {resp.rcode, "NOERROR"}
      /\ WithProof(resp).ns \subseteq resp.ns \cup {"NSEC"}
  BY WithProofFields
<1>4. /\ WithProof(resp).bitmap = IF resp.answer = {} THEN NsecTypes(resp.rcode) ELSE {}
      /\ WithProof(resp).opt = resp.opt
  BY WithProofSigs
<1>5. NsecTypes(resp.rcode) \subseteq Type
  <2>1. zone.nsec \subseteq Type /\ DefaultNsecTypes \subseteq Type
    BY DEF QueryInv, Zone, DefaultNsecTypes, Type, Data
  <2>2. Listed \subseteq Type
    BY <2>1 DEF Listed
  <2>3. {"RRSIG", "NSEC", "NXNAME"} \subseteq Type
    BY DEF Type
  <2> QED
    BY <2>2, <2>3 DEF NsecTypes
<1>6. WithProof(resp).ns \subseteq RecordType
  BY <1>3 DEF Typed, RecordType
<1>7. WithProof(resp).answerSigs \subseteq Signature
  BY <1>2, WithProofSigs DEF Typed
<1>8. WithProof(resp).nsSigs \subseteq Signature
  BY <1>2, <1>6, WithProofSigs DEF Typed
<1>9. WithProof(resp).bitmap \subseteq Type
  BY <1>4, <1>5
<1>10. WithProof(resp).rcode \in Rcode /\ WithProof(resp).tc \in BOOLEAN
  BY <1>3 DEF Typed, Rcode
<1>11. WithProof(resp).answer \subseteq RecordType
  BY <1>3 DEF Typed
<1> DEFINE r == WithProof(resp)
<1> HIDE DEF r
<1>12. r.rcode \in Rcode /\ r.tc \in BOOLEAN /\ r.answer \subseteq RecordType
       /\ r.ns \subseteq RecordType /\ r.answerSigs \subseteq Signature
       /\ r.nsSigs \subseteq Signature /\ r.bitmap \subseteq Type
  BY <1>6, <1>7, <1>8, <1>9, <1>10, <1>11 DEF r
<1>13. Typed(r)
  BY <1>12 DEF Typed
<1> QED
  BY <1>4, <1>13 DEF r

LEMMA InitTypeInv == Init => TypeInv
<1> SUFFICES ASSUME Init
             PROVE  TypeInv
  OBVIOUS
<1>1. Typed(resp)
  BY TypedNew DEF Init, Rcode
<1>2. resp.opt = FALSE /\ wire.size = 0
  BY DEF Init, NewResponse, NoWire
<1> QED
  BY <1>1, <1>2 DEF Init, TypeInv

(* A step after the query has arrived keeps the types if the response that *)
(* it leaves is typed and got no OPT record.                               *)
LEMMA TypesKept ==
    ASSUME TypeInv, Fixed, phase # "idle", phase' # "idle", Typed(resp'),
           resp'.opt => resp.opt \/ req.edns.version # "none", wire'.size \in Nat
    PROVE  TypeInv'
  BY DEF TypeInv, Fixed, Typed

LEMMA TypesEarly ==
    TInv /\ (Receive \/ CheckAndSetEdns \/ Screen \/ ProvideKeys) => TypeInv'
<1> SUFFICES ASSUME TInv, Receive \/ CheckAndSetEdns \/ Screen \/ ProvideKeys
             PROVE  TypeInv'
  OBVIOUS
<1>0. Shaped(resp) /\ Typed(resp) /\ TypeInv
  BY DEF TInv, QInv, IInv, BodyInv, TypeInv
<1>1. CASE Receive
  <2>1. PICK r \in Request : req' = r /\ phase' \in {"edns", "write"}
             /\ (UNCHANGED resp \/ resp' = NewResponse("NOTIMP"))
    BY <1>1 DEF Receive
  <2>2. Typed(resp')
    BY <1>0, <2>1, TypedNew DEF Rcode, Typed
  <2>3. resp'.opt = FALSE
    BY <1>0, <1>1, <2>1 DEF Receive, TypeInv, NewResponse
  <2>4. wire'.size \in Nat
    BY <1>0, <1>1 DEF Receive, TypeInv
  <2> QED
    BY <2>1, <2>2, <2>3, <2>4 DEF TypeInv, Typed
<1>2. CASE CheckAndSetEdns
  <2>1. /\ Fixed /\ wire' = wire /\ phase # "idle" /\ phase' # "idle"
        /\ resp'.opt => req.edns.version # "none"
    BY <1>0, <1>2 DEF CheckAndSetEdns, Then, Fixed, Shaped
  <2>2. Typed(resp')
    BY <1>0, <1>2 DEF CheckAndSetEdns, Shaped, Typed, Rcode
  <2> QED
    BY <1>0, <2>1, <2>2, TypesKept DEF TypeInv
<1>3. CASE Screen
  <2>1. /\ Fixed /\ wire' = wire /\ phase # "idle" /\ phase' # "idle"
        /\ resp'.opt = resp.opt
    BY <1>0, <1>3 DEF Screen, Then, Fixed, Shaped
  <2>2. Refusal # "none" => Refusal \in Rcode
    BY DEF Refusal, Rcode
  <2>3. Typed(resp')
    BY <1>0, <1>3, <2>2 DEF Screen, Shaped, Typed
  <2> QED
    BY <1>0, <2>1, <2>3, TypesKept DEF TypeInv
<1>4. CASE ProvideKeys
  <2>1. /\ Fixed /\ wire' = wire /\ phase # "idle" /\ phase' # "idle"
        /\ resp'.opt = resp.opt
    BY <1>0, <1>4 DEF ProvideKeys, Then, Fixed, Shaped
  <2>2. {"DNSKEY"} \subseteq RecordType
    BY DEF RecordType, Data
  <2>3. Typed(resp')
    BY <1>0, <1>4, <2>2 DEF ProvideKeys, Shaped, Typed, Rcode
  <2> QED
    BY <1>0, <2>1, <2>3, TypesKept DEF TypeInv
<1> QED
  BY <1>1, <1>2, <1>3, <1>4

LEMMA TypesBody == TInv /\ (AnswerStatic \/ Generate \/ ServeOptions) => TypeInv'
<1> SUFFICES ASSUME TInv, AnswerStatic \/ Generate \/ ServeOptions
             PROVE  TypeInv'
  OBVIOUS
<1>0. Shaped(resp) /\ Typed(resp) /\ TypeInv /\ QueryInv
  BY DEF TInv, QInv, IInv, BodyInv, TypeInv
<1>1. /\ Fixed /\ wire' = wire /\ phase # "idle" /\ phase' # "idle"
  BY DEF AnswerStatic, Generate, ServeOptions, Return, Then, Fixed
<1>2. SUFFICES Typed(resp') /\ (resp'.opt => resp.opt)
  BY <1>0, <1>1, TypesKept DEF TypeInv
<1>3. CASE AnswerStatic
  <2> DEFINE apex == IF req.name = "apex" THEN {req.type} \cap {"SOA", "NS"} ELSE {}
             answer == apex \cup Get(req.name, req.type)
             sigs == IF "SOA" \in apex THEN SoaSigs ELSE {}
             rcode == IF req.name = "apex" \/ StaticAt(req.name) # {} THEN "NOERROR" ELSE resp.rcode
  <2>1. resp' = [resp EXCEPT !.answer = answer, !.answerSigs = sigs, !.rcode = rcode]
    BY <1>3 DEF AnswerStatic
  <2>2. apex \subseteq RecordType
    BY DEF RecordType, Data
  <2>3. answer \subseteq RecordType /\ sigs \subseteq Signature /\ rcode \in Rcode
    BY <1>0, <2>2, TypedParts DEF Typed, Rcode
  <2> HIDE DEF answer, sigs, rcode
  <2> QED
    BY <1>0, <2>1, <2>3 DEF Shaped, Typed
<1>4. CASE Generate
  <2>1. CASE resp' = NewResponse("SERVFAIL")
    <3>1. Typed(NewResponse("SERVFAIL"))
      BY TypedNew DEF Rcode
    <3> QED
      BY <2>1, <3>1 DEF NewResponse
  <2>2. CASE \E records \in SUBSET Generates :
                resp' = [resp EXCEPT !.answer = @ \cup records,
                                     !.rcode = IF ValidName THEN "NOERROR" ELSE @]
    <3>1. PICK records \in SUBSET Generates :
                resp' = [resp EXCEPT !.answer = @ \cup records,
                                     !.rcode = IF ValidName THEN "NOERROR" ELSE @]
      BY <2>2
    <3>2. records \subseteq RecordType
      BY DEF Generates, RecordType, Data
    <3> QED
      BY <1>0, <3>1, <3>2 DEF Shaped, Typed, Rcode
  <2> QED
    BY <1>4, <2>1, <2>2 DEF Generate
<1>5. CASE ServeOptions
  <2>1. CASE \E rcode \in Rcode : resp' = [resp EXCEPT !.rcode = rcode]
    BY <1>0, <2>1 DEF Shaped, Typed
  <2>2. CASE UNCHANGED resp
    BY <1>0, <2>2 DEF Typed
  <2>3. CASE resp' = [resp EXCEPT
                   !.rcode = "NOERROR",
                   !.answer = IF req.type = "ANY" /\ @ = {} THEN {"HINFO"}
                              ELSE @ \cup Made(req.options.content)]
    <3> DEFINE answer == IF req.type = "ANY" /\ resp.answer = {} THEN {"HINFO"}
                         ELSE resp.answer \cup Made(req.options.content)
    <3>1. resp' = [resp EXCEPT !.rcode = "NOERROR", !.answer = answer]
      BY <2>3
    <3>2. {"HINFO"} \subseteq RecordType /\ resp.answer \subseteq RecordType
          /\ Made(req.options.content) \subseteq RecordType
      BY <1>0, TypedParts DEF RecordType, Typed
    <3>3. answer \subseteq RecordType
      BY <3>2
    <3> HIDE DEF answer
    <3> QED
      BY <1>0, <3>1, <3>3 DEF Shaped, Typed, Rcode
  <2>4. {"NXDOMAIN", "REFUSED"} \subseteq Rcode
    BY DEF Rcode
  <2> QED
    BY <1>5, <2>1, <2>2, <2>3, <2>4 DEF ServeOptions
<1> QED
  BY <1>3, <1>4, <1>5

LEMMA TypesDeferred == TInv /\ (AnswerAny \/ AddSoa \/ Prove \/ Write) => TypeInv'
<1> SUFFICES ASSUME TInv, AnswerAny \/ AddSoa \/ Prove \/ Write
             PROVE  TypeInv'
  OBVIOUS
<1>0. Shaped(resp) /\ Typed(resp) /\ TypeInv /\ QueryInv
  BY DEF TInv, QInv, IInv, BodyInv, TypeInv
<1>1. /\ Fixed /\ wire' = wire /\ phase # "idle" /\ phase' # "idle"
  BY DEF AnswerAny, AddSoa, Prove, Write, Then, Fixed
<1>2. SUFFICES Typed(resp') /\ (resp'.opt => resp.opt)
  BY <1>0, <1>1, TypesKept DEF TypeInv
<1>3. CASE UNCHANGED resp
  BY <1>0, <1>3 DEF Typed
<1>4. CASE AnswerAny
  BY <1>0, <1>4 DEF AnswerAny, Shaped, Typed, RecordType
<1>5. CASE resp' = [resp EXCEPT !.ns = @ \cup {"SOA"}, !.nsSigs = @ \cup SoaSigs]
  <2>1. {"SOA"} \subseteq RecordType
    BY DEF RecordType, Data
  <2>2. SoaSigs \subseteq Signature
    BY <1>0, TypedParts
  <2> QED
    BY <1>0, <1>5, <2>1, <2>2 DEF Shaped, Typed
<1>6. CASE Provable /\ resp' = WithProof(resp)
  <2>1. req \in Request
    BY <1>0, <1>1 DEF TypeInv
  <2>2. Typed(WithProof(resp)) /\ WithProof(resp).opt = resp.opt
    BY <1>0, <1>6, <2>1, TypedProof
  <2> QED
    BY <1>6, <2>2 DEF Typed
<1>7. CASE resp' = NewResponse("SERVFAIL")
  <2>1. Typed(NewResponse("SERVFAIL"))
    BY TypedNew DEF Rcode
  <2> QED
    BY <1>7, <2>1 DEF NewResponse
<1> QED
  BY <1>3, <1>4, <1>5, <1>6, <1>7 DEF AddSoa, Prove, Write

LEMMA TypesResize ==
    ASSUME TInv, NEW size \in MsgSize,
           \/ \E offer \in UdpSize : ResizeUdp(offer, size)
           \/ \E padding \in BOOLEAN : ResizeStream(size, padding)
    PROVE  TypeInv'
<1>0. Shaped(resp) /\ Typed(resp) /\ TypeInv /\ size \in Nat
  BY SizeAssumption DEF TInv, QInv, IInv, BodyInv, TypeInv
<1>1. Fixed /\ phase = "resize" /\ phase' = "write"
  BY DEF ResizeUdp, ResizeStream, Then, Fixed
<1>2. Typed(resp') /\ resp'.opt = resp.opt
  <2>1. CASE UNCHANGED resp
    BY <1>0, <2>1 DEF Typed
  <2>2. CASE resp' \in Shortened
    BY <1>0, <2>2 DEF Shortened, Shaped, Typed
  <2> QED
    BY <2>1, <2>2 DEF ResizeUdp, ResizeStream
<1>3. wire'.size \in Nat
  <2>1. CASE \E offer \in UdpSize : ResizeUdp(offer, size)
    <3>1. PICK offer \in UdpSize : ResizeUdp(offer, size)
      BY <2>1
    <3>2. offer \in Nat
      BY SizeAssumption
    <3>3. \E n \in {size, MinMsgSize, GetMaxUdpSize(offer)} :
            wire' = [NoWire EXCEPT !.proto = "udp", !.offer = offer, !.size = n]
      BY <3>1 DEF ResizeUdp
    <3>4. PICK n \in {size, MinMsgSize, GetMaxUdpSize(offer)} :
            wire' = [NoWire EXCEPT !.proto = "udp", !.offer = offer, !.size = n]
      BY <3>3
    <3>5. n \in Nat
      BY <1>0, <3>2, OfferedSize DEF MinMsgSize
    <3> QED
      BY <3>4, <3>5 DEF NoWire
  <2>2. CASE \E padding \in BOOLEAN : ResizeStream(size, padding)
    <3>1. wire'.size \in {size, AddPadding(size)}
      BY <2>2 DEF ResizeStream, NoWire
    <3>2. AddPadding(size) \in Nat
      BY <1>0 DEF AddPadding, ResponsePaddingBlockLength
    <3> QED
      BY <1>0, <3>1, <3>2
  <2> QED
    BY <2>1, <2>2
<1> QED
  BY <1>0, <1>1, <1>2, <1>3, TypesKept DEF TypeInv

(* Every variable keeps its type; in particular an OPT record is in no     *)
(* response to a query without one.                                        *)
THEOREM TypeCorrect == Spec => []TypeOK
<1>1. TInv /\ [Next]_vars => TypeInv'
  <2> SUFFICES ASSUME TInv, [Next]_vars
               PROVE  TypeInv'
    OBVIOUS
  <2>1. CASE UNCHANGED vars
    BY <2>1 DEF vars, TInv, TypeInv, Typed
  <2> QED
    BY <2>1, TypesEarly, TypesBody, TypesDeferred, TypesResize DEF Next, Handle
<1>2. Init => QueryInv /\ TypeInv
  BY QueryInit, InitTypeInv
<1>3. IInv /\ QueryInv /\ TypeInv /\ [Next]_vars => QueryInv' /\ TypeInv'
  BY <1>1, QueryStep DEF TInv, QInv
<1>4. Spec => []IInv /\ [](QueryInv /\ TypeInv)
  BY Inductive, <1>2, <1>3, PTL DEF Spec
<1>5. IInv /\ QueryInv /\ TypeInv => TypeOK
  <2> SUFFICES ASSUME IInv, QueryInv, TypeInv
               PROVE  TypeOK
    OBVIOUS
  <2>1. phase \in {"idle", "edns", "screen", "keys", "static", "generate", "options",
                   "any", "soa", "prove", "resize", "write", "sent"}
    BY DEF IInv, BodyInv, Early, Body, Deferred
  <2> QED
    BY <2>1 DEF QueryInv, TypeInv, Typed, Rcode, TypeOK
<1> QED
  BY <1>4, <1>5, PTL

-----------------------------------------------------------------------------
(* The signature of the SOA record that the handler attaches is that of    *)
(* SoaSig: the rest is about its zone over time, for every TTL, skew and   *)
(* number of resolvers.                                                    *)

(***************************************************************************)
(* The prepared signature was made at soaSig.from + Skew and is at most    *)
(* Ttl old, because the goroutine sleeps less than Ttl and runs at most    *)
(* Lag late; so what is handed out has at least Skew + Ttl to go, and a    *)
(* resolver drops it before that is down to Skew.                          *)
(***************************************************************************)
PreparedInv ==
    /\ soaSig.from <= now - Skew
    /\ soaSig.from + Skew + Ttl >= wake + 1
    /\ soaSig.to = soaSig.from + 2 * Skew + 2 * Ttl
    /\ now <= wake + Lag

CachedInv ==
    \A r \in Resolver : cache[r] # None =>
        /\ cache[r].from <= now - Skew
        /\ now <= cache[r].until
        /\ cache[r].until + Skew <= cache[r].to

SigTimeInv == SigTypeOK /\ PreparedInv /\ CachedInv

LEMMA HalfFact == Half \in Nat /\ Half >= 1 /\ 2 * Half <= Ttl
BY TtlAssumption DEF Half

(* Signing anew restores the facts about the prepared signature.           *)
LEMMA PrepareFacts ==
    ASSUME SigTimeInv, Prepare, now' = now, cache' = cache
    PROVE  SigTimeInv'
<1> USE TtlAssumption, SkewAssumption, LagAssumption, BoundAssumption, HalfFact
<1>1. PICK d \in Sleeps : wake' = now + d
  BY DEF Prepare
<1>2. d \in Nat /\ d >= 1 /\ d <= 2 * Half - 1 /\ now \in Nat
  BY DEF Sleeps, SigTimeInv, SigTypeOK
<1>3. soaSig' = [from |-> now - Skew, to |-> now + Skew + 2 * Ttl]
  BY DEF Prepare, Window
<1>4. SigTypeOK'
  BY <1>1, <1>2, <1>3 DEF SigTimeInv, SigTypeOK, Validity
<1>5. PreparedInv'
  BY <1>1, <1>2, <1>3 DEF PreparedInv
<1>6. CachedInv'
  BY DEF SigTimeInv, CachedInv
<1> QED
  BY <1>4, <1>5, <1>6 DEF SigTimeInv

(* An answer whose validity reaches Skew + Ttl ahead may be held.          *)
LEMMA HoldFacts ==
    ASSUME SigTimeInv, NEW r \in Resolver, NEW v \in Validity, Hold(r, v),
           v.from <= now - Skew, now + Ttl + Skew <= v.to
    PROVE  SigTimeInv'
<1> USE TtlAssumption, SkewAssumption, BoundAssumption
<1> DEFINE e == [from |-> v.from, to |-> v.to, until |-> now + Ttl]
<1>1. now \in Nat /\ e \in [from : Int, to : Int, until : Int]
  BY DEF SigTimeInv, SigTypeOK, Validity
<1>2. cache' = [cache EXCEPT ![r] = e] /\ UNCHANGED <<now, soaSig, wake>>
  BY DEF Hold
<1>3. cache \in [Resolver -> [from : Int, to : Int, until : Int] \cup {None}]
  BY DEF SigTimeInv, SigTypeOK
<1>4. SigTypeOK'
  BY <1>1, <1>2, <1>3 DEF SigTimeInv, SigTypeOK
<1>5. PreparedInv'
  BY <1>2 DEF SigTimeInv, PreparedInv
<1>6. CachedInv'
  <2> SUFFICES ASSUME NEW s \in Resolver, cache'[s] # None
               PROVE  /\ cache'[s].from <= now' - Skew
                      /\ now' <= cache'[s].until
                      /\ cache'[s].until + Skew <= cache'[s].to
    BY DEF CachedInv
  <2>1. CASE s = r
    <3>1. cache'[s] = e
      BY <1>2, <1>3, <2>1
    <3>2. v.from \in Int /\ v.to \in Int
      BY DEF Validity
    <3> QED
      BY <1>1, <1>2, <3>1, <3>2
  <2>2. CASE s # r
    BY <1>2, <1>3, <2>2 DEF SigTimeInv, CachedInv
  <2> QED
    BY <2>1, <2>2
<1> QED
  BY <1>4, <1>5, <1>6 DEF SigTimeInv

(* SigTimeInv is an inductive invariant of SoaSig.                         *)
LEMMA SigFirst == SigInit => SigTimeInv
<1> USE TtlAssumption, SkewAssumption, LagAssumption, BoundAssumption, HalfFact
<1> SUFFICES ASSUME SigInit PROVE SigTimeInv
  OBVIOUS
<1>1. SigTypeOK /\ PreparedInv
  BY DEF SigInit, SigTypeOK, PreparedInv, Window, Validity, Sleeps
<1>2. CachedInv
  BY DEF SigInit, CachedInv
<1> QED
  BY <1>1, <1>2 DEF SigTimeInv

LEMMA SigStep == SigTimeInv /\ [SigNext]_sigVars => SigTimeInv'
<1> USE TtlAssumption, SkewAssumption, LagAssumption, BoundAssumption, HalfFact
<1> SUFFICES ASSUME SigTimeInv, [SigNext]_sigVars PROVE SigTimeInv'
  OBVIOUS
<1>1. CASE Refresh \/ Restart
  BY <1>1, PrepareFacts DEF Refresh, Restart
<1>2. ASSUME NEW r \in Resolver, AnswerSoa(r) PROVE SigTimeInv'
  <2>1. soaSig \in Validity /\ soaSig.from <= now - Skew
    BY DEF SigTimeInv, SigTypeOK, PreparedInv
  <2>2. now + Ttl + Skew <= soaSig.to
    BY DEF SigTimeInv, SigTypeOK, PreparedInv, Validity
  <2> QED
    BY <1>2, <2>1, <2>2, HoldFacts DEF AnswerSoa
<1>3. ASSUME NEW r \in Resolver, AnswerOther(r) PROVE SigTimeInv'
  <2>1. now \in Nat
    BY DEF SigTimeInv, SigTypeOK
  <2>2. /\ FreshWindow(now) \in Validity
        /\ FreshWindow(now).from <= now - Skew
        /\ now + Ttl + Skew <= FreshWindow(now).to
    BY <2>1 DEF FreshWindow, Validity
  <2> QED
    BY <1>3, <2>2, HoldFacts DEF AnswerOther
<1>4. CASE Tick
  <2>1. now \in Nat /\ now' = now + 1 /\ soaSig' = soaSig /\ wake' = wake
    BY <1>4 DEF Tick, SigTimeInv, SigTypeOK
  <2>2. \A r \in Resolver : cache'[r] = IF cache[r] # None /\ cache[r].until > now
                                        THEN cache[r] ELSE None
    BY <1>4 DEF Tick
  <2>3. cache' \in [Resolver -> [from : Int, to : Int, until : Int] \cup {None}]
    BY <1>4 DEF Tick, SigTimeInv, SigTypeOK
  <2>4. SigTypeOK'
    BY <1>4, <2>1, <2>3 DEF Tick, SigTimeInv, SigTypeOK
  <2>5. PreparedInv'
    BY <1>4, <2>1 DEF Tick, SigTimeInv, SigTypeOK, PreparedInv, Validity
  <2>6. CachedInv'
    <3> SUFFICES ASSUME NEW r \in Resolver, cache'[r] # None
                 PROVE  /\ cache'[r].from <= now' - Skew
                        /\ now' <= cache'[r].until
                        /\ cache'[r].until + Skew <= cache'[r].to
      BY DEF CachedInv
    <3>1. cache'[r] = cache[r] /\ cache[r] # None /\ cache[r].until > now
      BY <2>2
    <3>2. cache[r] \in [from : Int, to : Int, until : Int]
      BY <3>1 DEF SigTimeInv, SigTypeOK
    <3> QED
      BY <2>1, <3>1, <3>2 DEF SigTimeInv, CachedInv
  <2> QED
    BY <2>4, <2>5, <2>6 DEF SigTimeInv
<1>5. CASE UNCHANGED sigVars
  BY <1>5 DEF sigVars, SigTimeInv, SigTypeOK, PreparedInv, CachedInv
<1> QED
  BY <1>1, <1>2, <1>3, <1>4, <1>5 DEF SigNext


(* The clocks and signatures keep their types, and the goroutine never     *)
(* sleeps further ahead than the code's random interval.                   *)
THEOREM SigTypeCorrect == SigSpec => []SigTypeOK
<1>1. SigTimeInv => SigTypeOK
  BY DEF SigTimeInv
<1>2. SigInit => SigTimeInv
  BY SigFirst
<1>3. SigTimeInv /\ [SigNext]_sigVars => SigTimeInv'
  BY SigStep
<1> QED
  BY <1>1, <1>2, <1>3, PTL DEF SigSpec

(* No resolver ever holds a signature that a clock wrong by at most Skew   *)
(* takes for expired or not yet valid, whatever the TTL and the refreshes. *)
THEOREM SignaturesValid == SigSpec => []CachedSignaturesValid
<1>1. SigTimeInv => CachedSignaturesValid
  <2> SUFFICES ASSUME SigTimeInv, NEW r \in Resolver, cache[r] # None
               PROVE  cache[r].from <= now - Skew /\ now + Skew <= cache[r].to
    BY DEF CachedSignaturesValid
  <2>1. cache[r] \in [from : Int, to : Int, until : Int] /\ now \in Nat
    BY DEF SigTimeInv, SigTypeOK
  <2> QED
    BY <2>1, SkewAssumption DEF SigTimeInv, CachedInv
<1>2. SigInit => SigTimeInv
  BY SigFirst
<1>3. SigTimeInv /\ [SigNext]_sigVars => SigTimeInv'
  BY SigStep
<1> QED
  BY <1>1, <1>2, <1>3, PTL DEF SigSpec
=============================================================================
