---------------------------- MODULE MyaddrProofs ----------------------------
(***************************************************************************)
(* Proofs about Myaddr, for any names, keys, lifetimes and requests: what  *)
(* holds however requests are interleaved and break off (types, keys that  *)
(* stay with their name, the lifetime shown), and what holds when they are *)
(* served one after the other and every store call succeeds.               *)
(***************************************************************************)
EXTENDS Myaddr, SequenceTheorems, TLAPS

(* The calls that come first in a handler, to find what the others need.   *)
Finding == {"exists", "find", "lookup"}

Elements(s) == {s[n] : n \in DOMAIN s}

(* The calls that use the key of the request: it answers Unregister.       *)
NeedsKey(s) == \/ Elements(s) \cap {"ip4", "ip6", "challenge", "drop hash"} # {}
               \/ s[Len(s)] = "drop challenges"
NeedsHash(s) == "setHash" \in Elements(s)

RegisterCalls == <<"exists", "load", "setReg", "setHash">>
UpdateCalls(what) == <<"find", what, "load", "setReg", "setHash">>
ClearCalls == <<"find", "drop ip4", "drop ip6">>
UnregisterCalls == <<"find", "drop ip4", "drop ip6", "drop reg", "drop hash",
                     "drop challenges">>
SuspendCalls == <<"lookup", "drop hash", "drop ip4", "drop ip6", "drop challenges",
                  "load", "setReg">>
AdminDeleteCalls == <<"lookup", "drop hash", "drop ip4", "drop ip6", "drop challenges",
                      "drop reg">>

(* A request that has found what it needs acts for one name, with its key  *)
(* or with none.                                                           *)
Found(j) == /\ Elements(j.todo) \cap Finding = {}
            /\ j.name \in Name
            /\ j.key # None => home[j.key] = j.name
            /\ j.hash # None => j.hash = j.key
            /\ NeedsKey(j.todo) => j.key # None
            /\ NeedsHash(j.todo) => j.hash # None

Sound(j) ==
    /\ j \in Job /\ j.todo # <<>> /\ j.at <= now
    /\ \/ j.todo = RegisterCalls /\ j.name \in Name
       \/ /\ j.todo \in {SuspendCalls, AdminDeleteCalls} /\ j.name \in Name
       \/ /\ Head(j.todo) = "find" /\ Elements(Tail(j.todo)) \cap Finding = {}
          /\ j.key # None /\ j.hash = j.key
       \/ Found(j)

JobsAreSound == \A r \in Req : job[r] # None => Sound(job[r])

IInv == TypeOK /\ JobsAreSound /\ KeysStayWithTheirName /\ LastsAsLongAsShown

-----------------------------------------------------------------------------
(* What is left of a list of calls after the first.                        *)
LEMMA TailOfCalls ==
  ASSUME NEW s \in Seq(Calls), s # <<>>
  PROVE  /\ Head(s) \in Elements(s) /\ Head(s) \in Calls
         /\ Len(s) = 1 => Head(s) = s[Len(s)]
         /\ Len(s) # 1 => /\ Tail(s) \in Seq(Calls) /\ Tail(s) # <<>>
                          /\ Elements(Tail(s)) \subseteq Elements(s)
                          /\ NeedsKey(Tail(s)) => NeedsKey(s)
                          /\ NeedsHash(Tail(s)) => NeedsHash(s)
<1>1. Len(s) \in Nat \ {0} /\ DOMAIN s = 1 .. Len(s) /\ \A n \in 1 .. Len(s) : s[n] \in Calls
  OBVIOUS
<1>2. Head(s) = s[1]
  OBVIOUS
<1>3. Head(s) \in Elements(s) /\ Head(s) \in Calls
  BY <1>1, <1>2 DEF Elements
<1>4. ASSUME Len(s) # 1
      PROVE  /\ Tail(s) \in Seq(Calls) /\ Tail(s) # <<>>
             /\ Elements(Tail(s)) \subseteq Elements(s)
             /\ Tail(s)[Len(Tail(s))] = s[Len(s)]
  <2>1. Tail(s) \in Seq(Calls) /\ Len(Tail(s)) = Len(s) - 1
        /\ \A n \in 1 .. Len(s) - 1 : Tail(s)[n] = s[n + 1]
    OBVIOUS
  <2>2. Len(s) - 1 \in Nat \ {0} /\ DOMAIN Tail(s) = 1 .. Len(s) - 1
    BY <1>1, <1>4, <2>1
  <2>3. Tail(s) # <<>>
    BY <2>1, <2>2
  <2>4. \A n \in 1 .. Len(s) - 1 : n + 1 \in 1 .. Len(s)
    BY <1>1
  <2>5. Elements(Tail(s)) \subseteq Elements(s)
    BY <1>1, <2>1, <2>2, <2>4 DEF Elements
  <2>6. Tail(s)[Len(Tail(s))] = s[Len(s)]
    BY <1>1, <2>1, <2>2
  <2> QED
    BY <2>1, <2>3, <2>5, <2>6
<1> QED
  BY <1>1, <1>2, <1>3, <1>4 DEF NeedsKey, NeedsHash

LEMMA Plans ==
  /\ RegisterCalls # <<>> /\ Head(RegisterCalls) = "exists" /\ Len(RegisterCalls) # 1
  /\ SuspendCalls # <<>> /\ Head(SuspendCalls) = "lookup" /\ Len(SuspendCalls) # 1
  /\ AdminDeleteCalls # <<>> /\ Head(AdminDeleteCalls) = "lookup" /\ Len(AdminDeleteCalls) # 1
  /\ {RegisterCalls, SuspendCalls, AdminDeleteCalls, ClearCalls, UnregisterCalls} \subseteq Seq(Calls)
BY DEF RegisterCalls, SuspendCalls, AdminDeleteCalls, ClearCalls, UnregisterCalls, Calls

(* The keys issued stay issued.                                            *)
HomeGrows == \A k \in Key : home[k] # None => home'[k] = home[k]

LEMMA SoundStays ==
  ASSUME NEW j, Sound(j), HomeGrows, now <= now', now \in Nat, now' \in Nat
  PROVE  Sound(j)'
<1>1. j.at \in Nat /\ j.key \in Key \cup {None}
  BY DEF Sound, Job
<1>2. Found(j) => Found(j)'
  BY <1>1, NoneAssumption DEF Found, HomeGrows
<1> QED
  BY <1>1, <1>2 DEF Sound

(* The job of r after a call, when what is left acts for its name.         *)
LEMMA Proceed ==
  ASSUME IInv, NEW r \in Req, NEW j \in Job, j.todo # <<>>, Continue(r, j),
         UNCHANGED now, HomeGrows, j.at <= now,
         Len(j.todo) # 1 =>
             /\ Elements(Tail(j.todo)) \cap Finding = {}
             /\ j.name \in Name
             /\ j.key # None => home'[j.key] = j.name
             /\ j.hash # None => j.hash = j.key
             /\ NeedsKey(Tail(j.todo)) => j.key # None
             /\ NeedsHash(Tail(j.todo)) => j.hash # None
  PROVE  job' \in [Req -> Job \cup {None}] /\ JobsAreSound'
<1> USE DEF IInv
<1>0. now \in Nat /\ j.todo \in Seq(Calls)
  BY ModeAssumption DEF TypeOK, Job
<1>1. CASE Len(j.todo) = 1
  <2>1. job' = [job EXCEPT ![r] = None]
    BY <1>1 DEF Continue
  <2> QED
    BY <1>0, <2>1, SoundStays DEF JobsAreSound, TypeOK
<1>2. CASE Len(j.todo) # 1
  <2> DEFINE k == [j EXCEPT !.todo = Tail(j.todo)]
  <2>1. job' = [job EXCEPT ![r] = k]
    BY <1>2 DEF Continue
  <2>2. Tail(j.todo) \in Seq(Calls) /\ Tail(j.todo) # <<>>
    BY <1>0, <1>2, TailOfCalls
  <2>3. /\ k \in Job /\ k.todo = Tail(j.todo) /\ k.name = j.name /\ k.key = j.key
        /\ k.hash = j.hash /\ k.at = j.at
    BY <2>2 DEF Job
  <2>4. Sound(k)'
    BY <1>2, <2>2, <2>3 DEF Sound, Found
  <2> HIDE DEF k
  <2> QED
    BY <1>0, <2>1, <2>3, <2>4, SoundStays DEF JobsAreSound, TypeOK
<1> QED
  BY <1>1, <1>2

(* The same for a request that had found its name before.                  *)
LEMMA ProceedFound ==
  ASSUME IInv, NEW r \in Req, job[r] # None, Head(job[r].todo) \notin Finding,
         Continue(r, job[r]), UNCHANGED <<now, home>>
  PROVE  job' \in [Req -> Job \cup {None}] /\ JobsAreSound'
<1> DEFINE j == job[r]
<1>1. j \in Job /\ j.todo # <<>> /\ j.todo \in Seq(Calls) /\ j.at <= now
  BY DEF IInv, JobsAreSound, Sound, Job
<1>2. Found(j)
  BY Plans DEF IInv, JobsAreSound, Sound, Finding
<1>3. Len(j.todo) # 1 =>
             /\ Elements(Tail(j.todo)) \cap Finding = {}
             /\ NeedsKey(Tail(j.todo)) => NeedsKey(j.todo)
             /\ NeedsHash(Tail(j.todo)) => NeedsHash(j.todo)
  BY <1>1, <1>2, TailOfCalls DEF Found
<1> HIDE DEF j
<1> QED
  BY <1>1, <1>2, <1>3, Proceed DEF Found, HomeGrows, j

(* What a request that has found its name acts for.                        *)
LEMMA Acting ==
  ASSUME IInv, NEW r \in Req, job[r] # None, Head(job[r].todo) \notin Finding
  PROVE  /\ job[r] \in Job /\ job[r].todo \in Seq(Calls) /\ job[r].todo # <<>>
         /\ job[r].name \in Name /\ job[r].at <= now /\ job[r].at \in Nat /\ now \in Nat
         /\ job[r].key # None => job[r].key \in Key /\ home[job[r].key] = job[r].name
         /\ job[r].hash # None => job[r].hash = job[r].key
         /\ Head(job[r].todo) \in {"ip4", "ip6", "challenge", "drop hash"} => job[r].key # None
         /\ Head(job[r].todo) = "drop challenges" /\ Len(job[r].todo) = 1 => job[r].key # None
         /\ Head(job[r].todo) = "setHash" => job[r].hash # None
<1>1. /\ job[r] \in Job /\ job[r].todo # <<>> /\ job[r].todo \in Seq(Calls) /\ job[r].at <= now
      /\ job[r].at \in Nat /\ job[r].key \in Key \cup {None}
  BY DEF IInv, JobsAreSound, Sound, Job
<1>2. Found(job[r])
  BY Plans DEF IInv, JobsAreSound, Sound, Finding
<1>3. now \in Nat
  BY ModeAssumption DEF IInv, TypeOK
<1>4. /\ Head(job[r].todo) \in Elements(job[r].todo)
      /\ Len(job[r].todo) = 1 => Head(job[r].todo) = job[r].todo[Len(job[r].todo)]
  BY <1>1, TailOfCalls
<1>5. /\ Head(job[r].todo) \in {"ip4", "ip6", "challenge", "drop hash"} => NeedsKey(job[r].todo)
      /\ Head(job[r].todo) = "drop challenges" /\ Len(job[r].todo) = 1 => NeedsKey(job[r].todo)
      /\ Head(job[r].todo) = "setHash" => NeedsHash(job[r].todo)
  BY <1>4 DEF NeedsKey, NeedsHash
<1> QED
  BY <1>1, <1>2, <1>3, <1>5 DEF Found
-----------------------------------------------------------------------------
LEMMA InitIInv == Init => IInv
BY ModeAssumption DEF Init, IInv, TypeOK, JobsAreSound, KeysStayWithTheirName,
   LastsAsLongAsShown, Family

(* A request that arrives.                                                 *)
LEMMA BeginIInv ==
  ASSUME IInv, NEW r \in Req, NEW n \in Name \cup {None}, NEW k \in Key \cup {None},
         NEW calls \in Seq(Calls), calls # <<>>, Begin(r, n, k, calls),
         \/ calls \in {RegisterCalls, SuspendCalls, AdminDeleteCalls} /\ n \in Name
         \/ /\ Head(calls) = "find" /\ Elements(Tail(calls)) \cap Finding = {}
            /\ k # None
  PROVE  IInv'
<1> USE DEF IInv
<1> DEFINE j == [todo |-> calls, name |-> n, key |-> k, hash |-> k, seen |-> None, at |-> 0]
<1>1. /\ job' = [job EXCEPT ![r] = j]
      /\ arrived' \in 0 .. MaxRequests
      /\ UNCHANGED <<now, reg, owner, ip, chal, home, deleted>>
  BY ModeAssumption DEF Begin, TypeOK
<1>2. j \in Job /\ now \in Nat /\ 0 <= now
  BY ModeAssumption DEF Job, TypeOK
<1>3. Sound(j)'
  BY <1>1, <1>2 DEF Sound
<1> HIDE DEF j
<1>4. JobsAreSound' /\ job' \in [Req -> Job \cup {None}]
  BY <1>1, <1>2, <1>3, SoundStays DEF JobsAreSound, HomeGrows, TypeOK
<1> QED
  BY <1>1, <1>4 DEF TypeOK, KeysStayWithTheirName, LastsAsLongAsShown, Expires

(* What the calls after the first are not.                                 *)
LEMMA RestAvoids ==
  ASSUME NEW X, NEW s \in Seq(Calls), s # <<>>, \A i \in 2 .. Len(s) : s[i] \notin X
  PROVE  Elements(Tail(s)) \cap X = {}
<1>1. Len(s) \in Nat /\ Len(Tail(s)) = Len(s) - 1 /\ Tail(s) \in Seq(Calls)
      /\ \A i \in 1 .. Len(Tail(s)) : Tail(s)[i] = s[i + 1]
  BY HeadTailProperties
<1>2. \A i \in 1 .. Len(Tail(s)) : i + 1 \in 2 .. Len(s)
  BY <1>1
<1>3. DOMAIN Tail(s) = 1 .. Len(Tail(s))
  BY <1>1
<1> QED
  BY <1>1, <1>2, <1>3 DEF Elements

LEMMA PlansOfKeys ==
  \A calls \in {ClearCalls, UnregisterCalls} \cup {UpdateCalls(what) : what \in Family \cup {"challenge"}} :
     /\ calls \in Seq(Calls) /\ calls # <<>> /\ Head(calls) = "find"
     /\ Elements(Tail(calls)) \cap Finding = {}
<1>1. /\ ClearCalls # <<>> /\ Head(ClearCalls) = "find" /\ Len(ClearCalls) = 3
      /\ \A i \in {2, 3} : ClearCalls[i] \notin Finding
  BY DEF ClearCalls, Finding
<1>2. /\ UnregisterCalls # <<>> /\ Head(UnregisterCalls) = "find" /\ Len(UnregisterCalls) = 6
      /\ \A i \in {2, 3, 4, 5, 6} : UnregisterCalls[i] \notin Finding
  BY DEF UnregisterCalls, Finding
<1>3. ASSUME NEW what \in Family \cup {"challenge"}
      PROVE  /\ UpdateCalls(what) \in Seq(Calls)
             /\ UpdateCalls(what) # <<>> /\ Head(UpdateCalls(what)) = "find"
             /\ Len(UpdateCalls(what)) = 5
             /\ \A i \in {2, 3, 4, 5} : UpdateCalls(what)[i] \notin Finding
  <2>1. what \in {"ip4", "ip6", "challenge"}
    BY DEF Family
  <2>2. {"find", what, "load", "setReg", "setHash"} \subseteq Calls
    BY <2>1 DEF Calls
  <2>3. UpdateCalls(what) \in Seq(Calls)
    BY <2>2 DEF UpdateCalls
  <2>4. /\ UpdateCalls(what) # <<>> /\ Head(UpdateCalls(what)) = "find"
        /\ Len(UpdateCalls(what)) = 5
        /\ \A i \in {2, 3, 4, 5} : UpdateCalls(what)[i] \notin Finding
    BY <2>1 DEF UpdateCalls, Finding
  <2> QED
    BY <2>3, <2>4
<1>4. /\ \A i \in 2 .. 3 : i \in {2, 3}
      /\ \A i \in 2 .. 5 : i \in {2, 3, 4, 5}
      /\ \A i \in 2 .. 6 : i \in {2, 3, 4, 5, 6}
  OBVIOUS
<1>5. Elements(Tail(ClearCalls)) \cap Finding = {}
  BY <1>1, <1>4, Plans, RestAvoids
<1>6. Elements(Tail(UnregisterCalls)) \cap Finding = {}
  BY <1>2, <1>4, Plans, RestAvoids
<1>7. ASSUME NEW what \in Family \cup {"challenge"}
      PROVE  Elements(Tail(UpdateCalls(what))) \cap Finding = {}
  <2> DEFINE s == UpdateCalls(what)
  <2>1. s \in Seq(Calls) /\ s # <<>> /\ Len(s) = 5 /\ \A i \in {2, 3, 4, 5} : s[i] \notin Finding
    BY <1>3
  <2> HIDE DEF s
  <2> QED
    BY <1>4, <2>1, RestAvoids DEF s
<1> QED
  BY <1>1, <1>2, <1>3, <1>5, <1>6, <1>7, Plans

LEMMA RegisterRest == Elements(Tail(RegisterCalls)) \cap Finding = {}
<1>1. Len(RegisterCalls) = 4 /\ \A i \in {2, 3, 4} : RegisterCalls[i] \notin Finding
  BY DEF RegisterCalls, Finding
<1>2. \A i \in 2 .. 4 : i \in {2, 3, 4}
  OBVIOUS
<1> QED
  BY <1>1, <1>2, Plans, RestAvoids

(* The administrator's calls after the first and, for a name without a     *)
(* key, after the second.                                                  *)
AfterLookUp(s) ==
    /\ Elements(Tail(s)) \cap Finding = {}
    /\ ~ NeedsHash(Tail(s))
    /\ Tail(s) \in Seq(Calls) /\ Tail(s) # <<>> /\ Len(Tail(s)) # 1
    /\ Elements(Tail(Tail(s))) \cap Finding = {}
    /\ ~ NeedsHash(Tail(Tail(s))) /\ ~ NeedsKey(Tail(Tail(s)))

LEMMA AdminRest == \A s \in {SuspendCalls, AdminDeleteCalls} : AfterLookUp(s)
<1> DEFINE X == Finding \cup {"setHash"}
           Y == X \cup {"ip4", "ip6", "challenge", "drop hash"}
<1>1. ASSUME NEW s \in Seq(Calls), Len(s) \in {6, 7}, \A i \in 2 .. Len(s) : s[i] \notin X,
             \A i \in 3 .. Len(s) : s[i] \notin Y, s[Len(s)] # "drop challenges"
      PROVE  AfterLookUp(s)
  <2> HIDE DEF X, Y
  <2> DEFINE n == Len(s)
  <2>0. n = 6 \/ n = 7
    BY <1>1
  <2>1. n \in Nat /\ s # <<>>
    <3>1. Len(<<>>) = 0
      OBVIOUS
    <3> HIDE DEF n
    <3>2. n \in Nat /\ n # 0
      BY <2>0
    <3> QED
      BY <3>1, <3>2 DEF n
  <2>2. /\ Tail(s) \in Seq(Calls) /\ Len(Tail(s)) = Len(s) - 1
        /\ \A i \in 1 .. Len(s) - 1 : Tail(s)[i] = s[i + 1]
    BY <2>1, HeadTailProperties
  <2>3. Tail(s) # <<>> /\ Len(Tail(s)) # 1 /\ Len(Tail(s)) - 1 = n - 2
    <3> DEFINE m == Len(Tail(s))
    <3>1. Len(<<>>) = 0 /\ m = n - 1
      BY <2>2
    <3> HIDE DEF n, m
    <3>2. m # 0 /\ m # 1 /\ m - 1 = n - 2
      BY <2>0, <3>1
    <3> QED
      BY <3>1, <3>2 DEF m
  <2>4. /\ Tail(Tail(s)) \in Seq(Calls) /\ Len(Tail(Tail(s))) = Len(s) - 2
        /\ \A i \in 1 .. Len(s) - 2 : Tail(Tail(s))[i] = Tail(s)[i + 1]
    BY <2>2, <2>3, HeadTailProperties
  <2>5. Elements(Tail(s)) \cap X = {}
    BY <1>1, <2>1, RestAvoids
  <2>6. \A i \in 2 .. Len(Tail(s)) : Tail(s)[i] \notin Y
    <3> TAKE i \in 2 .. Len(Tail(s))
    <3>1. i \in 1 .. Len(s) - 1 /\ i + 1 \in 3 .. Len(s)
      BY <2>1, <2>2
    <3> QED
      BY <1>1, <2>2, <3>1
  <2>7. Elements(Tail(Tail(s))) \cap Y = {}
    BY <2>2, <2>3, <2>6, RestAvoids
  <2>8. Tail(Tail(s))[Len(Tail(Tail(s)))] = s[Len(s)]
    <3>1. n - 2 \in 1 .. n - 2 /\ n - 2 + 1 \in 1 .. n - 1 /\ n - 2 + 1 + 1 = n
      <4> HIDE DEF n
      <4> QED
        BY <2>0
    <3> QED
      BY <2>2, <2>4, <3>1
  <2> QED
    BY <1>1, <2>2, <2>3, <2>5, <2>7, <2>8 DEF AfterLookUp, NeedsHash, NeedsKey, X, Y
<1>2. /\ Len(SuspendCalls) = 7 /\ SuspendCalls[2] \notin X /\ SuspendCalls[7] # "drop challenges"
      /\ \A i \in {3, 4, 5, 6, 7} : SuspendCalls[i] \notin Y
  BY DEF SuspendCalls, Finding
<1>3. /\ Len(AdminDeleteCalls) = 6 /\ AdminDeleteCalls[2] \notin X
      /\ AdminDeleteCalls[6] # "drop challenges"
      /\ \A i \in {3, 4, 5, 6} : AdminDeleteCalls[i] \notin Y
  BY DEF AdminDeleteCalls, Finding
<1>4. X \subseteq Y
  OBVIOUS
<1>5. /\ \A i \in 3 .. 7 : i \in {3, 4, 5, 6, 7}
      /\ \A i \in 3 .. 6 : i \in {3, 4, 5, 6}
      /\ \A i \in 2 .. 7 : i = 2 \/ i \in 3 .. 7
      /\ \A i \in 2 .. 6 : i = 2 \/ i \in 3 .. 6
  OBVIOUS
<1> HIDE DEF X, Y
<1>6. AfterLookUp(SuspendCalls)
  BY <1>1, <1>2, <1>4, <1>5, Plans
<1>7. AfterLookUp(AdminDeleteCalls)
  BY <1>1, <1>3, <1>4, <1>5, Plans
<1> QED
  BY <1>6, <1>7

LEMMA ArriveIInv ==
  ASSUME IInv, NEW r \in Req, Arrive(r)
  PROVE  IInv'
<1>1. ASSUME NEW n \in Name, Register(r, n) \/ Suspend(r, n) \/ AdminDelete(r, n)
      PROVE  IInv'
  BY <1>1, BeginIInv, Plans
     DEF Register, Suspend, AdminDelete, RegisterCalls, SuspendCalls, AdminDeleteCalls
<1>2. ASSUME NEW k \in Key, ClearAddresses(r, k) \/ Unregister(r, k)
      PROVE  IInv'
  BY <1>2, BeginIInv, PlansOfKeys, NoneAssumption
     DEF ClearAddresses, Unregister, ClearCalls, UnregisterCalls
<1>3. ASSUME NEW k \in Key, NEW what \in Family \cup {"challenge"}, Update(r, k, what)
      PROVE  IInv'
  BY <1>3, BeginIInv, PlansOfKeys, NoneAssumption DEF Update, UpdateCalls
<1> QED
  BY <1>1, <1>2, <1>3 DEF Arrive
-----------------------------------------------------------------------------
(* The calls that find what a request acts for.                            *)
LEMMA AtCheckName ==
  ASSUME IInv, NEW r \in Req, Calling(r, "exists")
  PROVE  /\ job[r] \in Job /\ job[r].todo = RegisterCalls /\ job[r].name \in Name
         /\ job[r].at <= now
<1> USE DEF IInv
<1>1. job[r] # None /\ Sound(job[r]) /\ Head(job[r].todo) = "exists"
  BY DEF Calling, JobsAreSound
<1>2. job[r].todo \in Seq(Calls) /\ job[r].todo # <<>>
  BY <1>1 DEF Sound, Job
<1>3. Head(job[r].todo) \in Elements(job[r].todo)
  BY <1>2, TailOfCalls
<1>4. ~ Found(job[r])
  BY <1>1, <1>3 DEF Found, Finding
<1> QED
  BY <1>1, <1>4, Plans DEF Sound

LEMMA CheckNameIInv ==
  ASSUME IInv, NEW r \in Req, CheckName(r)
  PROVE  IInv'
<1> USE DEF IInv
<1>1. /\ job[r] \in Job /\ job[r].todo = RegisterCalls /\ job[r].name \in Name
      /\ job[r].at <= now
  BY AtCheckName DEF CheckName
<1>2. CASE Return(r) /\ UNCHANGED home
  <2>1. UNCHANGED <<now, reg, owner, ip, chal, home, deleted, arrived>>
    BY <1>2 DEF CheckName
  <2>2. job' \in [Req -> Job \cup {None}] /\ JobsAreSound'
    BY <1>2, <2>1, SoundStays, ModeAssumption
       DEF Return, TypeOK, JobsAreSound, HomeGrows
  <2> QED
    BY <2>1, <2>2 DEF TypeOK, KeysStayWithTheirName, LastsAsLongAsShown, Expires
<1>3. ASSUME NEW k \in Key, home[k] = None, home' = [home EXCEPT ![k] = job[r].name],
             Continue(r, [job[r] EXCEPT !.key = k, !.hash = k])
      PROVE  IInv'
  <2> DEFINE j == [job[r] EXCEPT !.key = k, !.hash = k]
  <2>1. /\ j \in Job /\ j.todo = RegisterCalls /\ j.name = job[r].name /\ j.key = k
        /\ j.hash = k /\ j.at = job[r].at
    BY <1>1 DEF Job
  <2>2. Continue(r, j) /\ UNCHANGED <<now, reg, owner, ip, chal, deleted, arrived>>
    BY <1>3 DEF CheckName
  <2> HIDE DEF j
  <2>3. HomeGrows /\ home'[k] = job[r].name /\ home' \in [Key -> Name \cup {None}]
    BY <1>1, <1>3 DEF TypeOK, HomeGrows
  <2>4. job' \in [Req -> Job \cup {None}] /\ JobsAreSound'
    BY <1>1, <2>1, <2>2, <2>3, Plans, RegisterRest, NoneAssumption, Proceed
  <2>5. KeysStayWithTheirName'
    <3>1. \A i \in Key, n \in Name : home[i] = n => home'[i] = n
      BY <2>3, NoneAssumption DEF HomeGrows
    <3>2. \A i \in Key : owner[i] # None => owner[i].name \in Name
      BY DEF TypeOK
    <3>3. \A n \in Name : reg[n] # None => reg[n].hash \in Key \cup {None}
      BY DEF TypeOK, RegRecord
    <3>4. \A n \in Name, f \in Family : ip[n][f] # None => ip[n][f].by \in Key
      BY DEF TypeOK
    <3>5. \A n \in Name : \A c \in chal[n] : c.by \in Key
      BY DEF TypeOK
    <3> QED
      BY <2>2, <3>1, <3>2, <3>3, <3>4, <3>5 DEF KeysStayWithTheirName
  <2> QED
    BY <2>2, <2>3, <2>4, <2>5 DEF TypeOK, LastsAsLongAsShown, Expires
<1> QED
  BY <1>2, <1>3 DEF CheckName

LEMMA AtFindName ==
  ASSUME IInv, NEW r \in Req, Calling(r, "find")
  PROVE  /\ job[r] \in Job /\ job[r].todo \in Seq(Calls) /\ job[r].todo # <<>>
         /\ Elements(Tail(job[r].todo)) \cap Finding = {}
         /\ job[r].key \in Key /\ job[r].key # None /\ job[r].hash = job[r].key
         /\ job[r].at <= now
<1> USE DEF IInv
<1>1. job[r] # None /\ Sound(job[r]) /\ Head(job[r].todo) = "find"
  BY DEF Calling, JobsAreSound
<1>2. job[r].todo \in Seq(Calls) /\ job[r].todo # <<>> /\ job[r] \in Job
      /\ job[r].key \in Key \cup {None}
  BY <1>1 DEF Sound, Job
<1>3. Head(job[r].todo) \in Elements(job[r].todo)
  BY <1>2, TailOfCalls
<1>4. ~ Found(job[r])
  BY <1>1, <1>3 DEF Found, Finding
<1> QED
  BY <1>1, <1>2, <1>4, Plans DEF Sound

LEMMA FindNameIInv ==
  ASSUME IInv, NEW r \in Req, FindName(r)
  PROVE  IInv'
<1> USE DEF IInv
<1>1. /\ job[r] \in Job /\ job[r].todo \in Seq(Calls) /\ job[r].todo # <<>>
      /\ Elements(Tail(job[r].todo)) \cap Finding = {}
      /\ job[r].key \in Key /\ job[r].key # None /\ job[r].hash = job[r].key
      /\ job[r].at <= now
  BY AtFindName DEF FindName
<1>2. UNCHANGED <<now, reg, owner, ip, chal, home, deleted, arrived>>
  BY DEF FindName
<1>3. job' \in [Req -> Job \cup {None}] /\ JobsAreSound'
  <2>1. CASE Return(r)
    BY <1>2, <2>1, SoundStays, ModeAssumption
       DEF Return, TypeOK, JobsAreSound, HomeGrows
  <2>2. CASE /\ owner[job[r].key] # None
             /\ Continue(r, [job[r] EXCEPT !.name = owner[job[r].key].name])
    <3> DEFINE j == [job[r] EXCEPT !.name = owner[job[r].key].name]
    <3>1. owner[job[r].key].name \in Name /\ owner[job[r].key].name = home[job[r].key]
      BY <1>1, <2>2 DEF TypeOK, KeysStayWithTheirName
    <3>2. /\ j \in Job /\ j.todo = job[r].todo /\ j.name = owner[job[r].key].name
          /\ j.key = job[r].key /\ j.hash = job[r].hash /\ j.at = job[r].at
      BY <1>1, <3>1 DEF Job
    <3>3. Continue(r, j)
      BY <2>2
    <3> HIDE DEF j
    <3> QED
      BY <1>1, <1>2, <3>1, <3>2, <3>3, Proceed DEF HomeGrows
  <2> QED
    BY <2>1, <2>2 DEF FindName
<1> QED
  BY <1>2, <1>3 DEF TypeOK, KeysStayWithTheirName, LastsAsLongAsShown, Expires

LEMMA AtLookUp ==
  ASSUME IInv, NEW r \in Req, Calling(r, "lookup")
  PROVE  /\ job[r] \in Job /\ job[r].todo \in {SuspendCalls, AdminDeleteCalls}
         /\ job[r].name \in Name /\ job[r].at <= now
<1> USE DEF IInv
<1>1. job[r] # None /\ Sound(job[r]) /\ Head(job[r].todo) = "lookup"
  BY DEF Calling, JobsAreSound
<1>2. job[r].todo \in Seq(Calls) /\ job[r].todo # <<>>
  BY <1>1 DEF Sound, Job
<1>3. Head(job[r].todo) \in Elements(job[r].todo)
  BY <1>2, TailOfCalls
<1>4. ~ Found(job[r])
  BY <1>1, <1>3 DEF Found, Finding
<1> QED
  BY <1>1, <1>4, Plans DEF Sound

LEMMA LookUpIInv ==
  ASSUME IInv, NEW r \in Req, LookUp(r)
  PROVE  IInv'
<1> USE DEF IInv
<1> DEFINE found == reg[job[r].name]
           j == [job[r] EXCEPT !.key = found.hash, !.hash = None]
<1>1. /\ job[r] \in Job /\ job[r].todo \in {SuspendCalls, AdminDeleteCalls}
      /\ job[r].name \in Name /\ job[r].at <= now
  BY AtLookUp DEF LookUp
<1>2. UNCHANGED <<now, reg, owner, ip, chal, home, deleted, arrived>>
  BY DEF LookUp
<1>3. AfterLookUp(job[r].todo)
  BY <1>1, AdminRest
<1>4. job' \in [Req -> Job \cup {None}] /\ JobsAreSound'
  <2>1. CASE Return(r)
    BY <1>2, <2>1, SoundStays, ModeAssumption
       DEF Return, TypeOK, JobsAreSound, HomeGrows
  <2>2. ASSUME found # None
        PROVE  /\ j \in Job /\ j.todo = job[r].todo /\ j.name = job[r].name
               /\ j.key = found.hash /\ j.hash = None /\ j.at = job[r].at
               /\ j.key # None => home[j.key] = j.name
    <3>1. found.hash \in Key \cup {None} /\ (found.hash # None => home[found.hash] = job[r].name)
      BY <1>1, <2>2 DEF TypeOK, RegRecord, KeysStayWithTheirName
    <3> QED
      BY <1>1, <3>1 DEF Job
  <2>3. CASE found # None /\ found.hash # None /\ Continue(r, j)
    <3>1. /\ j \in Job /\ j.todo = job[r].todo /\ j.name = job[r].name
          /\ j.key # None /\ j.hash = None /\ j.at = job[r].at
          /\ home[j.key] = j.name /\ Continue(r, j)
      BY <2>2, <2>3
    <3> HIDE DEF j
    <3> QED
      BY <1>1, <1>2, <1>3, <3>1, Plans, Proceed, SMTT(30) DEF AfterLookUp, HomeGrows
  <2>4. CASE found # None /\ found.hash = None /\ Continue(r, [j EXCEPT !.todo = Tail(@)])
    <3> DEFINE i == [j EXCEPT !.todo = Tail(@)]
    <3>1. Tail(job[r].todo) \in Seq(Calls)
      BY <1>3 DEF AfterLookUp
    <3>2. /\ i \in Job /\ i.todo = Tail(job[r].todo) /\ i.name = job[r].name
          /\ i.key = None /\ i.hash = None /\ i.at = job[r].at
      <4>1. j \in Job /\ j.name = job[r].name /\ j.key = None /\ j.hash = None
            /\ j.at = job[r].at /\ j.todo = job[r].todo
        BY <2>2, <2>4
      <4> HIDE DEF j
      <4> QED  BY <3>1, <4>1 DEF Job
    <3>3. Continue(r, i)
      BY <2>4
    <3> HIDE DEF i
    <3> QED
      BY <1>1, <1>2, <1>3, <3>2, <3>3, Proceed DEF AfterLookUp, HomeGrows
  <2> QED
    BY <2>1, <2>3, <2>4 DEF LookUp
<1> QED
  BY <1>2, <1>4 DEF TypeOK, KeysStayWithTheirName, LastsAsLongAsShown, Expires
-----------------------------------------------------------------------------
(* The calls that act.                                                     *)
LEMMA LoadIInv ==
  ASSUME IInv, NEW r \in Req, Load(r)
  PROVE  IInv'
<1> USE DEF IInv
<1>1. job[r] # None /\ Head(job[r].todo) \notin Finding
  BY DEF Load, Calling, Finding
<1>2. UNCHANGED <<now, reg, owner, ip, chal, home, deleted, arrived>>
  BY DEF Load
<1> DEFINE seen == IF reg[job[r].name] = None THEN None ELSE reg[job[r].name].created
           j == [job[r] EXCEPT !.seen = seen, !.at = now]
<1>3. /\ job[r] \in Job /\ job[r].todo \in Seq(Calls) /\ job[r].todo # <<>>
      /\ Found(job[r]) /\ now \in Nat
  <2>1. Sound(job[r]) /\ now \in Nat
    BY <1>1, ModeAssumption DEF JobsAreSound, TypeOK
  <2>2. Found(job[r])
    BY <1>1, <2>1, Plans DEF Sound, Finding
  <2> QED
    BY <2>1, <2>2 DEF Sound, Job
<1>4. seen \in Nat \cup {None}
  BY <1>3 DEF Found, TypeOK, RegRecord
<1>5. /\ j \in Job /\ j.todo = job[r].todo /\ j.name = job[r].name /\ j.key = job[r].key
      /\ j.hash = job[r].hash /\ j.at = now
  <2> HIDE DEF seen
  <2> QED
    BY <1>3, <1>4 DEF Job
<1>6. Continue(r, j)
  BY DEF Load
<1> HIDE DEF j
<1>7. Len(j.todo) # 1 =>
         /\ Elements(Tail(j.todo)) \cap Finding = {}
         /\ NeedsKey(Tail(j.todo)) => j.key # None
         /\ NeedsHash(Tail(j.todo)) => j.hash # None
  BY <1>3, <1>5, TailOfCalls DEF Found
<1>8. job' \in [Req -> Job \cup {None}] /\ JobsAreSound'
  BY <1>2, <1>3, <1>5, <1>6, <1>7, Proceed DEF Found, HomeGrows
<1> QED
  BY <1>2, <1>8 DEF TypeOK, KeysStayWithTheirName, LastsAsLongAsShown, Expires

LEMMA SetRegIInv ==
  ASSUME IInv, NEW r \in Req, SetReg(r)
  PROVE  IInv'
<1> USE DEF IInv
<1>1. /\ job[r] # None /\ Head(job[r].todo) \notin Finding /\ Continue(r, job[r])
      /\ UNCHANGED <<now, owner, ip, chal, home, deleted, arrived>>
  BY DEF SetReg, Calling, Finding
<1>2. job' \in [Req -> Job \cup {None}] /\ JobsAreSound'
  BY <1>1, ProceedFound
<1> DEFINE j == job[r]
           t == TtlFor(j.seen)
           created == IF j.seen = None THEN j.at ELSE j.seen
           x == [created |-> created, updated |-> j.at, hash |-> j.hash, exp |-> now + t]
<1>3. /\ j.name \in Name /\ j.at \in Nat /\ now \in Nat /\ j.at <= now
      /\ j.hash \in Key \cup {None} /\ j.seen \in Nat \cup {None}
      /\ j.hash # None => home[j.hash] = j.name
  BY <1>1, Acting DEF Job
<1>4. /\ t \in Nat /\ PendingTtl \in Nat /\ RegistrationTtl \in Nat
      /\ PendingTtl <= t /\ t <= RegistrationTtl
      /\ created \in Nat /\ (created # j.at => t = RegistrationTtl)
  BY <1>3, TtlAssumption DEF TtlFor
<1>5. reg' = [reg EXCEPT ![j.name] = x]
  BY DEF SetReg
<1> HIDE DEF t, created, j
<1>6. /\ x.created = created /\ x.updated = j.at /\ x.hash = j.hash
      /\ x.exp = now + t /\ x \in RegRecord
  BY <1>3, <1>4 DEF RegRecord
<1>7. Expires(x) <= x.exp
  <2> DEFINE a == j.at
  <2>1. a \in Nat /\ a <= now /\ x.updated = a
    BY <1>3, <1>6
  <2> HIDE DEF a, x
  <2>2. a + PendingTtl <= now + t /\ (t = RegistrationTtl => a + RegistrationTtl <= now + t)
    BY <1>3, <1>4, <2>1
  <2> QED
    BY <1>4, <1>6, <2>1, <2>2 DEF Expires
<1> HIDE DEF x
<1>8. KeysStayWithTheirName'
  BY <1>1, <1>3, <1>5, <1>6 DEF KeysStayWithTheirName, TypeOK
<1>9. LastsAsLongAsShown'
  BY <1>1, <1>3, <1>5, <1>7 DEF LastsAsLongAsShown, TypeOK, Expires
<1> QED
  BY <1>1, <1>2, <1>3, <1>5, <1>6, <1>8, <1>9 DEF TypeOK

LEMMA SetHashIInv ==
  ASSUME IInv, NEW r \in Req, SetHash(r)
  PROVE  IInv'
<1> USE DEF IInv
<1>1. /\ job[r] # None /\ Head(job[r].todo) = "setHash" /\ Head(job[r].todo) \notin Finding
      /\ Continue(r, job[r]) /\ UNCHANGED <<now, reg, ip, chal, home, deleted, arrived>>
  BY DEF SetHash, Calling, Finding
<1>2. job' \in [Req -> Job \cup {None}] /\ JobsAreSound'
  BY <1>1, ProceedFound
<1> DEFINE j == job[r]
           x == [name |-> j.name, exp |-> now + TtlFor(j.seen)]
<1>3. /\ j.name \in Name /\ now \in Nat /\ j.hash \in Key /\ home[j.hash] = j.name
      /\ TtlFor(j.seen) \in Nat
  BY <1>1, Acting, TtlAssumption DEF TtlFor
<1>4. owner' = [owner EXCEPT ![j.hash] = x]
  BY DEF SetHash
<1>5. x \in [name : Name, exp : Nat] /\ x.name = j.name
  <2> HIDE DEF j
  <2> QED
    BY <1>3
<1> HIDE DEF x
<1>6. KeysStayWithTheirName'
  BY <1>1, <1>3, <1>4, <1>5 DEF KeysStayWithTheirName, TypeOK
<1> QED
  BY <1>1, <1>2, <1>3, <1>4, <1>5, <1>6 DEF TypeOK, LastsAsLongAsShown, Expires

LEMMA SetAddressIInv ==
  ASSUME IInv, NEW r \in Req, SetAddress(r)
  PROVE  IInv'
<1> USE DEF IInv
<1> DEFINE j == job[r]
           x == [by |-> j.key, exp |-> now + AddressTtl]
<1>1. PICK f \in Family : Calling(r, f) /\ ip' = [ip EXCEPT ![j.name][f] = x]
  BY DEF SetAddress
<1>2. /\ job[r] # None /\ Head(job[r].todo) \in {"ip4", "ip6"}
      /\ Head(job[r].todo) \notin Finding
      /\ Continue(r, job[r]) /\ UNCHANGED <<now, reg, owner, chal, home, deleted, arrived>>
  BY <1>1 DEF SetAddress, Calling, Family, Finding
<1>3. job' \in [Req -> Job \cup {None}] /\ JobsAreSound'
  BY <1>2, ProceedFound
<1>4. /\ j.name \in Name /\ now \in Nat /\ j.key \in Key /\ home[j.key] = j.name
      /\ AddressTtl \in Nat
  BY <1>2, Acting, TtlAssumption
<1>5. x \in [by : Key, exp : Nat] /\ x.by = j.key
  <2> HIDE DEF j
  <2> QED
    BY <1>4
<1> HIDE DEF x
<1>6. ip' \in [Name -> [Family -> [by : Key, exp : Nat] \cup {None}]]
  BY <1>1, <1>4, <1>5 DEF TypeOK
<1>7. KeysStayWithTheirName'
  BY <1>1, <1>2, <1>4, <1>5 DEF KeysStayWithTheirName, TypeOK
<1> QED
  BY <1>2, <1>3, <1>6, <1>7 DEF TypeOK, LastsAsLongAsShown, Expires

LEMMA AddChallengeIInv ==
  ASSUME IInv, NEW r \in Req, AddChallenge(r)
  PROVE  IInv'
<1> USE DEF IInv
<1> DEFINE j == job[r]
           x == [by |-> j.key, exp |-> now + ChallengeTtl]
<1>1. /\ job[r] # None /\ Head(job[r].todo) = "challenge" /\ Head(job[r].todo) \notin Finding
      /\ Continue(r, job[r]) /\ UNCHANGED <<now, reg, owner, ip, home, deleted, arrived>>
      /\ chal' = [chal EXCEPT ![j.name] = @ \cup {x}]
  BY DEF AddChallenge, Calling, Finding
<1>2. job' \in [Req -> Job \cup {None}] /\ JobsAreSound'
  BY <1>1, ProceedFound
<1>3. /\ j.name \in Name /\ now \in Nat /\ j.key \in Key /\ home[j.key] = j.name
      /\ ChallengeTtl \in Nat
  BY <1>1, Acting, TtlAssumption
<1>4. x \in [by : Key, exp : Nat] /\ x.by = j.key
  <2> HIDE DEF j
  <2> QED
    BY <1>3
<1> HIDE DEF x
<1>5. chal' \in [Name -> SUBSET [by : Key, exp : Nat]]
  BY <1>1, <1>3, <1>4 DEF TypeOK
<1>6. KeysStayWithTheirName'
  BY <1>1, <1>3, <1>4 DEF KeysStayWithTheirName, TypeOK
<1> QED
  BY <1>1, <1>2, <1>5, <1>6 DEF TypeOK, LastsAsLongAsShown, Expires

LEMMA DropIInv ==
  ASSUME IInv, NEW r \in Req,
         DropAddress(r) \/ DropReg(r) \/ DropHash(r) \/ DropChallenges(r)
  PROVE  IInv'
<1> USE DEF IInv
<1>1. /\ job[r] # None /\ Head(job[r].todo) \notin Finding /\ Continue(r, job[r])
      /\ UNCHANGED <<now, home, arrived>>
  BY DEF DropAddress, DropReg, DropHash, DropChallenges, Calling, Finding, DropOf
<1>2. job' \in [Req -> Job \cup {None}] /\ JobsAreSound'
  BY <1>1, ProceedFound
<1>3. job[r].name \in Name /\ job[r].key \in Key \cup {None}
  BY <1>1, Acting DEF Job
<1>4. CASE DropAddress(r)
  <2>1. PICK f \in Family : ip' = [ip EXCEPT ![job[r].name][f] = None]
    BY <1>4 DEF DropAddress
  <2>2. UNCHANGED <<reg, owner, chal, deleted>>
    BY <1>4 DEF DropAddress
  <2>3. ip' \in [Name -> [Family -> [by : Key, exp : Nat] \cup {None}]]
        /\ \A n \in Name, g \in Family : ip'[n][g] # None => ip'[n][g] = ip[n][g]
    BY <1>3, <2>1 DEF TypeOK
  <2>4. KeysStayWithTheirName'
    BY <1>1, <2>2, <2>3 DEF KeysStayWithTheirName
  <2> QED
    BY <1>1, <1>2, <2>2, <2>3, <2>4 DEF TypeOK, LastsAsLongAsShown, Expires
<1>5. CASE DropReg(r)
  <2>1. reg' = [reg EXCEPT ![job[r].name] = None] /\ UNCHANGED <<owner, ip, chal, deleted>>
    BY <1>5 DEF DropReg
  <2>2. reg' \in [Name -> RegRecord \cup {None}]
        /\ \A n \in Name : reg'[n] # None => reg'[n] = reg[n]
    BY <1>3, <2>1 DEF TypeOK
  <2> DEFINE new == reg'
  <2>3. \A n \in Name : new[n] # None => new[n] = reg[n]
    BY <2>2
  <2>4. KeysStayWithTheirName'
    <3> HIDE DEF new
    <3>1. \A n \in Name : new[n] # None /\ new[n].hash # None => home[new[n].hash] = n
      BY <2>3 DEF KeysStayWithTheirName
    <3> QED
      BY <1>1, <2>1, <3>1 DEF KeysStayWithTheirName, new
  <2> QED
    BY <1>1, <1>2, <2>1, <2>2, <2>4 DEF TypeOK, LastsAsLongAsShown, Expires
<1>6. CASE DropHash(r)
  <2>1. owner' = [owner EXCEPT ![job[r].key] = None] /\ UNCHANGED <<reg, ip, chal, deleted>>
    BY <1>6 DEF DropHash
  <2>2. owner' \in [Key -> [name : Name, exp : Nat] \cup {None}]
        /\ \A k \in Key : owner'[k] # None => owner'[k] = owner[k]
    BY <1>3, <2>1 DEF TypeOK
  <2> DEFINE new == owner'
  <2>3. \A k \in Key : new[k] # None => new[k] = owner[k]
    BY <2>2
  <2>4. KeysStayWithTheirName'
    <3> HIDE DEF new
    <3>1. \A k \in Key : new[k] # None => new[k].name = home[k]
      BY <2>3 DEF KeysStayWithTheirName
    <3> QED
      BY <1>1, <2>1, <3>1 DEF KeysStayWithTheirName, new
  <2> QED
    BY <1>1, <1>2, <2>1, <2>2, <2>4 DEF TypeOK, LastsAsLongAsShown, Expires
<1>7. CASE DropChallenges(r)
  <2>1. /\ chal' = [chal EXCEPT ![job[r].name] = {}] /\ UNCHANGED <<reg, owner, ip>>
        /\ deleted' = IF Len(job[r].todo) = 1 THEN deleted \cup {job[r].key} ELSE deleted
        /\ Head(job[r].todo) = "drop challenges"
    BY <1>7 DEF DropChallenges, Calling
  <2>2. chal' \in [Name -> SUBSET [by : Key, exp : Nat]]
        /\ \A n \in Name : chal'[n] \subseteq chal[n]
    BY <1>3, <2>1 DEF TypeOK
  <2>3. deleted' \subseteq Key
    BY <1>1, <1>3, <2>1, Acting DEF TypeOK
  <2> DEFINE new == chal'
  <2>4. KeysStayWithTheirName'
    <3>1. \A n \in Name : \A c \in new[n] : home[c.by] = n
      BY <2>2 DEF KeysStayWithTheirName
    <3> HIDE DEF new
    <3> QED
      BY <1>1, <2>1, <3>1 DEF KeysStayWithTheirName, new
  <2> QED
    BY <1>1, <1>2, <2>1, <2>2, <2>3, <2>4 DEF TypeOK, LastsAsLongAsShown, Expires
<1> QED
  BY <1>4, <1>5, <1>6, <1>7

LEMMA FailIInv ==
  ASSUME IInv, NEW r \in Req, Fail(r)
  PROVE  IInv'
<1> USE DEF IInv
<1>1. job' = [job EXCEPT ![r] = None]
      /\ UNCHANGED <<now, reg, owner, ip, chal, home, deleted, arrived>>
  BY DEF Fail, Return
<1>2. job' \in [Req -> Job \cup {None}] /\ JobsAreSound'
  BY <1>1, SoundStays, ModeAssumption DEF TypeOK, JobsAreSound, HomeGrows
<1> QED
  BY <1>1, <1>2 DEF TypeOK, KeysStayWithTheirName, LastsAsLongAsShown, Expires

LEMMA TickIInv ==
  ASSUME IInv, Tick
  PROVE  IInv'
<1> USE DEF IInv
<1>1. /\ now' = now + 1 /\ now < MaxTime /\ UNCHANGED <<home, deleted, job, arrived>>
      /\ reg' = [n \in Name |-> Kept(reg[n])]
      /\ owner' = [k \in Key |-> Kept(owner[k])]
      /\ ip' = [n \in Name |-> [f \in Family |-> Kept(ip[n][f])]]
      /\ chal' = [n \in Name |-> {c \in chal[n] : Kept(c) = c}]
  BY DEF Tick
<1>2. now \in Nat /\ now' \in 0 .. MaxTime /\ now <= now' /\ now' \in Nat
  BY <1>1, ModeAssumption DEF TypeOK
<1>3. JobsAreSound'
  BY <1>1, <1>2, SoundStays DEF JobsAreSound, HomeGrows
<1>4. \A x : Kept(x) = x \/ Kept(x) = None
  BY DEF Kept
<1>5. /\ \A n \in Name : reg'[n] = reg[n] \/ reg'[n] = None
      /\ \A k \in Key : owner'[k] = owner[k] \/ owner'[k] = None
      /\ \A n \in Name, f \in Family : ip'[n][f] = ip[n][f] \/ ip'[n][f] = None
      /\ \A n \in Name : chal'[n] \subseteq chal[n]
  BY <1>1, <1>4
<1>6. TypeOK'
  <2>1. reg' \in [Name -> RegRecord \cup {None}]
    BY <1>1, <1>4 DEF TypeOK
  <2>2. owner' \in [Key -> [name : Name, exp : Nat] \cup {None}]
    BY <1>1, <1>4 DEF TypeOK
  <2>3. ip' \in [Name -> [Family -> [by : Key, exp : Nat] \cup {None}]]
    BY <1>1, <1>4 DEF TypeOK
  <2>4. chal' \in [Name -> SUBSET [by : Key, exp : Nat]]
    BY <1>1 DEF TypeOK
  <2> QED
    BY <1>1, <1>2, <2>1, <2>2, <2>3, <2>4 DEF TypeOK
<1>7. KeysStayWithTheirName'
  BY <1>1, <1>5 DEF KeysStayWithTheirName
<1>8. LastsAsLongAsShown'
  BY <1>5 DEF LastsAsLongAsShown, Expires
<1> QED
  BY <1>3, <1>6, <1>7, <1>8

LEMMA NextIInv == IInv /\ [Next]_vars => IInv'
<1> SUFFICES ASSUME IInv, [Next]_vars PROVE IInv'
  OBVIOUS
<1>1. CASE UNCHANGED vars
  BY <1>1 DEF IInv, TypeOK, JobsAreSound, Sound, Found, KeysStayWithTheirName,
     LastsAsLongAsShown, Expires, vars
<1>2. CASE Tick
  BY <1>2, TickIInv
<1>3. ASSUME NEW r \in Req, StoreCall(r)
      PROVE  IInv'
  BY <1>3, CheckNameIInv, FindNameIInv, LookUpIInv, LoadIInv, SetRegIInv, SetHashIInv,
     SetAddressIInv, AddChallengeIInv, DropIInv, FailIInv DEF StoreCall
<1>4. ASSUME NEW r \in Req, Arrive(r)
      PROVE  IInv'
  BY <1>4, ArriveIInv
<1> QED
  BY <1>1, <1>2, <1>3, <1>4 DEF Next

(* The inductive invariant of every mode.                                  *)
THEOREM IInvHolds == Spec => []IInv
<1>1. Init => IInv
  BY InitIInv
<1>2. IInv /\ [Next]_vars => IInv'
  BY NextIInv
<1> QED
  BY <1>1, <1>2, PTL DEF Spec

(* The store holds what the handlers read from it: records with or without *)
(* a hash, names of keys, addresses and challenges of a key.               *)
THEOREM TypeCorrect == Spec => []TypeOK
BY IInvHolds, PTL DEF IInv

(* A key opens the name it was issued for and no other, and only its       *)
(* addresses and challenges are written there, whatever requests are       *)
(* interleaved and whichever store calls fail.                             *)
THEOREM KeysStay == Spec => []KeysStayWithTheirName
BY IInvHolds, PTL DEF IInv

(* A registration lasts for at least as long as is shown (Expires).        *)
THEOREM LastsAsShown == Spec => []LastsAsLongAsShown
BY IInvHolds, PTL DEF IInv

-----------------------------------------------------------------------------
(* One request after the other, none of its store calls fails, and the     *)
(* clock stands while it is served.                                        *)
Sequential == Instant /\ ~ MayFail /\ \A r, s \in Req : r = s

HasKey(n, k) == owner[k] # None /\ owner[k].name = n

(* Everything that is stored for the name is the key's and is gone by t.   *)
HeldBy(n, k, t) ==
    /\ \A i \in Key : HasKey(n, i) => i = k /\ owner[i].exp <= t
    /\ \A f \in Family : ip[n][f] # None => ip[n][f].by = k /\ ip[n][f].exp <= t
    /\ \A c \in chal[n] : c.by = k /\ c.exp <= t

NoKey(n) == \A k \in Key : ~ HasKey(n, k)
Free(n) == /\ NoKey(n)
           /\ \A f \in Family : ip[n][f] = None
           /\ chal[n] = {}

Settled(n) == /\ reg[n] = None => Free(n)
              /\ reg[n] # None => HeldBy(n, reg[n].hash, reg[n].exp)

(* A key is deleted for good.                                              *)
Dead == \A k \in deleted :
            /\ home[k] # None
            /\ owner[k] = None
            /\ \A n \in Name : reg[n] # None => reg[n].hash # k

RegsEnd == \A n \in Name : reg[n] # None => reg[n].exp <= now + RegistrationTtl

(* The request has the calls of p from the i-th on still to make.          *)
At(j, p, i) == j.todo = SubSeq(p, i, Len(p))

Updates == {UpdateCalls(what) : what \in Family \cup {"challenge"}}
Writing == {RegisterCalls} \cup Updates
Admin == {SuspendCalls, AdminDeleteCalls}
AllPlans == Writing \cup Admin \cup {ClearCalls, UnregisterCalls}

(* The request has the key of the registration there is.                   *)
Holder(j) == reg[j.name] # None /\ reg[j.name].hash = j.key /\ j.key \in Key \ deleted

(* What a request that writes a record and a hash has behind it.           *)
Held(j, none) == /\ j.key \in Key \ deleted /\ j.hash = j.key
                 /\ IF none THEN Free(j.name)
                            ELSE HeldBy(j.name, j.key, now + RegistrationTtl)

InWrite(j) ==
    \/ \E p \in Updates : At(j, p, 2) /\ Settled(j.name) /\ Holder(j) /\ j.hash = j.key
    \/ \E p \in Writing : At(j, p, Len(p) - 2) /\ Held(j, reg[j.name] = None)
    \/ \E p \in Writing : At(j, p, Len(p) - 1) /\ Held(j, j.seen = None)
    \/ \E p \in Writing :
          /\ At(j, p, Len(p))
          /\ Holder(j) /\ j.hash = j.key
          /\ reg[j.name].exp = now + TtlFor(j.seen)
          /\ HeldBy(j.name, j.key, now + TtlFor(j.seen))

InUnregister(j) ==
    \/ At(j, UnregisterCalls, 2) /\ Settled(j.name) /\ Holder(j)
    \/ At(j, UnregisterCalls, 3) /\ Settled(j.name) /\ Holder(j) /\ ip[j.name]["ip4"] = None
    \/ /\ At(j, UnregisterCalls, 4) /\ Settled(j.name) /\ Holder(j)
       /\ \A f \in Family : ip[j.name][f] = None
    \/ /\ At(j, UnregisterCalls, 5) /\ reg[j.name] = None /\ j.key \in Key \ deleted
       /\ \A f \in Family : ip[j.name][f] = None
       /\ \A i \in Key : HasKey(j.name, i) => i = j.key
    \/ /\ At(j, UnregisterCalls, 6) /\ reg[j.name] = None /\ j.key \in Key \ deleted
       /\ \A f \in Family : ip[j.name][f] = None
       /\ NoKey(j.name)

InAdmin(j) ==
    \/ \E p \in Admin :
          /\ At(j, p, 2) /\ Settled(j.name)
          /\ reg[j.name] # None /\ reg[j.name].hash = j.key /\ j.key # None
    \/ \E p \in Admin : At(j, p, 3) /\ NoKey(j.name)
    \/ \E p \in Admin : At(j, p, 4) /\ NoKey(j.name) /\ ip[j.name]["ip4"] = None
    \/ \E p \in Admin : /\ At(j, p, 5) /\ NoKey(j.name)
                        /\ \A f \in Family : ip[j.name][f] = None
    \/ /\ At(j, SuspendCalls, 6) \/ At(j, SuspendCalls, 7) \/ At(j, AdminDeleteCalls, 6)
       /\ Free(j.name)

InClear(j) == (At(j, ClearCalls, 2) \/ At(j, ClearCalls, 3)) /\ Settled(j.name)

Stage(j) ==
    /\ \A n \in Name \ {j.name} : Settled(n)
    /\ \/ \E p \in AllPlans : At(j, p, 1) /\ \A n \in Name : Settled(n)
       \/ InWrite(j)
       \/ InUnregister(j)
       \/ InAdmin(j) /\ j.hash = None
       \/ InClear(j)

SInv == /\ Dead /\ RegsEnd
        /\ Idle => \A n \in Name : Settled(n)
        /\ \A r \in Req : job[r] # None => Stage(job[r])

-----------------------------------------------------------------------------
(* The calls of each plan.                                                 *)
LEMMA PlansAreCalls == AllPlans \subseteq Seq(Calls)
BY Plans, PlansOfKeys DEF AllPlans, Writing, Updates, Admin

LEMMA UpdatePlan ==
  ASSUME NEW p \in Updates
  PROVE  /\ p \in AllPlans /\ p \in Writing
         /\ Len(p) = 5 /\ p[1] = "find" /\ p[2] \in {"ip4", "ip6", "challenge"}
         /\ p[3] = "load" /\ p[4] = "setReg" /\ p[5] = "setHash"
<1>1. PICK what \in Family \cup {"challenge"} : p = UpdateCalls(what)
  BY DEF Updates
<1>2. /\ Len(p) = 5 /\ p[1] = "find" /\ p[2] = what
      /\ p[3] = "load" /\ p[4] = "setReg" /\ p[5] = "setHash"
  BY <1>1 DEF UpdateCalls
<1> QED
  BY <1>2 DEF Family, AllPlans, Writing

LEMMA RegisterPlan ==
  /\ RegisterCalls \in AllPlans /\ RegisterCalls \in Writing
  /\ Len(RegisterCalls) = 4 /\ RegisterCalls[1] = "exists" /\ RegisterCalls[2] = "load"
  /\ RegisterCalls[3] = "setReg" /\ RegisterCalls[4] = "setHash"
<1>1. RegisterCalls \in AllPlans /\ RegisterCalls \in Writing
  BY DEF AllPlans, Writing
<1> QED
  BY <1>1 DEF RegisterCalls

LEMMA ClearPlan ==
  /\ ClearCalls \in AllPlans
  /\ Len(ClearCalls) = 3 /\ ClearCalls[1] = "find"
  /\ ClearCalls[2] = "drop ip4" /\ ClearCalls[3] = "drop ip6"
<1>1. ClearCalls \in AllPlans
  BY DEF AllPlans
<1> QED
  BY <1>1 DEF ClearCalls

LEMMA UnregisterPlan ==
  /\ UnregisterCalls \in AllPlans
  /\ Len(UnregisterCalls) = 6 /\ UnregisterCalls[1] = "find"
  /\ UnregisterCalls[2] = "drop ip4" /\ UnregisterCalls[3] = "drop ip6"
  /\ UnregisterCalls[4] = "drop reg" /\ UnregisterCalls[5] = "drop hash"
  /\ UnregisterCalls[6] = "drop challenges"
<1>1. UnregisterCalls \in AllPlans
  BY DEF AllPlans
<1> QED
  BY <1>1 DEF UnregisterCalls

LEMMA SuspendPlan ==
  /\ SuspendCalls \in Admin /\ SuspendCalls \in AllPlans
  /\ Len(SuspendCalls) = 7 /\ SuspendCalls[6] = "load" /\ SuspendCalls[7] = "setReg"
<1>1. SuspendCalls \in Admin /\ SuspendCalls \in AllPlans
  BY DEF AllPlans, Admin
<1> QED
  BY <1>1 DEF SuspendCalls

LEMMA AdminDeletePlan ==
  /\ AdminDeleteCalls \in Admin /\ AdminDeleteCalls \in AllPlans
  /\ Len(AdminDeleteCalls) = 6 /\ AdminDeleteCalls[6] = "drop reg"
<1>1. AdminDeleteCalls \in Admin /\ AdminDeleteCalls \in AllPlans
  BY DEF AllPlans, Admin
<1> QED
  BY <1>1 DEF AdminDeleteCalls

LEMMA AdminPlan ==
  ASSUME NEW p \in Admin
  PROVE  /\ p \in AllPlans /\ (Len(p) = 6 \/ Len(p) = 7)
         /\ p[1] = "lookup" /\ p[2] = "drop hash" /\ p[3] = "drop ip4"
         /\ p[4] = "drop ip6" /\ p[5] = "drop challenges"
<1>1. p = SuspendCalls \/ p = AdminDeleteCalls
  BY DEF Admin
<1>2. /\ SuspendCalls[1] = "lookup" /\ SuspendCalls[2] = "drop hash"
      /\ SuspendCalls[3] = "drop ip4" /\ SuspendCalls[4] = "drop ip6"
      /\ SuspendCalls[5] = "drop challenges"
  BY DEF SuspendCalls
<1>3. /\ AdminDeleteCalls[1] = "lookup" /\ AdminDeleteCalls[2] = "drop hash"
      /\ AdminDeleteCalls[3] = "drop ip4" /\ AdminDeleteCalls[4] = "drop ip6"
      /\ AdminDeleteCalls[5] = "drop challenges"
  BY DEF AdminDeleteCalls
<1> QED
  BY <1>1, <1>2, <1>3, SuspendPlan, AdminDeletePlan

(* The next call of a request, and what is left after it.                  *)
NextAt(j, p, i) == Len(j.todo) # 1 /\ Tail(j.todo) = SubSeq(p, i, Len(p))

LEMMA NextCall ==
  ASSUME NEW j, NEW p \in AllPlans, NEW n \in Nat, Len(p) = n, NEW i \in 1 .. n, At(j, p, i)
  PROVE  /\ Head(j.todo) = p[i] /\ j.todo # <<>>
         /\ i = n => Len(j.todo) = 1
         /\ i # n => NextAt(j, p, i + 1)
<1>1. p \in Seq(Calls) /\ n \in i .. n
  BY PlansAreCalls
<1>2. /\ Head(j.todo) = p[i] /\ Tail(j.todo) = SubSeq(p, i + 1, Len(p))
  BY <1>1, HeadTailOfSubSeq DEF At
<1>3. Len(j.todo) = n - i + 1
  BY <1>1 DEF At
<1>4. j.todo # <<>>
  <2>1. n - i + 1 # 0
    BY <1>1
  <2> QED
    BY <1>3, <2>1
<1> QED
  BY <1>1, <1>2, <1>3, <1>4 DEF NextAt

LEMMA FirstCall ==
  ASSUME NEW j, NEW p \in AllPlans, At(j, p, 1)
  PROVE  Head(j.todo) = p[1] /\ p[1] \in Finding /\ NextAt(j, p, 2)
<1>1. \/ p = RegisterCalls \/ p \in Updates \/ p \in Admin
      \/ p = ClearCalls \/ p = UnregisterCalls
  BY DEF AllPlans, Writing
<1>2. PICK n \in {3, 4, 5, 6, 7} : Len(p) = n
  BY <1>1, UpdatePlan, RegisterPlan, ClearPlan, UnregisterPlan, AdminPlan
<1>3. p[1] \in Finding
  BY <1>1, UpdatePlan, RegisterPlan, ClearPlan, UnregisterPlan, AdminPlan DEF Finding
<1>4. n \in Nat /\ 1 \in 1 .. n /\ 1 # n /\ 1 + 1 = 2
  OBVIOUS
<1> QED
  BY <1>2, <1>3, <1>4, NextCall

LEMMA WriteCalls ==
  ASSUME NEW j
  PROVE  /\ \A p \in Updates : At(j, p, 2) =>
               Head(j.todo) \in {"ip4", "ip6", "challenge"} /\ NextAt(j, p, Len(p) - 2)
         /\ \A p \in Writing : At(j, p, Len(p) - 2) =>
               Head(j.todo) = "load" /\ NextAt(j, p, Len(p) - 1)
         /\ \A p \in Writing : At(j, p, Len(p) - 1) =>
               Head(j.todo) = "setReg" /\ NextAt(j, p, Len(p))
         /\ \A p \in Writing : At(j, p, Len(p)) =>
               Head(j.todo) = "setHash" /\ Len(j.todo) = 1
<1>1. ASSUME NEW p \in Updates, At(j, p, 2)
      PROVE  Head(j.todo) \in {"ip4", "ip6", "challenge"} /\ NextAt(j, p, Len(p) - 2)
  <2>1. p \in AllPlans /\ Len(p) = 5 /\ p[2] \in {"ip4", "ip6", "challenge"}
    BY UpdatePlan
  <2>2. 2 + 1 = 3 /\ 5 - 2 = 3 /\ 2 \in 1 .. 5 /\ 2 # 5
    OBVIOUS
  <2>3. Head(j.todo) = p[2] /\ NextAt(j, p, 3)
    <3> DEFINE n == 5
               i == 2
    <3>1. n \in Nat /\ Len(p) = n /\ i \in 1 .. n /\ i # n /\ At(j, p, i) /\ i + 1 = 3
      BY <1>1, <2>1, <2>2
    <3> HIDE DEF n, i
    <3>2. Head(j.todo) = p[i] /\ NextAt(j, p, i + 1)
      BY <2>1, <3>1, NextCall
    <3> QED
      BY <3>1, <3>2 DEF i
  <2> QED
    BY <2>1, <2>2, <2>3
<1>2. ASSUME NEW p \in Writing
      PROVE  \E n \in {4, 5} : /\ Len(p) = n /\ p \in AllPlans
                /\ p[n - 2] = "load" /\ p[n - 1] = "setReg" /\ p[n] = "setHash"
  <2>1. CASE p = RegisterCalls
    <3>1. 4 - 2 = 2 /\ 4 - 1 = 3 /\ 4 \in {4, 5}
      OBVIOUS
    <3> QED
      BY <2>1, <3>1, RegisterPlan
  <2>2. CASE p \in Updates
    <3>1. 5 - 2 = 3 /\ 5 - 1 = 4 /\ 5 \in {4, 5}
      OBVIOUS
    <3> QED
      BY <2>2, <3>1, UpdatePlan
  <2> QED
    BY <2>1, <2>2 DEF Writing
<1>3. ASSUME NEW p \in Writing
      PROVE  /\ At(j, p, Len(p) - 2) => Head(j.todo) = "load" /\ NextAt(j, p, Len(p) - 1)
             /\ At(j, p, Len(p) - 1) => Head(j.todo) = "setReg" /\ NextAt(j, p, Len(p))
             /\ At(j, p, Len(p)) => Head(j.todo) = "setHash" /\ Len(j.todo) = 1
  <2>1. PICK n \in {4, 5} :
            /\ Len(p) = n /\ p \in AllPlans
            /\ p[n - 2] = "load" /\ p[n - 1] = "setReg" /\ p[n] = "setHash"
    BY <1>2
  <2>2. /\ n \in Nat /\ n - 2 \in 1 .. n /\ n - 2 # n /\ n - 2 + 1 = n - 1
        /\ n - 1 \in 1 .. n /\ n - 1 # n /\ n - 1 + 1 = n /\ n \in 1 .. n
    OBVIOUS
  <2>3. At(j, p, n - 2) => Head(j.todo) = "load" /\ NextAt(j, p, n - 1)
    BY <2>1, <2>2, NextCall
  <2>4. At(j, p, n - 1) => Head(j.todo) = "setReg" /\ NextAt(j, p, n)
    BY <2>1, <2>2, NextCall
  <2>5. At(j, p, n) => Head(j.todo) = "setHash" /\ Len(j.todo) = 1
    BY <2>1, <2>2, NextCall
  <2> QED
    BY <2>1, <2>3, <2>4, <2>5
<1> QED
  BY <1>1, <1>3

LEMMA DropCalls ==
  ASSUME NEW j
  PROVE  /\ At(j, ClearCalls, 2) => Head(j.todo) = "drop ip4" /\ NextAt(j, ClearCalls, 3)
         /\ At(j, ClearCalls, 3) => Head(j.todo) = "drop ip6" /\ Len(j.todo) = 1
         /\ At(j, UnregisterCalls, 2) => Head(j.todo) = "drop ip4" /\ NextAt(j, UnregisterCalls, 3)
         /\ At(j, UnregisterCalls, 3) => Head(j.todo) = "drop ip6" /\ NextAt(j, UnregisterCalls, 4)
         /\ At(j, UnregisterCalls, 4) => Head(j.todo) = "drop reg" /\ NextAt(j, UnregisterCalls, 5)
         /\ At(j, UnregisterCalls, 5) => Head(j.todo) = "drop hash" /\ NextAt(j, UnregisterCalls, 6)
         /\ At(j, UnregisterCalls, 6) => Head(j.todo) = "drop challenges" /\ Len(j.todo) = 1
<1>1. ASSUME NEW i \in {2, 3}, At(j, ClearCalls, i)
      PROVE  /\ Head(j.todo) = ClearCalls[i]
             /\ i = 3 => Len(j.todo) = 1
             /\ i # 3 => NextAt(j, ClearCalls, i + 1)
  <2>1. i \in 1 .. 3
    OBVIOUS
  <2> QED
    BY <1>1, <2>1, ClearPlan, NextCall
<1>2. ASSUME NEW i \in {2, 3, 4, 5, 6}, At(j, UnregisterCalls, i)
      PROVE  /\ Head(j.todo) = UnregisterCalls[i]
             /\ i = 6 => Len(j.todo) = 1
             /\ i # 6 => NextAt(j, UnregisterCalls, i + 1)
  <2>1. i \in 1 .. 6
    OBVIOUS
  <2> QED
    BY <1>2, <2>1, UnregisterPlan, NextCall
<1>3. 2 + 1 = 3 /\ 3 + 1 = 4 /\ 4 + 1 = 5 /\ 5 + 1 = 6
  OBVIOUS
<1> QED
  BY <1>1, <1>2, <1>3, ClearPlan, UnregisterPlan

LEMMA AdminCalls ==
  ASSUME NEW j
  PROVE  /\ \A p \in Admin :
               /\ At(j, p, 2) => Head(j.todo) = "drop hash" /\ NextAt(j, p, 3)
               /\ At(j, p, 3) => Head(j.todo) = "drop ip4" /\ NextAt(j, p, 4)
               /\ At(j, p, 4) => Head(j.todo) = "drop ip6" /\ NextAt(j, p, 5)
               /\ At(j, p, 5) => Head(j.todo) = "drop challenges" /\ NextAt(j, p, 6)
         /\ At(j, SuspendCalls, 6) => Head(j.todo) = "load" /\ NextAt(j, SuspendCalls, 7)
         /\ At(j, SuspendCalls, 7) => Head(j.todo) = "setReg" /\ Len(j.todo) = 1
         /\ At(j, AdminDeleteCalls, 6) => Head(j.todo) = "drop reg" /\ Len(j.todo) = 1
<1>1. ASSUME NEW p \in Admin, NEW i \in {2, 3, 4, 5}, At(j, p, i)
      PROVE  Head(j.todo) = p[i] /\ NextAt(j, p, i + 1)
  <2>1. PICK n \in {6, 7} : Len(p) = n
    BY AdminPlan
  <2>2. n \in Nat /\ i \in 1 .. n /\ i # n
    OBVIOUS
  <2> QED
    BY <1>1, <2>1, <2>2, AdminPlan, NextCall
<1>2. 2 + 1 = 3 /\ 3 + 1 = 4 /\ 4 + 1 = 5 /\ 5 + 1 = 6 /\ 6 + 1 = 7
      /\ 6 \in 1 .. 7 /\ 7 \in 1 .. 7 /\ 6 \in 1 .. 6
  OBVIOUS
<1>3. /\ At(j, SuspendCalls, 6) => Head(j.todo) = "load" /\ NextAt(j, SuspendCalls, 7)
      /\ At(j, SuspendCalls, 7) => Head(j.todo) = "setReg" /\ Len(j.todo) = 1
  <2>1. ASSUME At(j, SuspendCalls, 6)
        PROVE  Head(j.todo) = "load" /\ NextAt(j, SuspendCalls, 7)
    BY <1>2, <2>1, SuspendPlan, NextCall, ZenonT(60)
  <2>2. ASSUME At(j, SuspendCalls, 7)
        PROVE  Head(j.todo) = "setReg" /\ Len(j.todo) = 1
    BY <1>2, <2>2, SuspendPlan, NextCall
  <2> QED
    BY <2>1, <2>2
<1>4. At(j, AdminDeleteCalls, 6) => Head(j.todo) = "drop reg" /\ Len(j.todo) = 1
  BY <1>2, AdminDeletePlan, NextCall
<1>5. \A p \in Admin :
        /\ At(j, p, 2) => Head(j.todo) = "drop hash" /\ NextAt(j, p, 3)
        /\ At(j, p, 3) => Head(j.todo) = "drop ip4" /\ NextAt(j, p, 4)
        /\ At(j, p, 4) => Head(j.todo) = "drop ip6" /\ NextAt(j, p, 5)
        /\ At(j, p, 5) => Head(j.todo) = "drop challenges" /\ NextAt(j, p, 6)
  BY <1>1, <1>2, AdminPlan
<1> QED
  BY <1>3, <1>4, <1>5

-----------------------------------------------------------------------------
(* What a step leaves of a name: nothing is added.                         *)
Fewer(n) ==
    /\ \A k \in Key : HasKey(n, k)' => HasKey(n, k) /\ owner'[k] = owner[k]
    /\ \A f \in Family : ip'[n][f] # None => ip'[n][f] = ip[n][f]
    /\ chal'[n] \subseteq chal[n]

LEMMA FewerHeld ==
  ASSUME NEW n \in Name, Fewer(n), NEW k, NEW t, HeldBy(n, k, t)
  PROVE  HeldBy(n, k, t)'
BY DEF Fewer, HeldBy

LEMMA FewerFree ==
  ASSUME NEW n \in Name, Fewer(n), Free(n)
  PROVE  Free(n)'
BY DEF Fewer, Free, NoKey

LEMMA FewerSettled ==
  ASSUME NEW n \in Name, Fewer(n), Settled(n), reg'[n] = reg[n]
  PROVE  Settled(n)'
<1>1. CASE reg[n] = None
  BY <1>1, FewerFree DEF Settled
<1>2. CASE reg[n] # None
  BY <1>2, FewerHeld DEF Settled
<1> QED
  BY <1>1, <1>2

LEMMA FreeIsHeld ==
  ASSUME NEW n \in Name, Free(n), NEW k, NEW t
  PROVE  HeldBy(n, k, t)
BY DEF Free, NoKey, HeldBy

LEMMA LaterHeld ==
  ASSUME IInv, NEW n \in Name, NEW k, NEW t \in Nat, HeldBy(n, k, t), NEW u \in Nat, t <= u
  PROVE  HeldBy(n, k, u)
<1>1. \A i \in Key : HasKey(n, i) => owner[i].exp \in Nat
  BY DEF IInv, TypeOK, HasKey
<1>2. \A f \in Family : ip[n][f] # None => ip[n][f].exp \in Nat
  BY DEF IInv, TypeOK
<1>3. \A c \in chal[n] : c.exp \in Nat
  BY DEF IInv, TypeOK
<1> QED
  BY <1>1, <1>2, <1>3 DEF HeldBy

(* The job of r after a call: none is left, or the next is that of p.      *)
LEMMA ContinueLast ==
  ASSUME NEW r, NEW j, Continue(r, j), Len(j.todo) = 1
  PROVE  job' = [job EXCEPT ![r] = None]
BY DEF Continue

LEMMA ContinueAt ==
  ASSUME NEW r, NEW j \in Job, Continue(r, j), j.todo # <<>>, NEW p, NEW i, NextAt(j, p, i)
  PROVE  \E q \in Job : /\ job' = [job EXCEPT ![r] = q] /\ At(q, p, i)
                       /\ q.name = j.name /\ q.key = j.key /\ q.hash = j.hash
                       /\ q.seen = j.seen
<1> DEFINE q == [j EXCEPT !.todo = Tail(@)]
<1>1. Len(j.todo) # 1 /\ Tail(j.todo) = SubSeq(p, i, Len(p)) /\ j.todo \in Seq(Calls)
  BY DEF NextAt, Job
<1>2. job' = [job EXCEPT ![r] = q]
  BY <1>1 DEF Continue
<1>3. Tail(j.todo) \in Seq(Calls)
  BY <1>1, TailOfCalls
<1>4. /\ q \in Job /\ q.todo = SubSeq(p, i, Len(p)) /\ q.name = j.name /\ q.key = j.key
      /\ q.hash = j.hash /\ q.seen = j.seen
  BY <1>1, <1>3 DEF Job
<1> HIDE DEF q
<1> QED
  BY <1>2, <1>4 DEF At

LEMMA Ends ==
  ASSUME Sequential, IInv, NEW r \in Req, job' = [job EXCEPT ![r] = None],
         Dead', RegsEnd', \A n \in Name : Settled(n)'
  PROVE  SInv'
<1>1. \A s \in Req : job'[s] = None
  BY DEF Sequential, IInv, TypeOK
<1> QED
  BY <1>1 DEF SInv

LEMMA GoesOn ==
  ASSUME Sequential, IInv, NEW r \in Req, NEW q \in Job, job' = [job EXCEPT ![r] = q],
         Dead', RegsEnd', Stage(q)'
  PROVE  SInv'
<1>1. \A s \in Req : job'[s] = q
  BY DEF Sequential, IInv, TypeOK
<1>2. q # None
  BY NoneAssumption
<1>3. ~ Idle'
  BY <1>1, <1>2 DEF Idle
<1>4. \A s \in Req : Stage(job[s])'
  <2> TAKE s \in Req
  <2>1. job'[s] = q
    BY <1>1
  <2> QED
    BY <2>1 DEF Stage, InWrite, InUnregister, InAdmin, InClear, At, Held, Holder
<1> QED
  BY <1>3, <1>4 DEF SInv

(* A request that has not found what it needs has touched nothing.         *)
LEMMA StageFinding ==
  ASSUME NEW j, Stage(j), Head(j.todo) \in Finding
  PROVE  /\ \A n \in Name : Settled(n)
         /\ \E p \in AllPlans : p[1] = Head(j.todo) /\ NextAt(j, p, 2)
<1> QED
  BY FirstCall, WriteCalls, DropCalls, AdminCalls
     DEF Stage, InWrite, InUnregister, InAdmin, InClear, Finding

(* Where the other calls are made from.                                    *)
LEMMA StageWhat ==
  ASSUME NEW j, Stage(j), Head(j.todo) \in {"ip4", "ip6", "challenge"}
  PROVE  /\ Settled(j.name) /\ Holder(j) /\ j.hash = j.key
         /\ \E p \in Writing : NextAt(j, p, Len(p) - 2)
BY FirstCall, WriteCalls, DropCalls, AdminCalls
   DEF Stage, InWrite, InUnregister, InAdmin, InClear, Finding, Writing

LEMMA StageLoad ==
  ASSUME NEW j, Stage(j), Head(j.todo) = "load"
  PROVE  \/ /\ Held(j, reg[j.name] = None)
            /\ \E p \in Writing : NextAt(j, p, Len(p) - 1)
         \/ Free(j.name) /\ j.hash = None /\ NextAt(j, SuspendCalls, 7)
BY FirstCall, WriteCalls, DropCalls, AdminCalls
   DEF Stage, InWrite, InUnregister, InAdmin, InClear, Finding

LEMMA StageSetReg ==
  ASSUME NEW j, Stage(j), Head(j.todo) = "setReg"
  PROVE  \/ /\ Held(j, j.seen = None)
            /\ \E p \in Writing : NextAt(j, p, Len(p))
         \/ Free(j.name) /\ j.hash = None /\ Len(j.todo) = 1
BY FirstCall, WriteCalls, DropCalls, AdminCalls
   DEF Stage, InWrite, InUnregister, InAdmin, InClear, Finding

LEMMA StageSetHash ==
  ASSUME NEW j, Stage(j), Head(j.todo) = "setHash"
  PROVE  /\ Len(j.todo) = 1
         /\ Holder(j) /\ j.hash = j.key
         /\ reg[j.name].exp = now + TtlFor(j.seen)
         /\ HeldBy(j.name, j.key, now + TtlFor(j.seen))
BY FirstCall, WriteCalls, DropCalls, AdminCalls
   DEF Stage, InWrite, InUnregister, InAdmin, InClear, Finding

LEMMA StageDropIp4 ==
  ASSUME NEW j, Stage(j), Head(j.todo) = "drop ip4"
  PROVE  \/ Settled(j.name) /\ NextAt(j, ClearCalls, 3)
         \/ Settled(j.name) /\ Holder(j) /\ NextAt(j, UnregisterCalls, 3)
         \/ /\ NoKey(j.name) /\ j.hash = None
            /\ \E p \in Admin : NextAt(j, p, 4)
BY FirstCall, WriteCalls, DropCalls, AdminCalls
   DEF Stage, InWrite, InUnregister, InAdmin, InClear, Finding

LEMMA StageDropIp6 ==
  ASSUME NEW j, Stage(j), Head(j.todo) = "drop ip6"
  PROVE  \/ Settled(j.name) /\ Len(j.todo) = 1
         \/ /\ Settled(j.name) /\ Holder(j) /\ NextAt(j, UnregisterCalls, 4)
            /\ ip[j.name]["ip4"] = None
         \/ /\ NoKey(j.name) /\ j.hash = None /\ ip[j.name]["ip4"] = None
            /\ \E p \in Admin : NextAt(j, p, 5)
BY FirstCall, WriteCalls, DropCalls, AdminCalls
   DEF Stage, InWrite, InUnregister, InAdmin, InClear, Finding

LEMMA StageDropReg ==
  ASSUME NEW j, Stage(j), Head(j.todo) = "drop reg"
  PROVE  \/ /\ Settled(j.name) /\ Holder(j) /\ NextAt(j, UnregisterCalls, 5)
            /\ \A f \in Family : ip[j.name][f] = None
         \/ Free(j.name) /\ Len(j.todo) = 1
BY FirstCall, WriteCalls, DropCalls, AdminCalls
   DEF Stage, InWrite, InUnregister, InAdmin, InClear, Finding

LEMMA StageDropHash ==
  ASSUME NEW j, Stage(j), Head(j.todo) = "drop hash"
  PROVE  \/ /\ reg[j.name] = None /\ j.key \in Key \ deleted
            /\ \A f \in Family : ip[j.name][f] = None
            /\ \A i \in Key : HasKey(j.name, i) => i = j.key
            /\ NextAt(j, UnregisterCalls, 6)
         \/ /\ Settled(j.name) /\ reg[j.name] # None /\ reg[j.name].hash = j.key
            /\ j.key # None /\ j.hash = None
            /\ \E p \in Admin : NextAt(j, p, 3)
BY FirstCall, WriteCalls, DropCalls, AdminCalls
   DEF Stage, InWrite, InUnregister, InAdmin, InClear, Finding

LEMMA StageDropChallenges ==
  ASSUME NEW j, Stage(j), Head(j.todo) = "drop challenges"
  PROVE  \/ /\ reg[j.name] = None /\ j.key \in Key \ deleted
            /\ \A f \in Family : ip[j.name][f] = None
            /\ NoKey(j.name) /\ Len(j.todo) = 1
         \/ /\ NoKey(j.name) /\ \A f \in Family : ip[j.name][f] = None
            /\ j.hash = None
            /\ \E p \in Admin : NextAt(j, p, 6)
BY FirstCall, WriteCalls, DropCalls, AdminCalls
   DEF Stage, InWrite, InUnregister, InAdmin, InClear, Finding

-----------------------------------------------------------------------------
(* What a call leaves alone.                                               *)
LEMMA StoreStays ==
  ASSUME UNCHANGED <<now, reg, owner, ip, chal, deleted>>, SInv, HomeGrows, IInv
  PROVE  /\ Dead' /\ RegsEnd'
         /\ \A n \in Name : Fewer(n) /\ (Settled(n) => Settled(n)')
<1>1. Dead'
  BY DEF SInv, Dead, HomeGrows, IInv, TypeOK
<1>2. RegsEnd'
  BY DEF SInv, RegsEnd
<1>3. \A n \in Name : Fewer(n)
  BY DEF Fewer, HasKey
<1> QED
  BY <1>1, <1>2, <1>3, FewerSettled

LEMMA CheckNameSInv ==
  ASSUME Sequential, IInv, SInv, NEW r \in Req, CheckName(r)
  PROVE  SInv'
<1>0. PICK j : j = job[r]
  OBVIOUS
<1>1. /\ j \in Job /\ j # None /\ j.name \in Name /\ j.todo # <<>> /\ Stage(j)
      /\ Head(j.todo) = "exists"
  BY <1>0, AtCheckName, Plans, NoneAssumption DEF CheckName, Calling, SInv
<1>2. /\ \A n \in Name : Settled(n)
      /\ NextAt(j, RegisterCalls, 2)
  <2>1. PICK p \in AllPlans : p[1] = Head(j.todo) /\ NextAt(j, p, 2)
    BY <1>1, StageFinding DEF Finding
  <2>2. p = RegisterCalls
    BY <1>1, <2>1, UpdatePlan, ClearPlan, UnregisterPlan, AdminPlan DEF AllPlans, Writing
  <2> QED
    BY <1>1, <2>1, <2>2, StageFinding DEF Finding
<1>3. UNCHANGED <<now, reg, owner, ip, chal, deleted, arrived>>
  BY DEF CheckName
<1>4. CASE Return(r) /\ UNCHANGED home
  BY <1>2, <1>3, <1>4, StoreStays, Ends DEF Return, HomeGrows
<1>5. ASSUME reg[j.name] = None, NEW k \in Key, home[k] = None,
             home' = [home EXCEPT ![k] = j.name],
             Continue(r, [j EXCEPT !.key = k, !.hash = k])
      PROVE  SInv'
  <2> DEFINE i == [j EXCEPT !.key = k, !.hash = k]
  <2>1. /\ i \in Job /\ i.todo = j.todo /\ i.name = j.name /\ i.key = k /\ i.hash = k
        /\ NextAt(i, RegisterCalls, 2) /\ Continue(r, i)
    BY <1>1, <1>2, <1>5 DEF Job, NextAt
  <2> HIDE DEF i
  <2>2. PICK q \in Job : /\ job' = [job EXCEPT ![r] = q] /\ At(q, RegisterCalls, 2)
                         /\ q.name = j.name /\ q.key = k /\ q.hash = k
    BY <1>1, <2>1, ContinueAt
  <2>3. HomeGrows
    BY <1>5 DEF HomeGrows, IInv, TypeOK
  <2>4. Dead' /\ RegsEnd' /\ \A n \in Name : Settled(n)' /\ Fewer(n)
    BY <1>2, <1>3, <2>3, StoreStays
  <2>5. k \notin deleted
    BY <1>5 DEF SInv, Dead
  <2>6. Free(j.name)'
    BY <1>1, <1>2, <1>5, <2>4, FewerFree DEF Settled
  <2>7. Held(q, reg[q.name] = None)'
    BY <1>3, <1>5, <2>2, <2>5, <2>6 DEF Held
  <2>8. InWrite(q)'
    <3>1. 4 - 2 = 2
      OBVIOUS
    <3> QED
      BY <2>2, <2>7, <3>1, RegisterPlan DEF InWrite
  <2>9. Stage(q)'
    BY <2>4, <2>8 DEF Stage
  <2> QED
    BY <2>2, <2>4, <2>9, GoesOn
<1> QED
  BY <1>0, <1>4, <1>5 DEF CheckName

LEMMA FindNameSInv ==
  ASSUME Sequential, IInv, SInv, NEW r \in Req, FindName(r)
  PROVE  SInv'
<1>0. PICK j : j = job[r]
  OBVIOUS
<1>1. /\ j \in Job /\ j # None /\ j.todo # <<>> /\ Stage(j)
      /\ Head(j.todo) = "find" /\ j.key \in Key /\ j.hash = j.key
  BY <1>0, AtFindName, NoneAssumption DEF FindName, Calling, SInv
<1>2. \A n \in Name : Settled(n)
  BY <1>1, StageFinding DEF Finding
<1>3. UNCHANGED <<now, reg, owner, ip, chal, home, deleted>>
  BY DEF FindName
<1>4. Dead' /\ RegsEnd' /\ \A n \in Name : Settled(n)' /\ Fewer(n)
  BY <1>2, <1>3, StoreStays DEF HomeGrows
<1>5. CASE Return(r)
  BY <1>4, <1>5, Ends DEF Return
<1>6. CASE owner[j.key] # None /\ Continue(r, [j EXCEPT !.name = owner[j.key].name])
  <2> DEFINE m == owner[j.key].name
             i == [j EXCEPT !.name = m]
  <2>1. m \in Name /\ HasKey(m, j.key)
    BY <1>1, <1>6 DEF IInv, TypeOK, HasKey
  <2>2. reg[m] # None /\ reg[m].hash = j.key /\ j.key \notin deleted
    BY <1>1, <1>2, <1>6, <2>1 DEF Settled, Free, NoKey, HeldBy, SInv, Dead
  <2> HIDE DEF m
  <2>3. /\ i \in Job /\ i.todo = j.todo /\ i.name = m /\ i.key = j.key /\ i.hash = j.key
    BY <1>1, <2>1 DEF Job
  <2>4. PICK p \in AllPlans : p[1] = "find" /\ NextAt(j, p, 2)
    BY <1>1, StageFinding DEF Finding
  <2>5. p \in Updates \/ p = ClearCalls \/ p = UnregisterCalls
    BY <2>4, RegisterPlan, AdminPlan DEF AllPlans, Writing
  <2>6. NextAt(i, p, 2) /\ Continue(r, i)
    BY <1>6, <2>3, <2>4 DEF NextAt, m
  <2> HIDE DEF i
  <2>7. PICK q \in Job : /\ job' = [job EXCEPT ![r] = q] /\ At(q, p, 2)
                         /\ q.name = m /\ q.key = j.key /\ q.hash = j.key
    BY <1>1, <2>3, <2>6, ContinueAt
  <2>8. Settled(q.name)' /\ Holder(q)'
    <3>1. PICK n \in Name : n = m
      BY <2>1
    <3>2. Settled(n)'
      BY <1>4
    <3> QED
      BY <1>1, <1>3, <2>2, <2>7, <3>1, <3>2 DEF Holder
  <2>9. InWrite(q)' \/ InUnregister(q)' \/ InClear(q)'
    BY <2>5, <2>7, <2>8 DEF InWrite, InUnregister, InClear
  <2>10. Stage(q)'
    BY <1>4, <2>9 DEF Stage
  <2> QED
    BY <1>4, <2>7, <2>10, GoesOn
<1> QED
  BY <1>0, <1>5, <1>6 DEF FindName

LEMMA LookUpSInv ==
  ASSUME Sequential, IInv, SInv, NEW r \in Req, LookUp(r)
  PROVE  SInv'
<1>0. PICK j : j = job[r]
  OBVIOUS
<1>1. /\ j \in Job /\ j # None /\ j.name \in Name /\ j.todo # <<>> /\ Stage(j)
      /\ Head(j.todo) = "lookup" /\ AfterLookUp(j.todo)
  BY <1>0, AtLookUp, AdminRest, Plans, NoneAssumption DEF LookUp, Calling, SInv
<1>2. \A n \in Name : Settled(n)
  BY <1>1, StageFinding DEF Finding
<1>3. UNCHANGED <<now, reg, owner, ip, chal, home, deleted>>
  BY DEF LookUp
<1>4. Dead' /\ RegsEnd' /\ \A n \in Name : Settled(n)' /\ Fewer(n)
  BY <1>2, <1>3, StoreStays DEF HomeGrows
<1>5. PICK p \in Admin : NextAt(j, p, 2)
  <2>1. PICK p \in AllPlans : p[1] = "lookup" /\ NextAt(j, p, 2)
    BY <1>1, StageFinding DEF Finding
  <2>2. p \in Admin
    BY <2>1, UpdatePlan, RegisterPlan, ClearPlan, UnregisterPlan DEF AllPlans, Writing
  <2> QED
    BY <2>1, <2>2
<1> DEFINE h == reg[j.name].hash
           i == [j EXCEPT !.key = h, !.hash = None]
<1>6. CASE Return(r)
  BY <1>4, <1>6, Ends DEF Return
<1>7. ASSUME reg[j.name] # None
      PROVE  /\ h \in Key \cup {None}
             /\ i \in Job /\ i.todo = j.todo /\ i.name = j.name /\ i.key = h /\ i.hash = None
  <2>1. h \in Key \cup {None}
    BY <1>1, <1>7 DEF IInv, TypeOK, RegRecord
  <2> HIDE DEF h
  <2> QED
    BY <1>1, <2>1 DEF Job
<1>8. CASE reg[j.name] # None /\ h # None /\ Continue(r, i)
  <2>1. NextAt(i, p, 2) /\ i.todo # <<>>
    BY <1>1, <1>5, <1>7, <1>8 DEF NextAt
  <2>2. PICK q \in Job : /\ job' = [job EXCEPT ![r] = q] /\ At(q, p, 2)
                         /\ q.name = j.name /\ q.key = h /\ q.hash = None
    <3> HIDE DEF i
    <3> QED
      BY <1>7, <1>8, <2>1, ContinueAt
  <2>3. InAdmin(q)'
    BY <1>1, <1>3, <1>4, <1>8, <2>2 DEF InAdmin
  <2>4. Stage(q)'
    BY <1>4, <2>2, <2>3 DEF Stage
  <2> QED
    BY <1>4, <2>2, <2>4, GoesOn
<1>9. CASE reg[j.name] # None /\ h = None /\ Continue(r, [i EXCEPT !.todo = Tail(@)])
  <2> DEFINE g == [i EXCEPT !.todo = Tail(@)]
  <2>1. /\ g \in Job /\ g.todo = Tail(j.todo) /\ g.name = j.name /\ g.hash = None
        /\ g.todo # <<>>
    <3>1. Tail(j.todo) \in Seq(Calls) /\ Tail(j.todo) # <<>>
      BY <1>1 DEF AfterLookUp
    <3>2. i \in Job /\ i.todo = j.todo /\ i.name = j.name /\ i.hash = None
      BY <1>7, <1>9
    <3> HIDE DEF i
    <3> QED
      BY <3>1, <3>2 DEF Job
  <2>2. At(g, p, 2)
    BY <1>5, <2>1 DEF At, NextAt
  <2>3. NextAt(g, p, 3)
    BY <2>2, AdminCalls
  <2>4. Continue(r, g)
    BY <1>9
  <2>5. PICK q \in Job : /\ job' = [job EXCEPT ![r] = q] /\ At(q, p, 3)
                         /\ q.name = j.name /\ q.hash = None
    <3>1. /\ g \in Job /\ g.name = j.name /\ g.hash = None /\ g.todo # <<>>
          /\ NextAt(g, p, 3) /\ Continue(r, g)
      BY <2>1, <2>3, <2>4
    <3> HIDE DEF g
    <3> QED
      BY <3>1, ContinueAt
  <2>6. NoKey(j.name)
    <3>1. HeldBy(j.name, None, reg[j.name].exp)
      BY <1>1, <1>2, <1>9 DEF Settled
    <3> QED
      BY <3>1, NoneAssumption DEF HeldBy, NoKey
  <2>7. NoKey(q.name)'
    BY <1>1, <1>3, <2>5, <2>6 DEF NoKey, HasKey
  <2>8. Stage(q)'
    BY <1>4, <2>5, <2>7 DEF Stage, InAdmin
  <2> QED
    BY <1>4, <2>5, <2>8, GoesOn
<1> QED
  BY <1>0, <1>6, <1>8, <1>9 DEF LookUp

(* A request that has found its name, in the middle of its calls.          *)
LEMMA ActingStage ==
  ASSUME IInv, SInv, NEW r \in Req, NEW j, j = job[r], j # None, Head(j.todo) \notin Finding
  PROVE  /\ j \in Job /\ j.todo # <<>> /\ j.name \in Name /\ Stage(j)
         /\ now \in Nat /\ j.at \in Nat
         /\ \A n \in Name \ {j.name} : Settled(n)
         /\ j.key # None => j.key \in Key /\ home[j.key] = j.name
<1>1. Stage(j)
  BY DEF SInv
<1> QED
  BY <1>1, Acting DEF Stage

LEMMA LoadSInv ==
  ASSUME Sequential, IInv, SInv, NEW r \in Req, Load(r)
  PROVE  SInv'
<1>0. PICK j : j = job[r]
  OBVIOUS
<1>1. j # None /\ Head(j.todo) = "load" /\ Head(j.todo) \notin Finding
  BY <1>0 DEF Load, Calling, Finding
<1>2. /\ j \in Job /\ j.todo # <<>> /\ j.name \in Name /\ Stage(j) /\ now \in Nat
      /\ \A n \in Name \ {j.name} : Settled(n)
  BY <1>0, <1>1, ActingStage
<1>3. UNCHANGED <<now, reg, owner, ip, chal, home, deleted>>
  BY DEF Load
<1>4. Dead' /\ RegsEnd' /\ \A n \in Name \ {j.name} : Settled(n)'
  BY <1>2, <1>3, StoreStays DEF HomeGrows
<1> DEFINE seen == IF reg[j.name] = None THEN None ELSE reg[j.name].created
           i == [j EXCEPT !.seen = seen, !.at = now]
<1>5. seen \in Nat \cup {None} /\ (seen = None <=> reg[j.name] = None)
  BY <1>2, NoneAssumption DEF IInv, TypeOK, RegRecord
<1>6. Continue(r, i)
  BY <1>0 DEF Load
<1> HIDE DEF seen
<1>7. /\ i \in Job /\ i.todo = j.todo /\ i.name = j.name /\ i.key = j.key
      /\ i.hash = j.hash /\ i.seen = seen
  BY <1>2, <1>5 DEF Job
<1> HIDE DEF i
<1>8. ASSUME Held(j, reg[j.name] = None), NEW p \in Writing, NextAt(j, p, Len(p) - 1)
      PROVE  SInv'
  <2>1. NextAt(i, p, Len(p) - 1) /\ i.todo # <<>>
    BY <1>2, <1>7, <1>8 DEF NextAt
  <2>2. PICK q \in Job : /\ job' = [job EXCEPT ![r] = q] /\ At(q, p, Len(p) - 1)
                         /\ q.name = j.name /\ q.key = j.key /\ q.hash = j.hash /\ q.seen = seen
    BY <1>6, <1>7, <2>1, ContinueAt
  <2>3. Held(q, q.seen = None)'
    BY <1>3, <1>5, <1>8, <2>2
       DEF Held, Free, HeldBy, NoKey, HasKey
  <2>4. Stage(q)'
    BY <1>4, <2>2, <2>3 DEF Stage, InWrite
  <2> QED
    BY <1>4, <2>2, <2>4, GoesOn
<1>9. ASSUME Free(j.name), j.hash = None, NextAt(j, SuspendCalls, 7)
      PROVE  SInv'
  <2>1. NextAt(i, SuspendCalls, 7) /\ i.todo # <<>>
    BY <1>2, <1>7, <1>9 DEF NextAt
  <2>2. PICK q \in Job : /\ job' = [job EXCEPT ![r] = q] /\ At(q, SuspendCalls, 7)
                         /\ q.name = j.name /\ q.hash = None
    BY <1>6, <1>7, <1>9, <2>1, ContinueAt
  <2>3. Free(q.name)'
    BY <1>3, <1>9, <2>2 DEF Free, NoKey, HasKey
  <2>4. Stage(q)'
    BY <1>4, <2>2, <2>3 DEF Stage, InAdmin
  <2> QED
    BY <1>4, <2>2, <2>4, GoesOn
<1> QED
  BY <1>1, <1>2, <1>8, <1>9, StageLoad

LEMMA SetRegSInv ==
  ASSUME Sequential, IInv, SInv, NEW r \in Req, SetReg(r)
  PROVE  SInv'
<1>0. PICK j : j = job[r]
  OBVIOUS
<1>1. j # None /\ Head(j.todo) = "setReg" /\ Head(j.todo) \notin Finding /\ Continue(r, j)
  BY <1>0 DEF SetReg, Calling, Finding
<1>2. /\ j \in Job /\ j.todo # <<>> /\ j.name \in Name /\ Stage(j) /\ now \in Nat
      /\ \A n \in Name \ {j.name} : Settled(n)
  BY <1>0, <1>1, ActingStage
<1>3. UNCHANGED <<now, owner, ip, chal, home, deleted>>
  BY DEF SetReg
<1> DEFINE t == TtlFor(j.seen)
           created == IF j.seen = None THEN j.at ELSE j.seen
           x == [created |-> created, updated |-> j.at, hash |-> j.hash, exp |-> now + t]
<1>4. reg' = [reg EXCEPT ![j.name] = x]
  BY <1>0 DEF SetReg
<1>5. /\ t \in Nat /\ RegistrationTtl \in Nat /\ t <= RegistrationTtl
      /\ (j.seen # None => t = RegistrationTtl) /\ created \in Nat
      /\ j.at \in Nat /\ j.hash \in Key \cup {None}
  BY <1>2, TtlAssumption DEF TtlFor, Job
<1> HIDE DEF t, created
<1>6. now + t \in Nat /\ now + t <= now + RegistrationTtl
  BY <1>2, <1>5
<1>7. x.hash = j.hash /\ x.exp = now + t /\ x \in RegRecord
  BY <1>5, <1>6 DEF RegRecord
<1> HIDE DEF x
<1>8. /\ reg'[j.name] = x /\ x # None
      /\ \A n \in Name \ {j.name} : reg'[n] = reg[n]
      /\ \A n \in Name : Fewer(n)
  BY <1>2, <1>3, <1>4, <1>7, NoneAssumption DEF IInv, TypeOK, Fewer, HasKey
<1>9. \A n \in Name \ {j.name} : Settled(n)'
  BY <1>2, <1>8, FewerSettled
<1>10. RegsEnd'
  BY <1>2, <1>3, <1>6, <1>7, <1>8 DEF RegsEnd, SInv
<1>11. ASSUME j.hash \notin deleted
       PROVE  Dead'
  BY <1>2, <1>3, <1>7, <1>8, <1>11 DEF Dead, SInv
<1>12. ASSUME Held(j, j.seen = None), NEW p \in Writing, NextAt(j, p, Len(p))
       PROVE  SInv'
  <2>1. PICK q \in Job : /\ job' = [job EXCEPT ![r] = q] /\ At(q, p, Len(p))
                         /\ q.name = j.name /\ q.key = j.key /\ q.hash = j.hash
                         /\ q.seen = j.seen
    BY <1>1, <1>2, <1>12, ContinueAt
  <2>2. j.key \in Key \ deleted /\ j.hash = j.key
    BY <1>12 DEF Held
  <2>3. HeldBy(j.name, j.key, now + t)
    BY <1>2, <1>5, <1>12, FreeIsHeld DEF Held
  <2>4. HeldBy(q.name, q.key, now + TtlFor(q.seen))'
    <3>1. PICK u : u = now + t
      OBVIOUS
    <3>2. HeldBy(j.name, j.key, u)'
      BY <1>2, <1>8, <2>3, <3>1, FewerHeld
    <3> QED
      BY <1>3, <2>1, <3>1, <3>2 DEF t
  <2>5. Holder(q)' /\ reg'[q.name].exp = now' + TtlFor(q.seen)
    BY <1>3, <1>7, <1>8, <2>1, <2>2 DEF Holder, t
  <2>6. Stage(q)'
    BY <1>9, <2>1, <2>2, <2>4, <2>5 DEF Stage, InWrite
  <2> QED
    BY <1>10, <1>11, <2>1, <2>2, <2>6, GoesOn
<1>13. ASSUME Free(j.name), j.hash = None, Len(j.todo) = 1
       PROVE  SInv'
  <2>1. job' = [job EXCEPT ![r] = None]
    BY <1>1, <1>13, ContinueLast
  <2>2. Free(j.name)'
    BY <1>2, <1>8, <1>13, FewerFree
  <2>3. Settled(j.name)'
    BY <1>8, <2>2 DEF Settled, HeldBy, Free, NoKey
  <2>4. j.hash \notin deleted
    BY <1>13, NoneAssumption DEF IInv, TypeOK
  <2> QED
    BY <1>9, <1>10, <1>11, <2>1, <2>3, <2>4, Ends
<1> QED
  BY <1>1, <1>2, <1>12, <1>13, StageSetReg

LEMMA SetHashSInv ==
  ASSUME Sequential, IInv, SInv, NEW r \in Req, SetHash(r)
  PROVE  SInv'
<1>0. PICK j : j = job[r]
  OBVIOUS
<1>1. j # None /\ Head(j.todo) = "setHash" /\ Head(j.todo) \notin Finding /\ Continue(r, j)
  BY <1>0 DEF SetHash, Calling, Finding
<1>2. /\ j \in Job /\ j.todo # <<>> /\ j.name \in Name /\ Stage(j) /\ now \in Nat
      /\ \A n \in Name \ {j.name} : Settled(n)
  BY <1>0, <1>1, ActingStage
<1>3. UNCHANGED <<now, reg, ip, chal, home, deleted>>
  BY DEF SetHash
<1>4. PICK t : t = now + TtlFor(j.seen)
  OBVIOUS
<1>5. /\ Len(j.todo) = 1 /\ Holder(j) /\ j.hash = j.key /\ reg[j.name].exp = t
      /\ HeldBy(j.name, j.key, t)
  BY <1>1, <1>2, <1>4, StageSetHash
<1>6. t \in Nat
  BY <1>2, <1>5 DEF Holder, IInv, TypeOK, RegRecord
<1> DEFINE x == [name |-> j.name, exp |-> t]
<1>7. owner' = [owner EXCEPT ![j.key] = x] /\ x.name = j.name /\ x.exp = t
  BY <1>0, <1>4, <1>5 DEF SetHash
<1> HIDE DEF x
<1>8. j.key \in Key /\ j.key \notin deleted
  BY <1>5 DEF Holder
<1>9. owner'[j.key] = x /\ \A k \in Key : k # j.key => owner'[k] = owner[k]
  BY <1>7, <1>8 DEF IInv, TypeOK
<1>10. \A n \in Name \ {j.name} : Settled(n)'
  <2>1. \A n \in Name \ {j.name} : Fewer(n)
    BY <1>3, <1>7, <1>9 DEF Fewer, HasKey
  <2> QED
    BY <1>2, <1>3, <2>1, FewerSettled
<1>11. Settled(j.name)'
  <2>1. HeldBy(j.name, j.key, t)'
    BY <1>3, <1>5, <1>6, <1>7, <1>9 DEF HeldBy, HasKey
  <2> QED
    BY <1>3, <1>5, <2>1 DEF Settled, Holder
<1>12. Dead' /\ RegsEnd'
  BY <1>3, <1>8, <1>9 DEF Dead, RegsEnd, SInv, IInv, TypeOK
<1>13. job' = [job EXCEPT ![r] = None]
  BY <1>1, <1>5, ContinueLast
<1> QED
  BY <1>10, <1>11, <1>12, <1>13, Ends

(* An address or a challenge is written for the holder.                    *)
LEMMA WhatSInv ==
  ASSUME Sequential, IInv, SInv, NEW r \in Req, SetAddress(r) \/ AddChallenge(r)
  PROVE  SInv'
<1>0. PICK j : j = job[r]
  OBVIOUS
<1>1. /\ j # None /\ Head(j.todo) \in {"ip4", "ip6", "challenge"}
      /\ Head(j.todo) \notin Finding /\ Continue(r, j)
  BY <1>0 DEF SetAddress, AddChallenge, Calling, Finding, Family
<1>2. /\ j \in Job /\ j.todo # <<>> /\ j.name \in Name /\ Stage(j) /\ now \in Nat
      /\ \A n \in Name \ {j.name} : Settled(n)
  BY <1>0, <1>1, ActingStage
<1>3. UNCHANGED <<now, reg, owner, home, deleted>>
  BY DEF SetAddress, AddChallenge
<1>4. Settled(j.name) /\ Holder(j) /\ j.hash = j.key
  BY <1>1, <1>2, StageWhat
<1>5. PICK p \in Writing : NextAt(j, p, Len(p) - 2)
  BY <1>1, <1>2, StageWhat
<1>6. PICK q \in Job : /\ job' = [job EXCEPT ![r] = q] /\ At(q, p, Len(p) - 2)
                       /\ q.name = j.name /\ q.key = j.key /\ q.hash = j.hash
  BY <1>1, <1>2, <1>5, ContinueAt
<1>7. PICK t : t = now + RegistrationTtl
  OBVIOUS
<1>8. /\ t \in Nat /\ now + AddressTtl \in Nat /\ now + AddressTtl <= t
      /\ now + ChallengeTtl \in Nat /\ now + ChallengeTtl <= t
  BY <1>2, <1>7, TtlAssumption
<1>9. HeldBy(j.name, j.key, t)
  <2>1. reg[j.name].exp \in Nat /\ reg[j.name].exp <= t /\ reg[j.name] # None
    BY <1>2, <1>4, <1>7 DEF Holder, SInv, RegsEnd, IInv, TypeOK, RegRecord
  <2>2. HeldBy(j.name, j.key, reg[j.name].exp)
    BY <1>4, <2>1 DEF Settled, Holder
  <2>3. PICK u \in Nat : u = reg[j.name].exp
    BY <2>1
  <2> QED
    BY <1>2, <1>8, <2>1, <2>2, <2>3, LaterHeld
<1>10. HeldBy(j.name, j.key, t)' /\ \A n \in Name \ {j.name} : Fewer(n)
  <2>1. CASE SetAddress(r)
    <3> DEFINE x == [by |-> j.key, exp |-> now + AddressTtl]
    <3>1. PICK f \in Family : ip' = [ip EXCEPT ![j.name][f] = x]
      BY <1>0, <2>1 DEF SetAddress
    <3>2. chal' = chal /\ x.by = j.key /\ x.exp <= t
      BY <1>8, <2>1 DEF SetAddress
    <3> HIDE DEF x
    <3>3. \A n \in Name, g \in Family :
             \/ ip'[n][g] = ip[n][g]
             \/ n = j.name /\ ip'[n][g] = x
      BY <1>2, <3>1 DEF IInv, TypeOK
    <3> QED
      BY <1>2, <1>3, <1>9, <3>2, <3>3 DEF HeldBy, HasKey, Fewer
  <2>2. CASE AddChallenge(r)
    <3> DEFINE x == [by |-> j.key, exp |-> now + ChallengeTtl]
    <3>1. chal' = [chal EXCEPT ![j.name] = @ \cup {x}]
      BY <1>0, <2>2 DEF AddChallenge
    <3>2. ip' = ip /\ x.by = j.key /\ x.exp <= t
      BY <1>8, <2>2 DEF AddChallenge
    <3> HIDE DEF x
    <3>3. /\ chal'[j.name] = chal[j.name] \cup {x}
          /\ \A n \in Name \ {j.name} : chal'[n] = chal[n]
      BY <1>2, <3>1 DEF IInv, TypeOK
    <3> QED
      BY <1>2, <1>3, <1>9, <3>2, <3>3 DEF HeldBy, HasKey, Fewer
  <2> QED
    BY <2>1, <2>2
<1>11. \A n \in Name \ {j.name} : Settled(n)'
  BY <1>2, <1>3, <1>10, FewerSettled
<1>12. Dead' /\ RegsEnd'
  BY <1>3 DEF Dead, RegsEnd, SInv
<1>13. Held(q, reg[q.name] = None)'
  BY <1>3, <1>4, <1>6, <1>7, <1>10 DEF Held, Holder
<1>14. Stage(q)'
  BY <1>6, <1>11, <1>13 DEF Stage, InWrite
<1> QED
  BY <1>6, <1>12, <1>14, GoesOn

LEMMA DropAddressSInv ==
  ASSUME Sequential, IInv, SInv, NEW r \in Req, DropAddress(r)
  PROVE  SInv'
<1>0. PICK j : j = job[r]
  OBVIOUS
<1>1. PICK f \in Family : Calling(r, DropOf(f)) /\ ip' = [ip EXCEPT ![j.name][f] = None]
  BY <1>0 DEF DropAddress
<1>2. /\ j # None /\ Head(j.todo) = DropOf(f) /\ Head(j.todo) \notin Finding
      /\ Continue(r, j) /\ f \in {"ip4", "ip6"}
      /\ UNCHANGED <<now, reg, owner, chal, home, deleted>>
  BY <1>0, <1>1 DEF DropAddress, Calling, Finding, Family, DropOf
<1>3. /\ j \in Job /\ j.todo # <<>> /\ j.name \in Name /\ Stage(j)
      /\ \A n \in Name \ {j.name} : Settled(n)
  BY <1>0, <1>2, ActingStage
<1>4. /\ ip'[j.name][f] = None
      /\ \A n \in Name, g \in Family : ip'[n][g] # None => ip'[n][g] = ip[n][g]
  BY <1>1, <1>3 DEF IInv, TypeOK
<1>5. \A n \in Name : Fewer(n) /\ (Settled(n) => Settled(n)')
  <2>1. \A n \in Name : Fewer(n)
    BY <1>2, <1>4 DEF Fewer, HasKey
  <2> QED
    BY <1>2, <2>1, FewerSettled
<1>6. Dead' /\ RegsEnd' /\ \A n \in Name \ {j.name} : Settled(n)'
  BY <1>2, <1>3, <1>5 DEF Dead, RegsEnd, SInv
<1>7. /\ Settled(j.name) => Settled(j.name)'
      /\ Holder(j) => Holder(j)'
      /\ NoKey(j.name) => NoKey(j.name)'
      /\ ip[j.name]["ip4"] = None => ip'[j.name]["ip4"] = None
  BY <1>2, <1>3, <1>4, <1>5 DEF Holder, NoKey, HasKey, Family
<1>8. CASE Settled(j.name) /\ Len(j.todo) = 1
  <2>1. job' = [job EXCEPT ![r] = None]
    BY <1>2, <1>8, ContinueLast
  <2> QED
    BY <1>6, <1>7, <1>8, <2>1, Ends
<1>9. CASE Settled(j.name) /\ NextAt(j, ClearCalls, 3)
  <2>1. PICK q \in Job : /\ job' = [job EXCEPT ![r] = q] /\ At(q, ClearCalls, 3)
                         /\ q.name = j.name
    BY <1>2, <1>3, <1>9, ContinueAt
  <2>2. Stage(q)'
    BY <1>6, <1>7, <1>9, <2>1 DEF Stage, InClear
  <2> QED
    BY <1>6, <2>1, <2>2, GoesOn
<1>10. ASSUME NEW i \in {3, 4}, Settled(j.name), Holder(j), NextAt(j, UnregisterCalls, i),
              i = 3 => f = "ip4", i = 4 => f = "ip6" /\ ip[j.name]["ip4"] = None
       PROVE  SInv'
  <2>1. PICK q \in Job : /\ job' = [job EXCEPT ![r] = q] /\ At(q, UnregisterCalls, i)
                         /\ q.name = j.name /\ q.key = j.key
    BY <1>2, <1>3, <1>10, ContinueAt
  <2>2. Settled(q.name)' /\ Holder(q)'
    BY <1>7, <1>10, <2>1 DEF Holder
  <2>3. /\ i = 3 => ip'[q.name]["ip4"] = None
        /\ i = 4 => \A g \in Family : ip'[q.name][g] = None
    BY <1>4, <1>7, <1>10, <2>1 DEF Family
  <2>4. Stage(q)'
    BY <1>6, <2>1, <2>2, <2>3 DEF Stage, InUnregister
  <2> QED
    BY <1>6, <2>1, <2>4, GoesOn
<1>11. ASSUME NEW p \in Admin, NEW i \in {4, 5}, NoKey(j.name), j.hash = None, NextAt(j, p, i),
              i = 4 => f = "ip4", i = 5 => f = "ip6" /\ ip[j.name]["ip4"] = None
       PROVE  SInv'
  <2>1. PICK q \in Job : /\ job' = [job EXCEPT ![r] = q] /\ At(q, p, i)
                         /\ q.name = j.name /\ q.hash = None
    BY <1>2, <1>3, <1>11, ContinueAt
  <2>2. NoKey(q.name)'
    BY <1>7, <1>11, <2>1
  <2>3. /\ i = 4 => ip'[q.name]["ip4"] = None
        /\ i = 5 => \A g \in Family : ip'[q.name][g] = None
    BY <1>4, <1>7, <1>11, <2>1 DEF Family
  <2>4. Stage(q)'
    BY <1>6, <2>1, <2>2, <2>3 DEF Stage, InAdmin
  <2> QED
    BY <1>6, <2>1, <2>4, GoesOn
<1>12. CASE f = "ip4"
  <2>1. Head(j.todo) = "drop ip4"
    BY <1>2, <1>12 DEF DropOf
  <2>2. \/ Settled(j.name) /\ NextAt(j, ClearCalls, 3)
        \/ Settled(j.name) /\ Holder(j) /\ NextAt(j, UnregisterCalls, 3)
        \/ /\ NoKey(j.name) /\ j.hash = None
           /\ \E p \in Admin : NextAt(j, p, 4)
    BY <1>3, <2>1, StageDropIp4
  <2>3. Settled(j.name) /\ Holder(j) /\ NextAt(j, UnregisterCalls, 3) => SInv'
    BY <1>10, <1>12
  <2>4. \A p \in Admin : NoKey(j.name) /\ j.hash = None /\ NextAt(j, p, 4) => SInv'
    BY <1>11, <1>12
  <2> QED
    BY <1>9, <2>2, <2>3, <2>4
<1>13. CASE f = "ip6"
  <2>1. Head(j.todo) = "drop ip6"
    BY <1>2, <1>13 DEF DropOf
  <2>2. \/ Settled(j.name) /\ Len(j.todo) = 1
        \/ /\ Settled(j.name) /\ Holder(j) /\ NextAt(j, UnregisterCalls, 4)
           /\ ip[j.name]["ip4"] = None
        \/ /\ NoKey(j.name) /\ j.hash = None /\ ip[j.name]["ip4"] = None
           /\ \E p \in Admin : NextAt(j, p, 5)
    BY <1>3, <2>1, StageDropIp6
  <2>3. Settled(j.name) /\ Holder(j) /\ NextAt(j, UnregisterCalls, 4)
        /\ ip[j.name]["ip4"] = None => SInv'
    BY <1>10, <1>13
  <2>4. \A p \in Admin : NoKey(j.name) /\ j.hash = None /\ NextAt(j, p, 5)
                         /\ ip[j.name]["ip4"] = None => SInv'
    BY <1>11, <1>13
  <2> QED
    BY <1>8, <2>2, <2>3, <2>4
<1> QED
  BY <1>2, <1>12, <1>13

LEMMA DropRegSInv ==
  ASSUME Sequential, IInv, SInv, NEW r \in Req, DropReg(r)
  PROVE  SInv'
<1>0. PICK j : j = job[r]
  OBVIOUS
<1>1. /\ j # None /\ Head(j.todo) = "drop reg" /\ Head(j.todo) \notin Finding
      /\ Continue(r, j) /\ UNCHANGED <<now, owner, ip, chal, home, deleted>>
      /\ reg' = [reg EXCEPT ![j.name] = None]
  BY <1>0 DEF DropReg, Calling, Finding
<1>2. /\ j \in Job /\ j.todo # <<>> /\ j.name \in Name /\ Stage(j)
      /\ \A n \in Name \ {j.name} : Settled(n)
  BY <1>0, <1>1, ActingStage
<1>3. /\ reg'[j.name] = None /\ \A n \in Name \ {j.name} : reg'[n] = reg[n]
      /\ \A n \in Name : Fewer(n)
  BY <1>1, <1>2 DEF IInv, TypeOK, Fewer, HasKey
<1>4. \A n \in Name \ {j.name} : Settled(n)'
  BY <1>2, <1>3, FewerSettled
<1>5. Dead' /\ RegsEnd'
  <2>1. \A n \in Name : reg'[n] = None \/ reg'[n] = reg[n]
    BY <1>3
  <2> QED
    BY <1>1, <2>1 DEF Dead, RegsEnd, SInv
<1>6. CASE Free(j.name) /\ Len(j.todo) = 1
  <2>1. job' = [job EXCEPT ![r] = None]
    BY <1>1, <1>6, ContinueLast
  <2>2. Settled(j.name)'
    BY <1>2, <1>3, <1>6, FewerFree DEF Settled
  <2> QED
    BY <1>4, <1>5, <2>1, <2>2, Ends
<1>7. CASE /\ Settled(j.name) /\ Holder(j) /\ NextAt(j, UnregisterCalls, 5)
           /\ \A f \in Family : ip[j.name][f] = None
  <2>0. NextAt(j, UnregisterCalls, 5) /\ Continue(r, j) /\ j \in Job /\ j.todo # <<>>
    BY <1>1, <1>2, <1>7
  <2>1. PICK q \in Job : /\ job' = [job EXCEPT ![r] = q] /\ At(q, UnregisterCalls, 5)
                         /\ q.name = j.name /\ q.key = j.key /\ q.hash = j.hash
    BY <2>0, ContinueAt
  <2>2. \A i \in Key : HasKey(j.name, i) => i = j.key
    BY <1>7 DEF Settled, Holder, HeldBy
  <2>3. InUnregister(q)'
    BY <1>1, <1>3, <1>7, <2>1, <2>2 DEF InUnregister, Holder, HasKey
  <2>4. Stage(q)'
    BY <1>4, <2>1, <2>3 DEF Stage
  <2> QED
    BY <1>5, <2>1, <2>4, GoesOn
<1> QED
  BY <1>1, <1>2, <1>6, <1>7, StageDropReg

LEMMA DropHashSInv ==
  ASSUME Sequential, IInv, SInv, NEW r \in Req, DropHash(r)
  PROVE  SInv'
<1>0. PICK j : j = job[r]
  OBVIOUS
<1>1. /\ j # None /\ Head(j.todo) = "drop hash" /\ Head(j.todo) \notin Finding
      /\ Continue(r, j) /\ UNCHANGED <<now, reg, ip, chal, home, deleted>>
      /\ owner' = [owner EXCEPT ![j.key] = None]
  BY <1>0 DEF DropHash, Calling, Finding
<1>2. /\ j \in Job /\ j.todo # <<>> /\ j.name \in Name /\ Stage(j)
      /\ \A n \in Name \ {j.name} : Settled(n)
      /\ j.key # None => j.key \in Key
  BY <1>0, <1>1, ActingStage
<1>3. /\ j.key \in Key => owner'[j.key] = None
      /\ \A k \in Key : owner'[k] = None \/ owner'[k] = owner[k]
  BY <1>1 DEF IInv, TypeOK
<1>4. \A n \in Name : Fewer(n)
  BY <1>1, <1>3 DEF Fewer, HasKey
<1>5. \A n \in Name \ {j.name} : Settled(n)'
  BY <1>1, <1>2, <1>4, FewerSettled
<1>6. Dead' /\ RegsEnd'
  BY <1>1, <1>3 DEF Dead, RegsEnd, SInv, IInv, TypeOK
<1>7. ASSUME j.key \in Key, \A i \in Key : HasKey(j.name, i) => i = j.key
      PROVE  NoKey(j.name)'
  BY <1>3, <1>4, <1>2, <1>7 DEF NoKey, Fewer, HasKey
<1>8. CASE /\ reg[j.name] = None /\ j.key \in Key \ deleted
           /\ \A f \in Family : ip[j.name][f] = None
           /\ \A i \in Key : HasKey(j.name, i) => i = j.key
           /\ NextAt(j, UnregisterCalls, 6)
  <2>0. NextAt(j, UnregisterCalls, 6) /\ Continue(r, j) /\ j \in Job /\ j.todo # <<>>
    BY <1>1, <1>2, <1>8
  <2>1. PICK q \in Job : /\ job' = [job EXCEPT ![r] = q] /\ At(q, UnregisterCalls, 6)
                         /\ q.name = j.name /\ q.key = j.key /\ q.hash = j.hash
    BY <2>0, ContinueAt
  <2>2. InUnregister(q)'
    BY <1>1, <1>7, <1>8, <2>1 DEF InUnregister
  <2>3. Stage(q)'
    BY <1>5, <2>1, <2>2 DEF Stage
  <2> QED
    BY <1>6, <2>1, <2>3, GoesOn
<1>9. ASSUME Settled(j.name), reg[j.name] # None, reg[j.name].hash = j.key,
             j.key # None, j.hash = None, NEW p \in Admin, NextAt(j, p, 3)
      PROVE  SInv'
  <2>0. NextAt(j, p, 3) /\ Continue(r, j) /\ j \in Job /\ j.todo # <<>>
    BY <1>1, <1>2, <1>9
  <2>1. PICK q \in Job : /\ job' = [job EXCEPT ![r] = q] /\ At(q, p, 3)
                         /\ q.name = j.name /\ q.key = j.key /\ q.hash = j.hash
    BY <2>0, ContinueAt
  <2>2. NoKey(j.name)'
    BY <1>2, <1>7, <1>9 DEF Settled, HeldBy
  <2>3. Stage(q)'
    BY <1>5, <1>9, <2>1, <2>2 DEF Stage, InAdmin
  <2> QED
    BY <1>6, <2>1, <2>3, GoesOn
<1> QED
  BY <1>1, <1>2, <1>8, <1>9, StageDropHash

LEMMA DropChallengesSInv ==
  ASSUME Sequential, IInv, SInv, NEW r \in Req, DropChallenges(r)
  PROVE  SInv'
<1>0. PICK j : j = job[r]
  OBVIOUS
<1>1. /\ j # None /\ Head(j.todo) = "drop challenges" /\ Head(j.todo) \notin Finding
      /\ Continue(r, j) /\ UNCHANGED <<now, reg, owner, ip, home>>
      /\ chal' = [chal EXCEPT ![j.name] = {}]
      /\ deleted' = IF Len(j.todo) = 1 THEN deleted \cup {j.key} ELSE deleted
  BY <1>0 DEF DropChallenges, Calling, Finding
<1>2. /\ j \in Job /\ j.todo # <<>> /\ j.name \in Name /\ Stage(j)
      /\ \A n \in Name \ {j.name} : Settled(n)
      /\ j.key # None => j.key \in Key /\ home[j.key] = j.name
  BY <1>0, <1>1, ActingStage
<1>3. /\ chal'[j.name] = {} /\ \A n \in Name : chal'[n] \subseteq chal[n]
  BY <1>1, <1>2 DEF IInv, TypeOK
<1>4. \A n \in Name : Fewer(n)
  BY <1>1, <1>3 DEF Fewer, HasKey
<1>5. \A n \in Name \ {j.name} : Settled(n)'
  BY <1>1, <1>2, <1>4, FewerSettled
<1>6. RegsEnd'
  BY <1>1 DEF RegsEnd, SInv
<1>7. ASSUME NoKey(j.name), \A f \in Family : ip[j.name][f] = None
      PROVE  Free(j.name)'
  BY <1>1, <1>3, <1>7 DEF Free, NoKey, HasKey
<1>8. CASE /\ reg[j.name] = None /\ j.key \in Key \ deleted
           /\ \A f \in Family : ip[j.name][f] = None
           /\ NoKey(j.name) /\ Len(j.todo) = 1
  <2>1. job' = [job EXCEPT ![r] = None]
    BY <1>1, <1>8, ContinueLast
  <2>2. Settled(j.name)'
    BY <1>1, <1>7, <1>8 DEF Settled
  <2>3. home[j.key] = j.name /\ j.key # None /\ j.name # None
    BY <1>2, <1>8, NoneAssumption
  <2>4. owner[j.key] = None
    BY <1>8, <2>3 DEF NoKey, HasKey, IInv, KeysStayWithTheirName
  <2>5. \A n \in Name : reg[n] # None => reg[n].hash # j.key
    BY <1>8, <2>3 DEF IInv, KeysStayWithTheirName
  <2>6. Dead'
    BY <1>1, <1>8, <2>3, <2>4, <2>5 DEF Dead, SInv
  <2> QED
    BY <1>5, <1>6, <2>1, <2>2, <2>6, Ends
<1>9. ASSUME NoKey(j.name), \A f \in Family : ip[j.name][f] = None, j.hash = None,
             NEW p \in Admin, NextAt(j, p, 6)
      PROVE  SInv'
  <2>0. NextAt(j, p, 6) /\ Continue(r, j) /\ j \in Job /\ j.todo # <<>>
    BY <1>1, <1>2, <1>9
  <2>1. PICK q \in Job : /\ job' = [job EXCEPT ![r] = q] /\ At(q, p, 6)
                         /\ q.name = j.name /\ q.key = j.key /\ q.hash = j.hash
    BY <2>0, ContinueAt
  <2>2. Free(q.name)'
    BY <1>7, <1>9, <2>1
  <2>3. InAdmin(q)'
    BY <2>1, <2>2 DEF InAdmin, Admin
  <2>4. Stage(q)'
    BY <1>5, <1>9, <2>1, <2>3 DEF Stage
  <2>5. Dead'
    BY <1>1, <1>9 DEF NextAt, Dead, SInv
  <2> QED
    BY <1>6, <2>1, <2>4, <2>5, GoesOn
<1> QED
  BY <1>1, <1>2, <1>8, <1>9, StageDropChallenges

LEMMA TickSInv ==
  ASSUME Sequential, IInv, SInv, Tick
  PROVE  SInv'
<1>1. /\ now' = now + 1 /\ now \in Nat /\ Idle /\ UNCHANGED <<home, deleted, job>>
      /\ reg' = [n \in Name |-> Kept(reg[n])]
      /\ owner' = [k \in Key |-> Kept(owner[k])]
      /\ ip' = [n \in Name |-> [f \in Family |-> Kept(ip[n][f])]]
      /\ chal' = [n \in Name |-> {c \in chal[n] : Kept(c) = c}]
  BY ModeAssumption DEF Tick, Sequential, IInv, TypeOK
<1>2. \A x : Kept(x) = None \/ (Kept(x) = x /\ x.exp > now + 1)
  BY DEF Kept
<1>3. \A n \in Name :
        /\ reg'[n] = None \/ reg'[n] = reg[n]
        /\ reg'[n] = None /\ reg[n] # None => ~ (reg[n].exp > now + 1)
  BY <1>1 DEF Kept
<1>4. \A k \in Key : owner'[k] = None \/ (owner'[k] = owner[k] /\ owner[k].exp > now + 1)
  BY <1>1, <1>2
<1>5. \A n \in Name, f \in Family :
        ip'[n][f] = None \/ (ip'[n][f] = ip[n][f] /\ ip[n][f].exp > now + 1)
  BY <1>1, <1>2
<1>6. \A n \in Name : \A c \in chal'[n] : c \in chal[n] /\ c.exp > now + 1
  <2> TAKE n \in Name
  <2> TAKE c \in chal'[n]
  <2>1. c \in chal[n] /\ Kept(c) = c
    BY <1>1
  <2>2. c # None
    BY <2>1, NoneAssumption DEF IInv, TypeOK
  <2> QED
    BY <1>2, <2>1, <2>2
<1>7. \A n \in Name : Fewer(n) /\ Settled(n)
  BY <1>1, <1>4, <1>5, <1>6 DEF Fewer, HasKey, SInv
<1>8. \A n \in Name : Settled(n)'
  <2> TAKE n \in Name
  <2>1. CASE reg'[n] = reg[n]
    BY <1>7, <2>1, FewerSettled
  <2>2. CASE reg'[n] = None /\ reg[n] = None
    BY <1>7, <2>2, FewerFree DEF Settled
  <2>3. CASE reg'[n] = None /\ reg[n] # None
    <3>1. PICK t : t = reg[n].exp
      OBVIOUS
    <3>2. t \in Nat /\ ~ (t > now + 1) /\ HeldBy(n, reg[n].hash, t)
      BY <1>3, <1>7, <2>3, <3>1 DEF Settled, IInv, TypeOK, RegRecord
    <3>3. \A e \in Nat : e <= t => ~ (e > now + 1)
      BY <1>1, <3>2
    <3>4. \A k \in Key : ~ HasKey(n, k)'
      <4>1. \A k \in Key : HasKey(n, k) => owner[k].exp \in Nat
        BY DEF IInv, TypeOK, HasKey
      <4> QED
        BY <1>4, <3>2, <3>3, <4>1 DEF HasKey, HeldBy
    <3>5. \A f \in Family : ip'[n][f] = None
      <4>1. \A f \in Family : ip[n][f] # None => ip[n][f].exp \in Nat
        BY DEF IInv, TypeOK
      <4> QED
        BY <1>5, <3>2, <3>3, <4>1 DEF HeldBy
    <3>6. chal'[n] = {}
      <4>1. \A c \in chal[n] : c.exp \in Nat
        BY DEF IInv, TypeOK
      <4> QED
        BY <1>6, <3>2, <3>3, <4>1 DEF HeldBy
    <3> QED
      BY <2>3, <3>4, <3>5, <3>6 DEF Settled, Free, NoKey
  <2>4. reg'[n] = None \/ reg'[n] = reg[n]
    BY <1>3
  <2> QED
    BY <2>1, <2>2, <2>3, <2>4
<1>9. Dead'
  <2>1. \A k \in deleted : k \in Key /\ home[k] # None /\ owner[k] = None
    BY DEF SInv, Dead, IInv, TypeOK
  <2>2. \A k \in deleted : owner'[k] = None
    BY <1>4, <2>1
  <2>3. \A n \in Name : reg'[n] = None \/ reg'[n] = reg[n]
    BY <1>3
  <2>4. \A k \in deleted, n \in Name : reg[n] # None => reg[n].hash # k
    BY DEF SInv, Dead
  <2>5. \A k \in deleted, n \in Name : reg'[n] # None => reg'[n].hash # k
    BY <2>3, <2>4
  <2> QED
    BY <1>1, <2>1, <2>2, <2>5 DEF Dead
<1>10. RegsEnd'
  <2>1. \A n \in Name : reg[n] # None => reg[n].exp \in Nat
    BY DEF IInv, TypeOK, RegRecord
  <2>2. RegistrationTtl \in Nat
    BY TtlAssumption
  <2>3. \A n \in Name : reg'[n] = None \/ reg'[n] = reg[n]
    BY <1>3
  <2>4. \A n \in Name : reg[n] # None => reg[n].exp <= now + RegistrationTtl
    BY DEF SInv, RegsEnd
  <2>5. \A e \in Nat : e <= now + RegistrationTtl => e <= now + 1 + RegistrationTtl
    BY <1>1, <2>2
  <2>6. \A n \in Name : reg'[n] # None => reg'[n].exp <= now + 1 + RegistrationTtl
    BY <2>1, <2>3, <2>4, <2>5
  <2> QED
    BY <1>1, <2>6 DEF RegsEnd
<1>11. \A r \in Req : job'[r] = None
  BY <1>1 DEF Idle
<1> QED
  BY <1>8, <1>9, <1>10, <1>11 DEF SInv

LEMMA BeginSInv ==
  ASSUME Sequential, IInv, SInv, NEW r \in Req, NEW n \in Name \cup {None},
         NEW k \in Key \cup {None}, NEW p \in AllPlans, Begin(r, n, k, p)
  PROVE  SInv'
<1> DEFINE q == [todo |-> p, name |-> n, key |-> k, hash |-> k, seen |-> None, at |-> 0]
<1>1. /\ job' = [job EXCEPT ![r] = q] /\ job[r] = None
      /\ UNCHANGED <<now, reg, owner, ip, chal, home, deleted>>
  BY DEF Begin
<1>2. p \in Seq(Calls)
  BY PlansAreCalls
<1>3. q \in Job /\ q.todo = p
  BY <1>2 DEF Job
<1> HIDE DEF q
<1>4. At(q, p, 1)
  BY <1>2, <1>3 DEF At
<1>5. \A m \in Name : Settled(m)
  BY <1>1 DEF SInv, Idle, Sequential
<1>6. Dead' /\ RegsEnd' /\ \A m \in Name : Settled(m)'
  BY <1>1, <1>5, StoreStays DEF HomeGrows
<1>7. PICK i \in Job : i = q
  BY <1>3
<1>8. Stage(i)'
  BY <1>4, <1>6, <1>7 DEF Stage, At
<1> QED
  BY <1>1, <1>6, <1>7, <1>8, GoesOn

LEMMA ArriveSInv ==
  ASSUME Sequential, IInv, SInv, NEW r \in Req, Arrive(r)
  PROVE  SInv'
<1>1. ASSUME NEW n \in Name, Register(r, n) \/ Suspend(r, n) \/ AdminDelete(r, n)
      PROVE  SInv'
  BY <1>1, BeginSInv, RegisterPlan, SuspendPlan, AdminDeletePlan
     DEF Register, Suspend, AdminDelete, RegisterCalls, SuspendCalls, AdminDeleteCalls
<1>2. ASSUME NEW k \in Key, ClearAddresses(r, k) \/ Unregister(r, k)
      PROVE  SInv'
  BY <1>2, BeginSInv, ClearPlan, UnregisterPlan
     DEF ClearAddresses, Unregister, ClearCalls, UnregisterCalls
<1>3. ASSUME NEW k \in Key, NEW what \in Family \cup {"challenge"}, Update(r, k, what)
      PROVE  SInv'
  <2>1. UpdateCalls(what) \in AllPlans
    BY DEF AllPlans, Writing, Updates
  <2> QED
    BY <1>3, <2>1, BeginSInv DEF Update, UpdateCalls
<1> QED
  BY <1>1, <1>2, <1>3 DEF Arrive

LEMMA InitSInv == Init => SInv
<1> SUFFICES ASSUME Init PROVE SInv
  OBVIOUS
<1>1. \A r \in Req : job[r] = None
  BY DEF Init
<1>2. Dead /\ RegsEnd
  BY DEF Init, Dead, RegsEnd
<1>3. \A n \in Name : Settled(n)
  BY DEF Init, Settled, Free, NoKey, HasKey
<1> QED
  BY <1>1, <1>2, <1>3 DEF SInv

LEMMA NextSInv ==
  ASSUME Sequential, IInv, SInv, [Next]_vars
  PROVE  SInv'
<1>1. CASE UNCHANGED vars
  <2>1. Idle' <=> Idle
    BY <1>1 DEF vars, Idle
  <2>2. HomeGrows /\ UNCHANGED <<now, reg, owner, ip, chal, deleted, job>>
    BY <1>1 DEF vars, HomeGrows
  <2>3. Dead' /\ RegsEnd' /\ \A n \in Name : Settled(n) => Settled(n)'
    BY <2>2, StoreStays
  <2>4. ASSUME NEW r \in Req, Stage(job[r])
        PROVE  Stage(job[r])'
    <3>1. PICK j : j = job[r]
      OBVIOUS
    <3>2. job'[r] = j
      BY <2>2, <3>1
    <3>3. \A n : Free(n)' <=> Free(n)
      BY <2>2 DEF Free, NoKey, HasKey
    <3>4. \A n, k, t : HeldBy(n, k, t)' <=> HeldBy(n, k, t)
      BY <2>2 DEF HeldBy, HasKey
    <3>5. \A n : (Settled(n)' <=> Settled(n)) /\ (NoKey(n)' <=> NoKey(n))
      BY <2>2 DEF Settled, Free, HeldBy, NoKey, HasKey
    <3>6. InWrite(j) => InWrite(j)'
      BY <2>2, <3>3, <3>4, <3>5 DEF InWrite, Held, Holder
    <3>7. InUnregister(j) => InUnregister(j)'
      BY <2>2, <3>5 DEF InUnregister, Holder, HasKey
    <3>8. InAdmin(j) => InAdmin(j)'
      BY <2>2, <3>3, <3>5 DEF InAdmin
    <3>9. InClear(j) => InClear(j)'
      BY <3>5 DEF InClear
    <3>10. Stage(j)'
      BY <2>4, <3>1, <3>5, <3>6, <3>7, <3>8, <3>9 DEF Stage
    <3> QED
      BY <3>2, <3>10 DEF Stage, InWrite, InUnregister, InAdmin, InClear, At, Held, Holder
  <2> QED
    BY <2>1, <2>2, <2>3, <2>4 DEF SInv
<1>2. CASE Tick
  BY <1>2, TickSInv
<1>3. ASSUME NEW r \in Req, StoreCall(r)
      PROVE  SInv'
  <2>1. ~ Fail(r)
    BY DEF Sequential, Fail
  <2> QED
    BY <1>3, <2>1, CheckNameSInv, FindNameSInv, LookUpSInv, LoadSInv, SetRegSInv, SetHashSInv,
       WhatSInv, DropAddressSInv, DropRegSInv, DropHashSInv, DropChallengesSInv DEF StoreCall
<1>4. ASSUME NEW r \in Req, Arrive(r)
      PROVE  SInv'
  BY <1>4, ArriveSInv
<1> QED
  BY <1>1, <1>2, <1>3, <1>4 DEF Next

LEMMA SInvImplies ==
  ASSUME IInv, SInv
  PROVE  OneKeyPerName /\ ServedForTheHolder /\ DeletedForGood
<1>1. DeletedForGood
  BY DEF SInv, Dead, DeletedForGood
<1>2. ASSUME NEW n \in Name, Settled(n), NEW k \in Key, HasKey(n, k)
      PROVE  reg[n] # None /\ reg[n].hash = k
  BY <1>2 DEF Settled, Free, NoKey, HeldBy
<1>3. ServedForTheHolder
  <2> SUFFICES ASSUME Idle, NEW n \in Name,
                      NEW k \in {x.by : x \in ({ip[n][f] : f \in Family} \ {None}) \cup chal[n]}
                               \cup {k \in Key : owner[k] # None /\ owner[k].name = n}
               PROVE  reg[n] # None /\ reg[n].hash = k
    BY DEF ServedForTheHolder
  <2>1. Settled(n)
    BY DEF SInv
  <2>2. CASE k \in Key /\ HasKey(n, k)
    BY <1>2, <2>1, <2>2
  <2>3. CASE \E f \in Family : ip[n][f] # None /\ ip[n][f].by = k
    BY <2>1, <2>3 DEF Settled, Free, HeldBy
  <2>4. CASE \E c \in chal[n] : c.by = k
    BY <2>1, <2>4 DEF Settled, Free, HeldBy
  <2> QED
    BY <2>2, <2>3, <2>4 DEF HasKey
<1>4. ASSUME NEW n \in Name, NEW i \in Key, NEW k \in Key, HasKey(n, i), HasKey(n, k)
      PROVE  i = k
  <2>1. CASE Settled(n)
    BY <1>2, <1>4, <2>1
  <2>2. CASE ~ Settled(n)
    <3>1. PICK r \in Req : job[r] # None /\ Stage(job[r])
      BY <2>2 DEF SInv, Idle
    <3>2. PICK j : j = job[r]
      OBVIOUS
    <3>3. Stage(j) /\ j.name = n
      BY <2>2, <3>1, <3>2 DEF Stage
    <3>4. ~ NoKey(n) /\ ~ Free(n)
      BY <1>4 DEF NoKey, Free
    <3>5. CASE InWrite(j)
      <4>1. \E t : HeldBy(n, j.key, t)
        BY <2>2, <3>3, <3>4, <3>5 DEF InWrite, Held
      <4> QED
        BY <1>4, <4>1 DEF HeldBy
    <3>6. CASE InUnregister(j)
      BY <1>4, <2>2, <3>3, <3>4, <3>6 DEF InUnregister
    <3> QED
      BY <2>2, <3>3, <3>4, <3>5, <3>6 DEF Stage, InAdmin, InClear
  <2> QED
    BY <2>1, <2>2
<1>5. OneKeyPerName
  <2>1. \A k \in Key : owner[k] # None => owner[k].name \in Name
    BY DEF IInv, TypeOK
  <2> QED
    BY <1>4, <2>1 DEF OneKeyPerName, HasKey
<1> QED
  BY <1>1, <1>3, <1>5

(* The inductive invariant of requests that are served one after the       *)
(* other, none of the store calls of which fails.                          *)
THEOREM SInvHolds ==
  ASSUME Sequential
  PROVE  Spec => []SInv
<1>1. Init => SInv
  BY InitSInv
<1>2. IInv /\ SInv /\ [Next]_vars => SInv'
  BY NextSInv
<1> QED
  BY <1>1, <1>2, IInvHolds, PTL DEF Spec

(* Served one after the other, requests leave a name with one key at any   *)
(* time: registration looks whether it is taken, deletion takes both       *)
(* records.                                                                *)
THEOREM OneKey ==
  ASSUME Sequential
  PROVE  Spec => []OneKeyPerName
BY SInvHolds, IInvHolds, SInvImplies, PTL

(* What is served of a name was written by the key that holds it now, and  *)
(* by no earlier holder of the name.                                       *)
THEOREM HolderIsServed ==
  ASSUME Sequential
  PROVE  Spec => []ServedForTheHolder
BY SInvHolds, IInvHolds, SInvImplies, PTL

(* A key that was deleted with its registration opens no name again, and   *)
(* none of its addresses stays.                                            *)
THEOREM DeletionIsForGood ==
  ASSUME Sequential
  PROVE  Spec => []DeletedForGood
BY SInvHolds, IInvHolds, SInvImplies, PTL
=============================================================================
