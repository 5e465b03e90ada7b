------------------------- MODULE SecretZonesProofs --------------------------
(***************************************************************************)
(* Proofs about SecretZones: for any requests, lifetimes and secrets, what *)
(* a request was told to have done is what DNS serves, although calls that *)
(* were given up are still carried out; and what is done is all that the   *)
(* request could mean, however often it gives its values.                  *)
(***************************************************************************)
EXTENDS SecretZones, FiniteSetTheorems, SequenceTheorems, TLAPS

(* The cell the k-th call of o is about.                                   *)
CellOfCall(o, k) == CASE o.do = "update" -> <<IpKey(o.name, o.val)>>
                      [] o.do = "delete" -> IF k = 1 THEN <<Ip4(o.name)>> ELSE <<Ip6(o.name)>>
                      [] OTHER -> <<Txt(o.name), o.val>>

Cell == UNION {Cells(o) : o \in Writes}

(* Each request is told of its own calls only: a call that is under way is *)
(* that of a request which waits for it or was given up.                   *)
Progress ==
    \A i \in Req : /\ st[i] # "new" => op[i] \in Writes /\ step[i] <= Len(Calls(op[i]))
                   /\ st[i] = "ok" => step[i] = Len(Calls(op[i]))
                   /\ st[i] = "new" => step[i] = 1
InFlight ==
    /\ \A f \in flight : /\ st[f.req] \in {"wait", "error"} /\ f.req \notin replies
                         /\ f.todo = Calls(op[f.req])[step[f.req]]
    /\ \A f, g \in flight : f.req = g.req => f = g

Answered == /\ before \in [Req -> SUBSET Req]
            /\ \A i \in Req : \A j \in before[i] : st[j] = "ok"

Executed(i, k) == \/ k < step[i]
                  \/ k = step[i] /\ (i \in replies \/ st[i] = "ok")

(* The cell of a call that was executed has since been written by requests *)
(* still under way when this one began, or by itself.                      *)
Holds(i, k) == LET c == CellOfCall(op[i], k)
               IN  last[c].by # None /\ last[c].by \notin before[i]

ExecutedHold ==
    \A i \in Req : st[i] # "new" =>
        \A k \in 1 .. Len(Calls(op[i])) : Executed(i, k) => Holds(i, k)

Writers ==
    /\ last \in [Cell -> [by : Req \cup {None}, at : Nat]]
    /\ \A c \in Cell : last[c].by # None => st[last[c].by] # "new" /\ c \in Cells(op[last[c].by])

(* The entries of a cell, with their expiry.                               *)
Ttl(c) == IF Len(c) = 1 THEN AddressTtl ELSE ChallengeTtl
InCell(e, c) == e.key = c[1] /\ (Len(c) = 1 \/ e.field = c[2])
Entries(c) == {e \in data : InCell(e, c)}
Expected(c) ==
    IF last[c].by # None /\ op[last[c].by].do \in {"update", "add"} /\ now < last[c].at + Ttl(c)
    THEN {[key |-> c[1], field |-> op[last[c].by].val, exp |-> last[c].at + Ttl(c)]}
    ELSE {}

DataIsLastWritten == \A c \in Cell : Entries(c) = Expected(c)

IInv == /\ TypeOK /\ Progress /\ InFlight /\ Answered
        /\ ExecutedHold /\ Writers /\ DataIsLastWritten

-----------------------------------------------------------------------------
(* What a request that reaches the store asks for.                         *)
LEMMA WriteShape ==
  ASSUME NEW o \in Writes
  PROVE  /\ o.do \in {"update", "delete", "add", "remove"}
         /\ o.do # "delete" => o.val \in Address \cup Token \cup {"self"}
<1>1. PICK q \in Request : o = Decide(q) /\ o # Refused /\ o # Shown
  BY DEF Writes
<1>2. CASE q.zone = "dyn"
  <2>1. \A s : Ip(q, s) \in Address \cup {None}
    BY DEF Ip
  <2>2. DynValue(q, GetString(q, "value").str) \in Address \cup {None}
    BY <2>1 DEF DynValue
  <2> QED
    BY <1>1, <1>2, <2>2 DEF Decide, Dyn
<1>3. CASE q.zone # "dyn"
  <2> DEFINE value == GetString(q, "value")
             txt == IF value.str # "" THEN value.str
                    ELSE IF q.method # "GET" /\ IsValidChallenge(q.body.text) THEN q.body.text
                    ELSE ""
             do == IF q.method = "DELETE" THEN "remove" ELSE "add"
  <2>1. o = Challenge(q)
    BY <1>1, <1>3 DEF Decide
  <2>2. \/ o = Refused \/ o = Shown
        \/ /\ o = [do |-> do, name |-> GetString(q, "secret").str, val |-> txt]
           /\ txt # "" /\ (value.str # "" => IsValidChallenge(value.str))
    BY <2>1 DEF Challenge
  <2>3. txt # "" /\ (value.str # "" => IsValidChallenge(value.str))
        => txt \in Token \cup {"self"}
    BY DEF IsValidChallenge
  <2>4. do \in {"add", "remove"}
    OBVIOUS
  <2>5. /\ o = [do |-> do, name |-> GetString(q, "secret").str, val |-> txt]
        /\ txt \in Token \cup {"self"}
    BY <1>1, <2>2, <2>3
  <2> HIDE DEF txt, do
  <2>6. o.do = do /\ o.val = txt
    BY <2>5
  <2> QED
    BY <2>4, <2>5, <2>6
<1> QED
  BY <1>2, <1>3

(* Each call is one transaction, about one cell.                           *)
LEMMA CallShape ==
  ASSUME NEW o \in Writes
  PROVE  /\ Len(Calls(o)) = IF o.do = "delete" THEN 2 ELSE 1
         /\ Cells(o) = {CellOfCall(o, k) : k \in 1 .. Len(Calls(o))}
         /\ \A k \in 1 .. Len(Calls(o)) :
               LET t == Calls(o)[k]
               IN  /\ t = <<Head(t)>> /\ Head(t) # <<>>
                   /\ \A n \in DOMAIN Head(t) : CellsOf(Head(t)[n]) = CellOfCall(o, k)
                   /\ \E n \in DOMAIN Head(t) : TRUE
<1> USE WriteShape
<1>1. CASE o.do = "update"
  <2> DEFINE key == IpKey(o.name, o.val)
  <2>1. Calls(o) = <<<<<<Del(key), Hsetex(key, o.val, AddressTtl)>>>>>>
    BY <1>1 DEF Calls, Set
  <2>2. key[1] # "challenge"
    BY DEF IpKey, Ip4, Ip6
  <2>3. CellsOf(Del(key)) = <<key>> /\ CellsOf(Hsetex(key, o.val, AddressTtl)) = <<key>>
    BY <2>2 DEF CellsOf, Del, Hsetex
  <2>4. Cells(o) = {<<key>>} /\ \A k : CellOfCall(o, k) = <<key>>
    BY <1>1 DEF Cells, CellOfCall
  <2> HIDE DEF key
  <2> QED
    BY <1>1, <2>1, <2>3, <2>4
<1>2. CASE o.do = "delete"
  <2>1. Calls(o) = <<<<<<Del(Ip4(o.name))>>>>, <<<<Del(Ip6(o.name))>>>>>>
    BY <1>2 DEF Calls, Delete
  <2>2. /\ CellsOf(Del(Ip4(o.name))) = <<Ip4(o.name)>>
        /\ CellsOf(Del(Ip6(o.name))) = <<Ip6(o.name)>>
    BY DEF CellsOf, Del, Ip4, Ip6
  <2>3. /\ Cells(o) = {<<Ip4(o.name)>>, <<Ip6(o.name)>>}
        /\ CellOfCall(o, 1) = <<Ip4(o.name)>> /\ CellOfCall(o, 2) = <<Ip6(o.name)>>
    BY <1>2 DEF Cells, CellOfCall
  <2>4. Len(Calls(o)) = 2 /\ 1 .. 2 = {1, 2}
    BY <2>1
  <2> QED
    BY <1>2, <2>1, <2>2, <2>3, <2>4
<1>3. CASE o.do \in {"add", "remove"}
  <2> DEFINE key == Txt(o.name)
  <2>1. \E c \in {Hsetex(key, o.val, ChallengeTtl), Hdel(key, o.val)} : Calls(o) = <<<<<<c>>>>>>
    BY <1>3 DEF Calls, Add, Remove
  <2>2. /\ CellsOf(Hsetex(key, o.val, ChallengeTtl)) = <<key, o.val>>
        /\ CellsOf(Hdel(key, o.val)) = <<key, o.val>>
    BY DEF CellsOf, Hsetex, Hdel, Txt
  <2>3. Cells(o) = {<<key, o.val>>} /\ \A k : CellOfCall(o, k) = <<key, o.val>>
    BY <1>3 DEF Cells, CellOfCall
  <2> HIDE DEF key
  <2> QED
    BY <1>3, <2>1, <2>2, <2>3
<1> QED
  BY <1>1, <1>2, <1>3

(* Addresses and challenges are under different keys.                      *)
LEMMA CellShape ==
  ASSUME NEW c \in Cell
  PROVE  \/ Len(c) = 1 /\ c = <<c[1]>> /\ c[1][1] # "challenge"
         \/ Len(c) = 2 /\ c = <<c[1], c[2]>> /\ c[1][1] = "challenge"
<1>1. PICK o \in Writes : c \in Cells(o)
  BY DEF Cell
<1>2. CASE o.do = "update"
  BY <1>1, <1>2 DEF Cells, IpKey, Ip4, Ip6
<1>3. CASE o.do = "delete"
  BY <1>1, <1>3 DEF Cells, Ip4, Ip6
<1>4. CASE o.do \in {"add", "remove"}
  BY <1>1, <1>4 DEF Cells, Txt
<1> QED
  BY <1>2, <1>3, <1>4, WriteShape

LEMMA CallCell ==
  ASSUME NEW o \in Writes, NEW k \in 1 .. Len(Calls(o))
  PROVE  CellOfCall(o, k) \in Cells(o) /\ CellOfCall(o, k) \in Cell
BY CallShape DEF Cell

-----------------------------------------------------------------------------
(* What each command does, and a transaction of one.                       *)
LEMMA RunHsetex ==
  ASSUME NEW d, NEW k, NEW v, NEW ttl
  PROVE  Run(d, Hsetex(k, v, ttl)) = {e \in d : <<e.key, e.field>> # <<k, v>>}
                                       \cup {[key |-> k, field |-> v, exp |-> now + ttl]}
BY DEF Run, Hsetex

LEMMA RunHdel ==
  ASSUME NEW d, NEW k, NEW v
  PROVE  Run(d, Hdel(k, v)) = {e \in d : <<e.key, e.field>> # <<k, v>>}
BY DEF Run, Hdel

LEMMA RunDel ==
  ASSUME NEW d, NEW k
  PROVE  Run(d, Del(k)) = {e \in d : e.key # k}
BY DEF Run, Del

LEMMA OneCommand ==
  ASSUME NEW c
  PROVE  Transaction(<<c>>) = Run(data, c)
BY DEF Transaction

LEMMA TwoCommands ==
  ASSUME NEW b, NEW c
  PROVE  Transaction(<<b, c>>) = Run(Run(data, b), c)
BY DEF Transaction

(* What each transaction does to the entries of a cell.                    *)
LEMMA UpdateEffect ==
  ASSUME NEW o \in Writes, o.do = "update", NEW c \in Cell,
         data' = Transaction(Head(Calls(o)[1]))
  PROVE  Entries(c)' = IF c = CellOfCall(o, 1)
                       THEN {[key |-> c[1], field |-> o.val, exp |-> now + AddressTtl]}
                       ELSE Entries(c)
<1> DEFINE key == IpKey(o.name, o.val)
           new == [key |-> key, field |-> o.val, exp |-> now + AddressTtl]
<1>1. Head(Calls(o)[1]) = <<Del(key), Hsetex(key, o.val, AddressTtl)>>
  BY DEF Calls, Set
<1>2. data' = Run(Run(data, Del(key)), Hsetex(key, o.val, AddressTtl))
  BY <1>1, TwoCommands
<1>3. Run(data, Del(key)) = {e \in data : e.key # key}
  BY RunDel
<1>4. data' = {e \in data : e.key # key} \cup {new}
  BY <1>2, <1>3, RunHsetex
<1>5. key[1] # "challenge" /\ CellOfCall(o, 1) = <<key>>
  BY DEF CellOfCall, IpKey, Ip4, Ip6
<1> HIDE DEF key
<1>6. CASE c = <<key>>
  BY <1>4, <1>5, <1>6 DEF Entries, InCell
<1>7. CASE c # <<key>>
  <2>1. c[1] # key
    BY <1>5, <1>7, CellShape
  <2> QED
    BY <1>4, <1>5, <1>7, <2>1 DEF Entries, InCell
<1> QED
  BY <1>5, <1>6, <1>7

LEMMA DeleteEffect ==
  ASSUME NEW o \in Writes, o.do = "delete", NEW k \in 1 .. 2, NEW c \in Cell,
         data' = Transaction(Head(Calls(o)[k]))
  PROVE  Entries(c)' = IF c = CellOfCall(o, k) THEN {} ELSE Entries(c)
<1> DEFINE key == IF k = 1 THEN Ip4(o.name) ELSE Ip6(o.name)
<1>1. Head(Calls(o)[k]) = <<Del(key)>>
  BY DEF Calls, Delete
<1>2. data' = {e \in data : e.key # key}
  <2>1. data' = Run(data, Del(key))
    BY <1>1, OneCommand
  <2> QED
    BY <2>1, RunDel
<1>3. key[1] # "challenge" /\ CellOfCall(o, k) = <<key>>
  BY DEF CellOfCall, Ip4, Ip6
<1> HIDE DEF key
<1>4. CASE c = <<key>>
  BY <1>2, <1>3, <1>4 DEF Entries, InCell
<1>5. CASE c # <<key>>
  <2>1. c[1] # key
    BY <1>3, <1>5, CellShape
  <2> QED
    BY <1>2, <1>3, <1>5, <2>1 DEF Entries, InCell
<1> QED
  BY <1>3, <1>4, <1>5

LEMMA ChallengeEffect ==
  ASSUME NEW o \in Writes, o.do \in {"add", "remove"}, NEW c \in Cell,
         data' = Transaction(Head(Calls(o)[1]))
  PROVE  Entries(c)' = IF c # CellOfCall(o, 1) THEN Entries(c)
                       ELSE IF o.do = "remove" THEN {}
                       ELSE {[key |-> c[1], field |-> o.val, exp |-> now + ChallengeTtl]}
<1> DEFINE key == Txt(o.name)
           new == [key |-> key, field |-> o.val, exp |-> now + ChallengeTtl]
           left == {e \in data : <<e.key, e.field>> # <<key, o.val>>}
<1>1. data' = IF o.do = "add" THEN left \cup {new} ELSE left
  <2>1. CASE o.do = "add"
    <3>1. Head(Calls(o)[1]) = <<Hsetex(key, o.val, ChallengeTtl)>>
      BY <2>1 DEF Calls, Add
    <3>2. data' = Run(data, Hsetex(key, o.val, ChallengeTtl))
      BY <3>1, OneCommand
    <3> QED
      BY <2>1, <3>2, RunHsetex
  <2>2. CASE o.do = "remove"
    <3>1. Head(Calls(o)[1]) = <<Hdel(key, o.val)>>
      BY <2>2 DEF Calls, Remove
    <3>2. data' = Run(data, Hdel(key, o.val))
      BY <3>1, OneCommand
    <3> QED
      BY <2>2, <3>2, RunHdel
  <2> QED
    BY <2>1, <2>2
<1>2. key[1] = "challenge" /\ CellOfCall(o, 1) = <<key, o.val>>
  BY DEF CellOfCall, Txt
<1> HIDE DEF key
<1>3. CASE c = <<key, o.val>>
  BY <1>1, <1>2, <1>3 DEF Entries, InCell
<1>4. CASE c # <<key, o.val>>
  <2>1. ASSUME NEW e, e.key = key, e.field = o.val
        PROVE  ~InCell(e, c)
    BY <1>2, <1>4, <2>1, CellShape DEF InCell
  <2> QED
    BY <1>1, <1>2, <1>4, <2>1 DEF Entries, InCell
<1> QED
  BY <1>2, <1>3, <1>4

(* What may be in the server's hashes afterwards.                          *)
LEMMA TransactionType ==
  ASSUME TypeOK, NEW o \in Writes, NEW k \in 1 .. Len(Calls(o)),
         data' = Transaction(Head(Calls(o)[k]))
  PROVE  \A e \in data' : e.field \in Address \cup Token \cup {"self"} /\ e.exp \in Nat
<1>1. k \in 1 .. (IF o.do = "delete" THEN 2 ELSE 1)
  BY CallShape
<1>2. now \in Nat /\ now + AddressTtl \in Nat /\ now + ChallengeTtl \in Nat
  BY TtlAssumption, BoundAssumption DEF TypeOK
<1>3. ASSUME NEW c, NEW ttl \in {AddressTtl, ChallengeTtl}, NEW d \in SUBSET data,
             \/ data' = Run(d, Hsetex(c, o.val, ttl)) /\ o.do # "delete"
             \/ data' = Run(d, Hdel(c, o.val))
             \/ data' = Run(d, Del(c))
      PROVE  \A e \in data' : e.field \in Address \cup Token \cup {"self"} /\ e.exp \in Nat
  <2>1. \A e \in d : e.field \in Address \cup Token \cup {"self"} /\ e.exp \in Nat
    BY DEF TypeOK
  <2> QED
    BY <1>2, <1>3, <2>1, RunHsetex, RunHdel, RunDel, WriteShape
<1>4. CASE o.do = "update"
  <2> DEFINE key == IpKey(o.name, o.val)
  <2>1. Head(Calls(o)[k]) = <<Del(key), Hsetex(key, o.val, AddressTtl)>>
    BY <1>1, <1>4 DEF Calls, Set
  <2>2. data' = Run(Run(data, Del(key)), Hsetex(key, o.val, AddressTtl))
    BY <2>1, TwoCommands
  <2>3. Run(data, Del(key)) \subseteq data
    BY RunDel
  <2> QED
    BY <1>3, <1>4, <2>2, <2>3
<1>5. CASE o.do = "delete"
  <2>1. \E c : Head(Calls(o)[k]) = <<Del(c)>>
    BY <1>1, <1>5 DEF Calls, Delete
  <2> QED
    BY <1>3, <2>1, OneCommand
<1>6. CASE o.do = "add"
  <2>1. Head(Calls(o)[k]) = <<Hsetex(Txt(o.name), o.val, ChallengeTtl)>>
    BY <1>1, <1>6 DEF Calls, Add
  <2> QED
    BY <1>3, <1>6, <2>1, OneCommand
<1>7. CASE o.do = "remove"
  <2>1. Head(Calls(o)[k]) = <<Hdel(Txt(o.name), o.val)>>
    BY <1>1, <1>7 DEF Calls, Remove
  <2> QED
    BY <1>3, <2>1, OneCommand
<1> QED
  BY <1>4, <1>5, <1>6, <1>7, WriteShape

-----------------------------------------------------------------------------
LEMMA InitIInv == Init => IInv
<1> SUFFICES ASSUME Init PROVE IInv
  OBVIOUS
<1>1. TypeOK /\ Progress /\ InFlight /\ Answered /\ ExecutedHold
  BY BoundAssumption DEF Init, TypeOK, Progress, InFlight, Answered, ExecutedHold
<1>2. last = [c \in Cell |-> [by |-> None, at |-> 0]]
  BY DEF Init, Cell
<1>3. Writers
  BY <1>2 DEF Writers
<1>4. DataIsLastWritten
  BY <1>2 DEF Init, DataIsLastWritten, Entries, Expected
<1> QED
  BY <1>1, <1>3, <1>4 DEF IInv

(* The steps of handlers do not touch the data, and the operations of the  *)
(* requests that have written stay as they are.                            *)
LEMMA DataStutter ==
  ASSUME Writers, DataIsLastWritten, UNCHANGED <<data, now, last>>,
         \A i \in Req : st[i] # "new" => op'[i] = op[i] /\ st'[i] # "new"
  PROVE  Writers' /\ DataIsLastWritten'
<1>1. Writers'
  BY DEF Writers
<1>2. ASSUME NEW c \in Cell
      PROVE  Entries(c)' = Entries(c) /\ Expected(c)' = Expected(c)
  <2>1. last[c].by # None => op'[last[c].by] = op[last[c].by]
    BY DEF Writers
  <2> QED
    BY <2>1 DEF Entries, Expected, InCell, Ttl
<1> QED
  BY <1>1, <1>2 DEF DataIsLastWritten

LEMMA BeginStep ==
  ASSUME IInv, NEW i \in Req, NEW o \in Writes, Begin(i, o)
  PROVE  IInv'
<1> USE DEF IInv
<1>1. /\ st[i] = "new" /\ st' = [st EXCEPT ![i] = "call"]
      /\ op' = [op EXCEPT ![i] = o] /\ step[i] = 1
      /\ before' = [before EXCEPT ![i] = {j \in Req : st[j] = "ok"}]
      /\ UNCHANGED <<data, now, step, flight, replies, last>>
  BY DEF Begin, network, Progress
<1>2. TypeOK'
  BY <1>1 DEF TypeOK
<1>3. \A j \in Req : j # i => op'[j] = op[j] /\ st'[j] = st[j] /\ before'[j] = before[j]
  BY <1>1 DEF TypeOK, Answered
<1>4. op'[i] = o /\ st'[i] = "call" /\ i \notin replies
  BY <1>1 DEF TypeOK
<1>5. Progress'
  <2> DEFINE n == Len(Calls(o))
  <2>1. n \in 1 .. 2
    BY CallShape
  <2>2. op'[i] \in Writes /\ Len(Calls(op'[i])) = n
    BY <1>4
  <2> HIDE DEF n
  <2>3. step'[i] <= Len(Calls(op'[i]))
    BY <1>1, <2>1, <2>2
  <2> QED
    BY <1>1, <1>3, <1>4, <2>2, <2>3 DEF Progress
<1>6. InFlight'
  <2>1. \A f \in flight : f.req # i /\ f.req \in Req
    BY <1>1 DEF InFlight, TypeOK
  <2> QED
    BY <1>1, <1>3, <2>1 DEF InFlight
<1>7. Answered'
  BY <1>1, <1>3, <1>4 DEF Answered, TypeOK
<1>8. ExecutedHold'
  <2> SUFFICES ASSUME NEW j \in Req, st'[j] # "new",
                      NEW k \in 1 .. Len(Calls(op'[j])), Executed(j, k)'
               PROVE  Holds(j, k)'
    BY DEF ExecutedHold
  <2>1. j # i
    BY <1>1, <1>4 DEF Executed
  <2> QED
    BY <1>1, <1>3, <2>1 DEF ExecutedHold, Executed, Holds
<1>9. Writers' /\ DataIsLastWritten'
  BY <1>1, <1>3, DataStutter
<1> QED
  BY <1>2, <1>5, <1>6, <1>7, <1>8, <1>9

LEMMA HandlerStep ==
  ASSUME IInv, NEW i \in Req, Call(i) \/ Reply(i) \/ Fail(i)
  PROVE  IInv'
<1> USE DEF IInv
<1>1. /\ st[i] \in {"call", "wait"} /\ op[i] \in Writes
      /\ UNCHANGED <<data, now, op, before, last>>
  BY DEF Call, Reply, Fail, Progress
<1>2. step[i] \in 1 .. Len(Calls(op[i])) /\ Len(Calls(op[i])) \in 1 .. 2
  BY <1>1, CallShape DEF Progress, TypeOK
<1>3. /\ st'[i] \in {"call", "wait", "ok", "error"}
      /\ \A j \in Req : j # i => st'[j] = st[j] /\ step'[j] = step[j]
                                 /\ (j \in replies' <=> j \in replies)
  BY DEF Call, Reply, Fail, TypeOK
<1>4. step'[i] \in 1 .. Len(Calls(op[i])) /\ step' \in [Req -> 1 .. 2]
  <2>1. CASE Call(i) \/ Fail(i)
    BY <1>2, <2>1 DEF Call, Fail, TypeOK
  <2>2. CASE Reply(i)
    <3>1. CASE step[i] < Len(Calls(op[i]))
      <4> DEFINE n == Len(Calls(op[i]))
      <4>0. n \in 1 .. 2 /\ step[i] \in 1 .. n /\ step[i] < n
        BY <1>2, <3>1
      <4> HIDE DEF n
      <4>1. step[i] + 1 \in 1 .. n /\ step[i] + 1 \in 1 .. 2
        BY <4>0
      <4>2. step' = [step EXCEPT ![i] = step[i] + 1]
        BY <2>2, <3>1 DEF Reply
      <4> QED
        BY <4>1, <4>2 DEF TypeOK, n
    <3>2. CASE ~(step[i] < Len(Calls(op[i])))
      BY <1>2, <2>2, <3>2 DEF Reply, TypeOK
    <3> QED
      BY <3>1, <3>2
  <2> QED
    BY <2>1, <2>2
<1>5. Progress'
  <2>1. st'[i] = "ok" => step'[i] = Len(Calls(op[i]))
    <3>1. CASE Reply(i)
      <4> DEFINE n == Len(Calls(op[i]))
      <4>1. n \in 1 .. 2 /\ step[i] \in 1 .. n
        BY <1>2
      <4>2. step[i] < n => st'[i] = "call"
        BY <3>1 DEF Reply, TypeOK
      <4>3. ~(step[i] < n) => step'[i] = step[i]
        BY <3>1 DEF Reply
      <4> HIDE DEF n
      <4>4. st'[i] = "ok" => step'[i] = n
        BY <4>1, <4>2, <4>3
      <4> QED
        BY <4>4 DEF n
    <3>2. CASE Call(i) \/ Fail(i)
      BY <3>2 DEF Call, Fail, TypeOK
    <3> QED
      BY <3>1, <3>2
  <2>2. step'[i] <= Len(Calls(op[i]))
    <3> DEFINE n == Len(Calls(op[i]))
    <3>1. n \in 1 .. 2 /\ step'[i] \in 1 .. n
      BY <1>2, <1>4
    <3> HIDE DEF n
    <3>2. step'[i] <= n
      BY <3>1
    <3> QED
      BY <3>2 DEF n
  <2> QED
    BY <1>1, <1>3, <2>1, <2>2 DEF Progress
<1>6. Answered'
  BY <1>1, <1>3 DEF Answered
<1>7. Writers' /\ DataIsLastWritten'
  BY <1>1, <1>3, DataStutter
<1>8. \A k \in 1 .. Len(Calls(op[i])) : Executed(i, k)' => Executed(i, k)
  BY <1>2 DEF Call, Reply, Fail, Executed, TypeOK
<1>9. ExecutedHold'
  <2> SUFFICES ASSUME NEW j \in Req, st'[j] # "new",
                      NEW k \in 1 .. Len(Calls(op'[j])), Executed(j, k)'
               PROVE  Holds(j, k)'
    BY DEF ExecutedHold
  <2>1. st[j] # "new" /\ Executed(j, k)
    BY <1>1, <1>3, <1>8 DEF Executed
  <2> QED
    BY <1>1, <2>1 DEF ExecutedHold, Holds
<1>10. TypeOK' /\ InFlight'
  <2>1. CASE Call(i)
    <3> DEFINE new == [req |-> i, todo |-> Calls(op[i])[step[i]]]
    <3>1. /\ st[i] = "call" /\ st'[i] = "wait" /\ flight' = flight \cup {new}
          /\ i \notin replies /\ UNCHANGED <<step, replies>>
      BY <2>1 DEF Call, TypeOK
    <3>2. \A f \in flight : f.req # i
      BY <3>1 DEF InFlight
    <3>3. new.todo # <<>>
      BY <1>1, <1>2, CallShape
    <3>4. TypeOK'
      BY <1>1, <1>3, <3>1, <3>3, <2>1 DEF TypeOK, Call
    <3> QED
      BY <1>1, <1>3, <3>1, <3>2, <3>4 DEF InFlight, TypeOK
  <2>2. CASE Reply(i)
    <3>1. \A f \in flight : f.req # i
      BY <2>2 DEF Reply, InFlight
    <3>2. UNCHANGED flight /\ replies' = replies \ {i} /\ st' \in [Req -> {"new", "call", "wait", "ok", "error"}]
      BY <2>2 DEF Reply, TypeOK
    <3>3. TypeOK'
      BY <1>1, <1>3, <1>4, <3>2 DEF TypeOK
    <3> QED
      BY <1>1, <1>3, <3>1, <3>2, <3>3 DEF InFlight, TypeOK
  <2>3. CASE Fail(i)
    <3>1. UNCHANGED <<flight, step>> /\ replies' = replies \ {i} /\ st' = [st EXCEPT ![i] = "error"]
      BY <2>3 DEF Fail
    <3>2. TypeOK'
      BY <1>1, <1>3, <3>1 DEF TypeOK
    <3> QED
      BY <1>1, <1>3, <3>1, <3>2 DEF InFlight, TypeOK
  <2> QED
    BY <2>1, <2>2, <2>3
<1> QED
  BY <1>5, <1>6, <1>7, <1>9, <1>10

LEMMA ExecuteStep ==
  ASSUME IInv, NEW f \in flight, Execute(f)
  PROVE  IInv'
<1> USE DEF IInv
<1> DEFINE i == f.req
           o == op[i]
           k == step[i]
           d == CellOfCall(o, k)
<1>1. /\ i \in Req /\ st[i] \in {"wait", "error"} /\ i \notin replies /\ o \in Writes
      /\ f.todo = Calls(o)[k]
  BY DEF InFlight, Progress, TypeOK
<1>2. k \in 1 .. Len(Calls(o)) /\ Len(Calls(o)) \in 1 .. 2
  BY <1>1, CallShape DEF Progress, TypeOK
<1>3. /\ Tail(f.todo) = <<>>
      /\ d \in Cells(o) /\ d \in Cell
      /\ \A n \in DOMAIN Head(f.todo) : CellsOf(Head(f.todo)[n]) = d
      /\ \E n \in DOMAIN Head(f.todo) : TRUE
  <2>1. f.todo = <<Head(f.todo)>>
    BY <1>1, <1>2, CallShape
  <2>2. Tail(f.todo) = <<>>
    <3>1. \A x : Tail(<<x>>) = <<>>
      OBVIOUS
    <3> QED
      BY <2>1, <3>1
  <2> QED
    BY <1>1, <1>2, <2>2, CallShape, CallCell
<1>4. /\ data' = Transaction(Head(Calls(o)[k]))
      /\ flight' = flight \ {f}
      /\ replies' = IF st[i] = "wait" THEN replies \cup {i} ELSE replies
      /\ UNCHANGED <<now, op, st, step, before>>
  BY <1>1, <1>3 DEF Execute, handlers
<1>5. last' = [c \in Cell |-> IF c = d THEN [by |-> i, at |-> now] ELSE last[c]]
  <2>1. DOMAIN last = Cell
    BY DEF Writers
  <2>2. \A c : (\E n \in DOMAIN Head(f.todo) : CellsOf(Head(f.todo)[n]) = c) <=> c = d
    BY <1>3
  <2> HIDE DEF d, i
  <2>3. last' = [c \in DOMAIN last |->
                    IF \E n \in DOMAIN Head(f.todo) : CellsOf(Head(f.todo)[n]) = c
                    THEN [by |-> f.req, at |-> now] ELSE last[c]]
    BY DEF Execute
  <2> QED
    BY <2>1, <2>2, <2>3 DEF i
<1>6. TypeOK'
  <2>1. \A e \in data' : e.field \in Address \cup Token \cup {"self"} /\ e.exp \in Nat
    BY <1>1, <1>2, <1>4, TransactionType
  <2> QED
    BY <1>1, <1>4, <2>1 DEF TypeOK
<1>7. Progress' /\ Answered'
  BY <1>4 DEF Progress, Answered
<1>8. InFlight'
  BY <1>4 DEF InFlight
<1>9. now \in Nat /\ i # None
  BY <1>1, BoundAssumption, NoneAssumption DEF TypeOK, Req
<1>10. ExecutedHold'
  <2> SUFFICES ASSUME NEW j \in Req, st[j] # "new",
                      NEW n \in 1 .. Len(Calls(op[j])), Executed(j, n)'
               PROVE  Holds(j, n)'
    BY <1>4 DEF ExecutedHold
  <2> DEFINE c == CellOfCall(op[j], n)
  <2>1. c \in Cell
    BY CallCell DEF Progress
  <2>2. i \notin before[j]
    BY <1>1 DEF Answered
  <2>3. CASE c = d
    <3>1. last'[c].by = i
      BY <1>5, <2>1, <2>3
    <3> QED
      BY <1>4, <1>9, <2>2, <3>1 DEF Holds
  <2>4. CASE c # d
    <3>0. j # i \/ n # k
      BY <2>4
    <3>1. Executed(j, n)
      <4> HIDE DEF i, k, c, d
      <4>1. \/ n < step[j]
            \/ n = step[j] /\ (st[j] = "ok" \/ j \in replies \/ j = i)
        BY <1>4 DEF Executed
      <4>2. n = step[j] /\ j = i => n = k
        BY DEF k, i
      <4> QED
        BY <3>0, <4>1, <4>2 DEF Executed
    <3>2. last'[c] = last[c]
      BY <1>5, <2>1, <2>4
    <3> QED
      BY <1>4, <3>1, <3>2 DEF ExecutedHold, Holds
  <2> QED
    BY <2>3, <2>4
<1>11. Writers'
  BY <1>1, <1>3, <1>4, <1>5, <1>9 DEF Writers
<1>12. ASSUME NEW c \in Cell
       PROVE  Entries(c)' = Expected(c)'
  <2>1. CASE c # d
    <3>1. last'[c] = last[c]
      BY <1>5, <2>1
    <3>2. Expected(c)' = Expected(c)
      BY <1>4, <3>1 DEF Expected, Ttl
    <3>3. Entries(c)' = Entries(c)
      <4>1. CASE o.do = "update"
        <5>1. k = 1
          BY <1>1, <1>2, <4>1, CallShape
        <5> QED
          BY <1>1, <1>4, <2>1, <4>1, <5>1, UpdateEffect
      <4>2. CASE o.do = "delete"
        <5>1. k \in 1 .. 2
          BY <1>1, <1>2, <4>2, CallShape
        <5> QED
          BY <1>1, <1>4, <2>1, <4>2, <5>1, DeleteEffect
      <4>3. CASE o.do \in {"add", "remove"}
        <5>1. k = 1
          BY <1>1, <1>2, <4>3, CallShape
        <5> QED
          BY <1>1, <1>4, <2>1, <4>3, <5>1, ChallengeEffect
      <4> QED
        BY <1>1, <4>1, <4>2, <4>3, WriteShape
    <3> QED
      BY <3>2, <3>3 DEF DataIsLastWritten
  <2>2. CASE c = d
    <3>1. last'[c] = [by |-> i, at |-> now]
      BY <1>5, <2>2
    <3>2. Expected(c)' = IF o.do \in {"update", "add"} /\ now < now + Ttl(c)
                         THEN {[key |-> c[1], field |-> o.val, exp |-> now + Ttl(c)]} ELSE {}
      BY <1>4, <1>9, <3>1 DEF Expected, Ttl
    <3>3. now < now + AddressTtl /\ now < now + ChallengeTtl
      BY <1>9, TtlAssumption
    <3>4. CASE o.do = "update"
      <4>0. k = 1
        BY <1>1, <1>2, <3>4, CallShape
      <4>1. k = 1 /\ d = <<IpKey(o.name, o.val)>>
        BY <3>4, <4>0 DEF CellOfCall
      <4>2. Ttl(c) = AddressTtl
        BY <2>2, <4>1 DEF Ttl
      <4> QED
        BY <1>1, <1>4, <2>2, <3>2, <3>3, <3>4, <4>1, <4>2, UpdateEffect
    <3>5. CASE o.do = "delete"
      <4>1. k \in 1 .. 2
        BY <1>1, <1>2, <3>5, CallShape
      <4> QED
        BY <1>1, <1>4, <2>2, <3>2, <3>5, <4>1, DeleteEffect
    <3>6. CASE o.do \in {"add", "remove"}
      <4>1. k = 1 /\ d = <<Txt(o.name), o.val>>
        BY <1>1, <1>2, <3>6, CallShape DEF CellOfCall
      <4>2. Ttl(c) = ChallengeTtl
        BY <2>2, <4>1 DEF Ttl
      <4> QED
        BY <1>1, <1>4, <2>2, <3>2, <3>3, <3>6, <4>1, <4>2, ChallengeEffect
    <3> QED
      BY <1>1, <3>4, <3>5, <3>6, WriteShape
  <2> QED
    BY <2>1, <2>2
<1> QED
  BY <1>6, <1>7, <1>8, <1>10, <1>11, <1>12 DEF DataIsLastWritten

LEMMA LoseStep ==
  ASSUME IInv, NEW f \in flight, Lose(f)
  PROVE  IInv'
<1> USE DEF IInv
<1>1. /\ flight' = flight \ {f}
      /\ UNCHANGED <<data, now, op, st, step, replies, before, last>>
  BY DEF Lose, handlers
<1>2. TypeOK' /\ Progress' /\ InFlight' /\ Answered' /\ ExecutedHold'
  BY <1>1 DEF TypeOK, Progress, InFlight, Answered, ExecutedHold, Executed, Holds
<1>3. Writers' /\ DataIsLastWritten'
  BY <1>1, DataStutter
<1> QED
  BY <1>2, <1>3

LEMMA TickStep ==
  ASSUME IInv, Tick
  PROVE  IInv'
<1> USE DEF IInv
<1>1. /\ now \in Nat /\ now' = now + 1 /\ data' = {e \in data : e.exp > now'}
      /\ now' \in 0 .. MaxTime
      /\ UNCHANGED <<op, st, step, flight, replies, before, last>>
  BY BoundAssumption DEF Tick, handlers, network, TypeOK
<1>2. TypeOK' /\ Progress' /\ InFlight' /\ Answered' /\ ExecutedHold' /\ Writers'
  BY <1>1 DEF TypeOK, Progress, InFlight, Answered, ExecutedHold, Executed, Holds, Writers
<1>3. ASSUME NEW c \in Cell
      PROVE  Entries(c)' = Expected(c)'
  <2>1. Entries(c)' = {e \in Entries(c) : e.exp > now'}
    BY <1>1 DEF Entries, InCell
  <2>2. Entries(c) = Expected(c)
    BY DEF DataIsLastWritten
  <2>3. Ttl(c) \in Nat /\ last[c].at \in Nat
    BY TtlAssumption DEF Ttl, Writers
  <2>4. now' < last[c].at + Ttl(c) => now < last[c].at + Ttl(c)
    BY <1>1, <2>3
  <2> QED
    BY <1>1, <2>1, <2>2, <2>3, <2>4 DEF Expected, Ttl
<1> QED
  BY <1>2, <1>3 DEF DataIsLastWritten

LEMMA StutterStep ==
  ASSUME IInv, UNCHANGED vars
  PROVE  IInv'
<1>1. UNCHANGED <<data, now, op, st, step, flight, replies, before, last>>
  BY DEF vars, handlers, network
<1>2. TypeOK' /\ Progress' /\ InFlight' /\ Answered' /\ ExecutedHold'
  BY <1>1 DEF IInv, TypeOK, Progress, InFlight, Answered, ExecutedHold, Executed, Holds
<1>3. Writers' /\ DataIsLastWritten'
  BY <1>1, DataStutter DEF IInv
<1> QED
  BY <1>2, <1>3 DEF IInv

LEMMA NextIInv == IInv /\ [Next]_vars => IInv'
<1> SUFFICES ASSUME IInv, [Next]_vars PROVE IInv'
  OBVIOUS
<1>1. ASSUME NEW i \in Req, NEW o \in Writes, Begin(i, o)
      PROVE  IInv'
  BY <1>1, BeginStep
<1>2. ASSUME NEW i \in Req, Call(i) \/ Reply(i) \/ Fail(i)
      PROVE  IInv'
  BY <1>2, HandlerStep
<1>3. ASSUME NEW f \in flight, Execute(f)
      PROVE  IInv'
  BY <1>3, ExecuteStep
<1>4. ASSUME NEW f \in flight, Lose(f)
      PROVE  IInv'
  BY <1>4, LoseStep
<1> QED
  BY <1>1, <1>2, <1>3, <1>4, TickStep, StutterStep DEF Next

-----------------------------------------------------------------------------
LEMMA InvariantImplies == IInv => AcknowledgedHolds
<1> SUFFICES ASSUME IInv, NEW c \in DOMAIN last
             PROVE  /\ Serves(c) = LastWrite(c)
                    /\ \A i \in Req : st[i] = "ok" /\ c \in Cells(op[i]) =>
                           last[c].by # None /\ last[c].by \notin before[i]
  BY DEF AcknowledgedHolds
<1> USE DEF IInv
<1>1. c \in Cell
  BY DEF Writers
<1>2. Serves(c) = LastWrite(c)
  <2>1. Entries(c) = Expected(c)
    BY <1>1 DEF DataIsLastWritten
  <2>2. Serves(c) = {e.field : e \in Entries(c)}
    <3>1. CASE Len(c) = 1
      BY <3>1 DEF Serves, Hkeys, Entries, InCell
    <3>2. CASE Len(c) # 1
      BY <3>2 DEF Serves, Hkeys, Entries, InCell
    <3> QED
      BY <3>1, <3>2
  <2> DEFINE lasts == /\ last[c].by # None /\ op[last[c].by].do \in {"update", "add"}
                      /\ now < last[c].at + Ttl(c)
             value == op[last[c].by].val
  <2>3. LastWrite(c) = IF lasts THEN {value} ELSE {}
    BY DEF LastWrite, Ttl
  <2>4. Expected(c) = IF lasts
                      THEN {[key |-> c[1], field |-> value, exp |-> last[c].at + Ttl(c)]}
                      ELSE {}
    BY DEF Expected
  <2> HIDE DEF lasts, value
  <2>5. {e.field : e \in Expected(c)} = IF lasts THEN {value} ELSE {}
    <3>1. CASE lasts
      <4> DEFINE r == [key |-> c[1], field |-> value, exp |-> last[c].at + Ttl(c)]
      <4>1. Expected(c) = {r} /\ r.field = value
        BY <2>4, <3>1
      <4> HIDE DEF r
      <4> QED
        BY <3>1, <4>1
    <3>2. CASE ~lasts
      BY <2>4, <3>2
    <3> QED
      BY <3>1, <3>2
  <2> QED
    BY <2>1, <2>2, <2>3, <2>5
<1>3. ASSUME NEW i \in Req, st[i] = "ok", c \in Cells(op[i])
      PROVE  last[c].by # None /\ last[c].by \notin before[i]
  <2>1. op[i] \in Writes
    BY <1>3 DEF Progress
  <2>2. PICK k \in 1 .. Len(Calls(op[i])) : c = CellOfCall(op[i], k)
    BY <1>3, <2>1, CallShape
  <2>3. Executed(i, k)
    <3> DEFINE n == Len(Calls(op[i]))
    <3>1. k \in 1 .. n /\ step[i] = n /\ n \in 1 .. 2
      BY <1>3, <2>1, CallShape DEF Progress
    <3> HIDE DEF n
    <3>2. k < step[i] \/ k = step[i]
      BY <3>1
    <3> QED
      BY <1>3, <3>2 DEF Executed
  <2>4. Holds(i, k)
    BY <1>3, <2>3 DEF ExecutedHold
  <2> QED
    BY <2>2, <2>4 DEF Holds
<1> QED
  BY <1>2, <1>3

-----------------------------------------------------------------------------
(* TypeOK: what is in flight, in the server and in the replies belongs to  *)
(* requests that are in the state for it.                                  *)
THEOREM TypeCorrect == Spec => []TypeOK
<1>1. IInv => TypeOK
  BY DEF IInv
<1> QED
  BY <1>1, InitIInv, NextIInv, PTL DEF Spec

(* AcknowledgedHolds: what dyn.HTTPHandler and challenges.HTTPHandler      *)
(* answered with success is what DNS serves, until its lifetime ends or a  *)
(* request takes its place that was not answered before it began.          *)
THEOREM AcknowledgedRequestsHold == Spec => []AcknowledgedHolds
<1> QED
  BY InvariantImplies, InitIInv, NextIInv, PTL DEF Spec

-----------------------------------------------------------------------------
(* A set of numbers that holds 0 and with each number the next one holds   *)
(* all.  What the library has on induction is about an operator; of sets   *)
(* it is a consequence of the pigeonhole principle.                        *)
LEMMA SetInduction ==
  ASSUME NEW P, 0 \in P, \A n \in Nat : n \in P => n + 1 \in P
  PROVE  Nat \subseteq P
<1> SUFFICES ASSUME NEW x \in Nat, x \notin P
             PROVE  FALSE
  OBVIOUS
<1> DEFINE A == {n \in 0 .. x : n \in P}
           next == [n \in A |-> n + 1]
<1>1. IsFiniteSet(A)
  <2>1. IsFiniteSet(0 .. x)
    BY FS_Interval
  <2>2. A \subseteq 0 .. x
    OBVIOUS
  <2> HIDE DEF A
  <2> QED
    BY <2>1, <2>2, FS_Subset
<1>2. 0 \in A /\ IsFiniteSet(A \ {0}) /\ Cardinality(A \ {0}) = Cardinality(A) - 1
  <2>1. 0 \in A
    OBVIOUS
  <2> HIDE DEF A
  <2> QED
    BY <1>1, <2>1, FS_RemoveElement
<1>3. next \in [A -> A \ {0}] /\ A \subseteq Nat
  OBVIOUS
<1> HIDE DEF A
<1>4. Cardinality(A \ {0}) < Cardinality(A)
  BY <1>1, <1>2, FS_CardinalityType
<1>5. \E m, n \in A : m # n /\ next[m] = next[n]
  <2> HIDE DEF next
  <2> QED
    BY <1>1, <1>2, <1>3, <1>4, FS_PigeonHole
<1> QED
  BY <1>3, <1>5

-----------------------------------------------------------------------------
(* GetString: the loop over the values of a name.                          *)

Value == {NotString} \cup STRING
Nothing == [str |-> "", found |-> FALSE, err |-> None]
Result == [str : Value \cup {""}, found : BOOLEAN, err : {None, "read", "unexpected", "ambiguous"}]

(* f is what the loop has after each value.                                *)
Loop(vals, f) == f = [n \in 0 .. Len(vals) |-> IF n = 0 THEN Nothing ELSE scan(f[n - 1], vals[n])]

LEMMA ScanType ==
  ASSUME NEW r \in Result, NEW v \in Value
  PROVE  scan(r, v) \in Result
BY DEF scan, Result, Value

(* After n values: one that ended well saw nothing but its string.         *)
Seen(vals, n, r) ==
  /\ r \in Result
  /\ r.err = None => /\ r.found <=> n # 0
                     /\ ~r.found => r.str = ""
                     /\ \A m \in 1 .. n : vals[m] = r.str

LEMMA ScanSees ==
  ASSUME NEW vals \in Seq(Value), NEW n \in 1 .. Len(vals), NEW r, Seen(vals, n - 1, r)
  PROVE  Seen(vals, n, scan(r, vals[n]))
<1> DEFINE v == vals[n]
<1>1. v \in Value /\ n \in Nat /\ n # 0 /\ n - 1 \in Nat
  OBVIOUS
<1>0. r \in Result
  BY DEF Seen
<1>2. scan(r, v) \in Result
  BY <1>0, <1>1, ScanType
<1>3. ASSUME scan(r, v).err = None
      PROVE  scan(r, v).found /\ \A m \in 1 .. n : vals[m] = scan(r, v).str
  <2>1. r.err = None /\ v # NotString
    BY <1>0, <1>1, <1>3, NoneAssumption DEF scan, Result
  <2>2. CASE r.found
    <3>1. v = r.str /\ scan(r, v) = r
      BY <1>0, <1>1, <1>3, <2>1, <2>2, NoneAssumption DEF scan, Result
    <3> QED
      BY <1>0, <1>1, <2>1, <2>2, <3>1 DEF Seen
  <2>3. CASE ~r.found
    <3>1. n - 1 = 0
      BY <2>1, <2>3 DEF Seen
    <3>2. scan(r, v).found /\ scan(r, v).str = v
      BY <1>0, <1>1, <2>1, <2>3 DEF scan, Result
    <3>3. \A m \in 1 .. n : m = n
      BY <1>1, <3>1
    <3> QED
      BY <3>2, <3>3
  <2> QED
    BY <2>2, <2>3
<1> QED
  BY <1>0, <1>1, <1>2, <1>3 DEF Seen

(* There is such a function, so that GetString has the value it defines.   *)
LEMMA LoopExists ==
  ASSUME NEW vals \in Seq(Value)
  PROVE  \E f : Loop(vals, f)
<1> DEFINE Upto(n, f) == /\ f \in [0 .. n -> Result] /\ f[0] = Nothing
                         /\ \A m \in 1 .. n : f[m] = scan(f[m - 1], vals[m])
           P == {n \in Nat : n <= Len(vals) => \E f : Upto(n, f)}
<1>1. 0 \in P
  <2>1. Nothing \in Result
    BY DEF Nothing, Result
  <2>2. Upto(0, [n \in 0 .. 0 |-> Nothing])
    BY <2>1
  <2> QED
    BY <2>2
<1>2. ASSUME NEW n \in Nat, n \in P
      PROVE  n + 1 \in P
  <2> SUFFICES ASSUME n + 1 <= Len(vals)
               PROVE  \E f : Upto(n + 1, f)
    OBVIOUS
  <2>1. PICK g : Upto(n, g)
    BY <1>2
  <2>2. g[n] \in Result /\ vals[n + 1] \in Value
    BY <2>1
  <2>3. scan(g[n], vals[n + 1]) \in Result
    BY <2>2, ScanType
  <2> DEFINE f == [m \in 0 .. n + 1 |-> IF m = n + 1 THEN scan(g[n], vals[n + 1]) ELSE g[m]]
  <2>4. f \in [0 .. n + 1 -> Result] /\ f[0] = Nothing
    BY <2>1, <2>3
  <2>5. \A m \in 1 .. n + 1 : f[m] = scan(f[m - 1], vals[m])
    BY <2>1
  <2> QED
    BY <2>4, <2>5
<1>3. Len(vals) \in P
  <2> HIDE DEF P
  <2> QED
    BY <1>1, <1>2, SetInduction
<1>4. PICK f : Upto(Len(vals), f)
  BY <1>3
<1>5. Loop(vals, f)
  BY <1>4 DEF Loop
<1> QED
  BY <1>5

LEMMA LoopSees ==
  ASSUME NEW vals \in Seq(Value), NEW f, Loop(vals, f)
  PROVE  Seen(vals, Len(vals), f[Len(vals)])
<1> DEFINE P == {n \in Nat : n <= Len(vals) => Seen(vals, n, f[n])}
<1>1. 0 \in P
  <2>1. f[0] = Nothing
    BY DEF Loop
  <2> QED
    <3>1. Nothing \in Result /\ ~Nothing.found /\ Nothing.str = "" /\ 1 .. 0 = {}
      BY DEF Nothing, Result
    <3> QED
      BY <2>1, <3>1 DEF Seen
<1>2. ASSUME NEW n \in Nat, n \in P
      PROVE  n + 1 \in P
  <2> SUFFICES ASSUME n + 1 <= Len(vals)
               PROVE  Seen(vals, n + 1, f[n + 1])
    OBVIOUS
  <2>1. f[n + 1] = scan(f[n], vals[n + 1])
    BY DEF Loop
  <2>2. Seen(vals, (n + 1) - 1, f[n])
    BY <1>2
  <2> QED
    BY <2>1, <2>2, ScanSees
<1>3. Len(vals) \in P
  <2> HIDE DEF P
  <2> QED
    BY <1>1, <1>2, SetInduction
<1> QED
  BY <1>3

LEMMA GetStringLoop ==
  ASSUME NEW q, NEW name, ~ReadFails(q), Values(q, name) \in Seq(Value)
  PROVE  \E f : Loop(Values(q, name), f) /\ GetString(q, name) = f[Len(Values(q, name))]
<1> DEFINE vals == Values(q, name)
<1>1. Loop(vals, CHOOSE f : Loop(vals, f))
  <2>1. vals \in Seq(Value)
    OBVIOUS
  <2> HIDE DEF vals
  <2>2. \E f : Loop(vals, f)
    BY <2>1, LoopExists
  <2> QED
    BY <2>2
<1>2. GetString(q, name) = (CHOOSE f : Loop(vals, f))[Len(vals)]
  BY DEF GetString, Loop, Nothing
<1> QED
  BY <1>1, <1>2

WellTyped(q) ==
  /\ q.type \in MediaType
  /\ \A n \in Name :
        {q.query[n], q.body.form[n], q.body.json[n]} \subseteq Seq(Value)

(* Of each name JSONObject has a value, or none.                           *)
LEMMA JSONObjectValues ==
  ASSUME NEW q, NEW name \in Name, WellTyped(q)
  PROVE  /\ JSONObject(q.body)[name] \in Seq(Value)
         /\ Range(JSONObject(q.body)[name]) = {v[Len(v)] : v \in {q.body.json[name]} \ {<<>>}}
<1> DEFINE v == q.body.json[name]
<1>1. v \in Seq(Value)
  BY DEF WellTyped
<1>2. JSONObject(q.body)[name] = IF v = <<>> THEN <<>> ELSE <<v[Len(v)]>>
  BY DEF JSONObject
<1> HIDE DEF v
<1>3. v # <<>> => v[Len(v)] \in Value
  BY <1>1
<1>4. Range(<<>>) = {} /\ \A x : Range(<<x>>) = {x}
  BY DEF Range
<1>5. CASE v = <<>>
  <2>1. {w[Len(w)] : w \in {v} \ {<<>>}} = {}
    BY <1>5
  <2> QED
    BY <1>2, <1>4, <1>5, <2>1 DEF v
<1>6. CASE v # <<>>
  <2>1. {w[Len(w)] : w \in {v} \ {<<>>}} = {v[Len(v)]}
    BY <1>6
  <2> QED
    BY <1>2, <1>3, <1>4, <1>6, <2>1 DEF v
<1> QED
  BY <1>5, <1>6

(* Every value that counts is there, and they are those Given says.        *)
LEMMA ValuesGiven ==
  ASSUME NEW q, NEW name \in Name, WellTyped(q)
  PROVE  /\ Values(q, name) \in Seq(Value)
         /\ {Values(q, name)[n] : n \in 1 .. Len(Values(q, name))} = Given(q, name)
<1> DEFINE body == IF ~ReadsBody(q) THEN <<>>
                   ELSE IF q.type = "json" THEN JSONObject(q.body)[name]
                   ELSE q.body.form[name]
           query == q.query[name]
<1>1. body \in Seq(Value) /\ query \in Seq(Value)
  BY JSONObjectValues DEF WellTyped
<1>2. Values(q, name) = body \o query
  BY DEF Values
<1>3. Range(body) =
          IF q.method = "GET" \/ q.type = "other" THEN {}
          ELSE IF q.type = "json" THEN {v[Len(v)] : v \in {q.body.json[name]} \ {<<>>}}
          ELSE Range(q.body.form[name])
  <2>1. Range(<<>>) = {}
    BY DEF Range
  <2>2. q.type \in {"form", "json", "none", "other"}
    BY DEF WellTyped, MediaType
  <2>3. Range(JSONObject(q.body)[name]) = {v[Len(v)] : v \in {q.body.json[name]} \ {<<>>}}
    BY JSONObjectValues
  <2>4. CASE q.method = "GET" \/ q.type = "other"
    <3>1. ~ReadsBody(q)
      BY <2>4 DEF ReadsBody
    <3>2. body = <<>>
      BY <3>1
    <3> HIDE DEF body
    <3> QED
      BY <2>1, <2>4, <3>2
  <2>5. CASE q.method # "GET" /\ q.type = "json"
    <3>1. body = JSONObject(q.body)[name]
      BY <2>5 DEF ReadsBody
    <3> HIDE DEF body
    <3> QED
      BY <2>3, <2>5, <3>1
  <2>6. CASE q.method # "GET" /\ q.type \in {"form", "none"}
    <3>1. body = q.body.form[name]
      BY <2>6 DEF ReadsBody
    <3> HIDE DEF body
    <3> QED
      BY <2>6, <3>1
  <2> QED
    BY <2>2, <2>4, <2>5, <2>6
<1>4. Given(q, name) = Range(query) \cup Range(body)
  BY <1>3 DEF Given
<1> HIDE DEF body, query
<1>5. body \o query \in Seq(Value) /\ Len(body \o query) = Len(body) + Len(query)
  BY <1>1
<1>6. \A t \in Seq(Value) : Range(t) = {t[n] : n \in 1 .. Len(t)}
  BY DEF Range
<1>7. Range(body \o query) \subseteq Range(query) \cup Range(body)
  <2>0. Range(body \o query) = {(body \o query)[n] : n \in 1 .. Len(body \o query)}
    BY <1>5, <1>6
  <2> SUFFICES ASSUME NEW n \in 1 .. Len(body \o query)
               PROVE  (body \o query)[n] \in Range(query) \cup Range(body)
    BY <2>0
  <2>1. CASE n <= Len(body)
    <3>1. n \in 1 .. Len(body) /\ (body \o query)[n] = body[n]
      BY <1>1, <1>5, <2>1
    <3> QED
      BY <1>1, <1>6, <3>1
  <2>2. CASE n > Len(body)
    <3>1. n - Len(body) \in 1 .. Len(query) /\ (body \o query)[n] = query[n - Len(body)]
      BY <1>1, <1>5, <2>2
    <3> QED
      BY <1>1, <1>6, <3>1
  <2> QED
    BY <1>1, <1>5, <2>1, <2>2
<1>8. Range(query) \cup Range(body) \subseteq Range(body \o query)
  <2>1. ASSUME NEW n \in 1 .. Len(body)
        PROVE  body[n] \in Range(body \o query)
    <3>1. n \in 1 .. Len(body \o query) /\ (body \o query)[n] = body[n]
      BY <1>1, <1>5
    <3> QED
      BY <1>5, <1>6, <3>1
  <2>2. ASSUME NEW n \in 1 .. Len(query)
        PROVE  query[n] \in Range(body \o query)
    <3>1. /\ n + Len(body) \in 1 .. Len(body \o query)
          /\ (body \o query)[n + Len(body)] = query[n]
      BY <1>1, <1>5
    <3> QED
      BY <1>5, <1>6, <3>1
  <2> QED
    BY <1>1, <1>6, <2>1, <2>2
<1> QED
  BY <1>2, <1>4, <1>5, <1>6, <1>7, <1>8

(* GetString returns without an error only what all values of the name are.*)
LEMMA GetStringMeans ==
  ASSUME NEW q, NEW name \in Name, WellTyped(q), GetString(q, name).err = None
  PROVE  LET v == GetString(q, name).str
         IN  /\ ~ReadFails(q)
             /\ Given(q, name) = {v} \/ (Given(q, name) = {} /\ v = "")
<1> DEFINE vals == Values(q, name)
           r == GetString(q, name)
<1>1. ~ReadFails(q)
  BY NoneAssumption DEF GetString
<1>2. vals \in Seq(Value) /\ Given(q, name) = {vals[n] : n \in 1 .. Len(vals)}
  BY ValuesGiven
<1>3. PICK f : Loop(vals, f) /\ r = f[Len(vals)]
  BY <1>1, <1>2, GetStringLoop
<1>4. Seen(vals, Len(vals), r)
  <2> HIDE DEF vals, r
  <2> QED
    BY <1>2, <1>3, LoopSees
<1>5. r.err = None
  OBVIOUS
<1> HIDE DEF vals, r
<1>6. Len(vals) \in Nat
  BY <1>2
<1>7. /\ r.found <=> Len(vals) # 0
      /\ ~r.found => r.str = ""
      /\ \A m \in 1 .. Len(vals) : vals[m] = r.str
  BY <1>4, <1>5 DEF Seen
<1>8. Given(q, name) = {r.str} \/ (Given(q, name) = {} /\ r.str = "")
  <2>1. CASE Len(vals) = 0
    <3>1. 1 .. Len(vals) = {}
      BY <2>1
    <3> QED
      BY <1>2, <1>7, <2>1, <3>1
  <2>2. CASE Len(vals) # 0
    <3>1. 1 \in 1 .. Len(vals)
      BY <1>6, <2>2
    <3>2. r.str \in Given(q, name)
      BY <1>2, <1>7, <3>1
    <3>3. \A x \in Given(q, name) : x = r.str
      BY <1>2, <1>7
    <3> QED
      BY <3>2, <3>3
  <2> QED
    BY <2>1, <2>2
<1> QED
  BY <1>1, <1>8 DEF r

(* What ServeHTTP of dyn takes to the store is all the request could mean. *)
LEMMA DynIsClear ==
  ASSUME NEW q, WellTyped(q), q.zone = "dyn"
  PROVE  Clear(q, Dyn(q))
<1> DEFINE secret == GetString(q, "secret")
           value == GetString(q, "value")
           ip == DynValue(q, value.str)
           o == Dyn(q)
<1> SUFFICES ASSUME o \notin {Refused, Shown}
             PROVE  Clear(q, o)
  BY DEF Clear
<1>1. /\ q.method \in Method /\ secret.str # "" /\ secret.err = None /\ value.err = None
      /\ value.str # "" => ip # None
      /\ q.method = "DELETE" => ip = None
      /\ q.method # "DELETE" => ip # None
      /\ o = IF q.method = "DELETE" THEN [do |-> "delete", name |-> secret.str]
             ELSE [do |-> "update", name |-> secret.str, val |-> ip]
  BY DEF Dyn
<1>2. "secret" \in Name /\ "value" \in Name
  BY DEF Name
<1>3. ~ReadFails(q) /\ Given(q, "secret") = {secret.str}
  BY <1>1, <1>2, GetStringMeans
<1>3a. q.body.broken => q.method = "GET" \/ q.type = "other"
  BY <1>3 DEF WellTyped, ReadFails, ReadsBody, MediaType
<1>4. Given(q, "value") = {value.str} \/ (Given(q, "value") = {} /\ value.str = "")
  BY <1>1, <1>2, GetStringMeans
<1>5. Cardinality(Given(q, "value")) <= 1
  <2>1. Cardinality({}) = 0 /\ Cardinality({value.str}) = 1
    BY FS_EmptySet, FS_Singleton
  <2>2. Cardinality(Given(q, "value")) = 0 \/ Cardinality(Given(q, "value")) = 1
    BY <1>4, <2>1, Zenon
  <2> QED
    BY <2>2
<1>6. ip \in Address \cup {None}
  BY DEF DynValue, Ip
<1>7. Asks(q) = IF ip = None THEN {} ELSE {ip}
  <2> DEFINE meant(s) == IF s = "self" THEN q.from ELSE s
  <2>1. \A s : Ip(q, s) = IF meant(s) \in Address THEN meant(s) ELSE None
    BY DEF Ip
  <2>2. Asks(q) = {meant(s) : s \in (Given(q, "value") \ {""})
                       \cup (IF Given(q, "value") \ {""} = {} /\ q.method # "GET"
                              THEN {q.body.text} ELSE {})} \cap Address
    BY DEF Asks
  <2> HIDE DEF meant, value
  <2>3. CASE value.str # ""
    <3>1. Given(q, "value") \ {""} = {value.str}
      BY <1>4, <2>3
    <3>2. Asks(q) = {meant(value.str)} \cap Address
      BY <2>2, <3>1
    <3>3. ip = Ip(q, value.str)
      BY <2>3 DEF DynValue
    <3> QED
      BY <2>1, <3>2, <3>3, NoneAssumption
  <2>4. CASE value.str = ""
    <3>1. Given(q, "value") \ {""} = {}
      BY <1>4, <2>4
    <3>2. CASE q.method = "GET"
      <4>1. Asks(q) = {}
        BY <2>2, <3>1, <3>2
      <4> QED
        BY <2>4, <3>2, <4>1 DEF DynValue
    <3>3. CASE q.method # "GET"
      <4>1. Asks(q) = {meant(q.body.text)} \cap Address
        BY <2>2, <3>1, <3>3
      <4>2. ip = Ip(q, q.body.text)
        BY <2>4, <3>3 DEF DynValue
      <4> QED
        BY <2>1, <4>1, <4>2, NoneAssumption
    <3> QED
      BY <3>2, <3>3
  <2> QED
    BY <2>3, <2>4
<1> HIDE DEF secret, value, ip, o
<1>8. CASE q.method = "DELETE"
  <2>1. o.do = "delete" /\ o.name = secret.str
    BY <1>1, <1>8
  <2> QED
    BY <1>1, <1>3, <1>3a, <1>5, <1>7, <1>8, <2>1 DEF Clear
<1>9. CASE q.method # "DELETE"
  <2>1. o.do = "update" /\ o.name = secret.str /\ o.val = ip
    BY <1>1, <1>9
  <2> QED
    BY <1>1, <1>3, <1>3a, <1>5, <1>7, <1>9, <2>1 DEF Clear
<1> QED
  BY <1>8, <1>9

(* The same of challenges, whose text may also be the whole body.          *)
LEMMA ChallengeIsClear ==
  ASSUME NEW q, WellTyped(q), q.zone # "dyn"
  PROVE  Clear(q, Challenge(q))
<1> DEFINE secret == GetString(q, "secret")
           value == GetString(q, "value")
           txt == IF value.str # "" THEN value.str
                  ELSE IF q.method # "GET" /\ IsValidChallenge(q.body.text) THEN q.body.text
                  ELSE ""
           do == IF q.method = "DELETE" THEN "remove" ELSE "add"
           o == Challenge(q)
<1> SUFFICES ASSUME o \notin {Refused, Shown}
             PROVE  Clear(q, o)
  BY DEF Clear
<1>1. /\ q.method \in Method /\ secret.str # "" /\ secret.err = None /\ value.err = None
      /\ value.str # "" => IsValidChallenge(value.str)
      /\ txt # ""
      /\ o = [do |-> do, name |-> secret.str, val |-> txt]
  BY DEF Challenge
<1>2. "secret" \in Name /\ "value" \in Name
  BY DEF Name
<1>3. ~ReadFails(q) /\ Given(q, "secret") = {secret.str}
  BY <1>1, <1>2, GetStringMeans
<1>3a. q.body.broken => q.method = "GET" \/ q.type = "other"
  BY <1>3 DEF WellTyped, ReadFails, ReadsBody, MediaType
<1>4. Given(q, "value") = {value.str} \/ (Given(q, "value") = {} /\ value.str = "")
  BY <1>1, <1>2, GetStringMeans
<1>5. Cardinality(Given(q, "value")) <= 1
  <2>1. Cardinality({}) = 0 /\ Cardinality({value.str}) = 1
    BY FS_EmptySet, FS_Singleton
  <2>2. Cardinality(Given(q, "value")) = 0 \/ Cardinality(Given(q, "value")) = 1
    BY <1>4, <2>1, Zenon
  <2> QED
    BY <2>2
<1>6. Asks(q) = {txt}
  <2>1. Asks(q) = ((Given(q, "value") \ {""})
                       \cup (IF Given(q, "value") \ {""} = {} /\ q.method # "GET"
                              THEN {q.body.text} ELSE {})) \cap (Token \cup {"self"})
    BY DEF Asks
  <2> HIDE DEF value
  <2>2. CASE value.str # ""
    <3>1. Given(q, "value") \ {""} = {value.str} /\ txt = value.str
      BY <1>4, <2>2
    <3> QED
      BY <1>1, <2>1, <2>2, <3>1 DEF IsValidChallenge
  <2>3. CASE value.str = ""
    <3>1. Given(q, "value") \ {""} = {}
      BY <1>4, <2>3
    <3>2. q.method # "GET" /\ IsValidChallenge(q.body.text) /\ txt = q.body.text
      BY <1>1, <2>3
    <3> QED
      BY <2>1, <3>1, <3>2 DEF IsValidChallenge
  <2> QED
    BY <2>2, <2>3
<1> HIDE DEF secret, value, txt, do, o
<1>7. o.do = do /\ o.name = secret.str /\ o.val = txt
  BY <1>1
<1>8. do = (IF q.method = "DELETE" THEN "remove" ELSE "add") /\ do # "delete"
  BY DEF do
<1> QED
  BY <1>1, <1>3, <1>3a, <1>5, <1>6, <1>7, <1>8 DEF Clear

(* RequestsAreClear: whatever dyn.HTTPHandler and challenges.HTTPHandler   *)
(* take to the store was all that could be made of what they parsed and    *)
(* read of the request, for queries, forms and JSON texts that give names  *)
(* any number of times; of those of a JSON text the last counts.           *)
THEOREM RequestsClear == Spec => []RequestsAreClear
<1>1. \A q \in Request : Clear(q, Decide(q))
  <2> SUFFICES ASSUME NEW q \in Request
               PROVE  Clear(q, Decide(q))
    OBVIOUS
  <2>1. WellTyped(q)
    BY RequestAssumption DEF WellTyped, Value
  <2> QED
    BY <2>1, DynIsClear, ChallengeIsClear DEF Decide
<1>2. UnclearWrites = {}
  BY <1>1 DEF UnclearWrites
<1>3. RequestsAreClear
  BY <1>2 DEF RequestsAreClear
<1> QED
  BY <1>3, PTL
=============================================================================
