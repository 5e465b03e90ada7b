---------------------------- MODULE SecretZones -----------------------------
(***************************************************************************)
(* The two zones anyone can write to with a secret: dyn (zones/dyn), the   *)
(* addresses of a name, and challenges (zones/challenges), its TXT values, *)
(* served by several processes over one Valkey (ttlstore/valkey.go).       *)
(*                                                                         *)
(* A handler decides what the request asks for, then makes one or two      *)
(* calls to the store, each within a timeout.  What a call sent is at some *)
(* time executed by the server, before or after the caller has given up,   *)
(* or lost with its connection; so is the reply.  Names are hashes of      *)
(* secrets: the secret stands for the name.                                *)
(***************************************************************************)
EXTENDS RequestValues, FiniteSets, Functions

CONSTANTS Address4, Address6,   \* what net.ParseIP accepts
          Token,                \* what IsValidChallenge accepts, and is no address
          Request,              \* the requests considered, all zones
          AddressTtl, ChallengeTtl,
          MaxTime,              \* bound: the last clock value explored
          MaxRequests           \* bound: requests that reach the store

ASSUME TtlAssumption == {AddressTtl, ChallengeTtl} \subseteq Nat \ {0}
ASSUME BoundAssumption == MaxTime \in Nat /\ MaxRequests \in Nat

Address == Address4 \cup Address6

ASSUME NoneAssumption == None \notin Nat \cup Address \cup {"read", "unexpected", "ambiguous"}

(* What url.ParseQuery and json.Unmarshal find.                            *)
ASSUME RequestAssumption ==
    \A q \in Request :
        /\ q.type \in MediaType
        /\ \A n \in Name :
              {q.query[n], q.body.form[n], q.body.json[n]} \subseteq Seq({NotString} \cup STRING)

VARIABLES data,      \* the server's hashes: [key, field, exp]
          now,       \* its clock
          op,        \* what each request asks of the store
          st,        \* where its handler is
          step,      \* the number of its call
          flight,    \* what was sent and is not executed: [req, todo]
          replies,   \* the requests whose current call was executed
          before,    \* history: the requests answered before each began
          last       \* history: the request that last wrote a cell, and when

handlers == <<op, st, step>>
network == <<flight, replies>>
vars == <<data, now, op, st, step, flight, replies, before, last>>

Req == 1 .. MaxRequests

-----------------------------------------------------------------------------
(* What the handlers make of a request.                                    *)

Refused == [do |-> "refused"]
Shown == [do |-> "shown"]

(* "self" is replaced with the address of the client.                      *)
Ip(q, s) == LET t == IF s = "self" THEN q.from ELSE s
            IN  IF t \in Address THEN t ELSE None

(* Mutant of DynValue: the body counts in a GET, too.                      *)
DynValueAnyMethod(q, s) == IF s # "" THEN Ip(q, s) ELSE Ip(q, q.body.text)

DynValue(q, s) == IF s # "" THEN Ip(q, s)
                  ELSE IF q.method # "GET" THEN Ip(q, q.body.text)
                  ELSE None

(* dyn.HTTPHandler                                                         *)
Dyn(q) ==
    LET secret == GetString(q, "secret")
        value == GetString(q, "value")
        ip == DynValue(q, value.str)
    IN  IF \/ q.method \notin Method
           \/ secret.str = "" \/ secret.err # None
           \/ value.err # None
           \/ value.str # "" /\ ip = None
           \/ q.method = "DELETE" /\ ip # None
        THEN Refused
        ELSE IF q.method = "DELETE" THEN [do |-> "delete", name |-> secret.str]
        ELSE IF ip = None THEN Shown
        ELSE [do |-> "update", name |-> secret.str, val |-> ip]

(* Mutant of IsValidChallenge: a body is taken for a challenge as it is.   *)
IsValidChallengeAny(s) == s # ""

IsValidChallenge(s) == s \in Token \cup {"self"}

(* challenges.HTTPHandler                                                  *)
Challenge(q) ==
    LET secret == GetString(q, "secret")
        value == GetString(q, "value")
        txt == IF value.str # "" THEN value.str
               ELSE IF q.method # "GET" /\ IsValidChallenge(q.body.text) THEN q.body.text
               ELSE ""
    IN  IF \/ q.method \notin Method
           \/ secret.str = "" \/ secret.err # None
           \/ value.err # None
           \/ value.str # "" /\ ~IsValidChallenge(value.str)
           \/ q.method = "DELETE" /\ txt = ""
        THEN Refused
        ELSE IF txt = "" THEN Shown
        ELSE [do |-> IF q.method = "DELETE" THEN "remove" ELSE "add",
              name |-> secret.str, val |-> txt]

Decide(q) == IF q.zone = "dyn" THEN Dyn(q) ELSE Challenge(q)

(* The requests that reach the store.                                      *)
Writes == {Decide(q) : q \in Request} \ {Refused, Shown}

-----------------------------------------------------------------------------
(* The keys of the store: addresses have a suffix for their family, the    *)
(* challenges the prefix of their ttlstore.Prefixed.                       *)
Ip4(n) == <<"ip4", n>>
Ip6(n) == <<"ip6", n>>
Txt(n) == <<"challenge", n>>
IpKey(n, ip) == IF ip \in Address4 THEN Ip4(n) ELSE Ip6(n)

Hsetex(k, v, ttl) == [cmd |-> "hsetex", key |-> k, field |-> v, ttl |-> ttl]
Hdel(k, v) == [cmd |-> "hdel", key |-> k, field |-> v]
Del(k) == [cmd |-> "del", key |-> k]

(* What each method of ValkeyClient sends: transactions, run in this order.*)
Add(k, v, ttl) == <<<<Hsetex(k, v, ttl)>>>>
Remove(k, v) == <<<<Hdel(k, v)>>>>
Delete(k) == <<<<Del(k)>>>>
(* Mutant of Set: without MULTI and EXEC.                                  *)
SetOneByOne(k, v, ttl) == <<<<Del(k)>>, <<Hsetex(k, v, ttl)>>>>
Set(k, v, ttl) == <<<<Del(k), Hsetex(k, v, ttl)>>>>

(* Mutant of Calls: a deletion leaves the IPv6 address.                    *)
CallsForgetIp6(o) ==
    CASE o.do = "update" -> <<Set(IpKey(o.name, o.val), o.val, AddressTtl)>>
      [] o.do = "delete" -> <<Delete(Ip4(o.name))>>
      [] o.do = "add" -> <<Add(Txt(o.name), o.val, ChallengeTtl)>>
      [] o.do = "remove" -> <<Remove(Txt(o.name), o.val)>>

(* The calls a handler makes, each after the answer to the one before.     *)
Calls(o) ==
    CASE o.do = "update" -> <<Set(IpKey(o.name, o.val), o.val, AddressTtl)>>
      [] o.do = "delete" -> <<Delete(Ip4(o.name)), Delete(Ip6(o.name))>>
      [] o.do = "add" -> <<Add(Txt(o.name), o.val, ChallengeTtl)>>
      [] o.do = "remove" -> <<Remove(Txt(o.name), o.val)>>

(* External: a command on the hashes.  The lifetime of a field that is     *)
(* there is set anew.                                                      *)
Run(d, c) ==
    CASE c.cmd = "hsetex" ->
             {e \in d : <<e.key, e.field>> # <<c.key, c.field>>}
                 \cup {[key |-> c.key, field |-> c.field, exp |-> now + c.ttl]}
      [] c.cmd = "hdel" -> {e \in d : <<e.key, e.field>> # <<c.key, c.field>>}
      [] c.cmd = "del" -> {e \in d : e.key # c.key}

(* External: a transaction, of one command or two.                         *)
Transaction(cs) == IF Len(cs) = 1 THEN Run(data, cs[1]) ELSE Run(Run(data, cs[1]), cs[2])

-----------------------------------------------------------------------------
(* A cell holds what later requests replace: the addresses of one family,  *)
(* or one TXT value.                                                       *)
Cells(o) == CASE o.do = "update" -> {<<IpKey(o.name, o.val)>>}
              [] o.do = "delete" -> {<<Ip4(o.name)>>, <<Ip6(o.name)>>}
              [] OTHER -> {<<Txt(o.name), o.val>>}

CellsOf(c) == IF c.key[1] = "challenge" THEN <<c.key, c.field>> ELSE <<c.key>>

(* A handler has decided; the requests that reach the store are numbered.  *)
Begin(i, o) == /\ st[i] = "new" /\ \A j \in 1 .. i - 1 : st[j] # "new"
               /\ op' = [op EXCEPT ![i] = o]
               /\ st' = [st EXCEPT ![i] = "call"]
               /\ before' = [before EXCEPT ![i] = {j \in Req : st[j] = "ok"}]
               /\ UNCHANGED <<data, now, step, network, last>>

Call(i) == /\ st[i] = "call"
           /\ st' = [st EXCEPT ![i] = "wait"]
           /\ flight' = flight \cup {[req |-> i, todo |-> Calls(op[i])[step[i]]]}
           /\ UNCHANGED <<data, now, op, step, replies, before, last>>

(* External: the server runs the next transaction of f.                    *)
Execute(f) ==
    /\ f \in flight
    /\ data' = Transaction(Head(f.todo))
    /\ last' = [c \in DOMAIN last |->
                    IF \E n \in DOMAIN Head(f.todo) : CellsOf(Head(f.todo)[n]) = c
                    THEN [by |-> f.req, at |-> now] ELSE last[c]]
    /\ LET rest == Tail(f.todo)
       IN  IF rest = <<>>
           THEN /\ flight' = flight \ {f}
                /\ replies' = IF st[f.req] = "wait" THEN replies \cup {f.req} ELSE replies
           ELSE /\ flight' = (flight \ {f}) \cup {[f EXCEPT !.todo = rest]}
                /\ UNCHANGED replies
    /\ UNCHANGED <<now, handlers, before>>

(* External: the connection is lost before the command gets there.         *)
Lose(f) == /\ f \in flight
           /\ flight' = flight \ {f}
           /\ UNCHANGED <<data, now, handlers, replies, before, last>>

(* The call succeeded: the handler makes the next one or answers 200, 201  *)
(* or 204.                                                                 *)
Reply(i) == /\ st[i] = "wait" /\ i \in replies
            /\ replies' = replies \ {i}
            /\ IF step[i] < Len(Calls(op[i]))
               THEN /\ step' = [step EXCEPT ![i] = @ + 1]
                    /\ st' = [st EXCEPT ![i] = "call"]
               ELSE /\ st' = [st EXCEPT ![i] = "ok"]
                    /\ UNCHANGED step
            /\ UNCHANGED <<data, now, op, flight, before, last>>

(* Mutant of Fail: the results of Set's commands are not looked at.        *)
FailUnnoticed(i) == /\ st[i] = "wait"
                    /\ st' = [st EXCEPT ![i] = IF op[i].do = "update" THEN "ok" ELSE "error"]
                    /\ replies' = replies \ {i}
                    /\ UNCHANGED <<data, now, op, step, flight, before, last>>

(* The timeout, or the end of the connection, also after the server has    *)
(* run the command: the handler answers 500.  Its process may die instead. *)
Fail(i) == /\ st[i] \in {"call", "wait"}
           /\ st' = [st EXCEPT ![i] = "error"]
           /\ replies' = replies \ {i}
           /\ UNCHANGED <<data, now, op, step, flight, before, last>>

(* External: fields expire.                                                *)
Tick == /\ now < MaxTime
        /\ now' = now + 1
        /\ data' = {e \in data : e.exp > now'}
        /\ UNCHANGED <<handlers, network, before, last>>

Init == /\ data = {} /\ now = 0
        /\ op = [i \in Req |-> None]
        /\ st = [i \in Req |-> "new"]
        /\ step = [i \in Req |-> 1]
        /\ flight = {} /\ replies = {}
        /\ before = [i \in Req |-> {}]
        /\ last = [c \in UNION {Cells(o) : o \in Writes} |-> [by |-> None, at |-> 0]]

Next == \/ \E i \in Req : (\E o \in Writes : Begin(i, o)) \/ Call(i) \/ Reply(i) \/ Fail(i)
        \/ \E f \in flight : Execute(f) \/ Lose(f)
        \/ Tick

Spec == Init /\ [][Next]_vars

-----------------------------------------------------------------------------
(* What the record generators read: Exists, Values and Get see the fields  *)
(* that have not expired.                                                  *)
Hkeys(k) == {e.field : e \in {d \in data : d.key = k}}

TypeOK == /\ \A e \in data : e.field \in Address \cup Token \cup {"self"} /\ e.exp \in Nat
          /\ now \in 0 .. MaxTime
          /\ op \in [Req -> Writes \cup {None}]
          /\ st \in [Req -> {"new", "call", "wait", "ok", "error"}]
          /\ step \in [Req -> 1 .. 2]
          /\ \A f \in flight : f.req \in Req /\ f.todo # <<>>
          /\ replies \subseteq {i \in Req : st[i] = "wait"}

(* The values a cell serves: that of the last update or addition that was  *)
(* executed, for its lifetime, nothing after a deletion, and whatever is   *)
(* done to other cells.                                                    *)
Serves(c) == IF Len(c) = 1 THEN Hkeys(c[1]) ELSE Hkeys(c[1]) \cap {c[2]}

LastWrite(c) ==
    LET w == last[c]
        ttl == IF Len(c) = 1 THEN AddressTtl ELSE ChallengeTtl
    IN  IF w.by # None /\ op[w.by].do \in {"update", "add"} /\ now < w.at + ttl
        THEN {op[w.by].val} ELSE {}

(* A request that was answered with success is what DNS serves from then   *)
(* on, in every cell it is about, until its lifetime ends or a request     *)
(* takes its place that had not itself been answered with success before   *)
(* this one began: a call that failed may be carried out late, one that    *)
(* succeeded never is.                                                     *)
AcknowledgedHolds ==
    \A c \in DOMAIN last :
        /\ Serves(c) = LastWrite(c)
        /\ \A i \in Req : st[i] = "ok" /\ c \in Cells(op[i]) =>
               last[c].by # None /\ last[c].by \notin before[i]

-----------------------------------------------------------------------------
(* Every value that counts for a name: those of the query and, but for a   *)
(* GET, of a form, or the last one of a JSON object.                        *)
Given(q, name) ==
    Range(q.query[name]) \cup
    (IF q.method = "GET" \/ q.type = "other" THEN {}
     ELSE IF q.type = "json" THEN {v[Len(v)] : v \in {q.body.json[name]} \ {<<>>}}
     ELSE Range(q.body.form[name]))

(* The values it asks to have served or removed.                           *)
Asks(q) ==
    LET valid == IF q.zone = "dyn" THEN Address ELSE Token \cup {"self"}
        meant(s) == IF q.zone = "dyn" /\ s = "self" THEN q.from ELSE s
        named == Given(q, "value") \ {""}
        whole == IF named = {} /\ q.method # "GET" THEN {q.body.text} ELSE {}
    IN  {meant(s) : s \in named \cup whole} \cap valid

(* There is only one thing it can mean, and o is that.                     *)
Clear(q, o) ==
    o \notin {Refused, Shown} =>
    /\ q.method \in Method
    /\ q.body.broken => q.method = "GET" \/ q.type = "other"
    /\ Given(q, "secret") = {o.name} /\ o.name # ""
    /\ Cardinality(Given(q, "value")) <= 1
    /\ IF o.do = "delete"
       THEN q.zone = "dyn" /\ q.method = "DELETE" /\ Asks(q) = {}
       ELSE /\ Asks(q) = {o.val}
            /\ o.do = (CASE q.zone = "dyn" -> "update"
                         [] q.method = "DELETE" -> "remove"
                         [] OTHER -> "add")
            /\ q.zone = "dyn" => q.method # "DELETE"

UnclearWrites == {Decide(q) : q \in {r \in Request : ~Clear(r, Decide(r))}}

(* Whatever reached the store was all the readers of its request could     *)
(* make of it: every secret, in the places that count for its method and   *)
(* type, is the same string, so is every value, and the body as a whole is *)
(* the value only when none is named, and never of a GET.  What counts is  *)
(* what was parsed and read, which is less than the comments in the code   *)
(* say: of the values of a name in JSON text only the last, and of a body  *)
(* that broke off, where its media type is another, the part read so far.  *)
RequestsAreClear == \A i \in Req : op[i] # None => op[i] \notin UnclearWrites
=============================================================================
