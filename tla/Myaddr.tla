------------------------------- MODULE Myaddr -------------------------------
(***************************************************************************)
(* The name registrations of internal/zones/myaddr/api.go: the handlers of *)
(* /myaddr-reg, /myaddr-update and /admin/myaddr over the data store and   *)
(* the challenge store.                                                    *)
(*                                                                         *)
(* A handler makes a series of store calls, each atomic, with those of     *)
(* other requests in between, and returns early when one fails; so a       *)
(* request is the list of the calls it has still to make.  Of the store    *)
(* only what Set, Add, Get, Exists and Delete promise is used (TtlMap).    *)
(* Keys are 256 random bits and their hashes stand for them.               *)
(***************************************************************************)
EXTENDS Naturals, Sequences

CONSTANTS Name, Key, Req,
          None,
          ChallengeTtl, PendingTtl, AddressTtl, RegistrationTtl,
          MaxTime,     \* bound: the last clock value explored
          MaxRequests, \* bound: the requests that arrive
          Instant,     \* TRUE: the clock stands while a request is served
          MayFail      \* TRUE: a store call may return an error

ASSUME TtlAssumption ==
    /\ {ChallengeTtl, PendingTtl, AddressTtl, RegistrationTtl} \subseteq Nat \ {0}
    /\ ChallengeTtl <= PendingTtl /\ PendingTtl < AddressTtl
    /\ AddressTtl < RegistrationTtl
ASSUME ModeAssumption == MaxTime \in Nat /\ MaxRequests \in Nat /\ Instant \in BOOLEAN /\ MayFail \in BOOLEAN

VARIABLES now,
          reg,         \* "<name>:reg", a RegistrationRecord with its expiry
          owner,       \* "hash:<hash>", a name with its expiry
          ip,          \* "<name>:ip4" and "<name>:ip6"
          chal,        \* the challenges of a name
          home,        \* the name a key was issued for
          deleted,     \* keys whose registration DELETE answered 204
          job,         \* the request being served
          arrived      \* how many requests arrived

vars == <<now, reg, owner, ip, chal, home, deleted, job, arrived>>

Family == {"ip4", "ip6"}
Calls == {"exists", "find", "lookup", "load", "setReg", "setHash", "ip4", "ip6",
          "challenge", "drop ip4", "drop ip6", "drop reg", "drop hash",
          "drop challenges"}

(* The store call each of these drops belongs to. *)
DropOf(f) == IF f = "ip4" THEN "drop ip4" ELSE "drop ip6"

RegRecord == [created : Nat, updated : Nat, hash : Key \cup {None}, exp : Nat]
Job == [todo : Seq(Calls), name : Name \cup {None}, key : Key \cup {None},
        hash : Key \cup {None}, seen : Nat \cup {None}, at : Nat]

ASSUME NoneAssumption ==
    None \notin Key \cup Name \cup Nat \cup RegRecord \cup Job \cup [by : Key, exp : Nat]

TypeOK ==
    /\ now \in 0 .. MaxTime
    /\ reg \in [Name -> RegRecord \cup {None}]
    /\ owner \in [Key -> [name : Name, exp : Nat] \cup {None}]
    /\ ip \in [Name -> [Family -> [by : Key, exp : Nat] \cup {None}]]
    /\ chal \in [Name -> SUBSET [by : Key, exp : Nat]]
    /\ home \in [Key -> Name \cup {None}]
    /\ deleted \subseteq Key
    /\ job \in [Req -> Job \cup {None}]
    /\ arrived \in 0 .. MaxRequests

(* What the store still has when the clock has moved on by one.            *)
Kept(x) == IF x # None /\ x.exp > now + 1 THEN x ELSE None
Idle == \A r \in Req : job[r] = None

-----------------------------------------------------------------------------
(* The handlers, by the store calls they make.                             *)
Begin(r, n, k, calls) ==
    /\ job[r] = None
    /\ arrived < MaxRequests
    /\ arrived' = arrived + 1
    /\ job' = [job EXCEPT ![r] = [todo |-> calls, name |-> n, key |-> k,
                                  hash |-> k, seen |-> None, at |-> 0]]
    /\ UNCHANGED <<now, reg, owner, ip, chal, home, deleted>>

(* POST /myaddr-reg, after its parameters and the challenge are checked.   *)
Register(r, n) == Begin(r, n, None, <<"exists", "load", "setReg", "setHash">>)

(* GET, POST or PUT /myaddr-update with an address or an acme_challenge.   *)
Update(r, k, what) ==
    Begin(r, None, k, <<"find", what, "load", "setReg", "setHash">>)

(* DELETE /myaddr-update.                                                  *)
ClearAddresses(r, k) == Begin(r, None, k, <<"find", "drop ip4", "drop ip6">>)

(* Mutants: DELETE that forgets the ip6 address or the hash, SUSPEND that   *)
(* forgets the hash.                                                       *)
UnregisterKeepsIp6(r, k) ==
    Begin(r, None, k, <<"find", "drop ip4", "drop reg", "drop hash",
                        "drop challenges">>)
UnregisterKeepsKey(r, k) ==
    Begin(r, None, k, <<"find", "drop ip4", "drop ip6", "drop reg",
                        "drop challenges">>)
SuspendKeepsKey(r, n) ==
    Begin(r, n, None, <<"lookup", "drop ip4", "drop ip6", "drop challenges",
                        "load", "setReg">>)

(* DELETE /myaddr-reg.                                                     *)
Unregister(r, k) ==
    Begin(r, None, k, <<"find", "drop ip4", "drop ip6", "drop reg",
                        "drop hash", "drop challenges">>)

(* SUSPEND and DELETE /admin/myaddr.                                       *)
Suspend(r, n) ==
    Begin(r, n, None, <<"lookup", "drop hash", "drop ip4", "drop ip6",
                        "drop challenges", "load", "setReg">>)
AdminDelete(r, n) ==
    Begin(r, n, None, <<"lookup", "drop hash", "drop ip4", "drop ip6",
                        "drop challenges", "drop reg">>)

-----------------------------------------------------------------------------
Calling(r, call) == job[r] # None /\ Head(job[r].todo) = call

Return(r) == job' = [job EXCEPT ![r] = None]

(* Go on with the calls after this one, or return after the last.          *)
Continue(r, j) ==
    job' = [job EXCEPT ![r] =
        IF Len(j.todo) = 1 THEN None ELSE [j EXCEPT !.todo = Tail(@)]]

(* Mutants: a name that exists is given away again; a key that is not new. *)
CheckNameIgnoresExisting(r) ==
    /\ Calling(r, "exists")
    /\ \E k \in {k \in Key : home[k] = None} :
          /\ home' = [home EXCEPT ![k] = job[r].name]
          /\ Continue(r, [job[r] EXCEPT !.key = k, !.hash = k])
    /\ UNCHANGED <<now, reg, owner, ip, chal, deleted, arrived>>
CheckNameReusesKeys(r) ==
    /\ Calling(r, "exists")
    /\ reg[job[r].name] = None
    /\ \E k \in Key :
          /\ home' = [home EXCEPT ![k] = job[r].name]
          /\ Continue(r, [job[r] EXCEPT !.key = k, !.hash = k])
    /\ UNCHANGED <<now, reg, owner, ip, chal, deleted, arrived>>

(* Exists(name:reg): 409, or generate a key.                               *)
CheckName(r) ==
    /\ Calling(r, "exists")
    /\ \/ reg[job[r].name] # None /\ Return(r) /\ UNCHANGED home
       \/ /\ reg[job[r].name] = None
          /\ \E k \in {k \in Key : home[k] = None} :
                /\ home' = [home EXCEPT ![k] = job[r].name]
                /\ Continue(r, [job[r] EXCEPT !.key = k, !.hash = k])
    /\ UNCHANGED <<now, reg, owner, ip, chal, deleted, arrived>>

(* Get(hash:...): the name of the key, or 400.                             *)
FindName(r) ==
    /\ Calling(r, "find")
    /\ \/ owner[job[r].key] = None /\ Return(r)
       \/ /\ owner[job[r].key] # None
          /\ Continue(r, [job[r] EXCEPT !.name = owner[job[r].key].name])
    /\ UNCHANGED <<now, reg, owner, ip, chal, home, deleted, arrived>>

(* AdminHandler's LoadRegistration: 400, or the hash to delete.  The hash  *)
(* of a suspended name is empty and not deleted; UpdateRegistration is     *)
(* called with the empty hash.                                             *)
LookUp(r) ==
    /\ Calling(r, "lookup")
    /\ LET found == reg[job[r].name]
           j == [job[r] EXCEPT !.key = found.hash, !.hash = None]
       IN  \/ found = None /\ Return(r)
           \/ found # None /\ found.hash # None /\ Continue(r, j)
           \/ /\ found # None /\ found.hash = None
              /\ Continue(r, [j EXCEPT !.todo = Tail(@)])
    /\ UNCHANGED <<now, reg, owner, ip, chal, home, deleted, arrived>>

(* UpdateRegistration: the clock and the record there is ...               *)
Load(r) ==
    /\ Calling(r, "load")
    /\ Continue(r, [job[r] EXCEPT
            !.seen = IF reg[job[r].name] = None THEN None ELSE reg[job[r].name].created,
            !.at = now])
    /\ UNCHANGED <<now, reg, owner, ip, chal, home, deleted, arrived>>

(* Mutant: the pending lifetime for every record.                          *)
TtlForPending(seen) == PendingTtl

(* An hour for a new record, 120 days for one that is updated.             *)
TtlFor(seen) == IF seen = None THEN PendingTtl ELSE RegistrationTtl

(* Mutant: Created is not set in a new record.                             *)
SetRegForgetsCreated(r) ==
    /\ Calling(r, "setReg")
    /\ LET j == job[r]
       IN  reg' = [reg EXCEPT ![j.name] =
                    [created |-> j.seen, updated |-> j.at, hash |-> j.hash,
                     exp |-> now + TtlFor(j.seen)]]
    /\ Continue(r, job[r])
    /\ UNCHANGED <<now, owner, ip, chal, home, deleted, arrived>>

(* ... Set(name:reg) ...                                                   *)
SetReg(r) ==
    /\ Calling(r, "setReg")
    /\ LET j == job[r]
       IN  reg' = [reg EXCEPT ![j.name] =
                    [created |-> IF j.seen = None THEN j.at ELSE j.seen,
                     updated |-> j.at,
                     hash |-> j.hash,
                     exp |-> now + TtlFor(j.seen)]]
    /\ Continue(r, job[r])
    /\ UNCHANGED <<now, owner, ip, chal, home, deleted, arrived>>

(* ... and Set(hash:...), unless the hash is empty.                        *)
SetHash(r) ==
    /\ Calling(r, "setHash")
    /\ owner' = [owner EXCEPT ![job[r].hash] =
                    [name |-> job[r].name, exp |-> now + TtlFor(job[r].seen)]]
    /\ Continue(r, job[r])
    /\ UNCHANGED <<now, reg, ip, chal, home, deleted, arrived>>

(* dyn.UpdateIP.                                                           *)
SetAddress(r) ==
    /\ \E f \in Family :
          /\ Calling(r, f)
          /\ ip' = [ip EXCEPT ![job[r].name][f] =
                        [by |-> job[r].key, exp |-> now + AddressTtl]]
    /\ Continue(r, job[r])
    /\ UNCHANGED <<now, reg, owner, chal, home, deleted, arrived>>

(* ChallengeStore.Add.                                                     *)
AddChallenge(r) ==
    /\ Calling(r, "challenge")
    /\ chal' = [chal EXCEPT ![job[r].name] =
                    @ \cup {[by |-> job[r].key, exp |-> now + ChallengeTtl]}]
    /\ Continue(r, job[r])
    /\ UNCHANGED <<now, reg, owner, ip, home, deleted, arrived>>

DropAddress(r) ==
    /\ \E f \in Family : /\ Calling(r, DropOf(f))
                         /\ ip' = [ip EXCEPT ![job[r].name][f] = None]
    /\ Continue(r, job[r])
    /\ UNCHANGED <<now, reg, owner, chal, home, deleted, arrived>>

DropReg(r) ==
    /\ Calling(r, "drop reg")
    /\ reg' = [reg EXCEPT ![job[r].name] = None]
    /\ Continue(r, job[r])
    /\ UNCHANGED <<now, owner, ip, chal, home, deleted, arrived>>

DropHash(r) ==
    /\ Calling(r, "drop hash")
    /\ owner' = [owner EXCEPT ![job[r].key] = None]
    /\ Continue(r, job[r])
    /\ UNCHANGED <<now, reg, ip, chal, home, deleted, arrived>>

(* The last call of Unregister, which then answers 204.                    *)
DropChallenges(r) ==
    /\ Calling(r, "drop challenges")
    /\ chal' = [chal EXCEPT ![job[r].name] = {}]
    /\ deleted' = IF Len(job[r].todo) = 1 THEN deleted \cup {job[r].key} ELSE deleted
    /\ Continue(r, job[r])
    /\ UNCHANGED <<now, reg, owner, ip, home, arrived>>

(* A store call returns an error, and the handler 500.                     *)
Fail(r) ==
    /\ MayFail
    /\ job[r] # None
    /\ Return(r)
    /\ UNCHANGED <<now, reg, owner, ip, chal, home, deleted, arrived>>

(* An expired value is not seen by the store's readers again (TtlMap).     *)
Tick ==
    /\ now < MaxTime
    /\ Instant => Idle
    /\ now' = now + 1
    /\ reg' = [n \in Name |-> Kept(reg[n])]
    /\ owner' = [k \in Key |-> Kept(owner[k])]
    /\ ip' = [n \in Name |-> [f \in Family |-> Kept(ip[n][f])]]
    /\ chal' = [n \in Name |-> {c \in chal[n] : Kept(c) = c}]
    /\ UNCHANGED <<home, deleted, job, arrived>>

-----------------------------------------------------------------------------
Init ==
    /\ now = 0
    /\ reg = [n \in Name |-> None]
    /\ owner = [k \in Key |-> None]
    /\ ip = [n \in Name |-> [f \in Family |-> None]]
    /\ chal = [n \in Name |-> {}]
    /\ home = [k \in Key |-> None]
    /\ deleted = {}
    /\ job = [r \in Req |-> None]
    /\ arrived = 0

(* A request with a key: keys that were issued; others get 400 at "find".  *)
Arrive(r) ==
    \/ \E n \in Name : Register(r, n) \/ Suspend(r, n) \/ AdminDelete(r, n)
    \/ \E k \in {k \in Key : home[k] # None} :
          \/ \E what \in Family \cup {"challenge"} : Update(r, k, what)
          \/ ClearAddresses(r, k)
          \/ Unregister(r, k)

StoreCall(r) ==
    \/ CheckName(r) \/ FindName(r) \/ LookUp(r)
    \/ Load(r) \/ SetReg(r) \/ SetHash(r)
    \/ SetAddress(r) \/ AddChallenge(r)
    \/ DropAddress(r) \/ DropReg(r) \/ DropHash(r) \/ DropChallenges(r)
    \/ Fail(r)

Next == (\E r \in Req : Arrive(r) \/ StoreCall(r)) \/ Tick

Spec == Init /\ [][Next]_vars

-----------------------------------------------------------------------------
(* A key opens the name it was issued for and no other, and only its       *)
(* addresses and challenges are written there, whatever requests are       *)
(* interleaved or break off half way.                                      *)
KeysStayWithTheirName ==
    /\ \A k \in Key : owner[k] # None => owner[k].name = home[k]
    /\ \A n \in Name :
          /\ reg[n] # None /\ reg[n].hash # None => home[reg[n].hash] = n
          /\ \A f \in Family : ip[n][f] # None => home[ip[n][f].by] = n
          /\ \A c \in chal[n] : home[c.by] = n

(* A name has one key at a time: whoever was given the key of a name when  *)
(* it was available is the only one who can change it (index.html).        *)
OneKeyPerName ==
    \A j, k \in Key : owner[j] # None /\ owner[k] # None
                      /\ owner[j].name = owner[k].name => j = k

(* Between requests, the addresses and challenges that are served for a    *)
(* name, and the keys that open it, are those of its present registration: *)
(* nothing is left of an earlier holder, nothing outlives the registration,*)
(* and a suspended name, the record of which has an empty hash, has no key *)
(* that works and serves nothing.                                          *)
ServedForTheHolder ==
    Idle => \A n \in Name :
        \A k \in {x.by : x \in ({ip[n][f] : f \in Family} \ {None}) \cup chal[n]}
                  \cup {k \in Key : owner[k] # None /\ owner[k].name = n} :
            reg[n] # None /\ reg[n].hash = k

(* Once a registration was deleted with its key (204), that key is dead    *)
(* and no record names it: "immediately and permanently" (index.html).     *)
DeletedForGood ==
    \A k \in deleted :
        /\ owner[k] = None
        /\ \A n \in Name : reg[n] # None => reg[n].hash # k

(* RegistrationRecord.Expires: what GET and the TXT record show.           *)
Expires(x) == IF x.created = x.updated THEN x.updated + PendingTtl
                                       ELSE x.updated + RegistrationTtl

(* A registration is there for at least as long as is shown, though the    *)
(* shown date comes from the clock before the load and the real one from   *)
(* the clock at the write.  (It may last longer: a first update in the     *)
(* second of the registration still shows as pending.)                     *)
LastsAsLongAsShown ==
    \A n \in Name : reg[n] # None => Expires(reg[n]) <= reg[n].exp
=============================================================================
