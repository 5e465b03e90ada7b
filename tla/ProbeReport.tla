----------------------------- MODULE ProbeReport ----------------------------
(***************************************************************************)
(* The report on one token: Store.Get of internal/probereport/report.go    *)
(* makes three reads of Valkey, and meanwhile the CoreDNS probe plugin     *)
(* (external) records further queries, each by a count and by an entry in  *)
(* a capped list, in an order this repository does not fix, and keys       *)
(* expire.  QNAMEMinimisation (qnamemin.go) reads the report.              *)
(*                                                                         *)
(* The error reports of the third read are not told apart here.            *)
(***************************************************************************)
EXTENDS Naturals, FiniteSets, SequencesExt

CONSTANTS None,
          Cap,         \* of the plugin's list
          MaxQueries   \* bound: the queries that arrive

ASSUME BoundAssumption == Cap \in Nat /\ MaxQueries \in Nat

(* What an entry tells QNAMEMinimisation; "bad" does not decode.           *)
Kind == {"modified", "bareNS", "bareA", "bad"}
Query == [kind : Kind, counted : BOOLEAN, listed : BOOLEAN]

ASSUME NoneAssumption == None \notin Query

VARIABLES mode,      \* what the visitor's resolver does about QNAME minimisation
          query,     \* the queries that arrived, and how far they are recorded
          counter,   \* probe:seen:<token>; 0: there is none
          obs,       \* probe:obs:<token>, by kind of entry
          pc,        \* the read Get makes next
          queries,   \* report.Queries
          listed,    \* report.Observations
          known,     \* entries that were there when Get began, a history
          shown,     \* the number in the last report, a history
          fresh      \* no key expired since Get began, a history

keys == <<counter, obs>>
get == <<pc, queries, listed>>
history == <<known, shown, fresh>>
vars == <<mode, query, keys, get, history>>

Mode == {"none", "ns"}
Read == {"seen", "obs", "reports"}
Number == 1 .. MaxQueries

TypeOK ==
    /\ mode \in Mode
    /\ query \in [Number -> Query \cup {None}]
    /\ counter \in 0 .. MaxQueries
    /\ obs \in Seq(Kind) /\ Len(obs) <= Cap
    /\ pc \in Read
    /\ queries \in 0 .. MaxQueries
    /\ listed \in Seq(Kind \ {"bad"})
    /\ known \in Seq(Kind)
    /\ shown \in 0 .. MaxQueries
    /\ fresh \in BOOLEAN

-----------------------------------------------------------------------------
(* The plugin and the resolver (external).  The page asks for the bare     *)
(* token and for modified names; a walk shows as NS, and a relaxed one, by *)
(* A queries, as more of what the page asks.                               *)
Asks(m) == {"modified", "bareA", "bad"} \cup (IF m = "ns" THEN {"bareNS"} ELSE {})

Arrive ==
    /\ \E q \in Number, k \in Asks(mode) :
          /\ query[q] = None
          /\ \A p \in 1 .. q - 1 : query[p] # None
          /\ query' = [query EXCEPT ![q] =
                          [kind |-> k, counted |-> FALSE, listed |-> FALSE]]
    /\ UNCHANGED <<mode, keys, get, history>>

Count ==
    /\ \E q \in Number :
          /\ query[q] # None /\ ~query[q].counted
          /\ query' = [query EXCEPT ![q].counted = TRUE]
    /\ counter' = counter + 1
    /\ UNCHANGED <<mode, obs, get, history>>

List ==
    /\ \E q \in Number :
          /\ query[q] # None /\ ~query[q].listed
          /\ query' = [query EXCEPT ![q].listed = TRUE]
          /\ obs' = IF Len(obs) < Cap THEN Append(obs, query[q].kind) ELSE obs
    /\ UNCHANGED <<mode, counter, get, history>>

Expire ==
    /\ \/ counter # 0 /\ counter' = 0 /\ obs' = obs
       \/ obs # <<>> /\ obs' = <<>> /\ counter' = counter
    /\ known' = <<>> /\ shown' = 0 /\ fresh' = FALSE
    /\ UNCHANGED <<mode, query, get>>

-----------------------------------------------------------------------------
(* One entry in the loop over them, which passes over what does not decode.*)
AppendDecoded(observations, e) ==
    IF e = "bad" THEN observations ELSE Append(observations, e)

Decodable(entries) ==
    LET upTo[n \in 0 .. Len(entries)] ==
            IF n = 0 THEN <<>> ELSE AppendDecoded(upTo[n - 1], entries[n])
    IN  upTo[Len(entries)]

(* Mutant: stop at an entry that does not decode.                          *)
DecodeStops(entries) ==
    LET bad == SelectInSeq(entries, LAMBDA k : k = "bad")
    IN  IF bad = 0 THEN entries ELSE SubSeq(entries, 1, bad - 1)

(* The observations of the report.                                         *)
Decode(entries) == Decodable(entries)

(* History: what there was when Get began.                                 *)
Remember ==
    /\ known' = Decodable(obs)
    /\ fresh' = TRUE
    /\ UNCHANGED shown

(* GET probe:seen:<token>; no such key is no error.                        *)
ReadSeen ==
    /\ pc = "seen"
    /\ queries' = counter
    /\ pc' = "obs"
    /\ Remember
    /\ UNCHANGED <<mode, query, keys, listed>>

(* Mutants: both numbers are added, or the counter is shown as it is.      *)
SumOf(n, entries) == n + Len(entries)
CounterOnly(n, entries) == n

(* "Keep the larger of the two".                                           *)
Larger(n, entries) == IF n < Len(entries) THEN Len(entries) ELSE n

(* LRANGE probe:obs:<token>.                                               *)
ReadObs ==
    /\ pc = "obs"
    /\ listed' = Decode(obs)
    /\ queries' = Larger(queries, listed')
    /\ pc' = "reports"
    /\ UNCHANGED <<mode, query, keys, history>>

(* Get returns; its variables are gone.                                    *)
Return ==
    /\ pc' = "seen"
    /\ queries' = 0 /\ listed' = <<>> /\ known' = <<>>

(* LRANGE probe:reports:<token>, and the report is answered.               *)
ReadReports ==
    /\ pc = "reports"
    /\ Return
    /\ shown' = IF fresh THEN queries ELSE 0
    /\ UNCHANGED <<mode, query, keys, fresh>>

(* A read fails or the two seconds are over: Get returns the error.        *)
Fail ==
    /\ Return
    /\ UNCHANGED <<mode, query, keys, shown, fresh>>

Init ==
    /\ mode \in Mode
    /\ query = [q \in Number |-> None]
    /\ counter = 0 /\ obs = <<>>
    /\ pc = "seen" /\ queries = 0 /\ listed = <<>>
    /\ known = <<>> /\ shown = 0 /\ fresh = TRUE

Next ==
    \/ Arrive \/ Count \/ List \/ Expire
    \/ ReadSeen \/ ReadObs \/ ReadReports \/ Fail

Spec == Init /\ [][Next]_vars

-----------------------------------------------------------------------------
(* Mutant: every query for the bare token counts as a walk.                *)
QMinFromAnyBare(entries) ==
    IF Contains(entries, "bareNS") \/ Contains(entries, "bareA") THEN "observed"
    ELSE IF Contains(entries, "modified") THEN "absent" ELSE "unknown"

(* Report.QNAMEMinimisation: an NS query settles it, and without a query   *)
(* for a modified name there was nothing to walk through.                  *)
QNAMEMinimisation(entries) ==
    IF Contains(entries, "bareNS") THEN "observed"
    ELSE IF Contains(entries, "modified") THEN "absent" ELSE "unknown"

Complete == pc = "reports"
Arrived == {q \in Number : query[q] # None}

(* The number of queries is never below the observations listed with it,   *)
(* and never above the queries that were made, whatever is recorded        *)
(* between the reads; and what was recorded when the page asked is in the  *)
(* report, unless it expired since; and while nothing expires the number   *)
(* on a page that polls does not fall.                                     *)
ReportIsRight ==
    Complete => /\ Len(listed) <= queries /\ queries <= Cardinality(Arrived)
                /\ IsPrefix(known, listed)
                /\ shown <= queries

(* Only a resolver that walks with NS queries is said to minimise.         *)
ObservedIsTrue ==
    Complete /\ QNAMEMinimisation(listed) = "observed" => mode = "ns"
=============================================================================
