------------------------------- MODULE SoaSig -------------------------------
(***************************************************************************)
(* The DNSSEC signatures of a zone over time: the one of the SOA record,   *)
(* made in advance and refreshed by the goroutine of initSoaSig (the same  *)
(* in dnsutil/simple.go and dnscheck/handler.go), and those that Prove     *)
(* makes as it answers (dnsutil/dnssec.go).  Resolvers keep an answer for  *)
(* its TTL and check its signature against clocks of their own.            *)
(***************************************************************************)
EXTENDS Integers

CONSTANTS Resolver,
          None,
          Ttl,      \* of the SOA record and of the signatures
          Skew,     \* how far a signature is made to reach into past and future
          Lag,      \* how late a sleeping goroutine may run
          MaxTime   \* bound: the last clock value explored

ASSUME TtlAssumption == Ttl \in Nat /\ Ttl >= 2
ASSUME SkewAssumption == Skew \in Nat
ASSUME LagAssumption == Lag \in 0 .. 1
ASSUME BoundAssumption == MaxTime \in Nat
ASSUME NoneAssumption == None \notin [from : Int, to : Int, until : Int]

VARIABLES now,
          soaSig,   \* h.soaSig: the validity of the prepared signature
          wake,     \* when the refreshing goroutine ends its sleep
          cache     \* what each resolver holds: a validity, and until when

sigVars == <<now, soaSig, wake, cache>>

Half == Ttl \div 2
Validity == [from : Int, to : Int]

SigTypeOK ==
    /\ now \in 0 .. MaxTime
    /\ soaSig \in Validity
    /\ wake \in Nat /\ wake <= now + 2 * Half - 1
    /\ cache \in [Resolver -> [from : Int, to : Int, until : Int] \cup {None}]

-----------------------------------------------------------------------------
(* Mutant: a window that covers one TTL, the caching, and not the wait for *)
(* the next refresh.                                                       *)
WindowOfOneTtl(t) == [from |-> t - Skew, to |-> t + Skew + Ttl]

(* The prepared signature of the SOA record ...                            *)
Window(t) == [from |-> t - Skew, to |-> t + Skew + 2 * Ttl]

(* ... and the signature Sign makes when no validity is given.             *)
FreshWindow(t) == [from |-> t - Skew, to |-> t + Skew + Ttl]

(* rand.Int63n(ttl/2) + ttl/2.                                             *)
Sleeps == Half .. 2 * Half - 1

Prepare ==
    /\ soaSig' = Window(now)
    /\ wake' \in {now + d : d \in Sleeps}

(* The goroutine wakes, signs and sleeps again.                            *)
Refresh ==
    /\ now >= wake
    /\ Prepare
    /\ UNCHANGED <<now, cache>>

(* A new process signs before it serves; resolvers keep what they hold.    *)
Restart ==
    /\ Prepare
    /\ UNCHANGED <<now, cache>>

Hold(r, validity) ==
    /\ cache' = [cache EXCEPT ![r] = [from |-> validity.from, to |-> validity.to,
                                      until |-> now + Ttl]]
    /\ UNCHANGED <<now, soaSig, wake>>

(* An answer with the SOA record: the prepared signature is attached, and  *)
(* Sign leaves the types that have one alone.                              *)
AnswerSoa(r) == Hold(r, soaSig)

(* Any other answer is signed as it is sent.                               *)
AnswerOther(r) == Hold(r, FreshWindow(now))

(* Time passes, but not past a goroutine that is due by more than Lag.     *)
Tick ==
    /\ now < MaxTime
    /\ now < wake + Lag
    /\ now' = now + 1
    /\ cache' = [r \in Resolver |->
                    IF cache[r] # None /\ cache[r].until > now THEN cache[r] ELSE None]
    /\ UNCHANGED <<soaSig, wake>>

SigInit ==
    /\ now = 0
    /\ soaSig = Window(0)
    /\ wake \in Sleeps
    /\ cache = [r \in Resolver |-> None]

SigNext == Refresh \/ Restart \/ Tick \/ \E r \in Resolver : AnswerSoa(r) \/ AnswerOther(r)

SigSpec == SigInit /\ [][SigNext]_sigVars

-----------------------------------------------------------------------------
(* A signature a resolver may still use is valid by every clock that is    *)
(* wrong by at most Skew: an hour, in initSoaSig and Sign.                 *)
CachedSignaturesValid ==
    \A r \in Resolver : cache[r] # None =>
        cache[r].from <= now - Skew /\ now + Skew <= cache[r].to
=============================================================================
