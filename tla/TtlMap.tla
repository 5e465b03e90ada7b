------------------------------- MODULE TtlMap -------------------------------
(***************************************************************************)
(* What the store of internal/ttlstore promises its callers: a map from    *)
(* keys to the unexpired values added to them, in the order they were      *)
(* added, of which a copy is kept across restarts.  Expired values do not  *)
(* exist here: pruning, the size limit, the dirty flag and the file are    *)
(* the concern of TtlStore, which implements this module.                  *)
(***************************************************************************)
EXTENDS Naturals

CONSTANTS Key, Value,
          Ttl          \* the lifetimes callers ask for, in ticks

VARIABLES live,        \* the values a reader can get now
          saved,       \* the unexpired values a restart would bring back
          up,          \* the process is running
          now,         \* the clock
          stamp        \* values added so far: orders the values of a key

vars == <<live, saved, up, now, stamp>>

Entry == [key : Key, val : Value, exp : Nat, pos : Nat]

TypeOK == /\ live \subseteq Entry
          /\ saved \subseteq Entry
          /\ up \in BOOLEAN
          /\ now \in Nat
          /\ stamp \in Nat

Init == live = {} /\ saved = {} /\ up = TRUE /\ now = 0 /\ stamp = 0

(* Put(rest, k, v, t): v becomes the last value of k, beside those in rest. *)
Put(rest, k, v, t) ==
    /\ up
    /\ live' = rest \cup {[key |-> k, val |-> v, exp |-> now + t, pos |-> stamp]}
    /\ stamp' = stamp + 1
    /\ UNCHANGED <<saved, up, now>>

Add(k, v, t) == Put(live, k, v, t)
Set(k, v, t) == Put({e \in live : e.key # k}, k, v, t)

Drop(gone) == /\ up
              /\ live' = live \ gone
              /\ UNCHANGED <<saved, up, now, stamp>>

Remove(k, v) == Drop({e \in live : e.key = k /\ e.val = v})
Delete(k) == Drop({e \in live : e.key = k})

Tick == /\ now' = now + 1
        /\ live' = {e \in live : e.exp > now'}
        /\ saved' = {e \in saved : e.exp > now'}
        /\ UNCHANGED <<up, stamp>>

Save == /\ up
        /\ saved' = live
        /\ UNCHANGED <<live, up, now, stamp>>

Stop == /\ up
        /\ up' = FALSE
        /\ live' = {}
        /\ UNCHANGED <<saved, now, stamp>>

Start == /\ ~up
         /\ up' = TRUE
         /\ live' = saved
         /\ UNCHANGED <<saved, now, stamp>>

Next == \/ \E k \in Key, v \in Value, t \in Ttl : Add(k, v, t) \/ Set(k, v, t)
        \/ \E k \in Key, v \in Value : Remove(k, v)
        \/ \E k \in Key : Delete(k)
        \/ Tick \/ Save \/ Stop \/ Start

Spec == Init /\ [][Next]_vars
=============================================================================
