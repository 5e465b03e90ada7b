--------------------------- MODULE StreamListener ---------------------------
(***************************************************************************)
(* What netutil.NewQUICStreamListener owes its user, who only knows that   *)
(* it is a net.Listener: a stream that has arrived is given to one call of *)
(* Accept or closed, never both; a call made after the end fails, and      *)
(* always with the first reason there was to end.                          *)
(***************************************************************************)
EXTENDS Naturals

CONSTANTS Stream, Caller, Cause, None

VARIABLES arrived,   \* the streams the listener has taken up
          given,     \* those that calls of Accept returned
          shut,      \* those the listener closed itself
          closed,    \* why it ended, None before
          waiting,   \* the callers inside Accept
          error     \* the error a call returned, None for a stream

vars == <<arrived, given, shut, closed, waiting, error>>

Open == arrived \ (given \cup shut)

Init == /\ arrived = {} /\ given = {} /\ shut = {}
        /\ closed = None
        /\ waiting = {}
        /\ error = [a \in Caller |-> None]

Arrive(s) == /\ closed = None
             /\ s \notin arrived
             /\ arrived' = arrived \cup {s}
             /\ UNCHANGED <<given, shut, closed, waiting, error>>

(* A stream that comes after the end is closed at once.                    *)
Refuse(s) == /\ closed # None
             /\ s \notin arrived
             /\ arrived' = arrived \cup {s}
             /\ shut' = shut \cup {s}
             /\ UNCHANGED <<given, closed, waiting, error>>

Shut(s) == /\ closed # None
           /\ s \in Open
           /\ shut' = shut \cup {s}
           /\ UNCHANGED <<arrived, given, closed, waiting, error>>

Begin(a) == /\ a \notin waiting
            /\ error' = [error EXCEPT ![a] = None]
            /\ UNCHANGED <<arrived, given, shut, closed, waiting>>

(* The call is in time.                                                    *)
Enter(a) == /\ closed = None
            /\ a \notin waiting
            /\ waiting' = waiting \cup {a}
            /\ UNCHANGED <<arrived, given, shut, closed, error>>

(* A call that began before the end may still return a stream after it.    *)
Give(a, s) == /\ a \in waiting
              /\ s \in Open
              /\ given' = given \cup {s}
              /\ waiting' = waiting \ {a}
              /\ UNCHANGED <<arrived, shut, closed, error>>

Fail(a) == /\ closed # None
           /\ waiting' = waiting \ {a}
           /\ error' = [error EXCEPT ![a] = closed]
           /\ UNCHANGED <<arrived, given, shut, closed>>

Close(e) == /\ closed = None
            /\ closed' = e
            /\ UNCHANGED <<arrived, given, shut, waiting, error>>

Next == \/ \E s \in Stream : Arrive(s) \/ Refuse(s) \/ Shut(s)
        \/ \E a \in Caller : Begin(a) \/ Enter(a) \/ Fail(a)
        \/ \E a \in Caller, s \in Stream : Give(a, s)
        \/ \E e \in Cause : Close(e)

Spec == Init /\ [][Next]_vars
=============================================================================
