---------------------------- MODULE QuicListener ----------------------------
(***************************************************************************)
(* QUICStreamListener (internal/netutil/quic.go): the net.Listener through *)
(* which DNS over QUIC reaches the DNS server.  One goroutine accepts      *)
(* connections (acceptConns), one for each connection accepts its streams  *)
(* (acceptStreams) and hands them over an unbuffered channel to the calls  *)
(* of Accept; a context with a cause ends all of them.                     *)
(*                                                                         *)
(* A select is a step; when the channel and ctx.Done() are both ready it   *)
(* takes either.  The QUIC library is external: its Accept(ctx) and        *)
(* AcceptStream(ctx) may return what is available although ctx is done,    *)
(* and closing its listener leaves the connections it accepted alone.      *)
(***************************************************************************)
EXTENDS Naturals

CONSTANTS Conn,        \* the connections of peers
          Caller,      \* the goroutines that use the listener
          None,
          ErrClosed,   \* net.ErrClosed
          Failed,      \* an error of the library's listener
          MaxStreams   \* bound: the streams opened on each connection

ASSUME BoundAssumption == MaxStreams \in [Conn -> Nat]

Stream == UNION {{c} \X (1 .. MaxStreams[c]) : c \in Conn}
Cause == {ErrClosed, Failed}

ASSUME NoneAssumption == None \notin Cause

VARIABLES link,      \* each connection: not there yet, up, or gone
          opened,    \* the streams its peer has opened
          taken,     \* those AcceptStream has returned
          main,      \* where acceptConns is
          pc,        \* where acceptStreams of each connection is
          cause,     \* context.Cause(l.ctx), None while it is not done
          lclosed,   \* l.listener is closed
          apc,       \* where each user is: in Accept, in Close, or in neither
          error,     \* the error its last call of Accept returned, None for a stream
          given,     \* the streams calls of Accept returned
          shut       \* the streams acceptStreams closed

peers == <<link, opened>>
vars == <<link, opened, taken, main, pc, cause, lclosed, apc, error, given, shut>>

Done == cause # None

(* The stream in the hands of acceptStreams of c.                          *)
Held(c) == <<c, taken[c]>>

-----------------------------------------------------------------------------
(* External: the peers, and the sockets below.                             *)

Connect(c) == /\ link[c] = "none"
              /\ ~lclosed
              /\ link' = [link EXCEPT ![c] = "up"]
              /\ UNCHANGED <<opened, taken, main, pc, cause, lclosed, apc, error,
                             given, shut>>

OpenStream(c) == /\ link[c] = "up"
                 /\ opened[c] < MaxStreams[c]
                 /\ opened' = [opened EXCEPT ![c] = @ + 1]
                 /\ UNCHANGED <<link, taken, main, pc, cause, lclosed, apc, error,
                                given, shut>>

Disconnect(c) == /\ link[c] = "up"
                 /\ link' = [link EXCEPT ![c] = "gone"]
                 /\ UNCHANGED <<opened, taken, main, pc, cause, lclosed, apc, error,
                                given, shut>>

-----------------------------------------------------------------------------
(* Mutants of cancel: the last reason counts; the reason is not passed on. *)
cancelOverrides(e) == cause' = e
cancelWithoutCause(e) == cause' = IF Done THEN cause ELSE "canceled"

(* l.cancel: only the first cause is kept.                                 *)
cancel(e) == cause' = IF Done THEN cause ELSE e

(* acceptConns: a connection gets a goroutine of its own ...               *)
AcceptConn(c) == /\ main = "accept"
                 /\ link[c] # "none" /\ pc[c] = "none"
                 /\ pc' = [pc EXCEPT ![c] = "accept"]
                 /\ UNCHANGED <<peers, taken, main, cause, lclosed, apc, error,
                                given, shut>>

(* ... and an error, which may come at any time, ends everything.          *)
AcceptConnFails == /\ main = "accept"
                   /\ main' = "end"
                   /\ cancel(Failed)
                   /\ UNCHANGED <<peers, taken, pc, lclosed, apc, error, given, shut>>

-----------------------------------------------------------------------------
(* acceptStreams: conn.AcceptStream.                                       *)
TakeStream(c) == /\ pc[c] = "accept"
                 /\ link[c] = "up" /\ taken[c] < opened[c]
                 /\ taken' = [taken EXCEPT ![c] = @ + 1]
                 /\ pc' = [pc EXCEPT ![c] = "check"]
                 /\ UNCHANGED <<peers, main, cause, lclosed, apc, error, given, shut>>

(* Mutant of TakeFails: AcceptStream is not given l.ctx.                   *)
TakeFailsWithoutContext(c) ==
    /\ pc[c] = "accept"
    /\ link[c] = "gone"
    /\ pc' = [pc EXCEPT ![c] = "end"]
    /\ UNCHANGED <<peers, taken, main, cause, lclosed, apc, error, given, shut>>

TakeFails(c) == /\ pc[c] = "accept"
                /\ link[c] = "gone" \/ Done
                /\ pc' = [pc EXCEPT ![c] = "end"]
                /\ UNCHANGED <<peers, taken, main, cause, lclosed, apc, error,
                               given, shut>>

(* Mutant of closeStream: the stream is left open.                         *)
closeStreamNot(c) == /\ pc' = [pc EXCEPT ![c] = "end"]
                     /\ UNCHANGED shut

(* stream.Close(), and the goroutine returns.                              *)
closeStream(c) == /\ pc' = [pc EXCEPT ![c] = "end"]
                  /\ shut' = shut \cup {Held(c)}

(* The first select: the listener may have ended meanwhile.                *)
CheckStream(c) == /\ pc[c] = "check"
                  /\ \/ Done /\ closeStream(c)
                     \/ ~Done /\ pc' = [pc EXCEPT ![c] = "offer"] /\ UNCHANGED shut
                  /\ UNCHANGED <<peers, taken, main, cause, lclosed, apc, error, given>>

(* The second select: a call of Accept takes the stream ...                *)
HandOver(c, a) == /\ pc[c] = "offer" /\ apc[a] = "select"
                  /\ given' = given \cup {Held(c)}
                  /\ pc' = [pc EXCEPT ![c] = "accept"]
                  /\ apc' = [apc EXCEPT ![a] = "idle"]
                  /\ UNCHANGED <<peers, taken, main, cause, lclosed, error, shut>>

(* ... or nobody does before the end.                                      *)
OfferEnds(c) == /\ pc[c] = "offer" /\ Done
                /\ closeStream(c)
                /\ UNCHANGED <<peers, taken, main, cause, lclosed, apc, error, given>>

-----------------------------------------------------------------------------
(* A user calls Accept.                                                    *)
Call(a) == /\ apc[a] = "idle"
           /\ apc' = [apc EXCEPT ![a] = "check"]
           /\ error' = [error EXCEPT ![a] = None]
           /\ UNCHANGED <<peers, taken, main, pc, cause, lclosed, given, shut>>

(* Accept returns context.Cause(l.ctx).                                    *)
fail(a) == /\ apc' = [apc EXCEPT ![a] = "idle"]
           /\ error' = [error EXCEPT ![a] = cause]

(* Mutant of AcceptCheck: there is no first select.                        *)
AcceptCheckSkipped(a) ==
    /\ apc[a] = "check"
    /\ apc' = [apc EXCEPT ![a] = "select"] /\ UNCHANGED error
    /\ UNCHANGED <<peers, taken, main, pc, cause, lclosed, given, shut>>

(* Accept: the first select.  In the second, HandOver or AcceptEnds.       *)
AcceptCheck(a) == /\ apc[a] = "check"
                  /\ \/ Done /\ fail(a)
                     \/ ~Done /\ apc' = [apc EXCEPT ![a] = "select"] /\ UNCHANGED error
                  /\ UNCHANGED <<peers, taken, main, pc, cause, lclosed, given, shut>>

AcceptEnds(a) == /\ apc[a] = "select" /\ Done
                 /\ fail(a)
                 /\ UNCHANGED <<peers, taken, main, pc, cause, lclosed, given, shut>>

(* Close cancels the context first, then closes the library's listener.    *)
Close(a) == /\ apc[a] = "idle"
            /\ cancel(ErrClosed)
            /\ apc' = [apc EXCEPT ![a] = "closing"]
            /\ UNCHANGED <<peers, taken, main, pc, lclosed, error, given, shut>>

CloseListener(a) == /\ apc[a] = "closing"
                    /\ lclosed' = TRUE
                    /\ apc' = [apc EXCEPT ![a] = "idle"]
                    /\ UNCHANGED <<peers, taken, main, pc, cause, error, given, shut>>

-----------------------------------------------------------------------------
Init == /\ link = [c \in Conn |-> "none"]
        /\ opened = [c \in Conn |-> 0] /\ taken = [c \in Conn |-> 0]
        /\ main = "accept"
        /\ pc = [c \in Conn |-> "none"]
        /\ cause = None /\ lclosed = FALSE
        /\ apc = [a \in Caller |-> "idle"]
        /\ error = [a \in Caller |-> None]
        /\ given = {} /\ shut = {}

Next == \/ \E c \in Conn : Connect(c) \/ OpenStream(c) \/ Disconnect(c)
        \/ \E c \in Conn : AcceptConn(c)
        \/ AcceptConnFails
        \/ \E c \in Conn : TakeStream(c) \/ TakeFails(c) \/ CheckStream(c) \/ OfferEnds(c)
        \/ \E c \in Conn, a \in Caller : HandOver(c, a)
        \/ \E a \in Caller : \/ Call(a) \/ AcceptCheck(a) \/ AcceptEnds(a)
                             \/ Close(a) \/ CloseListener(a)

Spec == Init /\ [][Next]_vars

(* Goroutines run, and the DNS server calls Accept again until it fails.   *)
(* The waiting senders of a channel are served in their order, so none is  *)
(* passed over for ever.  Nothing is assumed of the peers, of errors or of *)
(* Close.                                                                  *)
Fairness ==
    /\ WF_vars(Done /\ AcceptConnFails)
    /\ \A c \in Conn : /\ WF_vars(AcceptConn(c))
                       /\ WF_vars(TakeStream(c) \/ TakeFails(c))
                       /\ WF_vars(CheckStream(c))
                       /\ WF_vars(OfferEnds(c))
                       /\ SF_vars(\E a \in Caller : HandOver(c, a))
    /\ \A a \in Caller : /\ WF_vars(~Done /\ Call(a))
                         /\ WF_vars(AcceptCheck(a))
                         /\ WF_vars(AcceptEnds(a))
                         /\ WF_vars(CloseListener(a))

FairSpec == Spec /\ Fairness

-----------------------------------------------------------------------------
TypeOK == /\ link \in [Conn -> {"none", "up", "gone"}]
          /\ opened \in [Conn -> Nat] /\ taken \in [Conn -> Nat]
          /\ \A c \in Conn : taken[c] <= opened[c] /\ opened[c] <= MaxStreams[c]
          /\ main \in {"accept", "end"}
          /\ pc \in [Conn -> {"none", "accept", "check", "offer", "end"}]
          /\ cause \in Cause \cup {None}
          /\ lclosed \in BOOLEAN
          /\ apc \in [Caller -> {"idle", "check", "select", "closing"}]
          /\ error \in [Caller -> Cause \cup {None}]
          /\ given \subseteq Stream /\ shut \subseteq Stream

InHand == {s \in Stream : pc[s[1]] \in {"check", "offer"} /\ s = Held(s[1])}

(* Those that are past the first select, or have been.                     *)
Past == {s \in Stream : s[2] <= taken[s[1]] /\ ~(pc[s[1]] = "check" /\ s = Held(s[1]))}

InAccept == {a \in Caller : apc[a] = "select"}

(* Whatever the two selects choose while the listener ends, each stream    *)
(* that was taken from its connection is in the hands of its goroutine, or *)
(* was returned by a call of Accept, or was closed, and only one of these: *)
(* none is lost with its query unanswered, none is closed under a reader.  *)
EveryStreamAccountedFor ==
    /\ given \cup shut \cup InHand = {s \in Stream : s[2] <= taken[s[1]]}
    /\ given \cap shut = {}
    /\ InHand \cap (given \cup shut) = {}

(* To its user the listener is a net.Listener: a call of Accept that       *)
(* begins after Close or after an error fails with the first cause, and a  *)
(* stream that was not offered by then is never returned.                  *)
Listener == INSTANCE StreamListener
    WITH arrived <- Past, closed <- cause, waiting <- InAccept
Implements == Listener!Spec

Stopped == /\ main = "end"
           /\ \A c \in Conn : pc[c] \in {"none", "end"}

(* Once the context is done every goroutine of the listener ends and every *)
(* call returns; until then no stream of an accepted connection waits for  *)
(* ever while the DNS server keeps calling Accept.                         *)
EverythingEnds ==
    /\ Done ~> Stopped
    /\ \A a \in Caller : apc[a] # "idle" /\ Done ~> apc[a] = "idle"
    /\ \A s \in Stream :
           s[2] <= opened[s[1]] ~> \/ s \in given \cup shut
                                   \/ link[s[1]] = "gone"
                                   \/ Done
=============================================================================
