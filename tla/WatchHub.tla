------------------------------ MODULE WatchHub ------------------------------
(***************************************************************************)
(* The live view of the probe zone: WebsocketHandler.ServeHTTP and         *)
(* WebsocketWatcher of internal/zones/dnscheck, the hub of                 *)
(* internal/probewatch around a SimpleWatcherHub, its tail goroutines, and *)
(* the Valkey lists the (external) DNS plugin appends to.                  *)
(*                                                                         *)
(* A connection c is served by three goroutines: the handler (pc[c]), the  *)
(* tail that polls the list of its watcher id (tpc[c]) and the WriteLoop   *)
(* (wpc[c]).  h.mu and the lock of the inner hub are each held for one     *)
(* action; between them, and between IsRegistered and Register, others     *)
(* run.  The stop channel that Register makes for c is named by c itself.  *)
(***************************************************************************)
EXTENDS Naturals, Sequences, FiniteSets

CONSTANTS Conn,            \* connections, each used once
          Id,              \* watcher ids, which are the probe tokens
          None,            \* no entry in a map
          Limits,          \* the limits considered; 0 is none
          BufLen,          \* WebsocketWatcherBufferLength
          MaxPerPoll,      \* maxPerPoll
          MaxObs           \* bound: the entries a list ever gets

ASSUME NoneAssumption == None \notin Conn \cup Id
ASSUME LimitAssumption == Limits \subseteq Nat /\ BufLen \in Nat /\ MaxObs \in Nat
ASSUME PollAssumption == MaxPerPoll \in Nat \ {0}

VARIABLES
    pc,                    \* where ServeHTTP is
    wid,                   \* the watcher id a connection asks for
    ctxDone,               \* its context has been canceled or has expired
    inner,                 \* SimpleWatcherHub.m
    tails,                 \* Hub.tails: the stop channel of each id
    closed,                \* the stop channels that have been closed
    tpc,                   \* where the tail is
    cursor,                \* entries of the list the tail has consumed
    at, upto,              \* the part of the list a tail is sending: at+1..upto
    late,                  \* reads a tail began although it had been stopped
    wpc,                   \* where WriteLoop is
    buf,                   \* ws.ch: positions of the entries in the channel
    written,               \* positions handed to WriteJSON
    dropped,               \* positions Send found no room for
    list,                  \* the list of each id; FALSE: not decodable
    maxSize                \* SimpleWatcherHub.MaxSize, for good

handler == <<pc, wid, ctxDone>>
hubs == <<inner, tails, closed>>
tail == <<tpc, cursor, at, upto, late>>
writer == <<wpc, buf, written, dropped>>
vars == <<handler, hubs, tail, writer, list, maxSize>>

Position == 1 .. MaxObs

TypeOK ==
    /\ pc \in [Conn -> {"idle", "checked", "inner", "registered", "serving",
                        "unregTail", "unregInner", "refused", "done"}]
    /\ wid \in [Conn -> Id \cup {None}]
    /\ ctxDone \in [Conn -> BOOLEAN]
    /\ inner \in [Id -> Conn \cup {None}]
    /\ tails \in [Id -> Conn \cup {None}]
    /\ closed \subseteq Conn
    /\ tpc \in [Conn -> {"none", "check", "reading", "sending", "wait", "exit"}]
    /\ cursor \in [Conn -> 0 .. MaxObs]
    /\ at \in [Conn -> 0 .. MaxObs]
    /\ upto \in [Conn -> 0 .. MaxObs]
    /\ late \in [Conn -> Nat]
    /\ wpc \in [Conn -> {"none", "top", "select", "stopped"}]
    /\ buf \in [Conn -> Seq(Position)]
    /\ written \in [Conn -> Seq(Position)]
    /\ dropped \in [Conn -> SUBSET Position]
    /\ list \in [Id -> Seq(BOOLEAN)]
    /\ maxSize \in Limits

Registered == {i \in Id : inner[i] # None}

-----------------------------------------------------------------------------
(* ServeHTTP: upgrade, then IsRegistered under the read lock of the inner  *)
(* hub; a taken id is refused with close code 4000.                        *)
Check(c, i) ==
    /\ pc[c] = "idle"
    /\ wid' = [wid EXCEPT ![c] = i]
    /\ pc' = [pc EXCEPT ![c] = IF inner[i] # None THEN "refused" ELSE "checked"]
    /\ UNCHANGED <<ctxDone, hubs, tail, writer, list, maxSize>>

(* SimpleWatcherHub.Register: refused at the limit, unless it overwrites.  *)
AtLimit(i) == /\ maxSize > 0
              /\ Cardinality(Registered) >= maxSize
              /\ inner[i] = None

(* Mutant of RegisterInner: Hub.Register goes on after the inner hub's     *)
(* error and starts a tail for a watcher that is not registered.           *)
RegisterInnerIgnoresError(c) ==
    /\ pc[c] = "checked"
    /\ pc' = [pc EXCEPT ![c] = "inner"]
    /\ inner' = IF AtLimit(wid[c]) THEN inner ELSE [inner EXCEPT ![wid[c]] = c]
    /\ UNCHANGED <<wid, ctxDone, tails, closed, tail, writer, list, maxSize>>

RegisterInner(c) ==
    /\ pc[c] = "checked"
    /\ \/ /\ AtLimit(wid[c])
          /\ pc' = [pc EXCEPT ![c] = "refused"]
          /\ UNCHANGED inner
       \/ /\ ~AtLimit(wid[c])
          /\ pc' = [pc EXCEPT ![c] = "inner"]
          /\ inner' = [inner EXCEPT ![wid[c]] = c]
    /\ UNCHANGED <<wid, ctxDone, tails, closed, tail, writer, list, maxSize>>

(* Mutant of RegisterTail: an old stop channel is overwritten, not closed. *)
RegisterTailOrphans(c) ==
    /\ pc[c] = "inner"
    /\ tails' = [tails EXCEPT ![wid[c]] = c]
    /\ tpc' = [tpc EXCEPT ![c] = "check"]
    /\ pc' = [pc EXCEPT ![c] = "registered"]
    /\ UNCHANGED <<wid, ctxDone, inner, closed, cursor, at, upto, late, writer, list, maxSize>>

(* The rest of Hub.Register: close a stop channel already there, put one's *)
(* own, start the tail.                                                    *)
RegisterTail(c) ==
    /\ pc[c] = "inner"
    /\ closed' = closed \cup ({tails[wid[c]]} \ {None})
    /\ tails' = [tails EXCEPT ![wid[c]] = c]
    /\ tpc' = [tpc EXCEPT ![c] = "check"]
    /\ pc' = [pc EXCEPT ![c] = "registered"]
    /\ UNCHANGED <<wid, ctxDone, inner, cursor, at, upto, late, writer, list, maxSize>>

(* Make the context with its deadline, start WriteLoop, read.              *)
Serve(c) ==
    /\ pc[c] = "registered"
    /\ pc' = [pc EXCEPT ![c] = "serving"]
    /\ wpc' = [wpc EXCEPT ![c] = "top"]
    /\ UNCHANGED <<wid, ctxDone, hubs, tail, buf, written, dropped, list, maxSize>>

(* WebsocketWatcherMaxLife has passed: the context expires and its         *)
(* AfterFunc begins to close the connection.                               *)
Deadline(c) ==
    /\ pc[c] = "serving"
    /\ ~ctxDone[c]
    /\ ctxDone' = [ctxDone EXCEPT ![c] = TRUE]
    /\ UNCHANGED <<pc, wid, hubs, tail, writer, list, maxSize>>

(* Mutant of Leave: the handler returns without canceling the context.     *)
LeaveWithoutCancel(c) ==
    /\ pc[c] = "serving"
    /\ pc' = [pc EXCEPT ![c] = "unregTail"]
    /\ UNCHANGED <<wid, ctxDone, hubs, tail, writer, list, maxSize>>

(* NextReader fails: the client left, or the AfterFunc closed conn.  The   *)
(* deferred cancel runs before the deferred Unregister.                    *)
Leave(c) ==
    /\ pc[c] = "serving"
    /\ pc' = [pc EXCEPT ![c] = "unregTail"]
    /\ ctxDone' = [ctxDone EXCEPT ![c] = TRUE]
    /\ UNCHANGED <<wid, hubs, tail, writer, list, maxSize>>

(* Mutant of UnregisterTail: the closed channel stays in the map.          *)
UnregisterTailKeepsEntry(c) ==
    /\ pc[c] = "unregTail"
    /\ closed' = closed \cup ({tails[wid[c]]} \ {None})
    /\ pc' = [pc EXCEPT ![c] = "unregInner"]
    /\ UNCHANGED <<wid, ctxDone, inner, tails, tail, writer, list, maxSize>>

(* Mutant of UnregisterTail: stops the tails of all ids.                   *)
UnregisterTailOfAll(c) ==
    /\ pc[c] = "unregTail"
    /\ closed' = closed \cup ({tails[i] : i \in Id} \ {None})
    /\ tails' = [i \in Id |-> None]
    /\ pc' = [pc EXCEPT ![c] = "unregInner"]
    /\ UNCHANGED <<wid, ctxDone, inner, tail, writer, list, maxSize>>

(* Hub.Unregister, under h.mu: whichever stop channel the id has now.      *)
UnregisterTail(c) ==
    /\ pc[c] = "unregTail"
    /\ closed' = closed \cup ({tails[wid[c]]} \ {None})
    /\ tails' = [tails EXCEPT ![wid[c]] = None]
    /\ pc' = [pc EXCEPT ![c] = "unregInner"]
    /\ UNCHANGED <<wid, ctxDone, inner, tail, writer, list, maxSize>>

(* Hub.Unregister, after h.mu: SimpleWatcherHub.Unregister.                *)
UnregisterInner(c) ==
    /\ pc[c] = "unregInner"
    /\ inner' = [inner EXCEPT ![wid[c]] = None]
    /\ pc' = [pc EXCEPT ![c] = "done"]
    /\ UNCHANGED <<wid, ctxDone, tails, closed, tail, writer, list, maxSize>>

-----------------------------------------------------------------------------
(* Mutant of TailCheck: the loop without the select at its head.           *)
TailDoesNotCheck(c) ==
    /\ tpc[c] = "check"
    /\ tpc' = [tpc EXCEPT ![c] = "reading"]
    /\ UNCHANGED <<handler, hubs, cursor, at, upto, late, writer, list, maxSize>>

(* The select on stop at the head of the tail's loop.                      *)
TailCheck(c) ==
    /\ tpc[c] = "check"
    /\ tpc' = [tpc EXCEPT ![c] = IF c \in closed THEN "exit" ELSE "reading"]
    /\ UNCHANGED <<handler, hubs, cursor, at, upto, late, writer, list, maxSize>>

(* Two stands for two or more.                                             *)
AfterStop(c) ==
    late' = [late EXCEPT ![c] = IF c \in closed /\ @ < 2 THEN @ + 1 ELSE @]

(* Mutant of TailFetch: counts maxPerPoll entries however many there were. *)
TailFetchCountsFull(c) ==
    /\ tpc[c] = "reading"
    /\ at' = [at EXCEPT ![c] = cursor[c]]
    /\ upto' = [upto EXCEPT ![c] = cursor[c] + MaxPerPoll]
    /\ AfterStop(c)
    /\ tpc' = [tpc EXCEPT ![c] = "sending"]
    /\ UNCHANGED <<handler, hubs, cursor, writer, list, maxSize>>

(* fetch(): LRANGE cursor .. cursor+maxPerPoll-1.                          *)
TailFetch(c) ==
    /\ tpc[c] = "reading"
    /\ at' = [at EXCEPT ![c] = cursor[c]]
    /\ upto' = [upto EXCEPT ![c] =
                    IF Len(list[wid[c]]) < cursor[c] + MaxPerPoll
                    THEN Len(list[wid[c]]) ELSE cursor[c] + MaxPerPoll]
    /\ AfterStop(c)
    /\ tpc' = [tpc EXCEPT ![c] = "sending"]
    /\ UNCHANGED <<handler, hubs, cursor, writer, list, maxSize>>

(* Mutant of TailError: a failed read ends the tail.                       *)
TailErrorKills(c) ==
    /\ tpc[c] = "reading"
    /\ AfterStop(c)
    /\ tpc' = [tpc EXCEPT ![c] = "exit"]
    /\ UNCHANGED <<handler, hubs, cursor, at, upto, writer, list, maxSize>>

(* fetch() fails or times out: leave if stopped, else wait for a tick.     *)
TailError(c) ==
    /\ tpc[c] = "reading"
    /\ AfterStop(c)
    /\ tpc' = [tpc EXCEPT ![c] = IF c \in closed THEN "exit" ELSE "wait"]
    /\ UNCHANGED <<handler, hubs, cursor, at, upto, writer, list, maxSize>>

(* Mutant of Send: drops while there is still room for one.                *)
SendDropsEarly(c, p) ==
    \/ /\ Len(buf[c]) + 1 < BufLen
       /\ buf' = [buf EXCEPT ![c] = Append(@, p)]
       /\ UNCHANGED dropped
    \/ /\ Len(buf[c]) + 1 >= BufLen \/ wpc[c] = "stopped"
       /\ dropped' = [dropped EXCEPT ![c] = @ \cup {p}]
       /\ UNCHANGED buf

(* WebsocketWatcher.Send never blocks.  WriteLoop sets ws.ch to nil when   *)
(* it ends and Send reads it without a lock: after that, Send drops the    *)
(* message or still puts it in the channel, which nobody reads any more.   *)
Send(c, p) ==
    \/ /\ Len(buf[c]) < BufLen
       /\ buf' = [buf EXCEPT ![c] = Append(@, p)]
       /\ UNCHANGED dropped
    \/ /\ Len(buf[c]) >= BufLen \/ wpc[c] = "stopped"
       /\ dropped' = [dropped EXCEPT ![c] = @ \cup {p}]
       /\ UNCHANGED buf

(* One entry of the batch: sent if it can be decoded, else passed over.    *)
TailSend(c) ==
    /\ tpc[c] = "sending"
    /\ at[c] < upto[c]
    /\ at' = [at EXCEPT ![c] = @ + 1]
    /\ \/ list[wid[c]][at[c] + 1] /\ Send(c, at[c] + 1)
       \/ ~list[wid[c]][at[c] + 1] /\ UNCHANGED <<buf, dropped>>
    /\ UNCHANGED <<handler, hubs, tpc, cursor, upto, late, wpc, written, list, maxSize>>

(* Mutants of TailAdvance: the cursor advances by what was sent, so that   *)
(* an undecodable entry is read again; the cursor does not advance.        *)
TailAdvanceBySent(c) ==
    /\ tpc[c] = "sending"
    /\ at[c] = upto[c]
    /\ cursor' = [cursor EXCEPT ![c] =
                     @ + Cardinality({p \in cursor[c] + 1 .. upto[c] : list[wid[c]][p]})]
    /\ tpc' = [tpc EXCEPT ![c] = "wait"]
    /\ UNCHANGED <<handler, hubs, at, upto, late, writer, list, maxSize>>
TailStaysBehind(c) ==
    /\ tpc[c] = "sending"
    /\ at[c] = upto[c]
    /\ tpc' = [tpc EXCEPT ![c] = "wait"]
    /\ UNCHANGED <<handler, hubs, cursor, at, upto, late, writer, list, maxSize>>

(* cursor += consumed, after the whole batch.                              *)
TailAdvance(c) ==
    /\ tpc[c] = "sending"
    /\ at[c] = upto[c]
    /\ cursor' = [cursor EXCEPT ![c] = upto[c]]
    /\ tpc' = [tpc EXCEPT ![c] = "wait"]
    /\ UNCHANGED <<handler, hubs, at, upto, late, writer, list, maxSize>>

(* The select at the bottom: a tick or, if it is closed, stop; when both   *)
(* are ready Go chooses either.                                            *)
TailWait(c) ==
    /\ tpc[c] = "wait"
    /\ \/ tpc' = [tpc EXCEPT ![c] = "check"]
       \/ c \in closed /\ tpc' = [tpc EXCEPT ![c] = "exit"]
    /\ UNCHANGED <<handler, hubs, cursor, at, upto, late, writer, list, maxSize>>

-----------------------------------------------------------------------------
(* WriteLoop: the first select.                                            *)
WriterTop(c) ==
    /\ wpc[c] = "top"
    /\ wpc' = [wpc EXCEPT ![c] = IF ctxDone[c] THEN "stopped" ELSE "select"]
    /\ UNCHANGED <<handler, hubs, tail, buf, written, dropped, list, maxSize>>

(* WriteLoop: the second select, a message.                                *)
WriterMessage(c) ==
    /\ wpc[c] = "select"
    /\ buf[c] # <<>>
    /\ written' = [written EXCEPT ![c] = Append(@, Head(buf[c]))]
    /\ buf' = [buf EXCEPT ![c] = Tail(@)]
    /\ wpc' = [wpc EXCEPT ![c] = "top"]
    /\ UNCHANGED <<handler, hubs, tail, dropped, list, maxSize>>

(* WriteLoop: the second select, the context.                              *)
WriterDone(c) ==
    /\ wpc[c] = "select"
    /\ ctxDone[c]
    /\ wpc' = [wpc EXCEPT ![c] = "stopped"]
    /\ UNCHANGED <<handler, hubs, tail, buf, written, dropped, list, maxSize>>

(* The plugin records an observation: RPUSH, never anything else.          *)
PluginPush(i) ==
    /\ Len(list[i]) < MaxObs
    /\ \E ok \in BOOLEAN : list' = [list EXCEPT ![i] = Append(@, ok)]
    /\ UNCHANGED <<handler, hubs, tail, writer, maxSize>>

-----------------------------------------------------------------------------
Init ==
    /\ pc = [c \in Conn |-> "idle"]
    /\ wid = [c \in Conn |-> None]
    /\ ctxDone = [c \in Conn |-> FALSE]
    /\ inner = [i \in Id |-> None]
    /\ tails = [i \in Id |-> None]
    /\ closed = {}
    /\ tpc = [c \in Conn |-> "none"]
    /\ cursor = [c \in Conn |-> 0]
    /\ at = [c \in Conn |-> 0]
    /\ upto = [c \in Conn |-> 0]
    /\ late = [c \in Conn |-> 0]
    /\ wpc = [c \in Conn |-> "none"]
    /\ buf = [c \in Conn |-> <<>>]
    /\ written = [c \in Conn |-> <<>>]
    /\ dropped = [c \in Conn |-> {}]
    /\ list = [i \in Id |-> <<>>]
    /\ maxSize \in Limits

Handler(c) == \/ \E i \in Id : Check(c, i)
              \/ RegisterInner(c) \/ RegisterTail(c) \/ Serve(c)
              \/ Deadline(c) \/ Leave(c)
              \/ UnregisterTail(c) \/ UnregisterInner(c)

Poll(c) == \/ TailCheck(c) \/ TailFetch(c) \/ TailError(c)
           \/ TailSend(c) \/ TailAdvance(c) \/ TailWait(c)

WriteLoop(c) == WriterTop(c) \/ WriterMessage(c) \/ WriterDone(c)

Next == \/ \E c \in Conn : Handler(c) \/ Poll(c) \/ WriteLoop(c)
        \/ \E i \in Id : PluginPush(i)

Spec == Init /\ [][Next]_vars

(* Goroutines that can go on do, and a closed connection makes NextReader  *)
(* fail.  Clients need not leave, nor the plugin push.                     *)
Goroutines ==
    \A c \in Conn :
        /\ WF_vars(RegisterInner(c) \/ RegisterTail(c) \/ Serve(c))
        /\ WF_vars(ctxDone[c] /\ Leave(c))
        /\ WF_vars(UnregisterTail(c) \/ UnregisterInner(c))
        /\ WF_vars(Poll(c))
        /\ WF_vars(WriterTop(c))
        /\ WF_vars(WriterMessage(c) \/ WriterDone(c))

(* A deadline passes.                                                      *)
Deadlines == \A c \in Conn : WF_vars(Deadline(c))

(* A read of the store that is tried again and again succeeds some time.   *)
Reads == \A c \in Conn : SF_vars(TailFetch(c))

(* The store may fail for good.                                            *)
FairSpec == Spec /\ Goroutines /\ Deadlines

(* Without deadlines, a watch may last forever.                            *)
FeedSpec == Spec /\ Goroutines /\ Reads

-----------------------------------------------------------------------------
Running(c) == tpc[c] \notin {"none", "exit"}

(* Hub.Register and Hub.Unregister never close a channel twice, which      *)
(* would panic and take the process down: whatever connections with the    *)
(* same id do, a stop channel that can be reached is open.                 *)
NoDoubleClose == \A i \in Id : tails[i] \notin closed

(* No tail is orphaned: one that is running and has not been stopped is    *)
(* the one the next Unregister (or Register) of its id will stop, and its  *)
(* connection is still to call Unregister.                                 *)
NoOrphanTail ==
    \A c \in Conn : Running(c) /\ c \notin closed =>
        /\ tails[wid[c]] = c
        /\ pc[c] \in {"registered", "serving", "unregTail"}

(* Both: every stop channel is closed once, by whoever is to stop its tail.*)
StopChannelsAreSound == NoDoubleClose /\ NoOrphanTail

(* The inner hub never exceeds its limit, though its Register overwrites   *)
(* and the check and the registration are different critical sections.     *)
WatcherLimit == maxSize > 0 => Cardinality(Registered) <= maxSize

(* A tail that has been stopped begins at most one more read: the check at *)
(* the head of the loop makes the random select at its foot harmless.      *)
PromptStop == \A c \in Conn : late[c] <= 1

(* A connection whose id no other one asked for keeps its registration and *)
(* its tail as long as it is served, whatever connections do with other    *)
(* ids.                                                                    *)
Alone(c) == \A d \in Conn \ {c} : wid[d] # wid[c]
Isolation ==
    \A c \in Conn : pc[c] \in {"registered", "serving"} /\ Alone(c) =>
        /\ inner[wid[c]] = c
        /\ tails[wid[c]] = c
        /\ c \notin closed

(* Whatever was decodable among the entries a tail has passed has been     *)
(* written, is in the channel, or was dropped there for want of room: none *)
(* is passed over, and an entry that cannot be decoded is never shown.     *)
PositionsIn(s) == {s[n] : n \in DOMAIN s}
Passed(c) == IF tpc[c] = "sending" THEN at[c] ELSE cursor[c]
EveryEntryAccountedFor ==
    \A c \in Conn : tpc[c] # "none" =>
        PositionsIn(written[c]) \cup PositionsIn(buf[c]) \cup dropped[c]
            = {p \in 1 .. Passed(c) : list[wid[c]][p]}

(* The page gets each entry at most once and in the order of the list.     *)
InOrderAtMostOnce ==
    \A c \in Conn : LET s == written[c] \o buf[c]
                    IN  /\ \A m, n \in DOMAIN s : m < n => s[m] < s[n]
                        /\ PositionsIn(s) \cap dropped[c] = {}

(* Both: what the page gets is the list, once and in order, but for what   *)
(* was dropped.                                                            *)
FeedIsExact == EveryEntryAccountedFor /\ InOrderAtMostOnce

(* What is dropped was dropped because the channel was full or its reader  *)
(* gone: a reader that keeps up with the tail misses nothing.              *)
DropsOnlyWhenFull ==
    [][\A c \in Conn : dropped[c] # dropped'[c] =>
           Len(buf[c]) = BufLen \/ ctxDone[c]]_vars

(* A stopped tail ends.                                                    *)
StoppedTailsEnd == \A c \in Conn : c \in closed ~> tpc[c] = "exit"

(* A registration does not outlive WebsocketWatcherMaxLife: the handler    *)
(* unregisters, the tail and the WriteLoop end, even if the client is mute.*)
RegistrationsEnd ==
    \A c \in Conn : pc[c] = "registered" ~>
        pc[c] = "done" /\ tpc[c] = "exit" /\ wpc[c] = "stopped"

(* Both: nothing a connection has started outlives it, also where another  *)
(* connection stopped its tail first.                                      *)
WatchesEnd == StoppedTailsEnd /\ RegistrationsEnd

(* An entry of the list reaches the connection's channel however often the *)
(* store fails and whatever undecodable entries precede it, unless the     *)
(* tail is stopped.                                                        *)
EntriesAreForwarded ==
    \A c \in Conn, p \in Position :
        (Running(c) /\ p <= Len(list[wid[c]])) ~> (cursor[c] >= p \/ c \in closed)

(* Both: a page whose WriteLoop keeps up misses nothing.                   *)
NothingIsMissed == DropsOnlyWhenFull /\ EntriesAreForwarded
=============================================================================
