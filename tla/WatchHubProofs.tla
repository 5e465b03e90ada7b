--------------------------- MODULE WatchHubProofs ---------------------------
(***************************************************************************)
(* The safety of the hub's bookkeeping (WatchHub), for every set of        *)
(* connections and ids and every limit: no stop channel is closed twice,   *)
(* no tail is orphaned, the limit on watchers holds, a stopped tail reads  *)
(* at most once more, and connections with different ids do not interfere. *)
(***************************************************************************)
EXTENDS WatchHub, FiniteSetTheorems, SequenceTheorems, TLAPS

Bookkeeping ==
    /\ pc \in [Conn -> {"idle", "checked", "inner", "registered", "serving",
                        "unregTail", "unregInner", "refused", "done"}]
    /\ wid \in [Conn -> Id \cup {None}]
    /\ inner \in [Id -> Conn \cup {None}]
    /\ tails \in [Id -> Conn \cup {None}]
    /\ closed \subseteq Conn
    /\ tpc \in [Conn -> {"none", "check", "reading", "sending", "wait", "exit"}]
    /\ late \in [Conn -> Nat]

HasId == \A c \in Conn : IF pc[c] = "idle" THEN wid[c] = None ELSE wid[c] \in Id

(* A tail exists from Hub.Register on; only then can its channel be closed.*)
TailStarted ==
    \A c \in Conn : /\ tpc[c] = "none" <=> pc[c] \in {"idle", "checked", "inner", "refused"}
                    /\ c \in closed => tpc[c] # "none"

(* The map of stop channels holds open channels of connections that still  *)
(* have to unregister, each under the id of its connection ...             *)
MapIsSound ==
    \A i \in Id : tails[i] # None =>
        /\ tails[i] \notin closed
        /\ wid[tails[i]] = i
        /\ pc[tails[i]] \in {"registered", "serving", "unregTail"}

(* ... and holds all of those: a channel that was made is closed or there. *)
MapIsComplete ==
    \A c \in Conn : tpc[c] # "none" /\ c \notin closed => tails[wid[c]] = c

(* A tail found reading after its stop channel was closed began before.    *)
LateOnce ==
    \A c \in Conn : /\ late[c] <= 1
                    /\ c \notin closed \/ tpc[c] = "reading" => late[c] = 0

AloneIsRegistered ==
    \A c \in Conn : pc[c] \in {"inner", "registered", "serving"} /\ Alone(c) =>
        /\ inner[wid[c]] = c
        /\ c \notin closed

HubInv == /\ Bookkeeping
          /\ HasId
          /\ TailStarted
          /\ MapIsSound
          /\ MapIsComplete
          /\ LateOnce
          /\ AloneIsRegistered

-----------------------------------------------------------------------------
LEMMA InitHubInv == Init => HubInv
  BY NoneAssumption
     DEF Init, HubInv, Bookkeeping, HasId, TailStarted, MapIsSound,
         MapIsComplete, LateOnce, AloneIsRegistered

(* The steps of the WriteLoop, of the plugin and of the list position, and *)
(* those of the context, leave everything the invariant speaks of alone.   *)
LEMMA Untouched ==
    ASSUME HubInv, UNCHANGED <<pc, wid, inner, tails, closed, tpc, late>>
    PROVE  HubInv'
  BY DEF HubInv, Bookkeeping, HasId, TailStarted, MapIsSound, MapIsComplete,
         LateOnce, AloneIsRegistered, Alone

(* A step of a tail that starts no read.                                   *)
LEMMA TailMoves ==
    ASSUME HubInv, NEW c \in Conn, tpc[c] # "none",
           NEW l \in {"check", "sending", "wait", "exit"},
           tpc' = [tpc EXCEPT ![c] = l],
           UNCHANGED <<pc, wid, inner, tails, closed, late>>
    PROVE  HubInv'
  <1>1. Bookkeeping' /\ HasId' /\ TailStarted'
    BY DEF HubInv, Bookkeeping, HasId, TailStarted
  <1>2. MapIsSound' /\ MapIsComplete'
    BY DEF HubInv, Bookkeeping, MapIsSound, MapIsComplete
  <1>3. LateOnce'
    BY DEF HubInv, Bookkeeping, LateOnce
  <1>4. AloneIsRegistered'
    BY DEF HubInv, AloneIsRegistered, Alone
  <1> QED  BY <1>1, <1>2, <1>3, <1>4 DEF HubInv

(* A read that begins, and what the tail does next.                        *)
LEMMA TailReads ==
    ASSUME HubInv, NEW c \in Conn, tpc[c] = "reading", AfterStop(c),
           NEW l \in {"sending", "wait", "exit"},
           tpc' = [tpc EXCEPT ![c] = l],
           UNCHANGED <<pc, wid, inner, tails, closed>>
    PROVE  HubInv'
  <1>1. late[c] = 0
    BY DEF HubInv, LateOnce
  <1>2. late' = [late EXCEPT ![c] = IF c \in closed THEN 1 ELSE 0]
    BY <1>1 DEF AfterStop
  <1>3. Bookkeeping' /\ HasId' /\ TailStarted'
    BY <1>2 DEF HubInv, Bookkeeping, HasId, TailStarted
  <1>4. MapIsSound' /\ MapIsComplete'
    BY DEF HubInv, Bookkeeping, MapIsSound, MapIsComplete
  <1>5. LateOnce'
    BY <1>2 DEF HubInv, Bookkeeping, LateOnce
  <1>6. AloneIsRegistered'
    BY DEF HubInv, AloneIsRegistered, Alone
  <1> QED  BY <1>3, <1>4, <1>5, <1>6 DEF HubInv

LEMMA CheckKeeps ==
    ASSUME HubInv, NEW c \in Conn, NEW i \in Id, Check(c, i)
    PROVE  HubInv'
  <1>1. /\ pc[c] = "idle" /\ wid[c] = None /\ tpc[c] = "none" /\ c \notin closed
        /\ wid' = [wid EXCEPT ![c] = i]
        /\ \E l \in {"refused", "checked"} : pc' = [pc EXCEPT ![c] = l]
        /\ UNCHANGED <<inner, tails, closed, tpc, late>>
    BY DEF Check, hubs, tail, HubInv, HasId, TailStarted
  <1>2. Bookkeeping' /\ HasId' /\ TailStarted'
    BY <1>1, NoneAssumption DEF HubInv, Bookkeeping, HasId, TailStarted
  <1>3. \A j \in Id : tails[j] # c
    BY <1>1, NoneAssumption DEF HubInv, MapIsSound
  <1>4. MapIsSound' /\ MapIsComplete'
    BY <1>1, <1>3 DEF HubInv, Bookkeeping, MapIsSound, MapIsComplete
  <1>5. LateOnce'
    BY <1>1 DEF HubInv, LateOnce
  <1>6. AloneIsRegistered'
    <2> SUFFICES ASSUME NEW d \in Conn, pc'[d] \in {"inner", "registered", "serving"},
                        Alone(d)'
                 PROVE  inner'[wid'[d]] = d /\ d \notin closed'
      BY DEF AloneIsRegistered
    <2>1. d # c /\ pc[d] = pc'[d] /\ wid'[d] = wid[d] /\ wid[d] \in Id
      BY <1>1 DEF HubInv, Bookkeeping, HasId
    <2>2. Alone(d)
      <3> SUFFICES ASSUME NEW e \in Conn \ {d}
                   PROVE  wid[e] # wid[d]
        BY DEF Alone
      <3>1. CASE e = c
        BY <3>1, <1>1, <2>1, NoneAssumption
      <3>2. CASE e # c
        BY <3>2, <1>1, <2>1 DEF Alone, HubInv, Bookkeeping
      <3> QED  BY <3>1, <3>2
    <2> QED  BY <1>1, <2>1, <2>2 DEF HubInv, AloneIsRegistered
  <1> QED  BY <1>2, <1>4, <1>5, <1>6 DEF HubInv

LEMMA RegisterInnerKeeps ==
    ASSUME HubInv, NEW c \in Conn, RegisterInner(c)
    PROVE  HubInv'
  <1>1. /\ pc[c] = "checked" /\ wid[c] \in Id /\ tpc[c] = "none" /\ c \notin closed
        /\ UNCHANGED <<wid, tails, closed, tpc, late>>
    BY DEF RegisterInner, tail, HubInv, HasId, TailStarted
  <1>2. \/ pc' = [pc EXCEPT ![c] = "refused"] /\ inner' = inner
        \/ pc' = [pc EXCEPT ![c] = "inner"] /\ inner' = [inner EXCEPT ![wid[c]] = c]
    BY DEF RegisterInner
  <1>3. Bookkeeping' /\ HasId' /\ TailStarted'
    BY <1>1, <1>2 DEF HubInv, Bookkeeping, HasId, TailStarted
  <1>4. \A j \in Id : tails[j] # c
    BY <1>1, NoneAssumption DEF HubInv, MapIsSound
  <1>5. MapIsSound' /\ MapIsComplete'
    BY <1>1, <1>2, <1>4 DEF HubInv, Bookkeeping, MapIsSound, MapIsComplete
  <1>6. LateOnce'
    BY <1>1 DEF HubInv, LateOnce
  <1>7. AloneIsRegistered'
    <2> SUFFICES ASSUME NEW d \in Conn, pc'[d] \in {"inner", "registered", "serving"},
                        Alone(d)'
                 PROVE  inner'[wid[d]] = d /\ d \notin closed
      BY <1>1 DEF AloneIsRegistered
    <2>1. Alone(d)
      BY <1>1 DEF Alone
    <2>2. CASE d = c
      BY <2>2, <1>1, <1>2 DEF HubInv, Bookkeeping
    <2>3. CASE d # c
      <3>1. pc[d] = pc'[d] /\ wid[d] # wid[c]
        BY <2>1, <2>3, <1>2 DEF Alone, HubInv, Bookkeeping
      <3>2. inner[wid[d]] = d /\ d \notin closed /\ wid[d] \in Id
        BY <2>1, <3>1 DEF HubInv, AloneIsRegistered, HasId
      <3> QED  BY <1>2, <3>1, <3>2 DEF HubInv, Bookkeeping
    <2> QED  BY <2>2, <2>3
  <1> QED  BY <1>3, <1>5, <1>6, <1>7 DEF HubInv

(* Hub.Register closes the channel it finds under its id, if any, and puts *)
(* its own there: no other id has either of them.                          *)
LEMMA RegisterTailKeeps ==
    ASSUME HubInv, NEW c \in Conn, RegisterTail(c)
    PROVE  HubInv'
  <1> DEFINE i == wid[c]
  <1>1. /\ pc[c] = "inner" /\ i \in Id /\ tpc[c] = "none" /\ c \notin closed
        /\ closed' = closed \cup ({tails[i]} \ {None})
        /\ tails' = [tails EXCEPT ![i] = c]
        /\ tpc' = [tpc EXCEPT ![c] = "check"]
        /\ pc' = [pc EXCEPT ![c] = "registered"]
        /\ UNCHANGED <<wid, inner, late>>
    BY DEF RegisterTail, HubInv, HasId, TailStarted
  <1>2. \A j \in Id : tails[j] # c
    BY <1>1, NoneAssumption DEF HubInv, MapIsSound
  <1>3. c \notin closed'
    BY <1>1, <1>2
  <1>4. \A d \in Conn : d \in closed' /\ d \notin closed => d = tails[i] /\ tails[i] # None
    BY <1>1
  <1>5. Bookkeeping' /\ HasId'
    BY <1>1 DEF HubInv, Bookkeeping, HasId
  <1>6. TailStarted'
    <2> SUFFICES ASSUME NEW d \in Conn
                 PROVE  /\ tpc'[d] = "none" <=> pc'[d] \in {"idle", "checked", "inner", "refused"}
                        /\ d \in closed' => tpc'[d] # "none"
      BY DEF TailStarted
    <2>1. CASE d = c
      BY <2>1, <1>1 DEF HubInv, Bookkeeping
    <2>2. CASE d # c
      <3>1. tpc'[d] = tpc[d] /\ pc'[d] = pc[d]
        BY <2>2, <1>1 DEF HubInv, Bookkeeping
      <3>2. d \in closed' => tpc[d] # "none"
        BY <1>1, <1>4 DEF HubInv, TailStarted, MapIsSound
      <3> QED  BY <3>1, <3>2 DEF HubInv, TailStarted
    <2> QED  BY <2>1, <2>2
  <1>7. MapIsSound'
    <2> SUFFICES ASSUME NEW j \in Id, tails'[j] # None
                 PROVE  /\ tails'[j] \notin closed'
                        /\ wid[tails'[j]] = j
                        /\ pc'[tails'[j]] \in {"registered", "serving", "unregTail"}
      BY <1>1 DEF MapIsSound
    <2>1. CASE j = i
      BY <2>1, <1>1, <1>3 DEF HubInv, Bookkeeping
    <2>2. CASE j # i
      <3>1. tails'[j] = tails[j] /\ tails[j] \in Conn /\ tails[j] # c
        BY <2>2, <1>1, <1>2 DEF HubInv, Bookkeeping
      <3>2. tails[j] # tails[i]
        BY <2>2, <3>1, <1>1 DEF HubInv, MapIsSound
      <3> QED  BY <3>1, <3>2, <1>1 DEF HubInv, Bookkeeping, MapIsSound
    <2> QED  BY <2>1, <2>2
  <1>8. MapIsComplete'
    <2> SUFFICES ASSUME NEW d \in Conn, tpc'[d] # "none", d \notin closed'
                 PROVE  tails'[wid[d]] = d
      BY <1>1 DEF MapIsComplete
    <2>1. CASE d = c
      BY <2>1, <1>1 DEF HubInv, Bookkeeping
    <2>2. CASE d # c
      <3>1. tpc[d] # "none" /\ d \notin closed
        BY <2>2, <1>1 DEF HubInv, Bookkeeping
      <3>2. tails[wid[d]] = d
        BY <3>1 DEF HubInv, MapIsComplete
      <3>3. wid[d] # i
        BY <3>2, <1>1, NoneAssumption
      <3> QED  BY <3>2, <3>3, <1>1
    <2> QED  BY <2>1, <2>2
  <1>9. LateOnce'
    BY <1>1 DEF HubInv, Bookkeeping, LateOnce
  <1>10. AloneIsRegistered'
    <2> SUFFICES ASSUME NEW d \in Conn, pc'[d] \in {"inner", "registered", "serving"},
                        Alone(d)'
                 PROVE  inner[wid[d]] = d /\ d \notin closed'
      BY <1>1 DEF AloneIsRegistered
    <2>1. Alone(d)
      BY <1>1 DEF Alone
    <2>2. pc[d] \in {"inner", "registered", "serving"}
      BY <1>1 DEF HubInv, Bookkeeping
    <2>3. inner[wid[d]] = d /\ d \notin closed
      BY <2>1, <2>2 DEF HubInv, AloneIsRegistered
    <2>4. d \notin closed'
      <3>1. CASE d = c
        BY <3>1, <1>3
      <3>2. CASE d # c
        <4>1. wid[c] # wid[d]
          BY <2>1, <3>2 DEF Alone
        <4> QED  BY <4>1, <2>3, <1>1, <1>4 DEF HubInv, MapIsSound
      <3> QED  BY <3>1, <3>2
    <2> QED  BY <2>3, <2>4
  <1> QED  BY <1>5, <1>6, <1>7, <1>8, <1>9, <1>10 DEF HubInv

(* Serve and Leave only move the handler of a connection along.            *)
LEMMA HandlerMoves ==
    ASSUME HubInv, NEW c \in Conn,
           NEW l \in {"serving", "unregTail"},
           pc[c] = "registered" \/ pc[c] = "serving",
           pc' = [pc EXCEPT ![c] = l],
           UNCHANGED <<wid, inner, tails, closed, tpc, late>>
    PROVE  HubInv'
  <1>1. Bookkeeping' /\ HasId' /\ TailStarted'
    BY DEF HubInv, Bookkeeping, HasId, TailStarted
  <1>2. MapIsSound'
    BY DEF HubInv, Bookkeeping, MapIsSound
  <1>3. MapIsComplete' /\ LateOnce'
    BY DEF HubInv, MapIsComplete, LateOnce
  <1>4. AloneIsRegistered'
    BY DEF HubInv, Bookkeeping, AloneIsRegistered, Alone
  <1> QED  BY <1>1, <1>2, <1>3, <1>4 DEF HubInv

LEMMA UnregisterTailKeeps ==
    ASSUME HubInv, NEW c \in Conn, UnregisterTail(c)
    PROVE  HubInv'
  <1> DEFINE i == wid[c]
  <1>1. /\ pc[c] = "unregTail" /\ i \in Id /\ tpc[c] # "none"
        /\ closed' = closed \cup ({tails[i]} \ {None})
        /\ tails' = [tails EXCEPT ![i] = None]
        /\ pc' = [pc EXCEPT ![c] = "unregInner"]
        /\ UNCHANGED <<wid, inner, tpc, late>>
    BY DEF UnregisterTail, tail, HubInv, HasId, TailStarted
  <1>2. \A d \in Conn : d \in closed' /\ d \notin closed => d = tails[i] /\ tails[i] # None
    BY <1>1
  <1>3. c \in closed'
    BY <1>1, NoneAssumption DEF HubInv, MapIsComplete
  <1>4. Bookkeeping' /\ HasId'
    BY <1>1 DEF HubInv, Bookkeeping, HasId
  <1>5. TailStarted'
    <2>1. \A d \in Conn : d \in closed' => tpc[d] # "none"
      BY <1>1, <1>2 DEF HubInv, TailStarted, MapIsSound
    <2> QED  BY <2>1, <1>1 DEF HubInv, Bookkeeping, TailStarted
  <1>6. MapIsSound'
    <2> SUFFICES ASSUME NEW j \in Id, tails'[j] # None
                 PROVE  /\ tails'[j] \notin closed'
                        /\ wid[tails'[j]] = j
                        /\ pc'[tails'[j]] \in {"registered", "serving", "unregTail"}
      BY <1>1 DEF MapIsSound
    <2>1. j # i /\ tails'[j] = tails[j] /\ tails[j] \in Conn
      BY <1>1 DEF HubInv, Bookkeeping
    <2>2. tails[j] # tails[i]
      BY <2>1, <1>1 DEF HubInv, MapIsSound
    <2>3. tails[j] \notin closed'
      BY <2>1, <2>2, <1>1 DEF HubInv, MapIsSound
    <2> QED  BY <2>1, <2>3, <1>1, <1>3 DEF HubInv, Bookkeeping, MapIsSound
  <1>7. MapIsComplete'
    <2> SUFFICES ASSUME NEW d \in Conn, tpc[d] # "none", d \notin closed'
                 PROVE  tails'[wid[d]] = d
      BY <1>1 DEF MapIsComplete
    <2>1. tails[wid[d]] = d
      BY <1>1 DEF HubInv, MapIsComplete
    <2>2. wid[d] # i
      BY <2>1, <1>1, NoneAssumption
    <2> QED  BY <2>1, <2>2, <1>1
  <1>8. LateOnce'
    BY <1>1 DEF HubInv, Bookkeeping, LateOnce
  <1>9. AloneIsRegistered'
    <2> SUFFICES ASSUME NEW d \in Conn, pc'[d] \in {"inner", "registered", "serving"},
                        Alone(d)'
                 PROVE  inner[wid[d]] = d /\ d \notin closed'
      BY <1>1 DEF AloneIsRegistered
    <2>1. d # c /\ pc[d] = pc'[d] /\ Alone(d)
      BY <1>1 DEF Alone, HubInv, Bookkeeping
    <2>2. inner[wid[d]] = d /\ d \notin closed
      BY <2>1 DEF HubInv, AloneIsRegistered
    <2>3. wid[c] # wid[d]
      BY <2>1 DEF Alone
    <2> QED  BY <2>2, <2>3, <1>1, <1>2 DEF HubInv, MapIsSound
  <1> QED  BY <1>4, <1>5, <1>6, <1>7, <1>8, <1>9 DEF HubInv

LEMMA UnregisterInnerKeeps ==
    ASSUME HubInv, NEW c \in Conn, UnregisterInner(c)
    PROVE  HubInv'
  <1>1. /\ pc[c] = "unregInner" /\ wid[c] \in Id
        /\ inner' = [inner EXCEPT ![wid[c]] = None]
        /\ pc' = [pc EXCEPT ![c] = "done"]
        /\ UNCHANGED <<wid, tails, closed, tpc, late>>
    BY DEF UnregisterInner, tail, HubInv, HasId
  <1>2. Bookkeeping' /\ HasId' /\ TailStarted'
    BY <1>1 DEF HubInv, Bookkeeping, HasId, TailStarted
  <1>3. MapIsSound' /\ MapIsComplete' /\ LateOnce'
    BY <1>1 DEF HubInv, Bookkeeping, MapIsSound, MapIsComplete, LateOnce
  <1>4. AloneIsRegistered'
    <2> SUFFICES ASSUME NEW d \in Conn, pc'[d] \in {"inner", "registered", "serving"},
                        Alone(d)'
                 PROVE  inner'[wid[d]] = d /\ d \notin closed
      BY <1>1 DEF AloneIsRegistered
    <2>1. d # c /\ pc[d] = pc'[d] /\ Alone(d)
      BY <1>1 DEF Alone, HubInv, Bookkeeping
    <2>2. inner[wid[d]] = d /\ d \notin closed
      BY <2>1 DEF HubInv, AloneIsRegistered
    <2>3. wid[c] # wid[d]
      BY <2>1 DEF Alone
    <2> QED  BY <2>2, <2>3, <1>1
  <1> QED  BY <1>2, <1>3, <1>4 DEF HubInv

-----------------------------------------------------------------------------
LEMMA NextHubInv == HubInv /\ [Next]_vars => HubInv'
  <1> SUFFICES ASSUME HubInv, [Next]_vars
               PROVE  HubInv'
    OBVIOUS
  <1>1. ASSUME NEW c \in Conn, Handler(c)
        PROVE  HubInv'
    <2>1. CASE \E i \in Id : Check(c, i)
      BY <2>1, CheckKeeps
    <2>2. CASE RegisterInner(c)
      BY <2>2, RegisterInnerKeeps
    <2>3. CASE RegisterTail(c)
      BY <2>3, RegisterTailKeeps
    <2>4. CASE Serve(c)
      BY <2>4, HandlerMoves DEF Serve, hubs, tail
    <2>5. CASE Deadline(c)
      BY <2>5, Untouched DEF Deadline, hubs, tail
    <2>6. CASE Leave(c)
      BY <2>6, HandlerMoves DEF Leave, hubs, tail
    <2>7. CASE UnregisterTail(c)
      BY <2>7, UnregisterTailKeeps
    <2>8. CASE UnregisterInner(c)
      BY <2>8, UnregisterInnerKeeps
    <2> QED  BY <1>1, <2>1, <2>2, <2>3, <2>4, <2>5, <2>6, <2>7, <2>8 DEF Handler
  <1>2. ASSUME NEW c \in Conn, Poll(c)
        PROVE  HubInv'
    <2>1. CASE TailCheck(c)
      <3>1. CASE c \in closed
        BY <2>1, <3>1, TailMoves DEF TailCheck, handler, hubs
      <3>2. CASE c \notin closed
        <4>1. /\ tpc[c] = "check" /\ tpc' = [tpc EXCEPT ![c] = "reading"]
              /\ UNCHANGED <<pc, wid, inner, tails, closed, late>>
          BY <2>1, <3>2 DEF TailCheck, handler, hubs
        <4>2. Bookkeeping' /\ HasId' /\ TailStarted'
          BY <4>1 DEF HubInv, Bookkeeping, HasId, TailStarted
        <4>3. MapIsSound' /\ MapIsComplete' /\ AloneIsRegistered'
          BY <4>1 DEF HubInv, Bookkeeping, MapIsSound, MapIsComplete,
                      AloneIsRegistered, Alone
        <4>4. LateOnce'
          BY <3>2, <4>1 DEF HubInv, Bookkeeping, LateOnce
        <4> QED  BY <4>2, <4>3, <4>4 DEF HubInv
      <3> QED  BY <3>1, <3>2
    <2>2. CASE TailFetch(c)
      BY <2>2, TailReads DEF TailFetch, handler, hubs
    <2>3. CASE TailError(c)
      <3>1. CASE c \in closed
        BY <2>3, <3>1, TailReads DEF TailError, handler, hubs
      <3>2. CASE c \notin closed
        BY <2>3, <3>2, TailReads DEF TailError, handler, hubs
      <3> QED  BY <3>1, <3>2
    <2>4. CASE TailSend(c)
      BY <2>4, Untouched DEF TailSend, handler, hubs
    <2>5. CASE TailAdvance(c)
      BY <2>5, TailMoves DEF TailAdvance, handler, hubs
    <2>6. CASE TailWait(c)
      BY <2>6, TailMoves DEF TailWait, handler, hubs
    <2> QED  BY <1>2, <2>1, <2>2, <2>3, <2>4, <2>5, <2>6 DEF Poll
  <1>3. ASSUME NEW c \in Conn, WriteLoop(c)
        PROVE  HubInv'
    BY <1>3, Untouched
       DEF WriteLoop, WriterTop, WriterMessage, WriterDone, handler, hubs, tail
  <1>4. ASSUME NEW i \in Id, PluginPush(i)
        PROVE  HubInv'
    BY <1>4, Untouched DEF PluginPush, handler, hubs, tail
  <1>5. CASE UNCHANGED vars
    BY <1>5, Untouched DEF vars, handler, hubs, tail
  <1> QED  BY <1>1, <1>2, <1>3, <1>4, <1>5 DEF Next

(* The inductive invariant of the hub's bookkeeping holds throughout.      *)
THEOREM HubInductive == Spec => []HubInv
  BY InitHubInv, NextHubInv, PTL DEF Spec

(* Whatever connections race for an id, close() is never called twice on a *)
(* stop channel: the process cannot panic there.                           *)
THEOREM NeverClosedTwice == Spec => []NoDoubleClose
  <1>1. HubInv => NoDoubleClose
    BY NoneAssumption DEF HubInv, Bookkeeping, MapIsSound, NoDoubleClose
  <1> QED  BY HubInductive, <1>1, PTL

(* Every running tail that has not been stopped can still be: its channel  *)
(* is the one under its id, and its connection has yet to unregister.      *)
THEOREM NeverOrphaned == Spec => []NoOrphanTail
  <1>1. HubInv => NoOrphanTail
    <2> SUFFICES ASSUME HubInv, NEW c \in Conn, Running(c), c \notin closed
                 PROVE  tails[wid[c]] = c /\ pc[c] \in {"registered", "serving", "unregTail"}
      BY DEF NoOrphanTail
    <2>1. tpc[c] # "none"
      BY DEF Running
    <2>2. tails[wid[c]] = c
      BY <2>1 DEF HubInv, MapIsComplete
    <2>3. wid[c] \in Id
      BY <2>1 DEF HubInv, TailStarted, HasId
    <2> QED  BY <2>2, <2>3, NoneAssumption DEF HubInv, MapIsSound
  <1> QED  BY HubInductive, <1>1, PTL

(* Both at once: every stop channel is closed once and by whoever is to    *)
(* stop its tail.                                                          *)
THEOREM StopsOnce == Spec => []StopChannelsAreSound
  BY NeverClosedTwice, NeverOrphaned, PTL DEF StopChannelsAreSound

(* A stopped tail begins at most one more read of the store.               *)
THEOREM StopsPromptly == Spec => []PromptStop
  <1>1. HubInv => PromptStop
    BY DEF HubInv, LateOnce, PromptStop
  <1> QED  BY HubInductive, <1>1, PTL

(* Connections with different ids do not take each other's registration or *)
(* stop each other's tail.                                                 *)
THEOREM Isolated == Spec => []Isolation
  <1>1. HubInv => Isolation
    <2> SUFFICES ASSUME HubInv, NEW c \in Conn, pc[c] \in {"registered", "serving"},
                        Alone(c)
                 PROVE  inner[wid[c]] = c /\ tails[wid[c]] = c /\ c \notin closed
      BY DEF Isolation
    <2>1. inner[wid[c]] = c /\ c \notin closed
      BY DEF HubInv, AloneIsRegistered
    <2>2. tpc[c] # "none"
      BY DEF HubInv, TailStarted
    <2> QED  BY <2>1, <2>2 DEF HubInv, MapIsComplete
  <1> QED  BY HubInductive, <1>1, PTL

-----------------------------------------------------------------------------
LimitInv == HubInv /\ maxSize \in Limits /\ IsFiniteSet(Registered) /\ WatcherLimit

(* No step changes the limit.                                              *)
LEMMA MaxSizeIsKept == [Next]_vars => maxSize' = maxSize
  <1> SUFFICES ASSUME [Next]_vars
               PROVE  maxSize' = maxSize
    OBVIOUS
  <1>1. ASSUME NEW c \in Conn, Handler(c)
        PROVE  maxSize' = maxSize
    BY <1>1 DEF Handler, Check, RegisterInner, RegisterTail, Serve, Deadline, Leave,
                UnregisterTail, UnregisterInner
  <1>2. ASSUME NEW c \in Conn, Poll(c) \/ WriteLoop(c)
        PROVE  maxSize' = maxSize
    BY <1>2 DEF Poll, TailCheck, TailFetch, TailError, TailSend, TailAdvance, TailWait,
                WriteLoop, WriterTop, WriterMessage, WriterDone
  <1> QED  BY <1>1, <1>2 DEF Next, PluginPush, vars

(* Only RegisterInner adds an id to the inner hub, and only below the      *)
(* limit or where there is one already.                                    *)
LEMMA NextLimitInv == LimitInv /\ [Next]_vars => LimitInv'
  <1> SUFFICES ASSUME LimitInv, [Next]_vars
               PROVE  IsFiniteSet(Registered') /\ WatcherLimit'
    BY NextHubInv, MaxSizeIsKept DEF LimitInv
  <1>0. maxSize \in Nat /\ maxSize' = maxSize
    BY MaxSizeIsKept, LimitAssumption DEF LimitInv
  <1>1. Cardinality(Registered) \in Nat
    BY FS_CardinalityType DEF LimitInv
  <1>2. ASSUME NEW S, S \subseteq Registered
        PROVE  IsFiniteSet(S) /\ Cardinality(S) \in Nat
                 /\ Cardinality(S) <= Cardinality(Registered)
    BY <1>2, FS_Subset, FS_CardinalityType DEF LimitInv
  <1>3. CASE Registered' \subseteq Registered
    BY <1>0, <1>1, <1>2, <1>3 DEF LimitInv, WatcherLimit
  <1>4. ASSUME NEW c \in Conn, RegisterInner(c)
        PROVE  IsFiniteSet(Registered') /\ WatcherLimit'
    <2>1. CASE AtLimit(wid[c])
      BY <1>3, <1>4, <2>1 DEF RegisterInner, Registered
    <2>2. CASE ~AtLimit(wid[c])
      <3>1. wid[c] \in Id /\ inner' = [inner EXCEPT ![wid[c]] = c]
        BY <1>4, <2>2 DEF RegisterInner, LimitInv, HubInv, HasId
      <3>2. Registered' = Registered \cup {wid[c]}
        BY <3>1, NoneAssumption DEF Registered, LimitInv, HubInv, Bookkeeping
      <3>3. CASE wid[c] \in Registered
        BY <1>3, <3>2, <3>3
      <3>4. CASE wid[c] \notin Registered
        <4>1. IsFiniteSet(Registered') /\ Cardinality(Registered') = Cardinality(Registered) + 1
          BY <3>2, <3>4, FS_AddElement DEF LimitInv
        <4>2. maxSize > 0 => Cardinality(Registered) < maxSize
          BY <1>0, <1>1, <2>2, <3>1, <3>4 DEF AtLimit, Registered
        <4> QED  BY <1>0, <1>1, <4>1, <4>2 DEF WatcherLimit
      <3> QED  BY <3>3, <3>4
    <2> QED  BY <2>1, <2>2
  <1>5. ASSUME NEW c \in Conn, UnregisterInner(c)
        PROVE  Registered' \subseteq Registered
    BY <1>5 DEF UnregisterInner, Registered, LimitInv, HubInv, Bookkeeping
  <1>6. CASE UNCHANGED inner
    BY <1>3, <1>6 DEF Registered
  <1>7. ASSUME NEW c \in Conn, Handler(c)
        PROVE  UNCHANGED inner \/ RegisterInner(c) \/ UnregisterInner(c)
    BY <1>7 DEF Handler, Check, RegisterTail, Serve, Deadline, Leave, UnregisterTail, hubs
  <1>8. ASSUME NEW c \in Conn, Poll(c) \/ WriteLoop(c)
        PROVE  UNCHANGED inner
    BY <1>8 DEF Poll, TailCheck, TailFetch, TailError, TailSend, TailAdvance, TailWait,
                WriteLoop, WriterTop, WriterMessage, WriterDone, hubs
  <1>9. ASSUME NEW i \in Id, PluginPush(i)
        PROVE  UNCHANGED inner
    BY <1>9 DEF PluginPush, hubs
  <1>10. CASE UNCHANGED vars
    BY <1>6, <1>10 DEF vars, hubs
  <1> QED  BY <1>3, <1>4, <1>5, <1>6, <1>7, <1>8, <1>9, <1>10 DEF Next

(* The inner hub never holds more than MaxSize ids.                        *)
THEOREM LimitHolds == Spec => []WatcherLimit
  <1>1. Init => LimitInv
    <2> SUFFICES ASSUME Init
                 PROVE  IsFiniteSet(Registered) /\ WatcherLimit
      BY InitHubInv DEF LimitInv, Init
    <2>1. Registered = {}
      BY DEF Init, Registered
    <2>2. IsFiniteSet(Registered) /\ Cardinality(Registered) = 0
      BY <2>1, FS_EmptySet
    <2>3. maxSize \in Nat
      BY LimitAssumption DEF Init
    <2> QED  BY <2>2, <2>3 DEF WatcherLimit
  <1>2. LimitInv => WatcherLimit
    BY DEF LimitInv
  <1> QED  BY <1>1, <1>2, NextLimitInv, PTL DEF Spec

-----------------------------------------------------------------------------
TypeInv == HubInv /\ TypeOK /\ (\A i \in Id : Len(list[i]) <= MaxObs)

LEMMA InitTypeInv == Init => TypeInv
  <1> SUFFICES ASSUME Init
               PROVE  TypeOK /\ \A i \in Id : Len(list[i]) <= MaxObs
    BY InitHubInv DEF TypeInv
  <1>1. 0 \in 0 .. MaxObs /\ Len(<<>>) <= MaxObs
    BY LimitAssumption
  <1>2. <<>> \in Seq(Position) /\ <<>> \in Seq(BOOLEAN)
    OBVIOUS
  <1>3. \A c \in Conn : dropped[c] \in SUBSET Position
    BY DEF Init
  <1>4. dropped \in [Conn -> SUBSET Position]
    BY <1>3 DEF Init
  <1> QED  BY <1>1, <1>2, <1>4 DEF Init, TypeOK

LEMMA NextTypeInv == TypeInv /\ [Next]_vars => TypeInv'
  <1> SUFFICES ASSUME TypeInv, [Next]_vars
               PROVE  TypeOK' /\ \A i \in Id : Len(list'[i]) <= MaxObs
    BY NextHubInv DEF TypeInv
  <1> USE DEF TypeInv
  <1>0. /\ TypeOK /\ HasId /\ Bookkeeping'
        /\ \A c \in Conn : tpc[c] # "none" => wid[c] \in Id
    BY NextHubInv DEF HubInv, HasId, TailStarted
  <1>1. ASSUME NEW c \in Conn, Handler(c)
        PROVE  TypeOK' /\ UNCHANGED list
    BY <1>0, <1>1
       DEF Handler, Check, RegisterInner, RegisterTail, Serve, Deadline, Leave,
           UnregisterTail, UnregisterInner, hubs, tail, writer, TypeOK, Bookkeeping
  <1>2. ASSUME NEW c \in Conn, Poll(c)
        PROVE  TypeOK' /\ UNCHANGED list
    <2>1. CASE TailCheck(c) \/ TailError(c) \/ TailAdvance(c) \/ TailWait(c)
      BY <1>0, <2>1
         DEF TailCheck, TailError, TailAdvance, TailWait, handler, hubs, writer,
             TypeOK, Bookkeeping
    <2>2. CASE TailFetch(c)
      <3>1. list[wid[c]] \in Seq(BOOLEAN) /\ Len(list[wid[c]]) <= MaxObs
        BY <1>0, <2>2 DEF TailFetch, TypeOK
      <3>2. Len(list[wid[c]]) \in Nat /\ cursor[c] \in Nat
        BY <1>0, <3>1, LimitAssumption DEF TypeOK
      <3>3. (IF Len(list[wid[c]]) < cursor[c] + MaxPerPoll
             THEN Len(list[wid[c]]) ELSE cursor[c] + MaxPerPoll) \in 0 .. MaxObs
        BY <3>1, <3>2, LimitAssumption, PollAssumption
      <3> QED  BY <1>0, <2>2, <3>3 DEF TailFetch, handler, hubs, writer, TypeOK, Bookkeeping
    <2>3. CASE TailSend(c)
      <3>1. at[c] + 1 \in Position /\ at[c] + 1 \in 0 .. MaxObs
        BY <1>0, <2>3, LimitAssumption DEF TailSend, TypeOK, Position
      <3>2. buf' \in [Conn -> Seq(Position)] /\ dropped' \in [Conn -> SUBSET Position]
        <4>1. CASE UNCHANGED <<buf, dropped>>
          BY <1>0, <4>1 DEF TypeOK
        <4>2. CASE buf' = [buf EXCEPT ![c] = Append(@, at[c] + 1)] /\ UNCHANGED dropped
          BY <1>0, <3>1, <4>2 DEF TypeOK
        <4>3. CASE dropped' = [dropped EXCEPT ![c] = @ \cup {at[c] + 1}] /\ UNCHANGED buf
          BY <1>0, <3>1, <4>3 DEF TypeOK
        <4> QED  BY <2>3, <4>1, <4>2, <4>3 DEF TailSend, Send
      <3> QED  BY <1>0, <2>3, <3>1, <3>2 DEF TailSend, handler, hubs, TypeOK
    <2> QED  BY <1>2, <2>1, <2>2, <2>3 DEF Poll, TailCheck, TailFetch, TailError,
                TailSend, TailAdvance, TailWait
  <1>3. ASSUME NEW c \in Conn, WriteLoop(c)
        PROVE  TypeOK' /\ UNCHANGED list
    <2>1. CASE WriterTop(c) \/ WriterDone(c)
      BY <1>0, <2>1 DEF WriterTop, WriterDone, handler, hubs, tail, TypeOK
    <2>2. CASE WriterMessage(c)
      <3>1. Head(buf[c]) \in Position /\ Tail(buf[c]) \in Seq(Position)
        BY <1>0, <2>2 DEF WriterMessage, TypeOK
      <3>2. Append(written[c], Head(buf[c])) \in Seq(Position)
        BY <1>0, <3>1 DEF TypeOK
      <3> QED  BY <1>0, <2>2, <3>1, <3>2 DEF WriterMessage, handler, hubs, tail, TypeOK
    <2> QED  BY <1>3, <2>1, <2>2 DEF WriteLoop, WriterTop, WriterMessage, WriterDone
  <1>4. ASSUME NEW i \in Id, PluginPush(i)
        PROVE  TypeOK' /\ \A j \in Id : Len(list'[j]) <= MaxObs
    <2> PICK ok \in BOOLEAN : list' = [list EXCEPT ![i] = Append(@, ok)]
      BY <1>4 DEF PluginPush
    <2>1. list[i] \in Seq(BOOLEAN) /\ Len(list[i]) < MaxObs
      BY <1>0, <1>4 DEF PluginPush, TypeOK
    <2>2. Append(list[i], ok) \in Seq(BOOLEAN) /\ Len(Append(list[i], ok)) <= MaxObs
      BY <2>1, LimitAssumption
    <2>3. list' \in [Id -> Seq(BOOLEAN)] /\ \A j \in Id : Len(list'[j]) <= MaxObs
      BY <1>0, <2>2 DEF TypeOK
    <2> QED  BY <1>0, <1>4, <2>3 DEF PluginPush, handler, hubs, tail, writer, TypeOK
  <1>5. CASE UNCHANGED vars
    BY <1>0, <1>5 DEF vars, handler, hubs, tail, writer, TypeOK
  <1> QED  BY <1>1, <1>2, <1>3, <1>4, <1>5 DEF Next

(* Every variable keeps its type; in particular the cursor of a tail never *)
(* leaves the list.                                                        *)
THEOREM TypeCorrect == Spec => []TypeOK
  <1>1. TypeInv => TypeOK
    BY DEF TypeInv
  <1> QED  BY InitTypeInv, NextTypeInv, <1>1, PTL DEF Spec

-----------------------------------------------------------------------------
(* What a page is shown: the entries written to it, then those waiting.    *)
Shown(c) == written[c] \o buf[c]

Increasing(s) == \A m, n \in DOMAIN s : m < n => s[m] < s[n]

(* The cursor of a tail, and the batch it sends, lie within its list.      *)
CursorFits(c) ==
    IF tpc[c] = "none"
    THEN cursor[c] = 0 /\ written[c] = <<>> /\ buf[c] = <<>> /\ dropped[c] = {}
    ELSE /\ cursor[c] <= Len(list[wid[c]])
         /\ tpc[c] = "sending" => at[c] <= upto[c] /\ upto[c] <= Len(list[wid[c]])

(* What was shown and what was dropped are the decodable entries among     *)
(* those the tail has passed, ...                                          *)
Accounted(c) ==
    tpc[c] # "none" =>
        PositionsIn(Shown(c)) \cup dropped[c] = {p \in 1 .. Passed(c) : list[wid[c]][p]}

(* ... each in one of the two places, and shown in order.                  *)
InOrder(c) == Increasing(Shown(c)) /\ PositionsIn(Shown(c)) \cap dropped[c] = {}

(* The channel keeps its length; a WriteLoop ends for its context only.    *)
ChannelFits(c) == Len(buf[c]) <= BufLen /\ (wpc[c] = "stopped" => ctxDone[c])

FeedOf(c) == CursorFits(c) /\ Accounted(c) /\ InOrder(c) /\ ChannelFits(c)

FeedInv == TypeInv /\ \A c \in Conn : FeedOf(c)

(* A message that moves from the channel to the page changes nothing, and  *)
(* one put into the channel is shown last.                                 *)
LEMMA ShownAfterWrite ==
    ASSUME NEW S, NEW s \in Seq(S), NEW t \in Seq(S), t # <<>>
    PROVE  Append(s, Head(t)) \o Tail(t) = s \o t
  <1>1. Len(t) \in Nat \ {0} /\ Tail(t) \in Seq(S) /\ Len(Tail(t)) = Len(t) - 1
    BY HeadTailProperties
  <1>2. Append(s, Head(t)) \in Seq(S)
    BY HeadTailProperties
  <1> DEFINE l == Append(s, Head(t)) \o Tail(t)
             r == s \o t
  <1>3. l \in Seq(S) /\ r \in Seq(S) /\ Len(l) = Len(r) /\ Len(r) = Len(s) + Len(t)
    BY <1>1, <1>2
  <1>4. ASSUME NEW n \in 1 .. Len(r)
        PROVE  l[n] = r[n]
    <2>1. CASE n <= Len(s)
      BY <1>1, <1>2, <1>3, <2>1
    <2>2. CASE n = Len(s) + 1
      BY <1>1, <1>2, <1>3, <2>2
    <2>3. CASE n > Len(s) + 1
      <3>1. l[n] = Tail(t)[n - (Len(s) + 1)]
        BY <1>1, <1>2, <1>3, <2>3
      <3>2. n - (Len(s) + 1) \in 1 .. Len(Tail(t))
        BY <1>1, <1>3, <2>3
      <3>3. Tail(t)[n - (Len(s) + 1)] = t[n - (Len(s) + 1) + 1]
        BY <1>1, <3>2, HeadTailProperties
      <3> QED  BY <1>3, <2>3, <3>1, <3>3
    <2> QED  BY <1>3, <2>1, <2>2, <2>3
  <1> HIDE DEF l, r
  <1>5. l = r
    BY <1>3, <1>4, SeqEqual
  <1> QED  BY <1>5 DEF l, r

LEMMA ShownAfterSend ==
    ASSUME NEW s \in Seq(Nat), NEW t \in Seq(Nat), NEW p \in Nat
    PROVE  s \o Append(t, p) = Append(s \o t, p)
  <1> DEFINE l == s \o Append(t, p)
             r == Append(s \o t, p)
  <1>1. l \in Seq(Nat) /\ r \in Seq(Nat) /\ Len(l) = Len(r) /\ Len(r) = Len(s) + Len(t) + 1
    OBVIOUS
  <1>2. \A n \in 1 .. Len(r) : l[n] = r[n]
    BY <1>1
  <1> HIDE DEF l, r
  <1>3. l = r
    BY <1>1, <1>2, SeqEqual
  <1> QED  BY <1>3 DEF l, r

LEMMA PositionsOfConcat ==
    ASSUME NEW S, NEW s \in Seq(S), NEW t \in Seq(S)
    PROVE  PositionsIn(s \o t) = PositionsIn(s) \cup PositionsIn(t)
  <1>1. PositionsIn(s) \subseteq PositionsIn(s \o t)
    BY DEF PositionsIn
  <1>2. ASSUME NEW n \in DOMAIN t
        PROVE  t[n] \in PositionsIn(s \o t)
    <2>1. Len(s) + n \in DOMAIN (s \o t) /\ (s \o t)[Len(s) + n] = t[n]
      OBVIOUS
    <2> QED  BY <2>1 DEF PositionsIn
  <1>3. ASSUME NEW n \in DOMAIN (s \o t)
        PROVE  (s \o t)[n] \in PositionsIn(s) \cup PositionsIn(t)
    <2>1. CASE n <= Len(s)
      BY <2>1 DEF PositionsIn
    <2>2. CASE n > Len(s)
      <3>1. n - Len(s) \in DOMAIN t /\ (s \o t)[n] = t[n - Len(s)]
        BY <2>2
      <3> QED  BY <3>1 DEF PositionsIn
    <2> QED  BY <2>1, <2>2
  <1> QED  BY <1>1, <1>2, <1>3 DEF PositionsIn

LEMMA PositionsOfAppend ==
    ASSUME NEW S, NEW s \in Seq(S), NEW p \in S
    PROVE  PositionsIn(Append(s, p)) = PositionsIn(s) \cup {p}
  <1>1. Append(s, p)[Len(s) + 1] = p /\ Len(s) + 1 \in DOMAIN Append(s, p)
    OBVIOUS
  <1>2. \A n \in DOMAIN s : n \in DOMAIN Append(s, p) /\ Append(s, p)[n] = s[n]
    OBVIOUS
  <1>3. DOMAIN Append(s, p) = DOMAIN s \cup {Len(s) + 1}
    OBVIOUS
  <1> QED  BY <1>1, <1>2, <1>3 DEF PositionsIn

LEMMA IncreasingAppend ==
    ASSUME NEW s \in Seq(Nat), NEW p \in Nat, Increasing(s),
           \A q \in PositionsIn(s) : q < p
    PROVE  Increasing(Append(s, p))
  <1>1. \A n \in DOMAIN s : s[n] < p
    BY DEF PositionsIn
  <1> QED  BY <1>1 DEF Increasing

-----------------------------------------------------------------------------
(* A step that shows and drops nothing on d's connection, and lets its     *)
(* tail pass nothing, keeps d's feed if its cursor still fits.             *)
LEMMA NothingShown ==
    ASSUME NEW d \in Conn, FeedOf(d), CursorFits(d)',
           UNCHANGED <<written[d], buf[d], dropped[d]>>,
           Passed(d)' = Passed(d),
           tpc'[d] = "none" <=> tpc[d] = "none",
           tpc[d] # "none" =>
               \A p \in 1 .. Passed(d) : list'[wid'[d]][p] = list[wid[d]][p],
           ctxDone[d] => ctxDone'[d],
           wpc'[d] = "stopped" => wpc[d] = "stopped" \/ ctxDone'[d]
    PROVE  FeedOf(d)'
  <1>1. Shown(d)' = Shown(d)
    BY DEF Shown
  <1>2. Accounted(d)'
    <2> SUFFICES ASSUME tpc'[d] # "none"
                 PROVE  PositionsIn(Shown(d)) \cup dropped[d]
                            = {p \in 1 .. Passed(d) : list'[wid'[d]][p]}
      BY <1>1 DEF Accounted, PositionsIn
    <2> QED  BY DEF FeedOf, Accounted
  <1>3. InOrder(d)'
    BY <1>1 DEF FeedOf, InOrder, Increasing, PositionsIn
  <1>4. ChannelFits(d)'
    BY DEF FeedOf, ChannelFits
  <1> QED  BY <1>2, <1>3, <1>4 DEF FeedOf

(* In particular one that leaves the tail, the page and the list alone.    *)
LEMMA FeedAlone ==
    ASSUME NEW d \in Conn, FeedOf(d),
           UNCHANGED <<tpc[d], cursor[d], at[d], upto[d], written[d], buf[d], dropped[d], list>>,
           tpc[d] # "none" => wid'[d] = wid[d],
           ctxDone[d] => ctxDone'[d],
           wpc'[d] = "stopped" => wpc[d] = "stopped" \/ ctxDone'[d]
    PROVE  FeedOf(d)'
  <1>1. CursorFits(d)'
    BY DEF FeedOf, CursorFits
  <1>2. Passed(d)' = Passed(d)
    BY DEF Passed
  <1> QED  BY <1>1, <1>2, NothingShown

LEMMA HandlerFeed ==
    ASSUME FeedInv, NEW c \in Conn, Handler(c)
    PROVE  \A d \in Conn : FeedOf(d)'
  <1> TAKE d \in Conn
  <1>0. FeedOf(d) /\ TypeOK /\ TailStarted
    BY DEF FeedInv, TypeInv, HubInv
  <1>1. CASE \E i \in Id : Check(c, i)
    <2>1. tpc[d] # "none" => d # c
      BY <1>0, <1>1 DEF Check, TailStarted
    <2> QED  BY <1>0, <1>1, <2>1, FeedAlone DEF Check, tail, writer, TypeOK
  <1>2. CASE RegisterTail(c)
    <2>1. CASE d # c
      BY <1>0, <1>2, <2>1, FeedAlone DEF RegisterTail, tail, writer, TypeOK
    <2>2. CASE d = c
      <3>1. /\ tpc[d] = "none" /\ tpc'[d] = "check"
            /\ UNCHANGED <<wid, ctxDone, cursor, writer, list>>
        BY <1>0, <1>2, <2>2 DEF RegisterTail, TailStarted, TypeOK
      <3>2. cursor[d] = 0 /\ written[d] = <<>> /\ buf[d] = <<>> /\ dropped[d] = {}
        BY <1>0, <3>1 DEF FeedOf, CursorFits
      <3>3. CursorFits(d)'
        <4>1. wid[d] \in Id
          BY <1>2, <2>2 DEF FeedInv, TypeInv, HubInv, HasId, RegisterTail
        <4>2. Len(list[wid[d]]) \in Nat
          BY <1>0, <4>1 DEF TypeOK
        <4> QED  BY <3>1, <3>2, <4>2 DEF CursorFits
      <3>4. Accounted(d)' /\ InOrder(d)'
        <4>1. Shown(d)' = <<>>
          BY <3>1, <3>2 DEF Shown, writer
        <4>2. Passed(d)' = 0 /\ dropped'[d] = {}
          BY <3>1, <3>2 DEF Passed, writer
        <4> QED  BY <4>1, <4>2 DEF Accounted, InOrder, Increasing, PositionsIn
      <3>5. ChannelFits(d)'
        BY <1>0, <3>1 DEF FeedOf, ChannelFits, writer
      <3> QED  BY <3>3, <3>4, <3>5 DEF FeedOf
    <2> QED  BY <2>1, <2>2
  <1>3. CASE RegisterInner(c) \/ Serve(c) \/ UnregisterTail(c) \/ UnregisterInner(c)
    BY <1>0, <1>3, FeedAlone
       DEF RegisterInner, Serve, UnregisterTail, UnregisterInner, tail, writer, TypeOK
  <1>4. CASE Deadline(c) \/ Leave(c)
    BY <1>0, <1>4, FeedAlone DEF Deadline, Leave, tail, writer, TypeOK
  <1> QED  BY <1>1, <1>2, <1>3, <1>4 DEF Handler

(* The facts about a tail that exists which its own steps need.            *)
LEMMA TailFacts ==
    ASSUME FeedInv, NEW c \in Conn, tpc[c] # "none"
    PROVE  /\ wid[c] \in Id
           /\ list[wid[c]] \in Seq(BOOLEAN) /\ Len(list[wid[c]]) <= MaxObs
           /\ cursor[c] \in Nat /\ at[c] \in Nat /\ upto[c] \in Nat
           /\ cursor[c] <= Len(list[wid[c]])
           /\ tpc[c] = "sending" => at[c] <= upto[c] /\ upto[c] <= Len(list[wid[c]])
  <1>1. wid[c] \in Id
    BY DEF FeedInv, TypeInv, HubInv, HasId, TailStarted
  <1>2. TypeOK /\ FeedOf(c) /\ \A i \in Id : Len(list[i]) <= MaxObs
    BY DEF FeedInv, TypeInv
  <1>3. list[wid[c]] \in Seq(BOOLEAN) /\ Len(list[wid[c]]) <= MaxObs
    BY <1>1, <1>2 DEF TypeOK
  <1>4. cursor[c] \in Nat /\ at[c] \in Nat /\ upto[c] \in Nat
    BY <1>2, LimitAssumption DEF TypeOK
  <1> QED  BY <1>1, <1>2, <1>3, <1>4 DEF FeedOf, CursorFits

(* A step of the tail of c that shows nothing and passes nothing.          *)
LEMMA TailPassesNothing ==
    ASSUME FeedInv, NEW c \in Conn, tpc[c] # "none",
           NEW l \in {"check", "reading", "sending", "wait", "exit"},
           tpc' = [tpc EXCEPT ![c] = l],
           \A d \in Conn \ {c} : UNCHANGED <<cursor[d], at[d], upto[d]>>,
           CursorFits(c)', Passed(c)' = Passed(c),
           UNCHANGED <<handler, writer, list>>
    PROVE  \A d \in Conn : FeedOf(d)'
  <1> TAKE d \in Conn
  <1>0. FeedOf(d) /\ FeedOf(c) /\ TypeOK
    BY DEF FeedInv, TypeInv
  <1>1. CASE d # c
    BY <1>0, <1>1, FeedAlone DEF handler, writer, TypeOK
  <1>2. CASE d = c
    <2>1. tpc'[c] = l
      BY <1>0 DEF TypeOK
    <2>2. FeedOf(c)'
      BY <1>0, <2>1, NothingShown DEF handler, writer
    <2> QED  BY <1>2, <2>2
  <1> QED  BY <1>1, <1>2

LEMMA TailSendFeed ==
    ASSUME FeedInv, NEW c \in Conn, TailSend(c)
    PROVE  FeedOf(c)'
  <1> DEFINE p == at[c] + 1
             l == list[wid[c]]
             s == Shown(c)
  <1>1. /\ tpc[c] = "sending" /\ at[c] < upto[c] /\ at'[c] = p
        /\ UNCHANGED <<handler, hubs, tpc, cursor, upto, wpc, written, list>>
    BY DEF TailSend, FeedInv, TypeInv, TypeOK
  <1>2. FeedOf(c) /\ TypeOK
    BY DEF FeedInv, TypeInv
  <1>3. /\ l \in Seq(BOOLEAN) /\ at[c] \in Nat /\ upto[c] \in Nat /\ upto[c] <= Len(l)
        /\ cursor[c] <= Len(l) /\ Len(l) <= MaxObs
    BY <1>1, TailFacts
  <1>4. written[c] \in Seq(Nat) /\ buf[c] \in Seq(Nat) /\ s \in Seq(Nat)
    BY <1>2, LimitAssumption DEF TypeOK, Position, Shown
  <1>5. l[p] \in BOOLEAN /\ p \in Nat
    BY <1>1, <1>3
  <1>6. PositionsIn(s) \cup dropped[c] = {q \in 1 .. at[c] : l[q]}
    BY <1>1, <1>2 DEF FeedOf, Accounted, Passed
  <1>7. \A q \in PositionsIn(s) \cup dropped[c] : q < p
    BY <1>3, <1>6
  <1>8. CursorFits(c)'
    BY <1>1, <1>3 DEF CursorFits, handler
  <1>9. Passed(c)' = p
    BY <1>1 DEF Passed
  <1>10. {q \in 1 .. p : l[q]} = {q \in 1 .. at[c] : l[q]} \cup {q \in {p} : l[q]}
    BY <1>3
  <1>11. Increasing(s) /\ PositionsIn(s) \cap dropped[c] = {}
    BY <1>2 DEF FeedOf, InOrder
  <1>12. ChannelFits(c)
    BY <1>2 DEF FeedOf
  <1>13. Accounted(c)' <=> (PositionsIn(Shown(c))' \cup dropped'[c] = {q \in 1 .. p : l[q]})
    BY <1>1, <1>9 DEF Accounted, handler
  <1>14. CASE UNCHANGED <<buf, dropped>> /\ ~l[p]
    <2>1. Shown(c)' = s /\ dropped'[c] = dropped[c]
      BY <1>1, <1>14 DEF Shown
    <2>2. Accounted(c)'
      BY <1>6, <1>10, <1>13, <1>14, <2>1 DEF PositionsIn
    <2>3. InOrder(c)' /\ ChannelFits(c)'
      BY <1>1, <1>11, <1>12, <1>14, <2>1
         DEF InOrder, ChannelFits, Increasing, PositionsIn, handler
    <2> QED  BY <1>8, <2>2, <2>3 DEF FeedOf
  <1>15. CASE /\ l[p] /\ Len(buf[c]) < BufLen
              /\ buf' = [buf EXCEPT ![c] = Append(@, p)] /\ UNCHANGED dropped
    <2>1. buf'[c] = Append(buf[c], p) /\ dropped'[c] = dropped[c]
      BY <1>2, <1>15 DEF TypeOK
    <2> HIDE DEF p
    <2>2. written[c] \o Append(buf[c], p) = Append(s, p)
      <3> HIDE DEF l
      <3> QED  BY <1>4, <1>5, ShownAfterSend DEF Shown
    <2>3. Shown(c)' = Append(s, p)
      BY <1>1, <2>1, <2>2 DEF Shown
    <2>4. PositionsIn(Append(s, p)) = PositionsIn(s) \cup {p}
      <3> HIDE DEF s
      <3> QED  BY <1>4, <1>5, PositionsOfAppend, SMTT(30)
    <2>5. PositionsIn(Shown(c))' = PositionsIn(s) \cup {p}
      BY <2>3, <2>4 DEF PositionsIn
    <2>6. Accounted(c)'
      BY <1>6, <1>10, <1>13, <1>15, <2>1, <2>5
    <2>7. Increasing(Append(s, p))
      BY <1>4, <1>5, <1>7, <1>11, IncreasingAppend
    <2>8. InOrder(c)'
      BY <1>7, <1>11, <1>5, <2>1, <2>3, <2>5, <2>7 DEF InOrder, Increasing
    <2>9. ChannelFits(c)'
      BY <1>1, <1>4, <1>12, <1>15, <2>1, LimitAssumption DEF ChannelFits, handler
    <2> QED  BY <1>8, <2>6, <2>8, <2>9 DEF FeedOf
  <1>16. CASE /\ l[p] /\ dropped' = [dropped EXCEPT ![c] = @ \cup {p}] /\ UNCHANGED buf
    <2>1. buf'[c] = buf[c] /\ dropped'[c] = dropped[c] \cup {p}
      BY <1>2, <1>16 DEF TypeOK
    <2>2. Shown(c)' = s
      BY <1>1, <2>1 DEF Shown
    <2>3. PositionsIn(Shown(c))' = PositionsIn(s)
      BY <2>2 DEF PositionsIn
    <2>4. Accounted(c)'
      BY <1>6, <1>10, <1>13, <1>16, <2>1, <2>3
    <2>5. p \notin PositionsIn(s)
      BY <1>5, <1>7
    <2>6. InOrder(c)' /\ ChannelFits(c)'
      BY <1>1, <1>11, <1>12, <2>1, <2>2, <2>3, <2>5
         DEF InOrder, ChannelFits, Increasing, handler
    <2> QED  BY <1>8, <2>4, <2>6 DEF FeedOf
  <1> QED  BY <1>14, <1>15, <1>16 DEF TailSend, Send

LEMMA PollFeed ==
    ASSUME FeedInv, NEW c \in Conn, Poll(c)
    PROVE  \A d \in Conn : FeedOf(d)'
  <1>0. TypeOK /\ FeedOf(c)
    BY DEF FeedInv, TypeInv
  <1>1. CASE TailCheck(c) \/ TailError(c) \/ TailWait(c)
    <2>1. PICK l \in {"check", "reading", "wait", "exit"} :
              tpc' = [tpc EXCEPT ![c] = l]
      BY <1>1 DEF TailCheck, TailError, TailWait
    <2>2. /\ tpc[c] \notin {"none", "sending"} /\ tpc'[c] = l
          /\ UNCHANGED <<handler, writer, list, cursor, at, upto>>
      BY <1>0, <1>1, <2>1 DEF TailCheck, TailError, TailWait, TypeOK
    <2>3. CursorFits(c)' /\ Passed(c)' = Passed(c)
      BY <1>0, <2>2 DEF FeedOf, CursorFits, Passed, handler
    <2> QED  BY <2>1, <2>2, <2>3, TailPassesNothing
  <1>2. CASE TailFetch(c)
    <2> DEFINE n == Len(list[wid[c]])
               u == IF n < cursor[c] + MaxPerPoll THEN n ELSE cursor[c] + MaxPerPoll
    <2>1. /\ tpc[c] = "reading" /\ tpc' = [tpc EXCEPT ![c] = "sending"]
          /\ at' = [at EXCEPT ![c] = cursor[c]] /\ upto' = [upto EXCEPT ![c] = u]
          /\ UNCHANGED <<handler, writer, list, cursor>>
      BY <1>2 DEF TailFetch
    <2>2. n \in Nat /\ cursor[c] \in Nat /\ cursor[c] <= n
      BY <2>1, TailFacts
    <2>3. tpc'[c] = "sending" /\ at'[c] = cursor[c] /\ upto'[c] = u
      BY <1>0, <2>1 DEF TypeOK
    <2>4. n' = n
      BY <2>1 DEF handler
    <2> HIDE DEF n
    <2>5. CursorFits(c)'
      BY <2>1, <2>2, <2>3, <2>4, PollAssumption DEF CursorFits, n
    <2>6. Passed(c)' = Passed(c)
      BY <2>1, <2>3 DEF Passed
    <2>7. \A d \in Conn \ {c} : UNCHANGED <<cursor[d], at[d], upto[d]>>
      BY <1>0, <2>1 DEF TypeOK
    <2> QED  BY <2>1, <2>5, <2>6, <2>7, TailPassesNothing
  <1>3. CASE TailSend(c)
    <2> TAKE d \in Conn
    <2>1. CASE d = c
      BY <1>3, <2>1, TailSendFeed
    <2>2. CASE d # c
      BY <1>0, <1>3, <2>2, FeedAlone DEF TailSend, Send, handler, TypeOK, FeedInv
    <2> QED  BY <2>1, <2>2
  <1>4. CASE TailAdvance(c)
    <2>1. /\ tpc[c] = "sending" /\ tpc' = [tpc EXCEPT ![c] = "wait"] /\ at[c] = upto[c]
          /\ cursor' = [cursor EXCEPT ![c] = upto[c]]
          /\ UNCHANGED <<handler, writer, list, at, upto>>
      BY <1>4 DEF TailAdvance
    <2>2. tpc'[c] = "wait" /\ cursor'[c] = upto[c]
      BY <1>0, <2>1 DEF TypeOK
    <2>3. CursorFits(c)' /\ Passed(c)' = Passed(c)
      BY <1>0, <2>1, <2>2 DEF FeedOf, CursorFits, Passed, handler
    <2>4. \A d \in Conn \ {c} : UNCHANGED <<cursor[d], at[d], upto[d]>>
      BY <1>0, <2>1 DEF TypeOK
    <2> QED  BY <2>1, <2>3, <2>4, TailPassesNothing
  <1> QED  BY <1>1, <1>2, <1>3, <1>4 DEF Poll

LEMMA WriterFeed ==
    ASSUME FeedInv, NEW c \in Conn, WriteLoop(c)
    PROVE  \A d \in Conn : FeedOf(d)'
  <1> TAKE d \in Conn
  <1>0. TypeOK /\ FeedOf(d)
    BY DEF FeedInv, TypeInv
  <1>1. CASE WriterTop(c) \/ WriterDone(c)
    <2>1. /\ UNCHANGED <<tpc, cursor, at, upto, written, buf, dropped, list, wid>>
          /\ ctxDone[d] => ctxDone'[d]
      BY <1>1 DEF WriterTop, WriterDone, handler, tail
    <2>2. wpc'[d] = "stopped" => wpc[d] = "stopped" \/ ctxDone'[d]
      BY <1>0, <1>1 DEF WriterTop, WriterDone, handler, tail, TypeOK
    <2> QED  BY <1>0, <2>1, <2>2, FeedAlone
  <1>2. CASE WriterMessage(c)
    <2>1. CASE d # c
      BY <1>0, <1>2, <2>1, FeedAlone DEF WriterMessage, handler, tail, TypeOK
    <2>2. CASE d = c
      <3>1. /\ buf[d] # <<>> /\ wpc'[d] = "top"
            /\ written'[d] = Append(written[d], Head(buf[d])) /\ buf'[d] = Tail(buf[d])
            /\ UNCHANGED <<handler, tail, dropped, list>>
        BY <1>0, <1>2, <2>2 DEF WriterMessage, TypeOK
      <3>2. written[d] \in Seq(Position) /\ buf[d] \in Seq(Position)
        BY <1>0 DEF TypeOK
      <3>3. Shown(d)' = Shown(d)
        BY <3>1, <3>2, ShownAfterWrite DEF Shown
      <3>4. Len(Tail(buf[d])) <= Len(buf[d])
        BY <3>1, <3>2
      <3>5. tpc[d] # "none"
        BY <1>0, <3>1 DEF FeedOf, CursorFits
      <3>6. CursorFits(d)'
        BY <1>0, <3>1, <3>5 DEF FeedOf, CursorFits, handler, tail
      <3>7. Passed(d)' = Passed(d)
        BY <3>1 DEF Passed, tail
      <3>8. Accounted(d)'
        BY <1>0, <3>1, <3>3, <3>7 DEF FeedOf, Accounted, PositionsIn, handler, tail
      <3>9. InOrder(d)'
        BY <1>0, <3>1, <3>3 DEF FeedOf, InOrder, Increasing, PositionsIn
      <3>10. ChannelFits(d)'
        <4>1. Len(buf'[d]) \in Nat /\ Len(buf[d]) \in Nat
          BY <3>1, <3>2
        <4> QED  BY <1>0, <3>1, <3>4, <4>1, LimitAssumption DEF FeedOf, ChannelFits
      <3> QED  BY <3>6, <3>8, <3>9, <3>10 DEF FeedOf
    <2> QED  BY <2>1, <2>2
  <1> QED  BY <1>1, <1>2 DEF WriteLoop

(* The plugin appends behind everything a tail has passed.                 *)
LEMMA PushFeed ==
    ASSUME FeedInv, NEW i \in Id, PluginPush(i)
    PROVE  \A d \in Conn : FeedOf(d)'
  <1> TAKE d \in Conn
  <1>0. TypeOK /\ FeedOf(d)
    BY DEF FeedInv, TypeInv
  <1>1. PICK ok \in BOOLEAN : list' = [list EXCEPT ![i] = Append(@, ok)]
    BY DEF PluginPush
  <1>2. UNCHANGED <<handler, hubs, tail, writer>>
    BY DEF PluginPush
  <1>3. ASSUME NEW j \in Id
        PROVE  /\ Len(list[j]) \in Nat /\ Len(list'[j]) \in Nat
               /\ Len(list[j]) <= Len(list'[j])
               /\ \A p \in 1 .. Len(list[j]) : list'[j][p] = list[j][p]
    <2>1. list[j] \in Seq(BOOLEAN) /\ list'[j] = IF j = i THEN Append(list[j], ok) ELSE list[j]
      BY <1>0, <1>1 DEF TypeOK
    <2> QED  BY <2>1
  <1>4. tpc[d] # "none" =>
           /\ wid[d] \in Id /\ cursor[d] \in Nat /\ at[d] \in Nat /\ upto[d] \in Nat
           /\ cursor[d] <= Len(list[wid[d]])
           /\ tpc[d] = "sending" => at[d] <= upto[d] /\ upto[d] <= Len(list[wid[d]])
    BY TailFacts
  <1>5. CursorFits(d)'
    <2>1. CASE tpc[d] = "none"
      BY <1>0, <1>2, <2>1 DEF FeedOf, CursorFits, tail, writer
    <2>2. CASE tpc[d] # "none"
      <3> DEFINE n == Len(list[wid[d]])
                 m == Len(list'[wid[d]])
      <3>1. n \in Nat /\ m \in Nat /\ n <= m
        BY <1>3, <1>4, <2>2
      <3>2. m = Len(list[wid[d]])'
        BY <1>2 DEF handler
      <3> HIDE DEF n, m
      <3>3. cursor[d] <= n /\ (tpc[d] = "sending" => at[d] <= upto[d] /\ upto[d] <= n)
        BY <1>4, <2>2 DEF n
      <3> QED  BY <1>2, <1>4, <2>2, <3>1, <3>2, <3>3 DEF CursorFits, tail
    <2> QED  BY <2>1, <2>2
  <1>6. tpc[d] # "none" => Passed(d) \in Nat /\ Passed(d) <= Len(list[wid[d]])
    <2> SUFFICES ASSUME tpc[d] # "none"
                 PROVE  Passed(d) \in Nat /\ Passed(d) <= Len(list[wid[d]])
      OBVIOUS
    <2>1. Len(list[wid[d]]) \in Nat
      BY <1>3, <1>4
    <2> QED  BY <1>4, <2>1 DEF Passed
  <1>7. tpc[d] # "none" =>
            \A p \in 1 .. Passed(d) : list'[wid'[d]][p] = list[wid[d]][p]
    <2> SUFFICES ASSUME tpc[d] # "none", NEW p \in 1 .. Passed(d)
                 PROVE  list'[wid'[d]][p] = list[wid[d]][p]
      OBVIOUS
    <2>1. wid'[d] = wid[d] /\ wid[d] \in Id
      BY <1>2, <1>4 DEF handler
    <2>2. p \in 1 .. Len(list[wid[d]])
      BY <1>3, <1>6, <2>1
    <2> QED  BY <1>3, <2>1, <2>2
  <1>8. Passed(d)' = Passed(d)
    BY <1>2 DEF Passed, tail
  <1> QED  BY <1>0, <1>2, <1>5, <1>7, <1>8, NothingShown DEF handler, tail, writer

LEMMA InitFeedInv == Init => FeedInv
  <1> SUFFICES ASSUME Init, NEW c \in Conn
               PROVE  FeedOf(c)
    BY InitTypeInv DEF FeedInv
  <1>1. /\ tpc[c] = "none" /\ wpc[c] = "none" /\ cursor[c] = 0
        /\ written[c] = <<>> /\ buf[c] = <<>> /\ dropped[c] = {}
    BY DEF Init
  <1>2. Shown(c) = <<>>
    BY <1>1 DEF Shown
  <1>3. CursorFits(c) /\ Accounted(c)
    BY <1>1 DEF CursorFits, Accounted
  <1>4. InOrder(c) /\ ChannelFits(c)
    BY <1>1, <1>2, LimitAssumption DEF InOrder, Increasing, PositionsIn, ChannelFits
  <1> QED  BY <1>3, <1>4 DEF FeedOf

LEMMA NextFeedInv == FeedInv /\ [Next]_vars => FeedInv'
  <1> SUFFICES ASSUME FeedInv, [Next]_vars
               PROVE  \A d \in Conn : FeedOf(d)'
    BY NextTypeInv DEF FeedInv
  <1>1. CASE UNCHANGED vars
    BY <1>1, FeedAlone DEF FeedInv, vars, handler, tail, writer
  <1> QED  BY <1>1, HandlerFeed, PollFeed, WriterFeed, PushFeed DEF Next

(* The inductive invariant of the feed holds throughout.                   *)
THEOREM FeedInductive == Spec => []FeedInv
  BY InitFeedInv, NextFeedInv, PTL DEF Spec

(* Whatever the plugin appends while a tail reads, however often a read    *)
(* fails and whatever else happens to the connection, what the page has    *)
(* got or will get from its channel is the decodable part of what the tail *)
(* has passed, once each and in order, but for what was dropped.           *)
THEOREM FeedCorrect == Spec => []FeedIsExact
  <1>1. FeedInv => FeedIsExact
    <2> SUFFICES ASSUME FeedInv
                 PROVE  FeedIsExact
      OBVIOUS
    <2>1. TypeOK /\ \A c \in Conn : Accounted(c) /\ InOrder(c)
      BY DEF FeedInv, FeedOf, TypeInv
    <2>2. \A c \in Conn : PositionsIn(Shown(c)) = PositionsIn(written[c]) \cup PositionsIn(buf[c])
      BY <2>1, PositionsOfConcat DEF TypeOK, Shown
    <2>3. EveryEntryAccountedFor
      BY <2>1, <2>2 DEF EveryEntryAccountedFor, Accounted
    <2>4. InOrderAtMostOnce
      BY <2>1 DEF InOrderAtMostOnce, InOrder, Increasing, Shown
    <2> QED  BY <2>3, <2>4 DEF FeedIsExact
  <1> QED  BY FeedInductive, <1>1, PTL

(* Send drops an entry only where the channel is full or its reader is     *)
(* gone: the safety half of NothingIsMissed.                               *)
THEOREM DropsJustified == Spec => DropsOnlyWhenFull
  <1>1. ASSUME FeedInv, [Next]_vars, NEW c \in Conn, dropped[c] # dropped'[c]
        PROVE  Len(buf[c]) = BufLen \/ ctxDone[c]
    <2>1. PICK d \in Conn : TailSend(d)
      BY <1>1 DEF Next, Handler, Check, RegisterInner, RegisterTail, Serve, Deadline, Leave,
                  UnregisterTail, UnregisterInner, Poll, TailCheck, TailFetch, TailError,
                  TailAdvance, TailWait, WriteLoop, WriterTop, WriterMessage, WriterDone,
                  PluginPush, vars, writer
    <2>2. dropped' = [dropped EXCEPT ![d] = @ \cup {at[d] + 1}]
             /\ (Len(buf[d]) >= BufLen \/ wpc[d] = "stopped")
      BY <1>1, <2>1 DEF TailSend, Send
    <2>3. d = c
      BY <1>1, <2>2 DEF FeedInv, TypeInv, TypeOK
    <2>4. Len(buf[c]) \in Nat /\ ChannelFits(c)
      BY <1>1 DEF FeedInv, FeedOf, TypeInv, TypeOK
    <2> QED  BY <2>2, <2>3, <2>4, LimitAssumption DEF ChannelFits
  <1>2. FeedInv /\ [Next]_vars =>
            [\A c \in Conn : dropped[c] # dropped'[c] => Len(buf[c]) = BufLen \/ ctxDone[c]]_vars
    BY <1>1
  <1> QED  BY FeedInductive, <1>2, PTL DEF Spec, DropsOnlyWhenFull
=============================================================================
