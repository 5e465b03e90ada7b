------------------------- MODULE QuicListenerProofs -------------------------
(***************************************************************************)
(* Proofs about QuicListener: for any connections, any number of streams   *)
(* and any users, a stream taken from its connection is given away once or *)
(* closed, and the listener is the net.Listener of StreamListener.         *)
(***************************************************************************)
EXTENDS QuicListener, TLAPS

(* A goroutine that holds a stream has taken one.                          *)
HoldersHaveTaken == \A c \in Conn : pc[c] \in {"check", "offer"} => taken[c] >= 1

IsHeld(s) == pc[s[1]] \in {"check", "offer"} /\ s[2] = taken[s[1]]

(* EveryStreamAccountedFor, one stream at a time.                          *)
Accounted(s) == /\ s[2] <= taken[s[1]] <=> s \in given \/ s \in shut \/ IsHeld(s)
                /\ ~(s \in given /\ s \in shut)
                /\ ~(IsHeld(s) /\ (s \in given \/ s \in shut))

IInv == TypeOK /\ HoldersHaveTaken /\ \A s \in Stream : Accounted(s)

LEMMA StreamParts ==
  ASSUME NEW s \in Stream
  PROVE  /\ s[1] \in Conn /\ s[2] \in 1 .. MaxStreams[s[1]] /\ s[2] \in Nat
         /\ s = <<s[1], s[2]>>
BY BoundAssumption DEF Stream

LEMMA HeldIsStream ==
  ASSUME TypeOK, HoldersHaveTaken, NEW c \in Conn, pc[c] \in {"check", "offer"}
  PROVE  /\ Held(c) \in Stream
         /\ \A s \in Stream : s = Held(c) <=> s[1] = c /\ s[2] = taken[c]
<1>1. taken[c] \in 1 .. MaxStreams[c]
  BY BoundAssumption DEF TypeOK, HoldersHaveTaken
<1>2. Held(c) \in Stream
  BY <1>1 DEF Held, Stream
<1>3. ASSUME NEW s \in Stream
      PROVE  s = Held(c) <=> s[1] = c /\ s[2] = taken[c]
  BY StreamParts DEF Held
<1> QED
  BY <1>2, <1>3

LEMMA InvariantImplies == IInv => TypeOK /\ EveryStreamAccountedFor
<1> SUFFICES ASSUME IInv PROVE EveryStreamAccountedFor
  BY DEF IInv
<1>1. InHand \subseteq Stream /\ \A s \in Stream : s \in InHand <=> IsHeld(s)
  BY StreamParts DEF InHand, IsHeld, Held
<1>2. given \subseteq Stream /\ shut \subseteq Stream
  BY DEF IInv, TypeOK
<1>3. \A s \in Stream : Accounted(s)
  BY DEF IInv
<1> QED
  BY <1>1, <1>2, <1>3 DEF Accounted, EveryStreamAccountedFor

-----------------------------------------------------------------------------
LEMMA InitIInv == Init => IInv
<1> SUFFICES ASSUME Init PROVE IInv
  OBVIOUS
<1>1. TypeOK
  <2>1. \A c \in Conn : taken[c] <= opened[c] /\ opened[c] <= MaxStreams[c]
    <3> TAKE c \in Conn
    <3>1. MaxStreams[c] \in Nat
      BY BoundAssumption
    <3>2. taken[c] = 0 /\ opened[c] = 0
      BY DEF Init
    <3> QED
      BY <3>1, <3>2
  <2> QED
    BY <2>1 DEF Init, TypeOK
<1>2. HoldersHaveTaken
  BY DEF Init, HoldersHaveTaken
<1>3. ASSUME NEW s \in Stream
      PROVE  Accounted(s)
  <2> s[1] \in Conn /\ s[2] >= 1 /\ s[2] \in Nat
    BY StreamParts, BoundAssumption
  <2> QED
    BY DEF Init, Accounted, IsHeld
<1> QED
  BY <1>1, <1>2, <1>3 DEF IInv

-----------------------------------------------------------------------------
LEMMA CauseOfCancel ==
  ASSUME TypeOK, NEW e \in Cause, cancel(e)
  PROVE  cause' \in Cause /\ (Done => cause' = cause) /\ (~Done => cause' = e)
BY DEF cancel, Done, TypeOK

(* The steps of peers and users do not touch the streams taken.            *)
LEMMA AccountedStutter ==
  ASSUME IInv, UNCHANGED <<taken, pc, given, shut>>
  PROVE  HoldersHaveTaken' /\ \A s \in Stream : Accounted(s)'
BY DEF IInv, HoldersHaveTaken, Accounted, IsHeld

LEMMA PeerStep ==
  ASSUME IInv, NEW c \in Conn, Connect(c) \/ OpenStream(c) \/ Disconnect(c)
  PROVE  IInv'
<1>1. MaxStreams[c] \in Nat
  BY BoundAssumption
<1>2. link' \in [Conn -> {"none", "up", "gone"}]
  BY DEF IInv, TypeOK, Connect, OpenStream, Disconnect
<1>3. /\ opened' \in [Conn -> Nat]
      /\ \A d \in Conn : taken'[d] <= opened'[d] /\ opened'[d] <= MaxStreams[d]
  BY <1>1 DEF IInv, TypeOK, Connect, OpenStream, Disconnect
<1>4. UNCHANGED <<taken, main, pc, cause, lclosed, apc, error, given, shut>>
  BY DEF Connect, OpenStream, Disconnect
<1>5. TypeOK'
  BY <1>2, <1>3, <1>4 DEF IInv, TypeOK
<1> QED
  BY <1>4, <1>5, AccountedStutter DEF IInv

LEMMA UserStep ==
  ASSUME IInv,
         \/ AcceptConnFails
         \/ \E a \in Caller : \/ Call(a) \/ AcceptCheck(a) \/ AcceptEnds(a)
                              \/ Close(a) \/ CloseListener(a)
  PROVE  IInv'
<1> USE DEF IInv
<1>1. CASE AcceptConnFails
  <2>1. cause' \in Cause
    BY <1>1, CauseOfCancel DEF AcceptConnFails, Cause
  <2>2. TypeOK'
    BY <1>1, <2>1 DEF AcceptConnFails, TypeOK, peers
  <2> QED
    BY <1>1, <2>2, AccountedStutter DEF AcceptConnFails
<1>2. ASSUME NEW a \in Caller, Call(a) \/ AcceptCheck(a) \/ AcceptEnds(a)
      PROVE  IInv'
  <2>1. UNCHANGED <<peers, taken, main, pc, cause, lclosed, given, shut>>
    BY <1>2 DEF Call, AcceptCheck, AcceptEnds
  <2>2. /\ apc' \in [Caller -> {"idle", "check", "select", "closing"}]
        /\ error' \in [Caller -> Cause \cup {None}]
    BY <1>2 DEF Call, AcceptCheck, AcceptEnds, fail, TypeOK
  <2>3. TypeOK'
    BY <2>1, <2>2 DEF TypeOK, peers
  <2> QED
    BY <2>1, <2>3, AccountedStutter
<1>3. ASSUME NEW a \in Caller, Close(a)
      PROVE  IInv'
  <2>1. cause' \in Cause
    BY <1>3, CauseOfCancel DEF Close, Cause
  <2>2. TypeOK'
    BY <1>3, <2>1 DEF Close, TypeOK, peers
  <2> QED
    BY <1>3, <2>2, AccountedStutter DEF Close
<1>4. ASSUME NEW a \in Caller, CloseListener(a)
      PROVE  IInv'
  <2>1. TypeOK'
    BY <1>4 DEF CloseListener, TypeOK, peers
  <2> QED
    BY <1>4, <2>1, AccountedStutter DEF CloseListener
<1> QED
  BY <1>1, <1>2, <1>3, <1>4

(* A goroutine that holds no stream before and after its step.             *)
LEMMA EmptyHanded ==
  ASSUME IInv, NEW c \in Conn, AcceptConn(c) \/ TakeFails(c)
  PROVE  IInv'
<1>1. UNCHANGED <<peers, taken, main, cause, lclosed, apc, error, given, shut>>
  BY DEF AcceptConn, TakeFails
<1>2. /\ pc[c] \in {"none", "accept"}
      /\ \E p \in {"accept", "end"} : pc' = [pc EXCEPT ![c] = p]
  BY DEF AcceptConn, TakeFails
<1>3. TypeOK'
  BY <1>1, <1>2 DEF IInv, TypeOK, peers
<1>4. HoldersHaveTaken'
  BY <1>1, <1>2 DEF IInv, HoldersHaveTaken, TypeOK
<1>5. ASSUME NEW s \in Stream
      PROVE  Accounted(s)'
  <2>1. s[1] \in Conn /\ Accounted(s)
    BY StreamParts DEF IInv
  <2>2. IsHeld(s)' <=> IsHeld(s)
    BY <1>1, <1>2, <2>1 DEF IsHeld, IInv, TypeOK
  <2> QED
    BY <1>1, <2>1, <2>2 DEF Accounted
<1> QED
  BY <1>3, <1>4, <1>5 DEF IInv

LEMMA TakeStep ==
  ASSUME IInv, NEW c \in Conn, TakeStream(c)
  PROVE  IInv'
<1>1. /\ pc[c] = "accept" /\ taken[c] < opened[c]
      /\ taken' = [taken EXCEPT ![c] = @ + 1] /\ pc' = [pc EXCEPT ![c] = "check"]
      /\ UNCHANGED <<peers, main, cause, lclosed, apc, error, given, shut>>
  BY DEF TakeStream
<1>2. TypeOK'
  BY <1>1 DEF IInv, TypeOK, peers
<1>3. HoldersHaveTaken'
  BY <1>1 DEF IInv, HoldersHaveTaken, TypeOK
<1>4. ASSUME NEW s \in Stream
      PROVE  Accounted(s)'
  <2>1. s[1] \in Conn /\ s[2] \in Nat /\ Accounted(s)
    BY StreamParts DEF IInv
  <2>2. taken[s[1]] \in Nat
    BY <2>1 DEF IInv, TypeOK
  <2>3. CASE s[1] = c
    <3>1. taken'[s[1]] = taken[s[1]] + 1 /\ pc'[s[1]] = "check"
      BY <1>1, <2>3 DEF IInv, TypeOK
    <3> QED
      BY <1>1, <2>1, <2>2, <2>3, <3>1 DEF Accounted, IsHeld
  <2>4. CASE s[1] # c
    <3>1. taken'[s[1]] = taken[s[1]] /\ pc'[s[1]] = pc[s[1]]
      BY <1>1, <2>1, <2>4 DEF IInv, TypeOK
    <3> QED
      BY <1>1, <2>1, <3>1 DEF Accounted, IsHeld
  <2> QED
    BY <2>3, <2>4
<1> QED
  BY <1>2, <1>3, <1>4 DEF IInv

(* A stream in hand passes the first select, is given away, or is closed.  *)
LEMMA HolderStep ==
  ASSUME IInv, NEW c \in Conn,
         CheckStream(c) \/ OfferEnds(c) \/ \E a \in Caller : HandOver(c, a)
  PROVE  IInv'
<1>1. UNCHANGED <<peers, taken, main, cause, lclosed>> /\ pc[c] \in {"check", "offer"}
  BY DEF CheckStream, OfferEnds, HandOver
<1>2. apc' \in [Caller -> {"idle", "check", "select", "closing"}] /\ error' = error
  BY DEF CheckStream, OfferEnds, HandOver, IInv, TypeOK
<1>3. Held(c) \in Stream /\ \A s \in Stream : s = Held(c) <=> s[1] = c /\ s[2] = taken[c]
  BY <1>1, HeldIsStream DEF IInv
<1>4. \/ pc' = [pc EXCEPT ![c] = "offer"] /\ UNCHANGED <<given, shut>>
      \/ pc' = [pc EXCEPT ![c] = "end"] /\ shut' = shut \cup {Held(c)} /\ given' = given
      \/ pc' = [pc EXCEPT ![c] = "accept"] /\ given' = given \cup {Held(c)} /\ shut' = shut
  BY DEF CheckStream, OfferEnds, HandOver, closeStream
<1>5. TypeOK'
  BY <1>1, <1>2, <1>3, <1>4 DEF IInv, TypeOK, peers
<1>6. HoldersHaveTaken'
  BY <1>1, <1>4 DEF IInv, HoldersHaveTaken, TypeOK
<1>7. ASSUME NEW s \in Stream
      PROVE  Accounted(s)'
  <2>1. s[1] \in Conn /\ Accounted(s)
    BY StreamParts DEF IInv
  <2>2. pc \in [Conn -> {"none", "accept", "check", "offer", "end"}]
    BY DEF IInv, TypeOK
  <2>3. CASE s[1] # c
    <3>1. pc'[s[1]] = pc[s[1]] /\ s # Held(c)
      BY <1>3, <1>4, <2>1, <2>2, <2>3
    <3>2. (s \in given' <=> s \in given) /\ (s \in shut' <=> s \in shut)
      BY <1>4, <3>1
    <3> QED
      BY <1>1, <2>1, <3>1, <3>2 DEF Accounted, IsHeld
  <2>4. CASE s[1] = c /\ s[2] # taken[c]
    <3>1. (s \in given' <=> s \in given) /\ (s \in shut' <=> s \in shut)
      BY <1>3, <1>4, <2>4
    <3> QED
      BY <1>1, <2>1, <2>4, <3>1 DEF Accounted, IsHeld
  <2>5. CASE s = Held(c)
    <3>1. s[1] = c /\ s[2] = taken[c] /\ IsHeld(s)
      BY <1>1, <1>3, <2>5 DEF IsHeld
    <3>2. s[2] <= taken[s[1]] /\ s \notin given /\ s \notin shut
      BY <2>1, <3>1 DEF Accounted
    <3> QED
      BY <1>1, <1>4, <2>2, <2>5, <3>1, <3>2 DEF Accounted, IsHeld
  <2> QED
    BY <1>3, <2>3, <2>4, <2>5
<1> QED
  BY <1>5, <1>6, <1>7 DEF IInv

LEMMA NextIInv == IInv /\ [Next]_vars => IInv'
<1> SUFFICES ASSUME IInv, [Next]_vars PROVE IInv'
  OBVIOUS
<1>1. CASE UNCHANGED vars
  <2>1. TypeOK'
    BY <1>1 DEF vars, IInv, TypeOK
  <2> QED
    BY <1>1, <2>1, AccountedStutter DEF vars, IInv
<1> QED
  BY <1>1, PeerStep, UserStep, EmptyHanded, TakeStep, HolderStep DEF Next

-----------------------------------------------------------------------------
(* Every variable keeps its type: Accept returns a stream or one of the    *)
(* two errors, and no connection yields more streams than were opened.     *)
THEOREM TypeCorrect == Spec => []TypeOK
<1>1. IInv => TypeOK
  BY DEF IInv
<1> QED
  BY InitIInv, NextIInv, <1>1, PTL DEF Spec

(* No stream is lost and none is both given to a reader and closed, for    *)
(* any number of connections, streams and users and whatever the selects   *)
(* choose.                                                                 *)
THEOREM StreamsAreAccountedFor == Spec => []EveryStreamAccountedFor
<1> QED
  BY InitIInv, NextIInv, InvariantImplies, PTL DEF Spec

-----------------------------------------------------------------------------
IsPast(s) == s[2] <= taken[s[1]] /\ ~(pc[s[1]] = "check" /\ s[2] = taken[s[1]])

LEMMA PastPoint == \A s \in Stream : s \in Past <=> IsPast(s)
BY StreamParts DEF Past, IsPast, Held

LEMMA PastPointNext == \A s \in Stream : s \in Past' <=> IsPast(s)'
BY StreamParts DEF Past, IsPast, Held

LEMMA PastSame ==
  ASSUME \A s \in Stream : s \in Past' <=> s \in Past
  PROVE  Past' = Past
BY DEF Past

LEMMA QuietStep ==
  ASSUME IInv, IInv',
         \E c \in Conn : \/ Connect(c) \/ OpenStream(c) \/ Disconnect(c)
                        \/ AcceptConn(c) \/ TakeStream(c) \/ TakeFails(c)
  PROVE  UNCHANGED Listener!vars
<1> PICK c \in Conn : \/ Connect(c) \/ OpenStream(c) \/ Disconnect(c)
                     \/ AcceptConn(c) \/ TakeStream(c) \/ TakeFails(c)
  OBVIOUS
<1>1. UNCHANGED <<cause, apc, error, given, shut>>
  BY DEF Connect, OpenStream, Disconnect, AcceptConn, TakeStream, TakeFails
<1>2. InAccept' = InAccept
  BY <1>1 DEF InAccept
<1>3. ASSUME NEW s \in Stream
      PROVE  s \in Past' <=> s \in Past
  <2>1. s[1] \in Conn /\ s[2] \in Nat /\ taken[s[1]] \in Nat
    BY StreamParts DEF IInv, TypeOK
  <2>2. /\ s \in Past <=> s[2] <= taken[s[1]] /\ ~(pc[s[1]] = "check" /\ s[2] = taken[s[1]])
        /\ s \in Past' <=> s[2] <= taken'[s[1]] /\ ~(pc'[s[1]] = "check" /\ s[2] = taken'[s[1]])
    BY PastPoint, PastPointNext DEF IsPast
  <2>3. CASE TakeStream(c)
    <3>1. CASE s[1] = c
      <4>1. taken'[s[1]] = taken[s[1]] + 1 /\ pc'[s[1]] = "check" /\ pc[s[1]] = "accept"
        BY <2>1, <2>3, <3>1 DEF TakeStream, IInv, TypeOK
      <4> QED
        BY <2>1, <2>2, <4>1
    <3>2. CASE s[1] # c
      <4>1. taken'[s[1]] = taken[s[1]] /\ pc'[s[1]] = pc[s[1]]
        BY <2>1, <2>3, <3>2 DEF TakeStream, IInv, TypeOK
      <4> QED
        BY <2>2, <4>1
    <3> QED
      BY <3>1, <3>2
  <2>4. CASE \/ Connect(c) \/ OpenStream(c) \/ Disconnect(c)
             \/ AcceptConn(c) \/ TakeFails(c)
    <3>1. taken' = taken /\ (pc'[s[1]] = "check" <=> pc[s[1]] = "check")
      BY <2>1, <2>4 DEF Connect, OpenStream, Disconnect, AcceptConn, TakeFails, peers,
                        IInv, TypeOK
    <3> QED
      BY <2>2, <3>1
  <2> QED
    BY <2>3, <2>4
<1>4. Past' = Past
  BY <1>3, PastSame
<1> QED
  BY <1>1, <1>2, <1>4 DEF Listener!vars

(* Steps that leave the streams alone.                                     *)
LEMMA PastUnchanged ==
  ASSUME UNCHANGED <<taken, pc>>
  PROVE  Past' = Past
BY DEF Past, Held

LEMMA EndStep ==
  ASSUME IInv, NEW e \in Cause, cancel(e),
         UNCHANGED <<taken, pc, error, given, shut, InAccept>>
  PROVE  Listener!Next \/ UNCHANGED Listener!vars
<1>1. Past' = Past
  BY PastUnchanged
<1>2. CASE Done
  BY <1>1, <1>2 DEF cancel, Listener!vars
<1>3. CASE ~Done
  <2>1. Listener!Close(e)
    BY <1>1, <1>3 DEF cancel, Done, Listener!Close
  <2> QED
    BY <2>1 DEF Listener!Next
<1> QED
  BY <1>2, <1>3

LEMMA UserStepImplements ==
  ASSUME IInv, NEW a \in Caller,
         Call(a) \/ AcceptCheck(a) \/ AcceptEnds(a) \/ Close(a) \/ CloseListener(a)
  PROVE  Listener!Next \/ UNCHANGED Listener!vars
<1>0. /\ apc \in [Caller -> {"idle", "check", "select", "closing"}]
      /\ error \in [Caller -> Cause \cup {None}]
  BY DEF IInv, TypeOK
<1>1. CASE Call(a)
  <2>1. InAccept' = InAccept /\ a \notin InAccept
    BY <1>0, <1>1 DEF Call, InAccept
  <2>2. Past' = Past
    BY <1>1, PastUnchanged DEF Call
  <2>3. Listener!Begin(a)
    BY <1>1, <2>1, <2>2 DEF Call, Listener!Begin
  <2> QED
    BY <2>3 DEF Listener!Next
<1>2. CASE AcceptCheck(a) /\ ~Done
  <2>1. InAccept' = InAccept \cup {a} /\ a \notin InAccept
    BY <1>0, <1>2 DEF AcceptCheck, InAccept
  <2>2. Past' = Past
    BY <1>2, PastUnchanged DEF AcceptCheck
  <2>3. Listener!Enter(a)
    BY <1>2, <2>1, <2>2 DEF AcceptCheck, Done, Listener!Enter
  <2> QED
    BY <2>3 DEF Listener!Next
<1>3. CASE (AcceptCheck(a) \/ AcceptEnds(a)) /\ Done
  <2>1. InAccept' = InAccept \ {a}
    BY <1>0, <1>3 DEF AcceptCheck, AcceptEnds, fail, InAccept
  <2>2. Past' = Past
    BY <1>3, PastUnchanged DEF AcceptCheck, AcceptEnds
  <2>3. Listener!Fail(a)
    BY <1>3, <2>1, <2>2 DEF AcceptCheck, AcceptEnds, fail, Done, Listener!Fail
  <2> QED
    BY <2>3 DEF Listener!Next
<1>4. CASE Close(a)
  <2>1. InAccept' = InAccept
    BY <1>0, <1>4 DEF Close, InAccept
  <2> QED
    BY <1>4, <2>1, EndStep DEF Close, Cause
<1>5. CASE CloseListener(a)
  <2>1. InAccept' = InAccept
    BY <1>0, <1>5 DEF CloseListener, InAccept
  <2>2. Past' = Past
    BY <1>5, PastUnchanged DEF CloseListener
  <2> QED
    BY <1>5, <2>1, <2>2 DEF CloseListener, Listener!vars
<1> QED
  BY <1>1, <1>2, <1>3, <1>4, <1>5 DEF AcceptEnds

(* The stream in hand leaves the first select, or the listener.            *)
LEMMA HolderStepImplements ==
  ASSUME IInv, NEW c \in Conn,
         CheckStream(c) \/ OfferEnds(c) \/ \E a \in Caller : HandOver(c, a)
  PROVE  Listener!Next
<1> DEFINE s == Held(c)
<1>0. /\ pc \in [Conn -> {"none", "accept", "check", "offer", "end"}]
      /\ apc \in [Caller -> {"idle", "check", "select", "closing"}]
      /\ taken \in [Conn -> Nat]
  BY DEF IInv, TypeOK
<1>1. pc[c] \in {"check", "offer"} /\ taken' = taken
  BY DEF CheckStream, OfferEnds, HandOver
<1>2. s \in Stream /\ \A t \in Stream : t = s <=> t[1] = c /\ t[2] = taken[c]
  BY <1>1, HeldIsStream DEF IInv
<1>3. s \notin given /\ s \notin shut /\ (s \in Past <=> pc[c] = "offer")
  <2>1. s[1] = c /\ s[2] = taken[c]
    BY <1>2
  <2>2. Accounted(s) /\ IsHeld(s)
    BY <1>1, <1>2, <2>1 DEF IInv, IsHeld
  <2> QED
    BY <1>0, <1>1, <1>2, <2>1, <2>2, PastPoint DEF Accounted, IsPast
<1>4. ASSUME NEW t \in Stream, t # s
      PROVE  t \in Past' <=> t \in Past
  <2>1. t[1] \in Conn /\ (t[1] = c => t[2] # taken[c])
    BY <1>2, <1>4, StreamParts
  <2>2. t[1] # c => pc'[t[1]] = pc[t[1]]
    BY <1>0, <2>1 DEF CheckStream, OfferEnds, HandOver, closeStream
  <2> QED
    BY <1>1, <2>1, <2>2, PastPoint, PastPointNext DEF IsPast
<1>5. s \in Past'
  <2>1. s[1] = c /\ s[2] = taken[c] /\ taken[c] \in Nat
    BY <1>0, <1>2
  <2>2. pc'[c] # "check"
    BY <1>0 DEF CheckStream, OfferEnds, HandOver, closeStream
  <2> QED
    BY <1>1, <1>2, <2>1, <2>2, PastPointNext DEF IsPast
<1>6. Past' = Past \cup {s}
  <2>1. Past \subseteq Stream /\ Past' \subseteq Stream
    BY DEF Past
  <2> QED
    BY <1>2, <1>4, <1>5, <2>1
<1>7. CASE CheckStream(c)
  <2>1. s \notin Past /\ UNCHANGED <<cause, error, given, InAccept>>
    BY <1>3, <1>7 DEF CheckStream, InAccept
  <2>2. CASE Done
    <3>1. Listener!Refuse(s)
      BY <1>6, <1>7, <2>1, <2>2 DEF CheckStream, closeStream, Done, Listener!Refuse
    <3> QED
      BY <1>2, <3>1 DEF Listener!Next
  <2>3. CASE ~Done
    <3>1. Listener!Arrive(s)
      BY <1>6, <1>7, <2>1, <2>3 DEF CheckStream, Done, Listener!Arrive
    <3> QED
      BY <1>2, <3>1 DEF Listener!Next
  <2> QED
    BY <2>2, <2>3
<1>8. CASE OfferEnds(c)
  <2>1. s \in Past /\ Past' = Past /\ UNCHANGED <<cause, error, given, InAccept>>
    BY <1>3, <1>6, <1>8 DEF OfferEnds, InAccept
  <2>2. s \in Listener!Open
    BY <1>3, <2>1 DEF Listener!Open
  <2>3. Listener!Shut(s)
    BY <1>8, <2>1, <2>2 DEF OfferEnds, closeStream, Done, Listener!Shut
  <2> QED
    BY <1>2, <2>3 DEF Listener!Next
<1>9. ASSUME NEW a \in Caller, HandOver(c, a)
      PROVE  Listener!Next
  <2>1. s \in Past /\ Past' = Past
    BY <1>3, <1>6, <1>9 DEF HandOver
  <2>2. InAccept' = InAccept \ {a} /\ a \in InAccept
    BY <1>0, <1>9 DEF HandOver, InAccept
  <2>3. s \in Listener!Open
    BY <1>3, <2>1 DEF Listener!Open
  <2>4. Listener!Give(a, s)
    BY <1>9, <2>1, <2>2, <2>3 DEF HandOver, Listener!Give
  <2> QED
    BY <1>2, <2>4 DEF Listener!Next
<1> QED
  BY <1>7, <1>8, <1>9

LEMMA InitImplements == Init => Listener!Init
<1> SUFFICES ASSUME Init PROVE Listener!Init
  OBVIOUS
<1>1. Past = {}
  <2>1. ASSUME NEW s \in Stream
        PROVE  s \notin Past
    <3>1. s[1] \in Conn /\ s[2] \in 1 .. MaxStreams[s[1]] /\ s[2] \in Nat
      BY StreamParts
    <3>2. taken[s[1]] = 0 /\ s[2] >= 1
      BY <3>1, BoundAssumption DEF Init
    <3> QED
      BY <3>1, <3>2, PastPoint DEF IsPast
  <2> QED
    BY <2>1 DEF Past
<1>2. InAccept = {}
  BY DEF Init, InAccept
<1> QED
  BY <1>1, <1>2 DEF Init, Listener!Init

LEMMA StepImplements == IInv /\ IInv' /\ [Next]_vars => [Listener!Next]_(Listener!vars)
<1> SUFFICES ASSUME IInv, IInv', [Next]_vars
             PROVE  Listener!Next \/ UNCHANGED Listener!vars
  OBVIOUS
<1>1. CASE UNCHANGED vars
  <2>1. Past' = Past /\ InAccept' = InAccept
    BY <1>1 DEF vars, Past, Held, InAccept
  <2> QED
    BY <1>1, <2>1 DEF vars, Listener!vars
<1>2. CASE AcceptConnFails
  <2>1. InAccept' = InAccept
    BY <1>2 DEF AcceptConnFails, InAccept
  <2> QED
    BY <1>2, <2>1, EndStep DEF AcceptConnFails, Cause
<1>3. CASE \E c \in Conn : \/ Connect(c) \/ OpenStream(c) \/ Disconnect(c)
                         \/ AcceptConn(c) \/ TakeStream(c) \/ TakeFails(c)
  BY <1>3, QuietStep
<1> QED
  BY <1>1, <1>2, <1>3, UserStepImplements, HolderStepImplements DEF Next

(* What the DNS server relies on: for any connections, streams and users   *)
(* the listener behaves as the net.Listener of StreamListener, so that no  *)
(* call begun after the end returns a stream and every error is the first. *)
THEOREM ImplementsListener == Spec => Implements
<1>1. IInv /\ [Next]_vars => [Listener!Next]_(Listener!vars)
  BY NextIInv, StepImplements
<1> QED
  BY InitIInv, NextIInv, InitImplements, <1>1, PTL DEF Spec, Implements, Listener!Spec
=============================================================================
