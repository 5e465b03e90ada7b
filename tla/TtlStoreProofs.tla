--------------------------- MODULE TtlStoreProofs ---------------------------
(***************************************************************************)
(* The safety properties of TtlStore, and that it implements TtlMap, for   *)
(* every set of keys, values and lifetimes, every MaxSize, and every bound *)
(* on the clock and on the number of values added.                         *)
(***************************************************************************)
EXTENDS TtlStore, FiniteSetTheorems, TLAPS

Finite == IsFiniteSet(entries) /\ IsFiniteSet(disk)

(* A value about to be appended differs from every value there is.         *)
PosBelowStamp == \A e \in entries \cup disk : e.pos < stamp

IInv == /\ TypeOK
        /\ Finite
        /\ PosBelowStamp
        /\ SizeIsCount
        /\ WithinMaxSize
        /\ CleanMeansSaved

-----------------------------------------------------------------------------
(* Below the assumed clock the uint32 sum of add() does not wrap.          *)
LEMMA NoWrap ==
    ASSUME TypeOK, NEW t \in Ttl
    PROVE  (now + t) % Width = now + t
  <1>1. now \in Nat /\ now <= MaxTime /\ t \in Nat /\ MaxTime + t < Width
    BY TtlAssumption, BoundAssumption, WidthAssumption DEF TypeOK
  <1> QED  BY <1>1, BoundAssumption, WidthAssumption, SMT

(* Taking a part of the entries out subtracts its size.                    *)
LEMMA CountOfRest ==
    ASSUME NEW S, IsFiniteSet(S), NEW T \in SUBSET S
    PROVE  /\ IsFiniteSet(S \ T)
           /\ Cardinality(T) \in Nat
           /\ Cardinality(S \ T) \in Nat
           /\ Cardinality(S \ T) = Cardinality(S) - Cardinality(T)
           /\ Cardinality(S \ T) <= Cardinality(S)
  <1>1. S \cap T = T
    OBVIOUS
  <1>2. IsFiniteSet(T) /\ IsFiniteSet(S \ T)
    BY FS_Subset, FS_Difference
  <1>3. Cardinality(S) \in Nat /\ Cardinality(T) \in Nat /\ Cardinality(S \ T) \in Nat
    BY <1>2, FS_CardinalityType
  <1>4. Cardinality(S \ T) = Cardinality(S) - Cardinality(T)
    BY <1>1, FS_Difference
  <1> QED  BY <1>2, <1>3, <1>4

(* add() keeps the invariant if it is called with the entries that stay,   *)
(* their number, and, should it refuse, nothing was taken out before.      *)
LEMMA AddKeeps ==
    ASSUME IInv, NEW rest \in SUBSET entries,
           NEW k \in Key, NEW v \in Value, NEW t \in Ttl,
           AtMaxSize(Cardinality(rest)) => rest = entries,
           add(rest, Cardinality(rest), k, v, t),
           UNCHANGED <<disk, now, proc, saver>>
    PROVE  IInv'
  <1> DEFINE new == [key |-> k, val |-> v, exp |-> (now + t) % Width, pos |-> stamp]
  <1>1. IsFiniteSet(rest) /\ Cardinality(rest) \in Nat
    BY FS_Subset, FS_CardinalityType DEF IInv, Finite
  <1>2. CASE AtMaxSize(Cardinality(rest))
    <2>1. entries' = entries /\ size' = size /\ dirty' = dirty /\ stamp' = stamp
      BY <1>2 DEF add, IInv, SizeIsCount
    <2> QED  BY <2>1 DEF IInv, TypeOK, Finite, PosBelowStamp, SizeIsCount,
                         WithinMaxSize, CleanMeansSaved, Alive
  <1>3. CASE ~AtMaxSize(Cardinality(rest))
    <2>1. /\ entries' = rest \cup {new} /\ size' = Cardinality(rest) + 1
          /\ dirty' = TRUE /\ stamp' = stamp + 1 /\ stamp < MaxAdds
      BY <1>3 DEF add
    <2>2. new \in Entry
      <3>1. (now + t) % Width = now + t
        BY NoWrap DEF IInv
      <3>2. now + t \in Nat /\ stamp \in Nat
        BY TtlAssumption, BoundAssumption DEF IInv, TypeOK
      <3> QED  BY <3>1, <3>2 DEF Entry
    <2>3. new \notin rest
      BY DEF IInv, PosBelowStamp, TypeOK
    <2>4. IsFiniteSet(entries') /\ Cardinality(entries') = Cardinality(rest) + 1
      BY <1>1, <2>1, <2>3, FS_AddElement
    <2>5. TypeOK'
      BY <1>1, <2>1, <2>2, BoundAssumption DEF IInv, TypeOK
    <2>6. Finite'
      BY <2>4 DEF IInv, Finite
    <2>7. PosBelowStamp'
      BY <2>1, BoundAssumption DEF IInv, PosBelowStamp, TypeOK, Entry
    <2>8. SizeIsCount'
      BY <2>1, <2>4 DEF SizeIsCount
    <2>9. WithinMaxSize'
      BY <1>1, <1>3, <2>4, BoundAssumption DEF IInv, WithinMaxSize, AtMaxSize
    <2>10. CleanMeansSaved'
      BY <2>1 DEF CleanMeansSaved
    <2> QED  BY <2>5, <2>6, <2>7, <2>8, <2>9, <2>10 DEF IInv
  <1> QED  BY <1>2, <1>3

(* Set takes the old values of k out before it calls add(): were the store *)
(* over its limit, add() could refuse and the values would be lost.        *)
LEMMA SetRefusesOnlyNew ==
    ASSUME IInv, NEW k \in Key, AtMaxSize(Cardinality(entries \ Of(k)))
    PROVE  Of(k) = {}
  <1>1. Of(k) \in SUBSET entries /\ IsFiniteSet(entries) /\ IsFiniteSet(Of(k))
    BY FS_Subset DEF IInv, Finite, Of
  <1>2. /\ Cardinality(Of(k)) \in Nat
        /\ Cardinality(entries \ Of(k)) = Cardinality(entries) - Cardinality(Of(k))
        /\ Cardinality(entries) \in Nat
    BY <1>1, CountOfRest, FS_CardinalityType
  <1>3. Cardinality(entries) <= MaxSize /\ Cardinality(entries \ Of(k)) >= MaxSize
    BY DEF IInv, WithinMaxSize, AtMaxSize
  <1>4. Cardinality(Of(k)) = 0
    BY <1>2, <1>3, BoundAssumption
  <1> QED  BY <1>1, <1>4, FS_EmptySet

(* Remove, Delete and Prune keep the invariant.                            *)
LEMMA TakeOutKeeps ==
    ASSUME IInv, NEW gone \in SUBSET entries, takeOut(gone)
    PROVE  IInv'
  <1>1. /\ IsFiniteSet(entries \ gone)
        /\ Cardinality(gone) \in Nat
        /\ Cardinality(entries \ gone) \in Nat
        /\ Cardinality(entries \ gone) = Cardinality(entries) - Cardinality(gone)
        /\ Cardinality(entries \ gone) <= Cardinality(entries)
    BY CountOfRest DEF IInv, Finite
  <1>2. /\ entries' = entries \ gone /\ size' = size - Cardinality(gone)
        /\ dirty' = (dirty \/ gone # {})
        /\ disk' = disk /\ now' = now /\ stamp' = stamp
        /\ proc' = proc /\ saver' = saver
    BY DEF takeOut
  <1>3. SizeIsCount'
    BY <1>1, <1>2 DEF IInv, SizeIsCount
  <1>4. TypeOK'
    <2>1. size' \in Nat
      BY <1>1, <1>2, <1>3 DEF SizeIsCount
    <2>2. dirty' \in BOOLEAN
      BY <1>2
    <2> QED  BY <1>2, <2>1, <2>2 DEF IInv, TypeOK
  <1>5. Finite' /\ PosBelowStamp'
    BY <1>1, <1>2 DEF IInv, Finite, PosBelowStamp
  <1>6. WithinMaxSize'
    <2>1. Cardinality(entries') \in Nat /\ Cardinality(entries') <= Cardinality(entries)
      BY <1>1, <1>2
    <2>2. Cardinality(entries) \in Nat
      BY FS_CardinalityType DEF IInv, Finite
    <2> QED  BY <1>2, <2>1, <2>2, BoundAssumption DEF IInv, WithinMaxSize
  <1>7. CleanMeansSaved'
    <2> SUFFICES ASSUME Alive', ~dirty'
                 PROVE  disk' = entries'
      BY DEF CleanMeansSaved
    <2>1. gone = {} /\ ~dirty
      BY <1>2
    <2> QED  BY <1>2, <2>1 DEF IInv, CleanMeansSaved, Alive
  <1> QED  BY <1>3, <1>4, <1>5, <1>6, <1>7 DEF IInv

(* Losing the memory keeps the invariant.                                  *)
LEMMA HaltKeeps ==
    ASSUME IInv, Halt
    PROVE  IInv'
  <1>1. IsFiniteSet(entries') /\ Cardinality(entries') = 0
    BY FS_EmptySet DEF Halt
  <1>2. TypeOK'
    BY DEF IInv, Halt, TypeOK
  <1>3. Finite' /\ PosBelowStamp'
    BY <1>1 DEF IInv, Halt, Finite, PosBelowStamp
  <1>4. SizeIsCount'
    BY <1>1 DEF Halt, SizeIsCount
  <1>5. WithinMaxSize'
    BY <1>1, BoundAssumption DEF IInv, Halt, WithinMaxSize
  <1>6. CleanMeansSaved'
    BY DEF Halt, CleanMeansSaved, Alive
  <1> QED  BY <1>2, <1>3, <1>4, <1>5, <1>6 DEF IInv

(* Writing the file keeps the invariant, whoever does it.                  *)
LEMMA WriteFileKeeps ==
    ASSUME IInv, WriteFile, UNCHANGED <<entries, size, now, stamp>>,
           proc' \in {"running", "exiting", "flushed", "down"},
           saver' \in {"sleep", "write"}
    PROVE  IInv'
  BY DEF IInv, WriteFile, TypeOK, Finite, PosBelowStamp, SizeIsCount,
         WithinMaxSize, CleanMeansSaved

-----------------------------------------------------------------------------
LEMMA InitIInv == Init => IInv
  <1>1. IsFiniteSet({}) /\ Cardinality({}) = 0
    BY FS_EmptySet
  <1> SUFFICES ASSUME Init
               PROVE  IInv
    OBVIOUS
  <1>2. TypeOK
    <2>1. 0 \in 0 .. MaxTime /\ 0 \in 0 .. MaxAdds /\ 0 \in Nat
      BY BoundAssumption
    <2> QED  BY <2>1 DEF Init, TypeOK
  <1>3. Finite /\ PosBelowStamp
    BY <1>1 DEF Init, Finite, PosBelowStamp
  <1>4. SizeIsCount
    BY <1>1 DEF Init, SizeIsCount
  <1>5. WithinMaxSize
    BY <1>1, BoundAssumption DEF Init, WithinMaxSize
  <1>6. CleanMeansSaved
    BY DEF Init, CleanMeansSaved
  <1> QED  BY <1>2, <1>3, <1>4, <1>5, <1>6 DEF IInv

LEMMA NextIInv == IInv /\ [Next]_vars => IInv'
  <1> SUFFICES ASSUME IInv, [Next]_vars
               PROVE  IInv'
    OBVIOUS
  <1>1. ASSUME NEW k \in Key, NEW v \in Value, NEW t \in Ttl, Add(k, v, t)
        PROVE  IInv'
    BY <1>1, AddKeeps DEF Add, IInv, SizeIsCount
  <1>2. ASSUME NEW k \in Key, NEW v \in Value, NEW t \in Ttl, Set(k, v, t)
        PROVE  IInv'
    <2>1. Of(k) \in SUBSET entries
      BY DEF Of
    <2>2. size - Cardinality(Of(k)) = Cardinality(entries \ Of(k))
      BY <2>1, CountOfRest DEF IInv, Finite, SizeIsCount
    <2>3. AtMaxSize(Cardinality(entries \ Of(k))) => entries \ Of(k) = entries
      BY SetRefusesOnlyNew
    <2>4. add(entries \ Of(k), Cardinality(entries \ Of(k)), k, v, t)
      BY <1>2, <2>2 DEF Set
    <2> QED  BY <1>2, <2>3, <2>4, AddKeeps DEF Set
  <1>3. ASSUME NEW k \in Key, NEW v \in Value, Remove(k, v)
        PROVE  IInv'
    BY <1>3, TakeOutKeeps DEF Remove, Of
  <1>4. ASSUME NEW k \in Key, Delete(k)
        PROVE  IInv'
    BY <1>4, TakeOutKeeps DEF Delete, Of
  <1>5. CASE Prune
    BY <1>5, TakeOutKeeps DEF Prune
  <1>6. CASE SaverWake
    BY <1>6 DEF SaverWake, memory, IInv, TypeOK, Finite, PosBelowStamp,
                SizeIsCount, WithinMaxSize, CleanMeansSaved, Alive
  <1>7. CASE SaverWrite
    <2>1. proc \in {"running", "exiting", "flushed", "down"}
      BY DEF IInv, TypeOK
    <2> QED  BY <1>7, <2>1, WriteFileKeeps DEF SaverWrite
  <1>8. CASE SaverFail \/ Exit \/ Crash
    BY <1>8, HaltKeeps DEF SaverFail, Exit, Crash
  <1>9. CASE Terminate \/ FinalFail
    BY <1>9 DEF Terminate, FinalFail, memory, IInv, TypeOK, Finite, PosBelowStamp,
                SizeIsCount, WithinMaxSize, CleanMeansSaved, Alive
  <1>10. CASE FinalWrite
    <2>1. saver \in {"sleep", "write"}
      BY DEF IInv, TypeOK
    <2> QED  BY <1>10, <2>1, WriteFileKeeps DEF FinalWrite
  <1>11. CASE Restart
    <2>1. Cardinality(disk) \in Nat
      BY FS_CardinalityType DEF IInv, Finite
    <2> QED  BY <1>11, <2>1 DEF Restart, IInv, TypeOK, Finite, PosBelowStamp,
                SizeIsCount, WithinMaxSize, CleanMeansSaved, Alive
  <1>12. CASE Tick
    BY <1>12, BoundAssumption
       DEF Tick, memory, IInv, TypeOK, Finite, PosBelowStamp,
           SizeIsCount, WithinMaxSize, CleanMeansSaved, Alive
  <1>13. CASE UNCHANGED vars
    BY <1>13 DEF vars, IInv, TypeOK, Finite, PosBelowStamp,
                 SizeIsCount, WithinMaxSize, CleanMeansSaved, Alive
  <1> QED
    BY <1>1, <1>2, <1>3, <1>4, <1>5, <1>6, <1>7, <1>8, <1>9, <1>10, <1>11,
       <1>12, <1>13 DEF Next

(* The inductive invariant holds throughout.                               *)
THEOREM Inductive == Spec => []IInv
  BY InitIInv, NextIInv, PTL DEF Spec

(* Every variable keeps its type, the uint32 Expires included.             *)
THEOREM TypeCorrect == Spec => []TypeOK
  <1>1. IInv => TypeOK
    BY DEF IInv
  <1> QED  BY Inductive, <1>1, PTL

(* s.size is the number of values in s.m after any sequence of operations, *)
(* writes, crashes and restarts, and neither the memory nor the file ever  *)
(* holds more than MaxSize values.                                         *)
THEOREM SizeCorrect == Spec => []LimitIsKept
  <1>1. IInv => LimitIsKept
    BY DEF IInv, LimitIsKept
  <1> QED  BY Inductive, <1>1, PTL

(* A periodic write that is skipped because dirty is FALSE loses nothing.  *)
THEOREM SkippedWritesAreSafe == Spec => []CleanMeansSaved
  <1>1. IInv => CleanMeansSaved
    BY DEF IInv
  <1> QED  BY Inductive, <1>1, PTL

-----------------------------------------------------------------------------
(* The step of TtlMap that each kind of step of the store takes.           *)
LEMMA AddImplements ==
    ASSUME IInv, Alive, NEW rest \in SUBSET entries,
           NEW k \in Key, NEW v \in Value, NEW t \in Ttl,
           NEW n, AtMaxSize(n) => rest = entries,
           add(rest, n, k, v, t),
           UNCHANGED <<disk, now, proc, saver>>
    PROVE  Map!Put(Unexpired(rest), k, v, t) \/ UNCHANGED Map!vars
  <1> DEFINE new == [key |-> k, val |-> v, exp |-> now + t, pos |-> stamp]
  <1>1. CASE AtMaxSize(n)
    BY <1>1 DEF add, Map!vars, Unexpired, Alive
  <1>2. CASE ~AtMaxSize(n)
    <2>1. entries' = rest \cup {new} /\ stamp' = stamp + 1
      <3>1. (now + t) % Width = now + t
        BY NoWrap DEF IInv
      <3> QED  BY <1>2, <3>1 DEF add
    <2>2. new.exp > now
      BY TtlAssumption, BoundAssumption DEF IInv, TypeOK
    <2>3. Unexpired(entries)' = Unexpired(rest) \cup {new}
      BY <2>1, <2>2 DEF Unexpired
    <2> QED  BY <2>1, <2>3 DEF Map!Put, Unexpired, Alive
  <1> QED  BY <1>1, <1>2

LEMMA TakeOutImplements ==
    ASSUME Alive, NEW gone, takeOut(gone)
    PROVE  Map!Drop(Unexpired(gone))
  BY DEF takeOut, Map!Drop, Unexpired, Alive

LEMMA WriteImplements ==
    ASSUME Alive, Alive', WriteFile, UNCHANGED <<entries, size, now, stamp>>
    PROVE  Map!Save
  BY DEF WriteFile, Map!Save, Unexpired

LEMMA HaltImplements ==
    ASSUME Alive, Halt
    PROVE  Map!Stop
  BY DEF Halt, Map!Stop, Unexpired, Alive

LEMMA InitImplements == Init => Map!Init
  BY DEF Init, Map!Init, Unexpired, Alive

LEMMA StepImplements == IInv /\ [Next]_vars => [Map!Next]_(Map!vars)
  <1> SUFFICES ASSUME IInv, [Next]_vars
               PROVE  Map!Next \/ UNCHANGED Map!vars
    OBVIOUS
  <1>1. ASSUME NEW k \in Key, NEW v \in Value, NEW t \in Ttl, Add(k, v, t)
        PROVE  Map!Next \/ UNCHANGED Map!vars
    <2>1. Map!Put(Unexpired(entries), k, v, t) \/ UNCHANGED Map!vars
      BY <1>1, AddImplements DEF Add
    <2> QED  BY <2>1 DEF Map!Next, Map!Add
  <1>2. ASSUME NEW k \in Key, NEW v \in Value, NEW t \in Ttl, Set(k, v, t)
        PROVE  Map!Next \/ UNCHANGED Map!vars
    <2>1. Of(k) \in SUBSET entries
      BY DEF Of
    <2>2. size - Cardinality(Of(k)) = Cardinality(entries \ Of(k))
      BY <2>1, CountOfRest DEF IInv, Finite, SizeIsCount
    <2>3. AtMaxSize(size - Cardinality(Of(k))) => entries \ Of(k) = entries
      BY <2>2, SetRefusesOnlyNew
    <2>4. Map!Put(Unexpired(entries \ Of(k)), k, v, t) \/ UNCHANGED Map!vars
      BY <1>2, <2>3, AddImplements DEF Set
    <2>5. Unexpired(entries \ Of(k)) = {e \in Unexpired(entries) : e.key # k}
      BY DEF Unexpired, Of
    <2> QED  BY <2>4, <2>5 DEF Map!Next, Map!Set
  <1>3. ASSUME NEW k \in Key, NEW v \in Value, Remove(k, v)
        PROVE  Map!Next
    <2>1. Map!Drop(Unexpired({e \in Of(k) : e.val = v}))
      BY <1>3, TakeOutImplements DEF Remove
    <2>2. Unexpired({e \in Of(k) : e.val = v})
            = {e \in Unexpired(entries) : e.key = k /\ e.val = v}
      BY DEF Unexpired, Of
    <2> QED  BY <2>1, <2>2 DEF Map!Next, Map!Remove
  <1>4. ASSUME NEW k \in Key, Delete(k)
        PROVE  Map!Next
    <2>1. Map!Drop(Unexpired(Of(k)))
      BY <1>4, TakeOutImplements DEF Delete
    <2>2. Unexpired(Of(k)) = {e \in Unexpired(entries) : e.key = k}
      BY DEF Unexpired, Of
    <2> QED  BY <2>1, <2>2 DEF Map!Next, Map!Delete
  <1>5. CASE Prune
    <2>1. Unexpired(entries)' = Unexpired(entries)
      <3>1. \A e \in entries : e.exp > now <=> ~(e.exp <= now)
        BY DEF IInv, TypeOK, Entry
      <3> QED  BY <1>5, <3>1 DEF Prune, takeOut, Unexpired
    <2> QED  BY <1>5, <2>1 DEF Prune, takeOut, Map!vars, Unexpired, Alive
  <1>6. CASE SaverWake
    BY <1>6 DEF SaverWake, memory, Map!vars, Unexpired, Alive
  <1>7. CASE SaverWrite
    <2>1. Map!Save
      BY <1>7, WriteImplements DEF SaverWrite, Alive
    <2> QED  BY <2>1 DEF Map!Next
  <1>8. CASE SaverFail \/ Exit \/ Crash
    <2>1. Map!Stop
      BY <1>8, HaltImplements DEF SaverFail, Exit, Crash, Alive
    <2> QED  BY <2>1 DEF Map!Next
  <1>9. CASE Terminate \/ FinalFail
    BY <1>9 DEF Terminate, FinalFail, memory, Map!vars, Unexpired, Alive
  <1>10. CASE FinalWrite
    <2>1. Map!Save
      BY <1>10, WriteImplements DEF FinalWrite, Alive
    <2> QED  BY <2>1 DEF Map!Next
  <1>11. CASE Restart
    <2>1. Map!Start
      BY <1>11 DEF Restart, Map!Start, Unexpired, Alive
    <2> QED  BY <2>1 DEF Map!Next
  <1>12. CASE Tick
    <2>1. now' = now + 1 /\ now \in Nat
      BY <1>12, BoundAssumption DEF Tick, IInv, TypeOK
    <2>2. \A e \in entries \cup disk : e.exp > now + 1 => e.exp > now
      BY <2>1 DEF IInv, TypeOK, Entry
    <2>3. Map!Tick
      BY <1>12, <2>1, <2>2 DEF Tick, memory, Map!Tick, Unexpired, Alive
    <2> QED  BY <2>3 DEF Map!Next
  <1>13. CASE UNCHANGED vars
    BY <1>13 DEF vars, Map!vars, Unexpired, Alive
  <1> QED
    BY <1>1, <1>2, <1>3, <1>4, <1>5, <1>6, <1>7, <1>8, <1>9, <1>10, <1>11,
       <1>12, <1>13 DEF Next

(* Readers of the store see the map of TtlMap: a Set replaces and an Add   *)
(* appends or nothing changes, pruning and writing are invisible, and a    *)
(* restart brings back what the last successful write saw.                 *)
THEOREM Implements == Spec => ImplementsMap
  BY Inductive, InitImplements, StepImplements, PTL DEF Spec, ImplementsMap, Map!Spec
=============================================================================
