------------------------------ MODULE TtlStore ------------------------------
(***************************************************************************)
(* SimpleTtlStore (internal/ttlstore/simple.go), the in-memory store with  *)
(* expiring values, together with the goroutines config.Run starts around  *)
(* it: PrunePeriodically, WriteFilePeriodically and the deferred final     *)
(* WriteFile.  Every operation holds s.mu from its first line to its last, *)
(* so it is one action; WriteFilePeriodically releases the lock between    *)
(* reading s.dirty and calling WriteFile, so it is two.                    *)
(*                                                                         *)
(* The map of slices is the set of its elements: pos, the number of values *)
(* appended before, orders the slice of a key.  No slice is ever empty in  *)
(* the map (Remove and Prune delete such keys), so a key is in the map     *)
(* exactly when an entry has it.                                           *)
(***************************************************************************)
EXTENDS Naturals, FiniteSets

CONSTANTS Key, Value,
          Ttl,         \* the lifetimes callers pass to Add and Set
          MaxSize,     \* SimpleTtlStore.MaxSize, 0 when unlimited
          Width,       \* 2^32 in the code: Expires is an uint32
          MaxTime,     \* bound: the last clock value explored
          MaxAdds      \* bound: the number of values ever stored

ASSUME TtlAssumption == Ttl \subseteq Nat \ {0}
ASSUME BoundAssumption == MaxSize \in Nat /\ MaxTime \in Nat /\ MaxAdds \in Nat
(* The clock plus any lifetime stays below the width of Expires, as it     *)
(* does for the code until 2106.                                           *)
ASSUME WidthAssumption == Width \in Nat /\ \A t \in Ttl : MaxTime + t < Width

VARIABLES entries,     \* s.m
          size,        \* s.size
          dirty,       \* s.dirty
          disk,        \* the content of the database file
          now,         \* time.Now().Unix()
          stamp,       \* values appended so far
          proc,        \* where config.Run is
          saver        \* where WriteFilePeriodically is

memory == <<entries, size, dirty>>
vars == <<entries, size, dirty, disk, now, stamp, proc, saver>>

Entry == [key : Key, val : Value, exp : Nat, pos : Nat]

TypeOK == /\ entries \subseteq Entry
          /\ size \in Nat
          /\ dirty \in BOOLEAN
          /\ disk \subseteq Entry
          /\ now \in 0 .. MaxTime
          /\ stamp \in 0 .. MaxAdds
          /\ proc \in {"running", "exiting", "flushed", "down"}
          /\ saver \in {"sleep", "write"}

Alive == proc # "down"

(* Mutant of Unexpired: the second in which a value expires is included.   *)
UnexpiredInclusive(S) == {e \in S : e.exp >= now}

(* The values of S a reader gets: Exists, Values and Get skip the others.  *)
Unexpired(S) == {e \in S : e.exp > now}

Of(k) == {e \in entries : e.key = k}

-----------------------------------------------------------------------------
(* Mutant of AtMaxSize: one value too many is let in.                      *)
AtMaxSizeOffByOne(n) == MaxSize > 0 /\ n > MaxSize

(* add(): append to the n entries of rest, unless they are too many.       *)
AtMaxSize(n) == MaxSize > 0 /\ n >= MaxSize

add(rest, n, k, v, t) ==
    \/ /\ AtMaxSize(n)
       /\ entries' = rest
       /\ size' = n
       /\ UNCHANGED <<dirty, stamp>>
    \/ /\ ~AtMaxSize(n)
       /\ stamp < MaxAdds
       /\ entries' = rest \cup {[key |-> k, val |-> v,
                                 exp |-> (now + t) % Width, pos |-> stamp]}
       /\ size' = n + 1
       /\ dirty' = TRUE
       /\ stamp' = stamp + 1

Add(k, v, t) == /\ Alive
                /\ add(entries, size, k, v, t)
                /\ UNCHANGED <<disk, now, proc, saver>>

(* Mutant of Set: s.size is not reduced by the values that are replaced.   *)
SetKeepsSize(k, v, t) == /\ Alive
                         /\ add(entries \ Of(k), size, k, v, t)
                         /\ UNCHANGED <<disk, now, proc, saver>>

Set(k, v, t) == /\ Alive
                /\ add(entries \ Of(k), size - Cardinality(Of(k)), k, v, t)
                /\ UNCHANGED <<disk, now, proc, saver>>

(* Mutant of takeOut: s.size is decremented once, whatever is taken out.   *)
takeOutCountsOne(gone) == /\ entries' = entries \ gone
                          /\ size' = size - 1
                          /\ dirty' = (dirty \/ gone # {})
                          /\ UNCHANGED <<disk, now, stamp, proc, saver>>

(* The shared tail of Remove, Delete and Prune: take out the entries gone. *)
takeOut(gone) == /\ entries' = entries \ gone
                 /\ size' = size - Cardinality(gone)
                 /\ dirty' = (dirty \/ gone # {})
                 /\ UNCHANGED <<disk, now, stamp, proc, saver>>

Remove(k, v) == Alive /\ takeOut({e \in Of(k) : e.val = v})

Delete(k) == Alive /\ takeOut(Of(k))

(* Mutants of Prune: dirty is not set; a slice of which some values stay   *)
(* is not put back.                                                        *)
PruneForgetsDirty == LET gone == {e \in entries : e.exp <= now}
                     IN  /\ Alive
                         /\ entries' = entries \ gone
                         /\ size' = size - Cardinality(gone)
                         /\ UNCHANGED <<dirty, disk, now, stamp, proc, saver>>
PruneWholeKeysOnly ==
    Alive /\ takeOut({e \in entries : \A f \in Of(e.key) : f.exp <= now})

Prune == Alive /\ takeOut({e \in entries : e.exp <= now})

-----------------------------------------------------------------------------
(* Mutant of WriteFile: dirty is not cleared.                              *)
WriteFileStaysDirty == disk' = entries /\ UNCHANGED dirty

(* WriteFile: encode under the lock, rename over the file, clear dirty.    *)
(* The rename is the only step others can see, and a failure before it     *)
(* leaves the file and dirty as they were.                                 *)
WriteFile == disk' = entries /\ dirty' = FALSE

(* WriteFilePeriodically: look at dirty under the read lock ...            *)
SaverWake == /\ Alive /\ saver = "sleep" /\ dirty
             /\ saver' = "write"
             /\ UNCHANGED <<memory, disk, now, stamp, proc>>

(* ... then write, whatever has happened to dirty since.                   *)
SaverWrite == /\ Alive /\ saver = "write"
              /\ WriteFile
              /\ saver' = "sleep"
              /\ UNCHANGED <<entries, size, now, stamp, proc>>

(* The process is gone, and its memory with it.                            *)
Halt == /\ proc' = "down"
        /\ entries' = {} /\ size' = 0 /\ dirty' = FALSE
        /\ saver' = "sleep"
        /\ UNCHANGED <<disk, now, stamp>>

(* WriteFile fails under WriteFilePeriodically: config.Run's goroutine     *)
(* passes the error to log.Fatal, which runs no deferred call.             *)
SaverFail == Alive /\ saver = "write" /\ Halt

(* SIGTERM: config.Run returns and its deferred WriteFile runs, while the  *)
(* listeners and the periodic goroutines still do.                         *)
Terminate == /\ proc = "running"
             /\ proc' = "exiting"
             /\ UNCHANGED <<memory, disk, now, stamp, saver>>

FinalWrite == /\ proc = "exiting"
              /\ proc' = "flushed"
              /\ WriteFile
              /\ UNCHANGED <<entries, size, now, stamp, saver>>

FinalFail == /\ proc = "exiting"
             /\ proc' = "flushed"
             /\ UNCHANGED <<memory, disk, now, stamp, saver>>

Exit == proc = "flushed" /\ Halt

(* A panic, a kill, or log.Fatal in any listener's goroutine.              *)
Crash == Alive /\ Halt

(* config.Run of a new process: LoadFile, which leaves dirty FALSE.        *)
Restart == /\ proc = "down"
           /\ proc' = "running"
           /\ entries' = disk
           /\ size' = Cardinality(disk)
           /\ UNCHANGED <<dirty, disk, now, stamp, saver>>

Tick == /\ now < MaxTime
        /\ now' = now + 1
        /\ UNCHANGED <<memory, disk, stamp, proc, saver>>

-----------------------------------------------------------------------------
Init == /\ entries = {} /\ size = 0 /\ dirty = FALSE
        /\ disk = {}
        /\ now = 0 /\ stamp = 0
        /\ proc = "running" /\ saver = "sleep"

Next == \/ \E k \in Key, v \in Value, t \in Ttl : Add(k, v, t)
        \/ \E k \in Key, v \in Value, t \in Ttl : Set(k, v, t)
        \/ \E k \in Key, v \in Value : Remove(k, v)
        \/ \E k \in Key : Delete(k)
        \/ Prune
        \/ SaverWake \/ SaverWrite \/ SaverFail
        \/ Terminate \/ FinalWrite \/ FinalFail \/ Exit \/ Crash \/ Restart
        \/ Tick

Spec == Init /\ [][Next]_vars

(* The loops of config.Run's goroutines keep running and a write that has  *)
(* begun ends one way or the other.  Nothing is assumed of the callers, of *)
(* signals and crashes, of restarts, or of the clock.                      *)
Fairness == /\ WF_vars(Prune)
            /\ WF_vars(SaverWake)
            /\ WF_vars(SaverWrite \/ SaverFail)

FairSpec == Spec /\ Fairness

-----------------------------------------------------------------------------
(* The count the size limit is checked against is the number of values the *)
(* map holds, whatever Add, Set, Remove, Delete, Prune and LoadFile did to *)
(* s.size and s.m on the way (simple.go adjusts them on separate lines).   *)
SizeIsCount == size = Cardinality(entries)

(* The store never holds more than MaxSize values, expired ones included,  *)
(* in memory or in the file, across any number of restarts: the check in   *)
(* add() is enough although LoadFile and Set do not go through it alone.   *)
WithinMaxSize == MaxSize > 0 => /\ Cardinality(entries) <= MaxSize
                                /\ Cardinality(disk) <= MaxSize

(* Both: the limit is kept, and by a count that is right.                  *)
LimitIsKept == SizeIsCount /\ WithinMaxSize

(* While dirty is FALSE the file equals the memory, so skipping a periodic *)
(* write loses nothing: every operation that changes s.m sets dirty, the   *)
(* read of dirty outside WriteFile's critical section included.            *)
CleanMeansSaved == Alive /\ ~dirty => disk = entries

(* The store implements the map of TtlMap: pruning, a refused Add or Set,  *)
(* the expired values in memory and in the file, and the steps of the      *)
(* saver are invisible to readers; in particular a Set that fails at the   *)
(* size limit keeps the values it was to replace.                          *)
Map == INSTANCE TtlMap WITH live <- Unexpired(entries),
                            saved <- Unexpired(disk),
                            up <- Alive
ImplementsMap == Map!Spec

(* What was changed is written to the file unless the process goes down.   *)
ChangesReachTheFile == dirty ~> (~dirty \/ ~Alive)

(* Expired values do not stay in memory, where they count against MaxSize. *)
NoExpiredForever ==
    \A p \in 0 .. MaxAdds :
        (\E e \in entries : e.pos = p /\ e.exp <= now)
            ~> ~(\E e \in entries : e.pos = p)

(* The two periodic goroutines get their work done, however the operations *)
(* interleave with them and writes fail: what was changed is written, what *)
(* expired is removed.                                                     *)
ChoresAreDone == ChangesReachTheFile /\ NoExpiredForever
=============================================================================
