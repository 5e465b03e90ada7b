------------------------- MODULE ProbeReportProofs --------------------------
(***************************************************************************)
(* Proofs about ProbeReport, for any number of queries and any capacity of *)
(* the plugin's list: what three reads of Valkey saw, while queries were   *)
(* recorded and keys expired in between, makes a report that is right.     *)
(***************************************************************************)
EXTENDS ProbeReport, FiniteSetTheorems, SequenceTheorems, TLAPS

(* A set of numbers that holds 0 and with each number the next one holds   *)
(* all.  What the library has on induction is about an operator; of sets   *)
(* it is a consequence of the pigeonhole principle.                        *)
LEMMA SetInduction ==
  ASSUME NEW P, 0 \in P, \A n \in Nat : n \in P => n + 1 \in P
  PROVE  Nat \subseteq P
<1> SUFFICES ASSUME NEW x \in Nat, x \notin P
             PROVE  FALSE
  OBVIOUS
<1> DEFINE A == {n \in 0 .. x : n \in P}
           next == [n \in A |-> n + 1]
<1>1. IsFiniteSet(A)
  <2>1. IsFiniteSet(0 .. x)
    BY FS_Interval
  <2>2. A \subseteq 0 .. x
    OBVIOUS
  <2> HIDE DEF A
  <2> QED
    BY <2>1, <2>2, FS_Subset
<1>2. 0 \in A /\ IsFiniteSet(A \ {0}) /\ Cardinality(A \ {0}) = Cardinality(A) - 1
  <2>1. 0 \in A
    OBVIOUS
  <2> HIDE DEF A
  <2> QED
    BY <1>1, <2>1, FS_RemoveElement
<1>3. next \in [A -> A \ {0}] /\ A \subseteq Nat
  OBVIOUS
<1> HIDE DEF A
<1>4. Cardinality(A \ {0}) < Cardinality(A)
  BY <1>1, <1>2, FS_CardinalityType
<1>5. \E m, n \in A : m # n /\ next[m] = next[n]
  <2> HIDE DEF next
  <2> QED
    BY <1>1, <1>2, <1>3, <1>4, FS_PigeonHole
<1> QED
  BY <1>3, <1>5

-----------------------------------------------------------------------------
(* What the loop of Get makes of the entries: f is what it has after each. *)
Loop(entries, f) ==
  f = [n \in 0 .. Len(entries) |->
          IF n = 0 THEN <<>> ELSE AppendDecoded(f[n - 1], entries[n])]

LEMMA AppendDecodedType ==
  ASSUME NEW S, NEW s \in Seq(S \ {"bad"}), NEW e \in S
  PROVE  /\ AppendDecoded(s, e) \in Seq(S \ {"bad"})
         /\ Len(AppendDecoded(s, e)) <= Len(s) + 1
<1>1. CASE e = "bad"
  BY <1>1 DEF AppendDecoded
<1>2. CASE e # "bad"
  <2>1. e \in S \ {"bad"} /\ AppendDecoded(s, e) = Append(s, e)
    BY <1>2 DEF AppendDecoded
  <2> QED
    BY <2>1
<1> QED
  BY <1>1, <1>2

Upto(S, s, n, f) ==
  /\ f \in [0 .. n -> Seq(S \ {"bad"})] /\ f[0] = <<>>
  /\ \A m \in 1 .. n : f[m] = AppendDecoded(f[m - 1], s[m])

LEMMA LoopExists ==
  ASSUME NEW S, NEW s \in Seq(S)
  PROVE  \E f : Loop(s, f)
<1> DEFINE P == {n \in Nat : n <= Len(s) => \E f : Upto(S, s, n, f)}
<1>1. 0 \in P
  <2>1. <<>> \in Seq(S \ {"bad"})
    OBVIOUS
  <2>2. Upto(S, s, 0, [n \in 0 .. 0 |-> <<>>])
    BY <2>1 DEF Upto
  <2> QED
    BY <2>2
<1>2. ASSUME NEW n \in Nat, n \in P
      PROVE  n + 1 \in P
  <2> SUFFICES ASSUME n + 1 <= Len(s)
               PROVE  \E f : Upto(S, s, n + 1, f)
    OBVIOUS
  <2>1. PICK g : Upto(S, s, n, g)
    BY <1>2
  <2> DEFINE more == AppendDecoded(g[n], s[n + 1])
             f == [m \in 0 .. n + 1 |-> IF m = n + 1 THEN more ELSE g[m]]
  <2>2. g[n] \in Seq(S \ {"bad"}) /\ s[n + 1] \in S
    BY <2>1 DEF Upto
  <2>3. more \in Seq(S \ {"bad"})
    BY <2>2, AppendDecodedType
  <2>4. f \in [0 .. n + 1 -> Seq(S \ {"bad"})] /\ f[0] = <<>>
    <3> HIDE DEF more
    <3> QED
      BY <2>1, <2>3 DEF Upto
  <2>5. ASSUME NEW m \in 1 .. n + 1
        PROVE  f[m] = AppendDecoded(f[m - 1], s[m])
    <3>1. m - 1 \in 0 .. n /\ f[m - 1] = g[m - 1]
      OBVIOUS
    <3>2. CASE m = n + 1
      BY <3>1, <3>2
    <3>3. CASE m # n + 1
      <4>1. m \in 1 .. n /\ f[m] = g[m]
        BY <3>3
      <4> HIDE DEF f
      <4> QED
        BY <2>1, <3>1, <4>1 DEF Upto
    <3> QED
      BY <3>2, <3>3
  <2> HIDE DEF f
  <2> QED
    BY <2>4, <2>5 DEF Upto
<1>3. Len(s) \in P
  <2> HIDE DEF P
  <2> QED
    BY <1>1, <1>2, SetInduction
<1>4. PICK f : Upto(S, s, Len(s), f)
  BY <1>3
<1>5. Loop(s, f)
  BY <1>4 DEF Loop, Upto
<1> QED
  BY <1>5

LEMMA DecodableLoop ==
  ASSUME NEW S, NEW s \in Seq(S)
  PROVE  \E f : Loop(s, f) /\ Decodable(s) = f[Len(s)]
<1>1. Loop(s, CHOOSE f : Loop(s, f))
  <2>1. \E f : Loop(s, f)
    BY LoopExists
  <2> QED
    BY <2>1
<1>2. Decodable(s) = (CHOOSE f : Loop(s, f))[Len(s)]
  BY DEF Decodable, Loop
<1> QED
  BY <1>1, <1>2

(* What the loop makes of a list it has made already of the entries before.*)
LEMMA LoopAgrees ==
  ASSUME NEW S, NEW s \in Seq(S), NEW e \in S, NEW f, Loop(s, f), NEW g, Loop(Append(s, e), g)
  PROVE  g[Len(s)] = f[Len(s)]
<1> DEFINE P == {n \in Nat : n <= Len(s) => g[n] = f[n]}
<1>1. 0 \in P
  BY DEF Loop
<1>2. ASSUME NEW n \in Nat, n \in P
      PROVE  n + 1 \in P
  <2> SUFFICES ASSUME n + 1 <= Len(s)
               PROVE  g[n + 1] = f[n + 1]
    OBVIOUS
  <2>1. Append(s, e)[n + 1] = s[n + 1] /\ Len(Append(s, e)) = Len(s) + 1
    OBVIOUS
  <2>2. g[n] = f[n]
    BY <1>2
  <2>3. f[n + 1] = AppendDecoded(f[n], s[n + 1])
    BY DEF Loop
  <2>4. g[n + 1] = AppendDecoded(g[n], s[n + 1])
    BY <2>1 DEF Loop
  <2> QED
    BY <2>2, <2>3, <2>4
<1>3. Len(s) \in P
  <2> HIDE DEF P
  <2> QED
    BY <1>1, <1>2, SetInduction
<1> QED
  BY <1>3

LEMMA DecodableNone == Decodable(<<>>) = <<>>
<1>1. <<>> \in Seq(Kind)
  OBVIOUS
<1>2. PICK f : Loop(<<>>, f) /\ Decodable(<<>>) = f[Len(<<>>)]
  BY <1>1, DecodableLoop
<1>3. f[0] = <<>>
  BY <1>2 DEF Loop
<1> QED
  BY <1>2, <1>3

(* An entry more is an observation more, if it decodes.                    *)
LEMMA DecodableAppend ==
  ASSUME NEW S, NEW s \in Seq(S), NEW e \in S
  PROVE  Decodable(Append(s, e)) = AppendDecoded(Decodable(s), e)
<1>1. Append(s, e) \in Seq(S) /\ Len(Append(s, e)) = Len(s) + 1 /\ Append(s, e)[Len(s) + 1] = e
  OBVIOUS
<1>2. PICK f : Loop(s, f) /\ Decodable(s) = f[Len(s)]
  BY DecodableLoop
<1>3. PICK g : Loop(Append(s, e), g) /\ Decodable(Append(s, e)) = g[Len(Append(s, e))]
  BY <1>1, DecodableLoop
<1>4. g[Len(s)] = f[Len(s)]
  BY <1>2, <1>3, LoopAgrees
<1>5. g[Len(s) + 1] = AppendDecoded(g[Len(s)], e)
  <2> DEFINE n == Len(s)
             more == Append(s, e)
  <2>1. n \in Nat /\ Len(more) = n + 1 /\ more[n + 1] = e
    OBVIOUS
  <2>2. Loop(more, g)
    BY <1>3
  <2> HIDE DEF n, more
  <2>3. g[n + 1] = AppendDecoded(g[n], e)
    BY <2>1, <2>2 DEF Loop
  <2> QED
    BY <2>3 DEF n
<1> QED
  BY <1>1, <1>2, <1>3, <1>4, <1>5

LEMMA DecodableType ==
  ASSUME NEW S, NEW s \in Seq(S)
  PROVE  Decodable(s) \in Seq(S \ {"bad"}) /\ Len(Decodable(s)) <= Len(s)
<1>1. PICK f : Loop(s, f) /\ Decodable(s) = f[Len(s)]
  BY DecodableLoop
<1> DEFINE P == {n \in Nat : n <= Len(s) => f[n] \in Seq(S \ {"bad"}) /\ Len(f[n]) <= n}
<1>2. 0 \in P
  BY <1>1 DEF Loop
<1>3. ASSUME NEW n \in Nat, n \in P
      PROVE  n + 1 \in P
  <2> SUFFICES ASSUME n + 1 <= Len(s)
               PROVE  f[n + 1] \in Seq(S \ {"bad"}) /\ Len(f[n + 1]) <= n + 1
    OBVIOUS
  <2>1. f[n] \in Seq(S \ {"bad"}) /\ Len(f[n]) <= n /\ s[n + 1] \in S
    BY <1>3
  <2>2. f[n + 1] = AppendDecoded(f[n], s[n + 1])
    BY <1>1 DEF Loop
  <2>3. AppendDecoded(f[n], s[n + 1]) \in Seq(S \ {"bad"})
    BY <2>1, AppendDecodedType
  <2>4. Len(AppendDecoded(f[n], s[n + 1])) <= Len(f[n]) + 1
    BY <2>1, AppendDecodedType
  <2>5. Len(f[n]) \in Nat /\ Len(AppendDecoded(f[n], s[n + 1])) \in Nat
    BY <2>1, <2>3
  <2> QED
    BY <2>1, <2>2, <2>3, <2>4, <2>5
<1>4. Len(s) \in P
  <2> HIDE DEF P
  <2> QED
    BY <1>2, <1>3, SetInduction
<1> QED
  BY <1>1, <1>4

-----------------------------------------------------------------------------
(* Each query is recorded once by each of the two records.                 *)
Counted == {q \in Number : query[q] # None /\ query[q].counted}
Listed == {q \in Number : query[q] # None /\ query[q].listed}

RecordInv == counter <= Cardinality(Counted) /\ Len(obs) <= Cardinality(Listed)

(* What the resolver does shows in each query, entry and observation.      *)
KindInv ==
  /\ \A q \in Number : query[q] # None => query[q].kind \in Asks(mode)
  /\ obs \in Seq(Asks(mode))
  /\ listed \in Seq(Asks(mode) \ {"bad"})

NumberInv ==
  /\ queries <= Cardinality(Arrived)
  /\ pc = "reports" => Len(listed) <= queries

(* The entries that were there when Get began still are, before the read,  *)
(* and are observations after it.                                          *)
PrefixInv ==
  \A s \in {obs} :
     /\ pc = "seen" => known = <<>>
     /\ pc = "obs" => IsPrefix(known, Decodable(s))
     /\ pc = "reports" => IsPrefix(known, listed)

(* The number shown last is not above what Valkey has, nor above what a    *)
(* Get that has begun will find; and what this Get found is not above what *)
(* Valkey has, unless a key expired.                                       *)
PollInv ==
  \A s \in {obs} :
     LET d == Len(Decodable(s))
     IN  /\ shown <= counter \/ shown <= d
         /\ pc = "obs" => shown <= queries \/ shown <= d
         /\ pc = "reports" => shown <= queries
         /\ pc = "obs" /\ fresh => queries <= counter
         /\ pc = "reports" /\ fresh => queries <= counter \/ queries <= d

IInv == TypeOK /\ RecordInv /\ KindInv /\ NumberInv /\ PrefixInv /\ PollInv

-----------------------------------------------------------------------------
(* Prefixes.                                                               *)
LEMMA PrefixOfItself ==
  ASSUME NEW S, NEW s \in Seq(S)
  PROVE  IsPrefix(s, s)
BY DEF IsPrefix

LEMMA PrefixAppend ==
  ASSUME NEW S, NEW p \in Seq(S), NEW s \in Seq(S), NEW e \in S, IsPrefix(p, s)
  PROVE  IsPrefix(p, Append(s, e))
<1>1. Len(p) \in Nat /\ Len(s) \in Nat /\ Len(p) <= Len(s) /\ SubSeq(p, 1, Len(p)) = SubSeq(s, 1, Len(p))
  BY DEF IsPrefix
<1>2. Len(Append(s, e)) = Len(s) + 1
  OBVIOUS
<1>3. SubSeq(Append(s, e), 1, Len(p)) = SubSeq(s, 1, Len(p))
  <2>1. SubSeq(s, 1, Len(p)) = [i \in 1 .. Len(p) |-> s[i]]
    BY <1>1
  <2>2. SubSeq(Append(s, e), 1, Len(p)) = [i \in 1 .. Len(p) |-> Append(s, e)[i]]
    BY <1>1, <1>2
  <2>3. \A i \in 1 .. Len(p) : Append(s, e)[i] = s[i]
    BY <1>1
  <2> QED
    BY <2>1, <2>2, <2>3
<1> QED
  BY <1>1, <1>2, <1>3 DEF IsPrefix

LEMMA NothingIsPrefix ==
  ASSUME NEW S, NEW s \in Seq(S)
  PROVE  IsPrefix(<<>>, s)
<1>1. SubSeq(s, 1, 0) = <<>> /\ SubSeq(<<>>, 1, 0) = <<>> /\ Len(<<>>) = 0 /\ Len(s) \in Nat
  OBVIOUS
<1> QED
  BY <1>1 DEF IsPrefix

-----------------------------------------------------------------------------
(* Numbers of queries.                                                     *)
LEMMA NumberFinite ==
  ASSUME NEW T, T \subseteq Number
  PROVE  IsFiniteSet(T) /\ Cardinality(T) \in 0 .. MaxQueries
<1>1. IsFiniteSet(Number) /\ Cardinality(Number) = MaxQueries
  <2>1. IsFiniteSet(1 .. MaxQueries)
    BY BoundAssumption, FS_Interval
  <2>2. Cardinality(1 .. MaxQueries) = IF 1 > MaxQueries THEN 0 ELSE MaxQueries - 1 + 1
    BY BoundAssumption, FS_Interval
  <2> QED
    BY BoundAssumption, <2>1, <2>2 DEF Number
<1>2. IsFiniteSet(T) /\ Cardinality(T) <= Cardinality(Number)
  BY <1>1, FS_Subset
<1> QED
  BY <1>1, <1>2, FS_CardinalityType, BoundAssumption

LEMMA FewerQueries ==
  ASSUME NEW T, NEW U, U \subseteq Number, T \subseteq U
  PROVE  Cardinality(T) <= Cardinality(U)
BY NumberFinite, FS_Subset

LEMMA OneMore ==
  ASSUME NEW T, NEW U, U \subseteq Number, NEW q \in U, q \notin T, T \subseteq U
  PROVE  Cardinality(T) + 1 <= Cardinality(U)
<1>1. IsFiniteSet(T) /\ Cardinality(T \cup {q}) = Cardinality(T) + 1
  BY NumberFinite, FS_AddElement
<1>2. Cardinality(T \cup {q}) <= Cardinality(U)
  BY FewerQueries
<1> QED
  BY <1>1, <1>2

-----------------------------------------------------------------------------
LEMMA AskedKinds ==
  ASSUME NEW m
  PROVE  Asks(m) \subseteq Kind
BY DEF Asks, Kind

LEMMA InitIInv == Init => IInv
<1> SUFFICES ASSUME Init
             PROVE  IInv
  OBVIOUS
<1> USE BoundAssumption
<1>1. <<>> \in Seq(Kind) /\ <<>> \in Seq(Kind \ {"bad"}) /\ Len(<<>>) = 0
      /\ <<>> \in Seq(Asks(mode)) /\ <<>> \in Seq(Asks(mode) \ {"bad"})
  OBVIOUS
<1>2. TypeOK
  BY <1>1 DEF Init, TypeOK, Read
<1>3. RecordInv
  <2>1. Cardinality(Counted) \in Nat /\ Cardinality(Listed) \in Nat
    BY NumberFinite DEF Counted, Listed
  <2> QED
    BY <1>1, <2>1 DEF Init, RecordInv
<1>4. KindInv
  BY <1>1 DEF Init, KindInv
<1>5. NumberInv
  <2>1. Cardinality(Arrived) \in Nat
    BY NumberFinite DEF Arrived
  <2> QED
    BY <2>1 DEF Init, NumberInv
<1>6. PrefixInv
  BY DEF Init, PrefixInv
<1>7. PollInv
  BY DEF Init, PollInv
<1> QED
  BY <1>2, <1>3, <1>4, <1>5, <1>6, <1>7 DEF IInv

(* What the records of queries may do: no query is forgotten.              *)
LEMMA QueriesStay ==
  ASSUME TypeOK, NEW q \in Number, NEW r \in Query, query' = [query EXCEPT ![q] = r],
         query[q] # None => /\ r.kind = query[q].kind
                            /\ query[q].counted => r.counted
                            /\ query[q].listed => r.listed
  PROVE  /\ query' \in [Number -> Query \cup {None}]
         /\ query'[q] = r /\ r # None /\ \A p \in Number : p # q => query'[p] = query[p]
         /\ Counted \subseteq Counted' /\ Listed \subseteq Listed' /\ Arrived \subseteq Arrived'
         /\ Counted' \subseteq Number /\ Listed' \subseteq Number /\ Arrived' \subseteq Number
         /\ Cardinality(Counted) <= Cardinality(Counted')
         /\ Cardinality(Listed) <= Cardinality(Listed')
         /\ Cardinality(Arrived) <= Cardinality(Arrived')
<1>1. query \in [Number -> Query \cup {None}]
  BY DEF TypeOK
<1>2. query' \in [Number -> Query \cup {None}] /\ r # None
  BY <1>1, NoneAssumption
<1>3. query'[q] = r /\ \A p \in Number : p # q => query'[p] = query[p]
  BY <1>1
<1>4. Counted \subseteq Counted' /\ Listed \subseteq Listed' /\ Arrived \subseteq Arrived'
  BY <1>2, <1>3 DEF Counted, Listed, Arrived
<1>5. Counted' \subseteq Number /\ Listed' \subseteq Number /\ Arrived' \subseteq Number
  BY DEF Counted, Listed, Arrived
<1> QED
  BY <1>2, <1>3, <1>4, <1>5, FewerQueries

LEMMA ArriveStep ==
  ASSUME IInv, Arrive
  PROVE  IInv'
<1> USE BoundAssumption
<1>1. PICK q \in Number, k \in Asks(mode) :
         /\ query[q] = None
         /\ query' = [query EXCEPT ![q] = [kind |-> k, counted |-> FALSE, listed |-> FALSE]]
  BY DEF Arrive
<1>2. UNCHANGED <<mode, counter, obs, pc, queries, listed, known, shown, fresh>>
  BY DEF Arrive, keys, get, history
<1> DEFINE r == [kind |-> k, counted |-> FALSE, listed |-> FALSE]
<1>3. r \in Query /\ r.kind = k
  BY AskedKinds DEF Query
<1>4. TypeOK
  BY DEF IInv
<1> HIDE DEF r
<1>5. /\ query' \in [Number -> Query \cup {None}]
      /\ query'[q] = r /\ \A p \in Number : p # q => query'[p] = query[p]
      /\ Cardinality(Counted) <= Cardinality(Counted')
      /\ Cardinality(Listed) <= Cardinality(Listed')
      /\ Cardinality(Arrived) <= Cardinality(Arrived')
  <2>1. query' = [query EXCEPT ![q] = r]
    BY <1>1 DEF r
  <2> QED
    BY <1>1, <1>3, <1>4, <2>1, QueriesStay
<1>6. /\ Cardinality(Counted) \in Nat /\ Cardinality(Counted') \in Nat
      /\ Cardinality(Listed) \in Nat /\ Cardinality(Listed') \in Nat
      /\ Cardinality(Arrived) \in Nat /\ Cardinality(Arrived') \in Nat
  BY NumberFinite DEF Counted, Listed, Arrived
<1>7. TypeOK'
  BY <1>2, <1>4, <1>5 DEF TypeOK
<1>8. RecordInv'
  <2>1. counter \in Nat /\ Len(obs) \in Nat
    BY <1>4 DEF TypeOK
  <2> QED
    BY <1>2, <1>5, <1>6, <2>1 DEF IInv, RecordInv
<1>9. KindInv'
  BY <1>2, <1>3, <1>5 DEF IInv, KindInv
<1>10. NumberInv'
  <2>1. queries \in Nat
    BY <1>4 DEF TypeOK
  <2> QED
    BY <1>2, <1>5, <1>6, <2>1 DEF IInv, NumberInv
<1>11. PrefixInv' /\ PollInv'
  BY <1>2 DEF IInv, PrefixInv, PollInv
<1> QED
  BY <1>7, <1>8, <1>9, <1>10, <1>11 DEF IInv

LEMMA CountStep ==
  ASSUME IInv, Count
  PROVE  IInv'
<1> USE BoundAssumption
<1>1. PICK q \in Number :
         /\ query[q] # None /\ ~query[q].counted
         /\ query' = [query EXCEPT ![q].counted = TRUE]
  BY DEF Count
<1>2. /\ counter' = counter + 1
      /\ UNCHANGED <<mode, obs, pc, queries, listed, known, shown, fresh>>
  BY DEF Count, get, history
<1> DEFINE r == [query[q] EXCEPT !.counted = TRUE]
<1>3. TypeOK
  BY DEF IInv
<1>4. query[q] \in Query
  BY <1>1, <1>3 DEF TypeOK
<1>5. r \in Query /\ r.kind = query[q].kind /\ r.counted /\ r.listed = query[q].listed
  BY <1>4 DEF Query
<1>6. query' = [query EXCEPT ![q] = r]
  BY <1>1
<1> HIDE DEF r
<1>7. /\ query' \in [Number -> Query \cup {None}]
      /\ query'[q] = r /\ r # None /\ \A p \in Number : p # q => query'[p] = query[p]
      /\ Counted \subseteq Counted' /\ Counted' \subseteq Number
      /\ Cardinality(Listed) <= Cardinality(Listed')
      /\ Cardinality(Arrived) <= Cardinality(Arrived')
  BY <1>3, <1>5, <1>6, QueriesStay
<1>8. /\ Cardinality(Counted) \in Nat /\ Cardinality(Counted') \in 0 .. MaxQueries
      /\ Cardinality(Listed) \in Nat /\ Cardinality(Listed') \in Nat
      /\ Cardinality(Arrived) \in Nat /\ Cardinality(Arrived') \in Nat
  BY NumberFinite DEF Counted, Listed, Arrived
<1>9. Cardinality(Counted) + 1 <= Cardinality(Counted')
  <2>1. q \in Counted' /\ q \notin Counted
    BY <1>1, <1>5, <1>7 DEF Counted
  <2> QED
    BY <1>7, <2>1, OneMore
<1>10. counter \in Nat /\ counter <= Cardinality(Counted) /\ counter' <= Cardinality(Counted')
  <2>1. counter \in Nat
    BY <1>3 DEF TypeOK
  <2>2. counter <= Cardinality(Counted)
    BY DEF IInv, RecordInv
  <2> QED
    BY <1>2, <1>8, <1>9, <2>1, <2>2
<1>11. TypeOK'
  BY <1>2, <1>3, <1>7, <1>8, <1>10 DEF TypeOK
<1>12. RecordInv'
  <2>1. Len(obs) \in Nat
    BY <1>3 DEF TypeOK
  <2> QED
    BY <1>2, <1>7, <1>8, <1>10, <2>1 DEF IInv, RecordInv
<1>13. KindInv'
  BY <1>1, <1>2, <1>5, <1>7 DEF IInv, KindInv
<1>14. NumberInv'
  <2>1. queries \in Nat
    BY <1>3 DEF TypeOK
  <2> QED
    BY <1>2, <1>7, <1>8, <2>1 DEF IInv, NumberInv
<1>15. PrefixInv'
  BY <1>2 DEF IInv, PrefixInv
<1>16. PollInv'
  <2>1. \A n \in Nat : n <= counter => n <= counter'
    BY <1>2, <1>10
  <2>2. shown \in Nat /\ queries \in Nat
    BY <1>3 DEF TypeOK
  <2> QED
    BY <1>2, <2>1, <2>2 DEF IInv, PollInv
<1> QED
  BY <1>11, <1>12, <1>13, <1>14, <1>15, <1>16 DEF IInv

LEMMA ListStep ==
  ASSUME IInv, List
  PROVE  IInv'
<1> USE BoundAssumption
<1>1. PICK q \in Number :
         /\ query[q] # None /\ ~query[q].listed
         /\ query' = [query EXCEPT ![q].listed = TRUE]
         /\ obs' = IF Len(obs) < Cap THEN Append(obs, query[q].kind) ELSE obs
  BY DEF List
<1>2. UNCHANGED <<mode, counter, pc, queries, listed, known, shown, fresh>>
  BY DEF List, get, history
<1> DEFINE r == [query[q] EXCEPT !.listed = TRUE]
           k == query[q].kind
<1>3. TypeOK /\ KindInv
  BY DEF IInv
<1>4. query[q] \in Query /\ k \in Asks(mode)
  BY <1>1, <1>3 DEF TypeOK, KindInv
<1>5. r \in Query /\ r.kind = k /\ r.listed /\ r.counted = query[q].counted
  BY <1>4 DEF Query
<1>6. query' = [query EXCEPT ![q] = r]
  BY <1>1
<1> HIDE DEF r, k
<1>7. /\ query' \in [Number -> Query \cup {None}]
      /\ query'[q] = r /\ r # None /\ \A p \in Number : p # q => query'[p] = query[p]
      /\ Listed \subseteq Listed' /\ Listed' \subseteq Number
      /\ Cardinality(Counted) <= Cardinality(Counted')
      /\ Cardinality(Arrived) <= Cardinality(Arrived')
  BY <1>3, <1>5, <1>6, QueriesStay DEF k
<1>8. /\ Cardinality(Counted) \in Nat /\ Cardinality(Counted') \in Nat
      /\ Cardinality(Listed) \in Nat /\ Cardinality(Listed') \in Nat
      /\ Cardinality(Arrived) \in Nat /\ Cardinality(Arrived') \in Nat
  BY NumberFinite DEF Counted, Listed, Arrived
<1>9. Cardinality(Listed) + 1 <= Cardinality(Listed')
  <2>1. q \in Listed' /\ q \notin Listed
    BY <1>1, <1>5, <1>7 DEF Listed
  <2> QED
    BY <1>7, <2>1, OneMore
<1>10. PICK s : s = obs
  OBVIOUS
<1>11. PICK t : t = obs'
  OBVIOUS
<1>12. /\ s \in Seq(Asks(mode)) /\ Len(s) \in 0 .. Cap
       /\ k \in Kind
       /\ (t = s \/ (t = Append(s, k) /\ Len(s) < Cap))
  BY <1>1, <1>3, <1>4, <1>10, <1>11, AskedKinds DEF TypeOK, KindInv, k
<1>13. t \in Seq(Asks(mode)) /\ Len(t) \in 0 .. Cap /\ Len(t) <= Len(s) + 1
  BY <1>4, <1>12
<1>14. t \in Seq(Kind) /\ s \in Seq(Kind)
  BY <1>12, <1>13, AskedKinds
<1>15. TypeOK'
  BY <1>2, <1>3, <1>7, <1>11, <1>13, <1>14 DEF TypeOK
<1>16. RecordInv'
  <2>1. counter \in Nat
    BY <1>3 DEF TypeOK
  <2> QED
    BY <1>2, <1>7, <1>8, <1>9, <1>10, <1>11, <1>12, <1>13, <2>1 DEF IInv, RecordInv
<1>17. KindInv'
  BY <1>1, <1>2, <1>3, <1>5, <1>7, <1>11, <1>13 DEF KindInv, k
<1>18. NumberInv'
  <2>1. queries \in Nat
    BY <1>3 DEF TypeOK
  <2> QED
    BY <1>2, <1>7, <1>8, <2>1 DEF IInv, NumberInv
<1>19. /\ Decodable(s) \in Seq(Kind) /\ Decodable(t) \in Seq(Kind)
       /\ Len(Decodable(s)) \in Nat /\ Len(Decodable(t)) \in Nat
       /\ \A p \in Seq(Kind) : IsPrefix(p, Decodable(s)) => IsPrefix(p, Decodable(t))
       /\ Len(Decodable(s)) <= Len(Decodable(t))
  <2>1. Decodable(s) \in Seq(Kind \ {"bad"}) /\ Decodable(t) \in Seq(Kind \ {"bad"})
    BY <1>14, DecodableType
  <2>2. \/ Decodable(t) = Decodable(s)
        \/ Decodable(t) = Append(Decodable(s), k)
    <3>1. CASE t = s
      BY <3>1
    <3>2. CASE t = Append(s, k)
      BY <1>12, <1>14, <3>2, DecodableAppend DEF AppendDecoded
    <3> QED
      BY <1>12, <3>1, <3>2
  <2>3. k \in Kind /\ Kind \ {"bad"} \subseteq Kind
    BY <1>12
  <2>4. Decodable(s) \in Seq(Kind) /\ Decodable(t) \in Seq(Kind)
    BY <2>1, <2>3
  <2>5. \A p \in Seq(Kind) : IsPrefix(p, Decodable(s)) => IsPrefix(p, Decodable(t))
    BY <2>2, <2>3, <2>4, PrefixAppend
  <2>6. Len(Decodable(s)) <= Len(Decodable(t))
    <3> DEFINE d == Decodable(s)
               e == Decodable(t)
    <3> HIDE DEF d, e
    <3>1. d \in Seq(Kind) /\ (e = d \/ e = Append(d, k))
      BY <2>2, <2>4 DEF d, e
    <3>2. Len(d) <= Len(e)
      BY <2>3, <3>1
    <3> QED
      BY <3>2 DEF d, e
  <2>7. Len(Decodable(s)) \in Nat /\ Len(Decodable(t)) \in Nat
    BY <2>4
  <2> QED
    BY <2>4, <2>5, <2>6, <2>7
<1>20. PrefixInv'
  <2>1. known \in Seq(Kind)
    BY <1>3 DEF TypeOK
  <2> QED
    BY <1>2, <1>10, <1>11, <1>19, <2>1 DEF IInv, PrefixInv
<1>21. PollInv'
  <2>1. shown \in Nat /\ queries \in Nat
    BY <1>3 DEF TypeOK
  <2>2. \A n \in Nat : n <= Len(Decodable(s)) => n <= Len(Decodable(t))
    BY <1>19
  <2> QED
    BY <1>2, <1>10, <1>11, <2>1, <2>2 DEF IInv, PollInv
<1> QED
  BY <1>15, <1>16, <1>17, <1>18, <1>20, <1>21 DEF IInv

(* A key expires: what was remembered is given up.                         *)
LEMMA ExpireStep ==
  ASSUME IInv, Expire
  PROVE  IInv'
<1> USE BoundAssumption
<1>1. /\ UNCHANGED <<mode, query, pc, queries, listed>>
      /\ known' = <<>> /\ shown' = 0 /\ fresh' = FALSE
      /\ ((counter' = 0 /\ obs' = obs) \/ (obs' = <<>> /\ counter' = counter))
  BY DEF Expire, get
<1>2. TypeOK /\ RecordInv /\ KindInv /\ NumberInv
  BY DEF IInv
<1>3. <<>> \in Seq(Kind) /\ Len(<<>>) = 0 /\ <<>> \in Seq(Asks(mode)) /\ counter \in Nat
  BY <1>2 DEF TypeOK
<1>4. /\ obs' \in Seq(Kind) /\ Len(obs') <= Cap
      /\ obs' \in Seq(Asks(mode)) /\ Len(obs') <= Len(obs) /\ Len(obs) \in Nat
      /\ counter' \in 0 .. MaxQueries /\ counter' <= counter
  <2>1. /\ obs \in Seq(Kind) /\ obs \in Seq(Asks(mode)) /\ Len(obs) \in 0 .. Cap
        /\ counter \in 0 .. MaxQueries
    BY <1>2 DEF TypeOK, KindInv
  <2>2. obs' = obs \/ obs' = <<>>
    BY <1>1
  <2>3. counter' \in 0 .. MaxQueries /\ counter' <= counter
    BY <1>1, <2>1
  <2>4. obs' \in Seq(Kind) /\ obs' \in Seq(Asks(mode))
    BY <1>3, <2>1, <2>2
  <2>5. Len(obs') <= Len(obs)
    BY <1>3, <2>1, <2>2
  <2> QED
    BY <2>1, <2>3, <2>4, <2>5
<1>5. TypeOK'
  <2>1. 0 \in 0 .. MaxQueries
    OBVIOUS
  <2> QED
    BY <1>1, <1>2, <1>3, <1>4, <2>1 DEF TypeOK
<1>6. RecordInv'
  <2>1. Counted' = Counted /\ Listed' = Listed
    BY <1>1 DEF Counted, Listed
  <2>2. Cardinality(Counted) \in Nat /\ Cardinality(Listed) \in Nat
    BY NumberFinite DEF Counted, Listed
  <2> HIDE DEF Counted, Listed
  <2>3. counter' <= Cardinality(Counted) /\ Len(obs') <= Cardinality(Listed)
    BY <1>2, <1>3, <1>4, <2>2 DEF RecordInv
  <2> QED
    BY <2>1, <2>3 DEF RecordInv
<1>7. KindInv'
  BY <1>1, <1>2, <1>4 DEF KindInv
<1>8. NumberInv'
  BY <1>1, <1>2 DEF NumberInv, Arrived
<1>9. PICK t : t = obs'
  OBVIOUS
<1>10. Decodable(t) \in Seq(Kind \ {"bad"})
  BY <1>4, <1>9, DecodableType
<1>11. listed \in Seq(Kind \ {"bad"}) /\ queries \in Nat
  BY <1>2 DEF TypeOK
<1>12. PrefixInv'
  <2>1. IsPrefix(<<>>, Decodable(t)) /\ IsPrefix(<<>>, listed)
    BY <1>10, <1>11, NothingIsPrefix
  <2> QED
    BY <1>1, <1>9, <2>1 DEF PrefixInv
<1>13. PollInv'
  <2>1. counter' \in Nat /\ Len(Decodable(t)) \in Nat
    BY <1>4, <1>10
  <2> QED
    BY <1>1, <1>9, <1>11, <2>1 DEF PollInv
<1> QED
  BY <1>5, <1>6, <1>7, <1>8, <1>12, <1>13 DEF IInv

(* What Get, and nobody else, leaves alone.                                *)
LEMMA RecordsKept ==
  ASSUME IInv, UNCHANGED <<mode, query, counter, obs>>
  PROVE  RecordInv' /\ Cardinality(Arrived') = Cardinality(Arrived)
BY DEF IInv, RecordInv, Counted, Listed, Arrived

LEMMA ReadSeenStep ==
  ASSUME IInv, ReadSeen
  PROVE  IInv'
<1> USE BoundAssumption
<1>1. /\ UNCHANGED <<mode, query, counter, obs, listed, shown>>
      /\ queries' = counter /\ pc' = "obs" /\ fresh' = TRUE
      /\ known' = Decodable(obs)
  BY DEF ReadSeen, Remember, keys
<1>2. TypeOK /\ RecordInv /\ KindInv /\ NumberInv /\ PollInv
  BY DEF IInv
<1>3. PICK s : s = obs
  OBVIOUS
<1>4. /\ s \in Seq(Kind) /\ counter \in Nat /\ shown \in Nat
      /\ known' = Decodable(s) /\ obs' = s
  BY <1>1, <1>2, <1>3 DEF TypeOK
<1>5. Decodable(s) \in Seq(Kind) /\ Len(Decodable(s)) \in Nat
  <2>1. Decodable(s) \in Seq(Kind \ {"bad"})
    BY <1>4, DecodableType
  <2> QED
    BY <2>1
<1>6. TypeOK'
  BY <1>1, <1>2, <1>4, <1>5 DEF TypeOK, Read
<1>7. RecordInv' /\ Cardinality(Arrived') = Cardinality(Arrived)
  BY <1>1, RecordsKept
<1>8. KindInv'
  BY <1>1, <1>2 DEF KindInv
<1>9. NumberInv'
  <2>1. Cardinality(Counted) \in Nat /\ Cardinality(Arrived) \in Nat
    BY NumberFinite DEF Counted, Arrived
  <2>2. Cardinality(Counted) <= Cardinality(Arrived)
    BY FewerQueries DEF Counted, Arrived
  <2>3. counter <= Cardinality(Arrived)
    BY <1>2, <1>4, <2>1, <2>2 DEF RecordInv
  <2> QED
    BY <1>1, <1>7, <2>3 DEF NumberInv
<1>10. PrefixInv'
  <2>1. IsPrefix(Decodable(s), Decodable(s))
    BY <1>5, PrefixOfItself
  <2> QED
    BY <1>1, <1>4, <2>1 DEF PrefixInv
<1>11. PollInv'
  BY <1>1, <1>2, <1>3, <1>4, <1>5 DEF PollInv
<1> QED
  BY <1>6, <1>7, <1>8, <1>9, <1>10, <1>11 DEF IInv

LEMMA ReadObsStep ==
  ASSUME IInv, ReadObs
  PROVE  IInv'
<1> USE BoundAssumption
<1>1. PICK s : s = obs
  OBVIOUS
<1>2. PICK d : d = Decodable(s)
  OBVIOUS
<1>3. /\ UNCHANGED <<mode, query, counter, obs, known, shown, fresh>>
      /\ pc = "obs" /\ pc' = "reports"
      /\ listed' = d /\ queries' = Larger(queries, d)
  BY <1>1, <1>2 DEF ReadObs, Decode, keys, history
<1>4. TypeOK /\ RecordInv /\ KindInv /\ NumberInv /\ PrefixInv /\ PollInv
  BY DEF IInv
<1>5. /\ s \in Seq(Kind) /\ s \in Seq(Asks(mode)) /\ Len(s) \in Nat
      /\ counter \in Nat /\ shown \in Nat /\ queries \in Nat
  BY <1>1, <1>4 DEF TypeOK, KindInv
<1>6. /\ d \in Seq(Kind \ {"bad"}) /\ d \in Seq(Asks(mode) \ {"bad"})
      /\ Len(d) \in Nat /\ Len(d) <= Len(s)
  <2>1. d \in Seq(Kind \ {"bad"}) /\ Len(d) <= Len(s)
    BY <1>2, <1>5, DecodableType
  <2>2. d \in Seq(Asks(mode) \ {"bad"})
    BY <1>2, <1>5, DecodableType
  <2> QED
    BY <2>1, <2>2
<1>7. /\ queries' \in Nat /\ queries <= queries' /\ Len(d) <= queries'
      /\ (queries' = queries \/ queries' = Len(d))
  BY <1>3, <1>5, <1>6 DEF Larger
<1>8. RecordInv' /\ Cardinality(Arrived') = Cardinality(Arrived)
  BY <1>3, RecordsKept
<1>9. queries' <= Cardinality(Arrived) /\ Cardinality(Arrived) \in 0 .. MaxQueries
  <2>1. Cardinality(Listed) \in Nat /\ Cardinality(Arrived) \in 0 .. MaxQueries
    BY NumberFinite DEF Listed, Arrived
  <2>2. Cardinality(Listed) <= Cardinality(Arrived)
    BY FewerQueries DEF Listed, Arrived
  <2>3. Len(s) <= Cardinality(Listed) /\ queries <= Cardinality(Arrived)
    BY <1>1, <1>4 DEF RecordInv, NumberInv
  <2> QED
    BY <1>5, <1>6, <1>7, <2>1, <2>2, <2>3
<1>10. TypeOK'
  BY <1>3, <1>4, <1>6, <1>7, <1>9 DEF TypeOK, Read
<1>11. KindInv'
  BY <1>3, <1>4, <1>6 DEF KindInv
<1>12. NumberInv'
  BY <1>3, <1>7, <1>8, <1>9 DEF NumberInv
<1>13. PrefixInv'
  BY <1>1, <1>2, <1>3, <1>4 DEF PrefixInv
<1>14. PollInv'
  BY <1>1, <1>2, <1>3, <1>4, <1>5, <1>6, <1>7 DEF PollInv
<1> QED
  BY <1>8, <1>10, <1>11, <1>12, <1>13, <1>14 DEF IInv

(* Get is over, with a report or with an error.                            *)
LEMMA ReturnStep ==
  ASSUME IInv, Return, UNCHANGED <<mode, query, counter, obs, fresh>>,
         shown' \in 0 .. MaxQueries,
         \A s \in {obs} : (shown' <= counter \/ shown' <= Len(Decodable(s)))
  PROVE  IInv'
<1> USE BoundAssumption
<1>1. pc' = "seen" /\ queries' = 0 /\ listed' = <<>> /\ known' = <<>>
  BY DEF Return
<1>2. TypeOK /\ KindInv
  BY DEF IInv
<1>3. /\ <<>> \in Seq(Kind) /\ <<>> \in Seq(Kind \ {"bad"})
      /\ <<>> \in Seq(Asks(mode) \ {"bad"})
  OBVIOUS
<1>4. TypeOK'
  BY <1>1, <1>2, <1>3 DEF TypeOK, Read
<1>5. RecordInv' /\ Cardinality(Arrived') = Cardinality(Arrived)
  BY RecordsKept
<1>6. KindInv'
  BY <1>1, <1>2, <1>3 DEF KindInv
<1>7. NumberInv'
  <2>1. Cardinality(Arrived) \in Nat
    BY NumberFinite DEF Arrived
  <2> QED
    BY <1>1, <1>5, <2>1 DEF NumberInv
<1>8. PrefixInv'
  BY <1>1 DEF PrefixInv
<1>9. PollInv'
  BY <1>1 DEF PollInv
<1> QED
  BY <1>4, <1>5, <1>6, <1>7, <1>8, <1>9 DEF IInv

LEMMA ReadReportsStep ==
  ASSUME IInv, ReadReports
  PROVE  IInv'
<1> USE BoundAssumption
<1>1. /\ pc = "reports" /\ Return /\ UNCHANGED <<mode, query, counter, obs, fresh>>
      /\ shown' = IF fresh THEN queries ELSE 0
  BY DEF ReadReports, keys
<1>2. TypeOK /\ PollInv
  BY DEF IInv
<1>3. PICK s : s = obs
  OBVIOUS
<1>4. queries \in 0 .. MaxQueries /\ counter \in Nat /\ fresh \in BOOLEAN
  BY <1>2 DEF TypeOK
<1>5. fresh => (queries <= counter \/ queries <= Len(Decodable(s)))
  BY <1>1, <1>2, <1>3 DEF PollInv
<1>6. shown' \in 0 .. MaxQueries /\ (shown' <= counter \/ shown' <= Len(Decodable(s)))
  BY <1>1, <1>4, <1>5
<1> QED
  BY <1>1, <1>3, <1>6, ReturnStep

LEMMA FailStep ==
  ASSUME IInv, Fail
  PROVE  IInv'
<1>1. Return /\ UNCHANGED <<mode, query, counter, obs, fresh, shown>>
  BY DEF Fail, keys
<1>2. shown \in 0 .. MaxQueries
  BY DEF IInv, TypeOK
<1>3. PICK s : s = obs
  OBVIOUS
<1>4. shown <= counter \/ shown <= Len(Decodable(s))
  BY <1>3 DEF IInv, PollInv
<1> QED
  BY <1>1, <1>2, <1>3, <1>4, ReturnStep

LEMMA NextIInv == IInv /\ [Next]_vars => IInv'
<1> SUFFICES ASSUME IInv, [Next]_vars
             PROVE  IInv'
  OBVIOUS
<1>1. CASE UNCHANGED vars
  <2>1. UNCHANGED <<mode, query, counter, obs, pc, queries, listed, known, shown, fresh>>
    BY <1>1 DEF vars, keys, get, history
  <2>2. TypeOK'
    BY <2>1 DEF IInv, TypeOK
  <2>3. RecordInv' /\ KindInv' /\ NumberInv'
    BY <2>1 DEF IInv, RecordInv, KindInv, NumberInv, Counted, Listed, Arrived
  <2>4. PrefixInv' /\ PollInv'
    BY <2>1 DEF IInv, PrefixInv, PollInv
  <2> QED
    BY <2>2, <2>3, <2>4 DEF IInv
<1> QED
  BY <1>1, ArriveStep, CountStep, ListStep, ExpireStep, ReadSeenStep, ReadObsStep,
     ReadReportsStep, FailStep DEF Next

-----------------------------------------------------------------------------
(* The state of a Get, of Valkey and of the queries keeps its type.        *)
THEOREM TypeCorrect == Spec => []TypeOK
<1>1. IInv => TypeOK
  BY DEF IInv
<1> QED
  BY InitIInv, NextIInv, <1>1, PTL DEF Spec

(* A complete report numbers the queries no lower than what it lists and   *)
(* no higher than what was asked, lists all that was recorded when the     *)
(* page asked, and a page that polls never sees the number fall.           *)
THEOREM ReportRight == Spec => []ReportIsRight
<1>1. IInv => ReportIsRight
  BY DEF IInv, NumberInv, PrefixInv, PollInv, ReportIsRight, Complete
<1> QED
  BY InitIInv, NextIInv, <1>1, PTL DEF Spec

(* Only a resolver that walks with NS queries is said to minimise.         *)
THEOREM ObservedTrue == Spec => []ObservedIsTrue
<1>1. IInv => ObservedIsTrue
  <2> SUFFICES ASSUME IInv, QNAMEMinimisation(listed) = "observed"
               PROVE  mode = "ns"
    BY DEF ObservedIsTrue
  <2>1. Contains(listed, "bareNS")
    BY DEF QNAMEMinimisation
  <2>2. PICK i \in 1 .. Len(listed) : listed[i] = "bareNS"
    BY <2>1 DEF Contains
  <2>3. listed \in Seq(Asks(mode) \ {"bad"})
    BY DEF IInv, KindInv
  <2>4. "bareNS" \in Asks(mode)
    BY <2>2, <2>3
  <2> QED
    BY <2>4 DEF Asks
<1> QED
  BY InitIInv, NextIInv, <1>1, PTL DEF Spec
=============================================================================
