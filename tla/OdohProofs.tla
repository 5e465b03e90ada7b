----------------------------- MODULE OdohProofs -----------------------------
(***************************************************************************)
(* Proofs about the Oblivious DoH exchange (Odoh) for every number of      *)
(* clients, names, keys, queries and responses, every padding and every    *)
(* base of the length prefixes: a client accepts a response to the query   *)
(* it holds only, and a stale query is told so.                            *)
(*                                                                         *)
(* They rest on what the parsers of OdohWire make of what was marshalled,  *)
(* first; of ParseConfigs, which jumps from config to config, by induction *)
(* on the distance to the end of the list (SetInduction).                  *)
(***************************************************************************)
EXTENDS Odoh, FiniteSetTheorems, SequenceTheorems, TLAPS

-----------------------------------------------------------------------------
(* A length survives its prefix if it fits, and saturates it if not.       *)
LEMMA Prefix ==
    ASSUME NEW n \in Nat
    PROVE  /\ maxField \in Nat /\ maxField >= 3 /\ wireLen(n) \in Nat
           /\ n <= maxField => wireLen(n) = n
           /\ n > maxField => wireLen(n) < n
           /\ n \div Base \in Nat /\ n % Base \in Nat
           /\ (n \div Base) * Base + (n % Base) = n
  <1>1. Base \in Nat /\ Base >= 2
    BY BaseAssumption
  <1>2. maxField \in Nat /\ maxField >= 3
    <2>1. Base * Base >= 4 /\ Base * Base \in Nat
      BY <1>1
    <2> QED  BY <2>1 DEF maxField
  <1>3. n \div Base \in Nat /\ n % Base \in Nat
    BY <1>1
  <1>4. (n \div Base) * Base + (n % Base) = n
    BY <1>1
  <1> HIDE DEF maxField
  <1> QED  BY <1>2, <1>3, <1>4 DEF wireLen

LEMMA PairFacts ==
    ASSUME NEW q \in Nat, NEW r \in Nat
    PROVE  <<q, r>> \in Seq(Nat) /\ Len(<<q, r>>) = 2 /\ <<q, r>>[1] = q /\ <<q, r>>[2] = r
  OBVIOUS

LEMMA SingleFacts ==
    ASSUME NEW q \in Nat
    PROVE  <<q>> \in Seq(Nat) /\ Len(<<q>>) = 1 /\ <<q>>[1] = q
  OBVIOUS

LEMMA ConcatFacts ==
    ASSUME NEW s \in Seq(Nat), NEW t \in Seq(Nat)
    PROVE  /\ s \o t \in Seq(Nat) /\ Len(s \o t) = Len(s) + Len(t)
           /\ \A i \in 1 .. Len(s) : (s \o t)[i] = s[i]
           /\ \A i \in 1 .. Len(t) : (s \o t)[Len(s) + i] = t[i]
  OBVIOUS

(* The string c is the len numbers of s from the i-th to the n-th.         *)
CutOut(c, s, i, n, len) ==
    /\ s \in Seq(Nat) /\ i \in Nat /\ n \in Nat /\ len \in Nat
    /\ i >= 1 /\ n <= Len(s) /\ len = (n - i) + 1
    /\ c = SubSeq(s, i, n)

LEMMA SubSeqFacts ==
    ASSUME NEW c, NEW s, NEW i, NEW n, NEW len, CutOut(c, s, i, n, len)
    PROVE  c \in Seq(Nat) /\ Len(c) = len /\ \A x \in 1 .. len : c[x] = s[(i + x) - 1]
  <1> USE DEF CutOut
  <1>1. c \in Seq(Nat)
    OBVIOUS
  <1>2. Len(c) = len
    OBVIOUS
  <1>3. \A x \in 1 .. len : c[x] = s[(i + x) - 1]
    OBVIOUS
  <1> QED  BY <1>1, <1>2, <1>3

(* What starts right after the first part of a string is the second.       *)
LEMMA FromFacts ==
    ASSUME NEW s \in Seq(Nat), NEW t \in Seq(Nat)
    PROVE  From(s \o t, Len(s) + 1) = t
  <1> DEFINE b == s \o t
             f == SubSeq(b, Len(s) + 1, Len(b))
  <1>1. /\ b \in Seq(Nat) /\ Len(b) = Len(s) + Len(t)
        /\ \A i \in 1 .. Len(t) : b[Len(s) + i] = t[i]
    BY ConcatFacts
  <1> HIDE DEF b
  <1>2. f \in Seq(Nat) /\ Len(f) = Len(t)
    BY <1>1
  <1>3. \A i \in 1 .. Len(t) : f[i] = t[i]
    BY <1>1
  <1>4. f = t
    BY <1>2, <1>3, SeqEqual
  <1> QED  BY <1>4 DEF From, b

LEMMA FieldFacts ==
    ASSUME NEW f \in Seq(Nat)
    PROVE  /\ Field(f) \in Seq(Nat) /\ Len(Field(f)) = Len(f) + 2
           /\ Uint16(Field(f), 1) = wireLen(Len(f))
           /\ \A i \in 1 .. Len(f) : Field(f)[i + 2] = f[i]
           /\ From(Field(f), 3) = f
  <1> DEFINE n == wireLen(Len(f))
             q == n \div Base
             r == n % Base
             p == <<q, r>>
  <1>1. n \in Nat
    BY Prefix
  <1>2. Field(f) = p \o f
    BY DEF Field, U16
  <1> HIDE DEF n
  <1>3. q \in Nat /\ r \in Nat /\ q * Base + r = n
    BY <1>1, Prefix
  <1> HIDE DEF q, r
  <1>4. p \in Seq(Nat) /\ Len(p) = 2 /\ p[1] = q /\ p[2] = r
    BY <1>3, PairFacts
  <1> HIDE DEF p
  <1> DEFINE g == p \o f
  <1>5. /\ g \in Seq(Nat) /\ Len(g) = Len(p) + Len(f)
        /\ \A i \in 1 .. Len(p) : g[i] = p[i]
        /\ \A i \in 1 .. Len(f) : g[Len(p) + i] = f[i]
    BY <1>4, ConcatFacts
  <1>6. From(g, Len(p) + 1) = f
    BY <1>4, FromFacts
  <1> HIDE DEF g
  <1>7. Uint16(g, 1) = n
    BY <1>3, <1>4, <1>5 DEF Uint16
  <1>8. Len(g) = Len(f) + 2
    BY <1>4, <1>5
  <1>9. ASSUME NEW i \in 1 .. Len(f)
        PROVE  g[i + 2] = f[i]
    <2>1. g[Len(p) + i] = f[i] /\ Len(p) + i = i + 2
      BY <1>4, <1>5
    <2> QED  BY <2>1
  <1>10. From(g, 3) = f
    BY <1>4, <1>6
  <1> QED  BY <1>2, <1>5, <1>7, <1>8, <1>9, <1>10 DEF g, n

(* The string a is s, the field of f, and t; the prefix is at i, f from    *)
(* first to last, t at after.                                              *)
FieldAt(a, s, f, t, i, first, last, after) ==
    /\ s \in Seq(Nat) /\ f \in Seq(Nat) /\ t \in Seq(Nat) /\ Len(f) <= maxField
    /\ a = (s \o Field(f)) \o t
    /\ i \in Nat /\ first \in Nat /\ last \in Nat /\ after \in Nat
    /\ i = Len(s) + 1 /\ first = i + 2 /\ last = i + 1 + Len(f) /\ after = last + 1

(* A field somewhere in a string is found by its position and length, and  *)
(* what follows it by its end.                                             *)
LEMMA FieldInside ==
    ASSUME NEW a, NEW s, NEW f, NEW t, NEW i, NEW first, NEW last, NEW after,
           FieldAt(a, s, f, t, i, first, last, after)
    PROVE  /\ a \in Seq(Nat) /\ Len(a) = last + Len(t)
           /\ Uint16(a, i) = Len(f)
           /\ SubSeq(a, first, last) = f
           /\ From(a, after) = t
  <1> USE DEF FieldAt
  <1> DEFINE g == Field(f)
             h == s \o g
             b == h \o t
             c == SubSeq(b, first, last)
  <1>20. f \in Seq(Nat) /\ Len(f) \in Nat /\ Len(f) <= maxField
    OBVIOUS
  <1>21. wireLen(Len(f)) = Len(f)
    BY <1>20, Prefix
  <1>1. /\ g \in Seq(Nat) /\ Len(g) = Len(f) + 2 /\ Uint16(g, 1) = Len(f)
        /\ \A n \in 1 .. Len(f) : g[n + 2] = f[n]
    BY <1>20, <1>21, FieldFacts
  <1>0. a = b
    OBVIOUS
  <1> HIDE DEF g
  <1>2. /\ h \in Seq(Nat) /\ Len(h) = Len(s) + Len(g)
        /\ \A n \in 1 .. Len(g) : h[Len(s) + n] = g[n]
    BY <1>1, ConcatFacts
  <1>3. From(h \o t, Len(h) + 1) = t
    BY <1>2, FromFacts
  <1> HIDE DEF h
  <1>4. /\ b \in Seq(Nat) /\ Len(b) = Len(h) + Len(t)
        /\ \A n \in 1 .. Len(h) : b[n] = h[n]
    BY <1>2, ConcatFacts
  <1>12. Len(s) \in Nat /\ Len(f) \in Nat /\ Len(t) \in Nat
    OBVIOUS
  <1>5. Len(b) = last + Len(t) /\ last = Len(h) /\ after = Len(h) + 1
    BY <1>1, <1>2, <1>4, <1>12
  <1>13. From(b, after) = t
    BY <1>3, <1>5
  <1> HIDE DEF b
  <1>6. ASSUME NEW n \in 1 .. Len(g)
        PROVE  b[Len(s) + n] = g[n]
    <2>1. Len(s) + n \in 1 .. Len(h)
      BY <1>1, <1>2
    <2> QED  BY <1>2, <1>4, <2>1
  <1>7. b[i] = g[1] /\ b[i + 1] = g[2]
    <2>1. 1 \in 1 .. Len(g) /\ 2 \in 1 .. Len(g)
      BY <1>1, <1>12
    <2>2. b[Len(s) + 1] = g[1] /\ b[Len(s) + 2] = g[2]
      BY <1>6, <2>1
    <2>3. i = Len(s) + 1 /\ i + 1 = Len(s) + 2
      BY <1>12
    <2> QED  BY <2>2, <2>3
  <1>8. Uint16(b, i) = Len(f)
    BY <1>1, <1>7 DEF Uint16
  <1>9. /\ c \in Seq(Nat) /\ Len(c) = Len(f)
        /\ \A n \in 1 .. Len(f) : c[n] = b[first + n - 1]
    <2>1. /\ first \in 1 .. Len(b) + 1 /\ last \in Nat /\ last <= Len(b)
          /\ (last - first) + 1 = Len(f) /\ first <= last + 1
      BY <1>5, <1>12
    <2>2. first \in Nat /\ Len(b) \in Nat /\ b \in Seq(Nat)
      BY <1>4
    <2> HIDE DEF FieldAt
    <2>3. c \in Seq(Nat)
      BY <2>1, <2>2
    <2>4. Len(c) = Len(f)
      BY <2>1, <2>2, <1>12
    <2>5. \A n \in 1 .. Len(f) : c[n] = b[first + n - 1]
      BY <2>1, <2>2, <1>12
    <2> QED  BY <2>3, <2>4, <2>5
  <1>10. ASSUME NEW n \in 1 .. Len(f)
         PROVE  c[n] = f[n]
    <2>1. n + 2 \in 1 .. Len(g) /\ first + n - 1 = Len(s) + (n + 2)
      BY <1>1, <1>12
    <2> QED  BY <1>1, <1>6, <1>9, <2>1
  <1>11. c = f
    <2> HIDE DEF c
    <2> QED  BY <1>9, <1>10, SeqEqual
  <1> QED  BY <1>0, <1>4, <1>5, <1>8, <1>11, <1>13

(* Both parts of a plaintext that fit their prefixes are read as they were *)
(* marshalled, unless there is no DNS message or the padding is not zero.  *)
LEMMA PlaintextFacts ==
    ASSUME NEW d \in Seq(Nat), NEW z \in Seq(Nat), Len(d) <= maxField, Len(z) <= maxField
    PROVE  ParsePlaintext(MarshalPlaintext([dns |-> d, padding |-> z]))
             = IF Len(d) = 0 \/ \E i \in 1 .. Len(z) : z[i] # 0
               THEN Malformed ELSE Read([dns |-> d, padding |-> z])
  <1> DEFINE t == Field(z)
             b == Field(d) \o t
             n == Len(d)
  <1>1. MarshalPlaintext([dns |-> d, padding |-> z]) = b
    BY DEF MarshalPlaintext
  <1>0. wireLen(Len(z)) = Len(z) /\ Len(z) \in Nat
    BY Prefix
  <1>2. /\ t \in Seq(Nat) /\ Len(t) = Len(z) + 2 /\ Uint16(t, 1) = Len(z)
        /\ \A i \in 1 .. Len(z) : t[i + 2] = z[i]
        /\ From(t, 3) = z
    BY <1>0, FieldFacts
  <1> HIDE DEF t
  <1> DEFINE s == <<>>
  <1>3. s \in Seq(Nat) /\ Len(s) = 0
    OBVIOUS
  <1>4. s \o Field(d) = Field(d)
    <2>1. Field(d) \in Seq(Nat)
      BY FieldFacts
    <2> QED  BY <2>1, ConcatEmptySeq
  <1>5. b = (s \o Field(d)) \o t
    BY <1>4
  <1> HIDE DEF b, s
  <1>7. n \in Nat
    OBVIOUS
  <1>6. /\ b \in Seq(Nat) /\ Len(b) = 2 + n + Len(t) /\ Uint16(b, 1) = n
        /\ SubSeq(b, 3, 2 + n) = d /\ From(b, 3 + n) = t
    <2> DEFINE last == 2 + n
               after == 3 + n
               i == 1
               first == 3
    <2>1. /\ last \in Nat /\ after \in Nat /\ i \in Nat /\ first \in Nat
          /\ i = Len(s) + 1 /\ first = i + 2 /\ last = i + 1 + Len(d) /\ after = last + 1
      BY <1>3, <1>7
    <2> HIDE DEF last, after, i, first, n
    <2>2. /\ b \in Seq(Nat) /\ Len(b) = last + Len(t) /\ Uint16(b, i) = Len(d)
          /\ SubSeq(b, first, last) = d /\ From(b, after) = t
      <3>1. FieldAt(b, s, d, t, i, first, last, after)
        BY <1>2, <1>3, <1>5, <2>1 DEF FieldAt
      <3> QED  BY <3>1, FieldInside
    <2> QED  BY <2>2 DEF last, after, i, first, n
  <1> HIDE DEF n
  <1>8. /\ Len(b) = 2 + n + Len(t) /\ Uint16(b, 1) = n
        /\ SubSeq(b, 3, 2 + n) = d /\ From(b, 3 + n) = t
    BY <1>6
  <1>9. (\E i \in 3 .. Len(t) : t[i] # 0) <=> (\E i \in 1 .. Len(z) : z[i] # 0)
    <2>1. ASSUME NEW i \in 3 .. Len(t), t[i] # 0
          PROVE  \E j \in 1 .. Len(z) : z[j] # 0
      <3>1. i - 2 \in 1 .. Len(z) /\ (i - 2) + 2 = i
        BY <1>2
      <3>2. z[i - 2] = t[i]
        BY <1>2, <3>1
      <3> QED  BY <2>1, <3>1, <3>2
    <2>2. ASSUME NEW j \in 1 .. Len(z), z[j] # 0
          PROVE  \E i \in 3 .. Len(t) : t[i] # 0
      <3>0. Len(t) = Len(z) + 2 /\ \A i \in 1 .. Len(z) : t[i + 2] = z[i]
        BY <1>2
      <3>1. j + 2 \in 3 .. Len(t)
        BY <1>0, <3>0
      <3>2. t[j + 2] = z[j]
        BY <3>0
      <3> QED  BY <2>2, <3>1, <3>2
    <2> QED  BY <2>1, <2>2
  <1>10. ParsePlaintext(b) =
           IF \/ Len(b) < 2 \/ n = 0 \/ n > Len(b) - 2
              \/ Len(t) < 2 \/ Uint16(t, 1) # Len(t) - 2
              \/ \E i \in 3 .. Len(t) : t[i] # 0
           THEN Malformed
           ELSE Read([dns |-> d, padding |-> From(t, 3)])
    BY <1>8 DEF ParsePlaintext
  <1>11. Len(t) \in Nat /\ Len(b) \in Nat /\ Len(z) \in Nat
    BY <1>2, <1>6
  <1>12. ~(Len(b) < 2) /\ ~(n > Len(b) - 2) /\ ~(Len(t) < 2) /\ Uint16(t, 1) = Len(t) - 2
    BY <1>2, <1>7, <1>8, <1>11
  <1> QED  BY <1>1, <1>2, <1>9, <1>10, <1>12 DEF n

Message(t, k, e) == MarshalMessage([type |-> t, keyId |-> k, encrypted |-> e])

(* Where the parts of a message are.                                       *)
LEMMA MessageLayout ==
    ASSUME NEW t \in Nat, NEW k \in Seq(Nat), NEW e \in Seq(Nat), Len(k) <= maxField
    PROVE  LET b == Message(t, k, e)
               n == Len(k)
           IN  /\ b \in Seq(Nat) /\ Len(b) = 3 + n + Len(Field(e))
               /\ b[1] = t /\ Uint16(b, 2) = n
               /\ SubSeq(b, 4, 3 + n) = k /\ From(b, 4 + n) = Field(e)
  <1> DEFINE f == Field(e)
             s == <<t>>
             b == (s \o Field(k)) \o f
             n == Len(k)
  <1>1. Message(t, k, e) = b
    BY DEF MarshalMessage, Message
  <1>2. f \in Seq(Nat)
    BY FieldFacts
  <1> HIDE DEF f
  <1>3. s \in Seq(Nat) /\ Len(s) = 1 /\ s[1] = t
    BY SingleFacts
  <1> HIDE DEF s
  <1>6. n \in Nat
    OBVIOUS
  <1>4. /\ b \in Seq(Nat) /\ Len(b) = 3 + n + Len(f) /\ Uint16(b, 2) = n
        /\ SubSeq(b, 4, 3 + n) = k /\ From(b, 4 + n) = f
    <2> DEFINE last == 3 + n
               after == 4 + n
               i == 2
               first == 4
    <2>1. /\ last \in Nat /\ after \in Nat /\ i \in Nat /\ first \in Nat
          /\ i = Len(s) + 1 /\ first = i + 2 /\ last = i + 1 + Len(k) /\ after = last + 1
      BY <1>3, <1>6
    <2>3. b = (s \o Field(k)) \o f
      OBVIOUS
    <2> HIDE DEF last, after, i, first, n, b
    <2>2. /\ b \in Seq(Nat) /\ Len(b) = last + Len(f) /\ Uint16(b, i) = Len(k)
          /\ SubSeq(b, first, last) = k /\ From(b, after) = f
      <3>1. FieldAt(b, s, k, f, i, first, last, after)
        BY <1>2, <1>3, <2>1, <2>3 DEF FieldAt
      <3> QED  BY <3>1, FieldInside
    <2> QED  BY <2>2 DEF last, after, i, first, n
  <1>5. b[1] = t
    <2> DEFINE g == Field(k)
    <2>1. g \in Seq(Nat)
      BY FieldFacts
    <2> HIDE DEF g
    <2>2. s \o g \in Seq(Nat) /\ Len(s \o g) = Len(s) + Len(g)
          /\ \A i \in 1 .. Len(s) : (s \o g)[i] = s[i]
      BY <1>3, <2>1, ConcatFacts
    <2> DEFINE h == s \o g
    <2> HIDE DEF h
    <2>3. h \in Seq(Nat) /\ 1 \in 1 .. Len(h) /\ h[1] = t
      BY <1>3, <2>1, <2>2 DEF h
    <2>4. (h \o f)[1] = t
      BY <1>2, <2>3, ConcatFacts
    <2> QED  BY <2>4 DEF h, g
  <1> HIDE DEF b, n
  <1> QED  BY <1>1, <1>4, <1>5 DEF f, n

(* A message whose sealed text fits its prefix is read as it was           *)
(* marshalled; one whose text does not fit is refused.                     *)
LEMMA MessageFacts ==
    ASSUME NEW t \in Nat, NEW k \in Seq(Nat), NEW e \in Seq(Nat),
           Len(k) <= maxField, Len(e) >= 1
    PROVE  ParseMessage(Message(t, k, e))
             = IF Len(e) > maxField THEN Malformed
               ELSE Read([type |-> t, keyId |-> k, encrypted |-> e])
  <1> DEFINE f == Field(e)
             b == Message(t, k, e)
             n == Len(k)
  <1>2. /\ f \in Seq(Nat) /\ Len(f) = Len(e) + 2 /\ Uint16(f, 1) = wireLen(Len(e))
        /\ From(f, 3) = e
    BY FieldFacts
  <1>7. /\ b \in Seq(Nat) /\ Len(b) = 3 + n + Len(f) /\ b[1] = t /\ Uint16(b, 2) = n
        /\ SubSeq(b, 4, 3 + n) = k /\ From(b, 4 + n) = f
    BY MessageLayout, SMTT(30)
  <1>6. n \in Nat
    OBVIOUS
  <1> HIDE DEF b, f, n
  <1>8. ParseMessage(b) =
          IF \/ Len(b) < 3 \/ n > Len(b) - 3
             \/ Len(f) < 2 \/ Uint16(f, 1) # Len(f) - 2 \/ Uint16(f, 1) = 0
          THEN Malformed
          ELSE Read([type |-> t, keyId |-> k, encrypted |-> From(f, 3)])
    BY <1>7 DEF ParseMessage
  <1>9. Len(b) \in Nat /\ Len(f) \in Nat /\ Len(e) \in Nat
    BY <1>2, <1>7
  <1>10. ~(Len(b) < 3) /\ ~(n > Len(b) - 3) /\ ~(Len(f) < 2) /\ Len(f) - 2 = Len(e)
    <2>1. Len(b) = 3 + n + Len(f) /\ Len(f) = Len(e) + 2
      BY <1>2, <1>7
    <2> QED  BY <1>6, <1>9, <2>1
  <1>11. CASE Len(e) > maxField
    <2>1. wireLen(Len(e)) # Len(e)
      BY <1>9, <1>11, Prefix
    <2> QED  BY <1>2, <1>8, <1>10, <1>11, <2>1 DEF b
  <1>12. CASE ~(Len(e) > maxField)
    <2>0. maxField \in Nat
      BY Prefix
    <2> HIDE DEF maxField
    <2>1. Len(e) <= maxField
      BY <1>9, <1>12, <2>0
    <2>2. wireLen(Len(e)) = Len(e) /\ Len(e) # 0
      BY <1>9, <2>1, Prefix
    <2> QED  BY <1>2, <1>8, <1>10, <1>12, <2>2 DEF b
  <1> QED  BY <1>11, <1>12

(* A message cut short is refused, or, when its text did not fit the       *)
(* prefix, read with as much text as the prefix says.                      *)
CutsRefused(b, t, k, e) ==
    \A n \in 0 .. Len(b) - 1 :
        \/ ParseMessage(SubSeq(b, 1, n)) = Malformed
        \/ /\ Len(e) > maxField
           /\ \E c \in Seq(Nat) :
                 /\ Len(c) = maxField /\ c[1] = e[1]
                 /\ ParseMessage(SubSeq(b, 1, n))
                      = Read([type |-> t, keyId |-> k, encrypted |-> c])

LEMMA CutFacts ==
    ASSUME NEW t \in Nat, NEW k \in Seq(Nat), NEW e \in Seq(Nat), Len(k) = 1,
           NEW b, b = Message(t, k, e)
    PROVE  b \in Seq(Nat) /\ Len(b) = 6 + Len(e) /\ CutsRefused(b, t, k, e)
  <1> DEFINE f == Field(e)
  <1>2. /\ f \in Seq(Nat) /\ Len(f) = Len(e) + 2 /\ Uint16(f, 1) = wireLen(Len(e))
    BY FieldFacts
  <1>4. maxField \in Nat /\ maxField >= 3 /\ Len(e) \in Nat
    BY Prefix
  <1> HIDE DEF maxField
  <1>10. Len(k) <= maxField
    BY <1>4
  <1>5. /\ b \in Seq(Nat) /\ Len(b) = 4 + Len(f) /\ Uint16(b, 2) = 1
        /\ SubSeq(b, 4, 4) = k /\ From(b, 5) = f
    <2> DEFINE n == Len(k)
    <2>1. n = 1 /\ 3 + n = 4 /\ 4 + n = 5
      OBVIOUS
    <2>2. /\ b \in Seq(Nat) /\ Len(b) = 3 + n + Len(f) /\ Uint16(b, 2) = n
          /\ SubSeq(b, 4, 3 + n) = k /\ From(b, 4 + n) = f
      <3>1. b \in Seq(Nat) /\ Len(b) = 3 + n + Len(f) /\ Uint16(b, 2) = n
        BY <1>10, MessageLayout, ZenonT(60)
      <3>2. SubSeq(b, 4, 3 + n) = k
        BY <1>10, MessageLayout, ZenonT(60)
      <3>3. From(b, 4 + n) = f
        BY <1>10, MessageLayout, ZenonT(60)
      <3> QED  BY <3>1, <3>2, <3>3
    <2> HIDE DEF n
    <2> QED  BY <2>1, <2>2
  <1>6. b[1] = t
    BY <1>10, MessageLayout, ZenonT(60)
  <1> HIDE DEF f
  <1>7. Len(b) = 6 + Len(e) /\ Len(b) \in Nat
    BY <1>2, <1>4, <1>5
  <1>11. 1 <= Len(e) => f[3] = e[1]
    BY FieldFacts DEF f
  <1>8. /\ Uint16(b, 5) = wireLen(Len(e)) /\ b[4] = k[1]
        /\ 1 <= Len(e) => b[7] = e[1]
    <2>1. /\ f[1] = b[5] /\ f[2] = b[6]
          /\ 1 <= Len(e) => f[3] = b[7]
      <3>1. f = SubSeq(b, 5, Len(b))
        BY <1>5 DEF From
      <3>2. f[1] = b[5]
        BY <1>4, <1>5, <1>7, <3>1
      <3>3. f[2] = b[6]
        BY <1>4, <1>5, <1>7, <3>1
      <3>4. 1 <= Len(e) => f[3] = b[7]
        BY <1>4, <1>5, <1>7, <3>1
      <3> QED  BY <3>2, <3>3, <3>4
    <2>2. SubSeq(b, 4, 4)[1] = b[4]
      BY <1>4, <1>5, <1>7
    <2>3. Uint16(b, 5) = Uint16(f, 1)
      BY <2>1 DEF Uint16
    <2>4. b[4] = k[1]
      BY <1>5, <2>2
    <2>5. 1 <= Len(e) => b[7] = e[1]
      BY <1>11, <2>1
    <2> QED  BY <1>2, <2>3, <2>4, <2>5
  <1>9. ASSUME NEW n \in 0 .. Len(b) - 1, ParseMessage(SubSeq(b, 1, n)) # Malformed
        PROVE  /\ Len(e) > maxField
               /\ \E c \in Seq(Nat) :
                     /\ Len(c) = maxField /\ c[1] = e[1]
                     /\ ParseMessage(SubSeq(b, 1, n))
                          = Read([type |-> t, keyId |-> k, encrypted |-> c])
    <2> DEFINE cut == SubSeq(b, 1, n)
               klen == Uint16(cut, 2)
               rest == From(cut, 4 + klen)
               elen == Uint16(rest, 1)
    <2>1. n \in Nat /\ n < Len(b) /\ n < 6 + Len(e)
      BY <1>7
    <2>2. cut \in Seq(Nat) /\ Len(cut) = n /\ \A i \in 1 .. n : cut[i] = b[i]
      <3> DEFINE first == 1
      <3>1. CutOut(cut, b, first, n, n)
        BY <1>5, <1>7, <2>1 DEF CutOut
      <3> HIDE DEF first, cut
      <3>2. /\ cut \in Seq(Nat) /\ Len(cut) = n
            /\ \A x \in 1 .. n : cut[x] = b[(first + x) - 1]
        BY <3>1, SubSeqFacts
      <3>3. \A x \in 1 .. n : (first + x) - 1 = x
        BY <2>1 DEF first
      <3> QED  BY <3>2, <3>3
    <2>3. ParseMessage(cut) =
            IF \/ Len(cut) < 3 \/ klen > Len(cut) - 3
               \/ Len(rest) < 2 \/ elen # Len(rest) - 2 \/ elen = 0
            THEN Malformed
            ELSE Read([type |-> cut[1], keyId |-> SubSeq(cut, 4, 3 + klen),
                       encrypted |-> From(rest, 3)])
      BY DEF ParseMessage
    <2> HIDE DEF cut, klen, rest, elen
    <2>4. /\ ~(Len(cut) < 3) /\ ~(klen > Len(cut) - 3)
          /\ ~(Len(rest) < 2) /\ elen = Len(rest) - 2 /\ elen # 0
          /\ ParseMessage(cut) = Read([type |-> cut[1], keyId |-> SubSeq(cut, 4, 3 + klen),
                                      encrypted |-> From(rest, 3)])
      BY <1>9, <2>3 DEF cut
    <2>5. n >= 3 /\ cut[1] = t /\ klen = 1
      <3>1. n >= 3
        BY <2>1, <2>2, <2>4
      <3>2. cut[1] = b[1] /\ cut[2] = b[2] /\ cut[3] = b[3]
        BY <2>1, <2>2, <3>1
      <3> QED  BY <1>5, <1>6, <3>1, <3>2 DEF klen, Uint16
    <2>6. n >= 4
      BY <2>1, <2>2, <2>4, <2>5
    <2>7. /\ rest = SubSeq(cut, 5, n)
      BY <2>2, <2>5 DEF rest, From
    <2>8. /\ rest \in Seq(Nat) /\ Len(rest) = n - 4
          /\ \A i \in 1 .. n - 4 : rest[i] = cut[i + 4]
      <3> DEFINE first == 5
                 len == n - 4
      <3>1. CutOut(rest, cut, first, n, len) /\ len \in Nat
        BY <2>1, <2>2, <2>6, <2>7 DEF CutOut
      <3> HIDE DEF first, len
      <3>2. /\ rest \in Seq(Nat) /\ Len(rest) = len
            /\ \A x \in 1 .. len : rest[x] = cut[(first + x) - 1]
        BY <3>1, SubSeqFacts
      <3>3. \A x \in 1 .. len : (first + x) - 1 = x + 4
        BY <3>1 DEF first
      <3> QED  BY <3>2, <3>3 DEF first, len
    <2>9. n >= 6
      BY <2>1, <2>4, <2>6, <2>8
    <2>10. rest[1] = b[5] /\ rest[2] = b[6]
      <3>1. rest[1] = cut[5] /\ rest[2] = cut[6]
        BY <2>1, <2>8, <2>9
      <3>2. 5 \in 1 .. n /\ 6 \in 1 .. n
        BY <2>1, <2>9
      <3>3. cut[5] = b[5] /\ cut[6] = b[6]
        BY <2>2, <3>2
      <3> QED  BY <3>1, <3>3
    <2>11. elen = wireLen(Len(e))
      BY <1>8, <2>10 DEF elen, Uint16
    <2>12. wireLen(Len(e)) = n - 6 /\ n - 6 < Len(e)
      <3>1. Len(rest) - 2 = n - 6
        BY <2>1, <2>8, <2>9
      <3>2. n - 6 < Len(e)
        BY <1>4, <2>1
      <3> QED  BY <2>4, <2>11, <3>1, <3>2
    <2>13. Len(e) > maxField /\ n - 6 = maxField
      BY <1>4, <2>1, <2>9, <2>12 DEF wireLen
    <2>14. SubSeq(cut, 4, 3 + klen) = k
      <3>1. SubSeq(cut, 4, 3 + klen) = SubSeq(cut, 4, 4)
        BY <2>5
      <3> DEFINE c == SubSeq(cut, 4, 4)
                 first == 4
                 one == 1
      <3>0. CutOut(c, cut, first, 4, one)
        BY <2>1, <2>2, <2>6 DEF CutOut
      <3>5. (first + 1) - 1 = 4 /\ 1 \in 1 .. one /\ one = 1
        OBVIOUS
      <3> HIDE DEF first, c, one
      <3>6. c \in Seq(Nat) /\ Len(c) = one /\ \A x \in 1 .. one : c[x] = cut[(first + x) - 1]
        BY <3>0, SubSeqFacts
      <3>7. c[1] = cut[(first + 1) - 1]
        BY <3>5, <3>6
      <3>2. c \in Seq(Nat) /\ Len(c) = 1 /\ c[1] = cut[4]
        BY <3>5, <3>6, <3>7
      <3>3. cut[4] = k[1]
        BY <1>8, <2>1, <2>2, <2>6
      <3>4. c = k
        BY <3>2, <3>3, SeqEqual
      <3> QED  BY <3>1, <3>4 DEF c
    <2> DEFINE c == From(rest, 3)
    <2>15. c \in Seq(Nat) /\ Len(c) = maxField /\ c[1] = rest[3]
      <3>1. Len(rest) \in Nat /\ maxField = (Len(rest) - 3) + 1
        BY <1>4, <2>1, <2>8, <2>9, <2>13
      <3>2. CutOut(c, rest, 3, Len(rest), maxField)
        BY <1>4, <2>8, <3>1 DEF CutOut, From
      <3> DEFINE first == 3
      <3>3. CutOut(c, rest, first, Len(rest), maxField)
        BY <3>2
      <3> HIDE DEF c, first
      <3>4. /\ c \in Seq(Nat) /\ Len(c) = maxField
            /\ \A x \in 1 .. maxField : c[x] = rest[(first + x) - 1]
        BY <3>3, SubSeqFacts
      <3>5. c[1] = rest[(first + 1) - 1]
        <4>1. 1 \in 1 .. maxField
          BY <1>4
        <4> QED  BY <3>4, <4>1
      <3>6. (first + 1) - 1 = 3
        BY DEF first
      <3> QED  BY <3>4, <3>5, <3>6
    <2> HIDE DEF c
    <2>16. ParseMessage(cut) = Read([type |-> t, keyId |-> k, encrypted |-> c])
      BY <2>4, <2>5, <2>14 DEF c
    <2>17. rest[3] = e[1]
      <3>1. n >= 9
        BY <1>4, <2>1, <2>13
      <3>4. 3 \in 1 .. n - 4 /\ 3 + 4 = 7 /\ 7 \in 1 .. n
        BY <2>1, <3>1
      <3>5. rest[3] = cut[3 + 4]
        BY <2>8, <3>4
      <3>6. cut[7] = b[7]
        BY <2>2, <3>4
      <3>2. rest[3] = b[7]
        BY <3>4, <3>5, <3>6
      <3>3. 1 <= Len(e)
        BY <1>4, <2>13
      <3> QED  BY <1>8, <3>2, <3>3
    <2> QED  BY <2>13, <2>15, <2>16, <2>17 DEF cut
  <1> QED  BY <1>5, <1>7, <1>9 DEF CutsRefused

-----------------------------------------------------------------------------
(* The tables of sealed texts only grow.                                   *)
IsSeq(s) == s \in Seq({s[i] : i \in DOMAIN s})

LEMMA AppendFacts ==
    ASSUME NEW s, IsSeq(s), NEW e
    PROVE  /\ IsSeq(Append(s, e))
           /\ Len(s) \in Nat /\ DOMAIN s = 1 .. Len(s)
           /\ Len(Append(s, e)) = Len(s) + 1 /\ DOMAIN Append(s, e) = 1 .. Len(s) + 1
           /\ \A i \in DOMAIN s : Append(s, e)[i] = s[i]
           /\ Append(s, e)[Len(s) + 1] = e
  <1> DEFINE S == {s[i] : i \in DOMAIN s}
             a == Append(s, e)
             A == {a[i] : i \in DOMAIN a}
  <1>1. s \in Seq(S)
    BY DEF IsSeq
  <1>2. s \in Seq(S \cup {e})
    <2> HIDE DEF S
    <2> QED  BY <1>1
  <1> HIDE DEF S
  <1>3. Len(s) \in Nat /\ DOMAIN s = 1 .. Len(s)
    BY <1>1
  <1>4. /\ Len(a) = Len(s) + 1 /\ DOMAIN a = 1 .. Len(s) + 1
        /\ \A i \in 1 .. Len(s) : a[i] = s[i]
        /\ a[Len(s) + 1] = e
        /\ a \in Seq(S \cup {e})
    BY <1>2
  <1> HIDE DEF a
  <1>5. a \in Seq(A)
    <2> HIDE DEF A
    <2>1. \A i \in 1 .. Len(a) : a[i] \in A
      BY <1>3, <1>4 DEF A
    <2>2. a = [i \in 1 .. Len(a) |-> a[i]] /\ Len(a) \in Nat
      BY <1>3, <1>4
    <2>3. a \in [1 .. Len(a) -> A]
      BY <2>1, <2>2
    <2> QED  BY <2>2, <2>3
  <1> QED  BY <1>3, <1>4, <1>5 DEF a, A, IsSeq

LEMMA ZerosFacts ==
    ASSUME NEW n \in Nat
    PROVE  Zeros(n) \in Seq(Nat) /\ Len(Zeros(n)) = n /\ \A i \in 1 .. n : Zeros(n)[i] = 0
  BY DEF Zeros

-----------------------------------------------------------------------------
(* What seals and opens.                                                   *)
Plaintext(dns, pad) == MarshalPlaintext([dns |-> dns, padding |-> Zeros(pad)])

Asked(i) == ParsePlaintext(queries[i].plain).val.dns

(* The padding checkField passes.                                          *)
PaddingOK == {pad \in Padding : checkField(pad)}

(* A query and a response that asks for and answers a name are opened as   *)
(* they were sealed; a response without a DNS message is malformed.        *)
LEMMA NamePlaintext ==
    ASSUME NEW n \in Name, NEW pad \in PaddingOK
    PROVE  /\ Plaintext(<<n>>, pad) \in Seq(Nat)
           /\ ParsePlaintext(Plaintext(<<n>>, pad))
                 = Read([dns |-> <<n>>, padding |-> Zeros(pad)])
           /\ ParsePlaintext(Plaintext(<<n>>, pad)).err = None
           /\ ParsePlaintext(Plaintext(<<n>>, pad)).val.dns = <<n>>
  <1> DEFINE d == <<n>>
             z == Zeros(pad)
  <1>1. pad \in Nat /\ pad <= maxField
    BY ByteAssumption DEF PaddingOK, checkField
  <1>2. d \in Seq(Nat) /\ Len(d) = 1
    BY ByteAssumption, SingleFacts
  <1>3. z \in Seq(Nat) /\ Len(z) = pad /\ ~ \E i \in 1 .. Len(z) : z[i] # 0
    BY <1>1, ZerosFacts
  <1> HIDE DEF d, z
  <1>4. 1 <= maxField
    <2>1. maxField \in Nat /\ maxField >= 3
      BY Prefix
    <2> HIDE DEF maxField
    <2> QED  BY <2>1
  <1>5. Field(d) \o Field(z) \in Seq(Nat)
    <2> DEFINE f == Field(d)
               g == Field(z)
    <2>1. f \in Seq(Nat) /\ g \in Seq(Nat)
      BY <1>2, <1>3, FieldFacts
    <2> HIDE DEF f, g
    <2>2. f \o g \in Seq(Nat)
      BY <2>1
    <2> QED  BY <2>2 DEF f, g
  <1>6. ParsePlaintext(MarshalPlaintext([dns |-> d, padding |-> z]))
          = Read([dns |-> d, padding |-> z])
    <2>1. Len(d) <= maxField /\ Len(z) <= maxField /\ Len(d) # 0
      BY <1>1, <1>2, <1>3, <1>4
    <2> QED  BY <1>2, <1>3, <2>1, PlaintextFacts
  <1>7. ParsePlaintext(Plaintext(d, pad)) = Read([dns |-> d, padding |-> z])
    BY <1>6 DEF Plaintext, z
  <1>8. /\ ParsePlaintext(Plaintext(d, pad)).err = None
        /\ ParsePlaintext(Plaintext(d, pad)).val.dns = d
    BY <1>7 DEF Read
  <1> QED  BY <1>5, <1>7, <1>8 DEF Plaintext, MarshalPlaintext, d, z

LEMMA EmptyPlaintext ==
    ASSUME NEW pad \in PaddingOK
    PROVE  /\ Plaintext(<<>>, pad) \in Seq(Nat)
           /\ ParsePlaintext(Plaintext(<<>>, pad)) = Malformed
  <1> DEFINE d == <<>>
             z == Zeros(pad)
  <1>1. pad \in Nat /\ pad <= maxField
    BY ByteAssumption DEF PaddingOK, checkField
  <1>2. d \in Seq(Nat) /\ Len(d) = 0
    OBVIOUS
  <1>3. z \in Seq(Nat) /\ Len(z) = pad
    BY <1>1, ZerosFacts
  <1> HIDE DEF d, z
  <1>4. maxField \in Nat
    BY Prefix
  <1>5. Field(d) \o Field(z) \in Seq(Nat)
    <2> DEFINE f == Field(d)
               g == Field(z)
    <2>1. f \in Seq(Nat) /\ g \in Seq(Nat)
      BY <1>2, <1>3, FieldFacts
    <2> HIDE DEF f, g
    <2>2. f \o g \in Seq(Nat)
      BY <2>1
    <2> QED  BY <2>2 DEF f, g
  <1>6. ParsePlaintext(MarshalPlaintext([dns |-> d, padding |-> z])) = Malformed
    <2>1. Len(d) <= maxField /\ Len(z) <= maxField
      <3> HIDE DEF maxField
      <3> QED  BY <1>1, <1>2, <1>3, <1>4
    <2> QED  BY <1>2, <1>3, <2>1, PlaintextFacts
  <1> QED  BY <1>5, <1>6 DEF Plaintext, MarshalPlaintext, d, z

-----------------------------------------------------------------------------
(* The sealed texts say whose they are: a query holds a name, a response   *)
(* the secrets of its query and the name that one asks for, or none.       *)
TablesInv == IsSeq(queries) /\ IsSeq(responses)

NamesInv == \A i \in DOMAIN queries :
               \E n \in Name, pad \in PaddingOK : queries[i].plain = Plaintext(<<n>>, pad)

ContextInv == /\ pending \subseteq DOMAIN queries
              /\ \A w \in work : w.query \in DOMAIN queries /\ w.dns = Asked(w.query)

AnswerInv ==
    \A j \in DOMAIN responses :
        LET q == responses[j].query
        IN  /\ q \in DOMAIN queries /\ responses[j].secrets = secrets(q)
            /\ \E pad \in PaddingOK, dns \in {Asked(q), <<>>} :
                   responses[j].plain = Plaintext(dns, pad)

AcceptedInv ==
    \A a \in accepted : /\ a.query \in DOMAIN queries /\ a.response \in DOMAIN responses
                        /\ responses[a.response].query = a.query
                        /\ a.dns = Asked(a.query)

ExchangeInv == TablesInv /\ NamesInv /\ ContextInv /\ AnswerInv /\ AcceptedInv

(* What the target takes in is a query someone sealed.                     *)
LEMMA ReceiveFacts ==
    ASSUME NEW k, NEW b, Receive(k, b).err = None
    PROVE  LET m == ParseMessage(b)
           IN  /\ m.err = None /\ m.val.type = MessageTypeQuery
               /\ \E i \in DOMAIN queries :
                      /\ Opens(k, m.val, i)
                      /\ Receive(k, b).val = [query |-> i, dns |-> Asked(i)]
  <1> DEFINE m == ParseMessage(b)
  <1>1. Receive(k, b) = IF m.err # None THEN m ELSE Decrypt(k, m.val)
    BY DEF Receive
  <1> HIDE DEF m
  <1>2. m.err = None /\ Receive(k, b) = Decrypt(k, m.val)
    BY <1>1
  <1> DEFINE v == m.val
             opened == {i \in DOMAIN queries : Opens(k, v, i)}
             i == CHOOSE i \in opened : TRUE
             p == ParsePlaintext(queries[i].plain)
  <1> HIDE DEF v
  <1>3. Decrypt(k, v) =
          IF v.type # MessageTypeQuery THEN Malformed
          ELSE IF v.keyId # KeyID(Contents(k)) THEN [err |-> "keyid"]
          ELSE IF Len(v.encrypted) <= 1 THEN Malformed
          ELSE IF opened = {} THEN [err |-> "open"]
          ELSE IF p.err # None THEN p ELSE Read([query |-> i, dns |-> p.val.dns])
    BY DEF Decrypt
  <1>4. Decrypt(k, v).err = None
    BY <1>2 DEF v
  <1>5. /\ [err |-> "keyid"].err # None /\ [err |-> "open"].err # None
        /\ Malformed.err # None
    BY NoneAssumption DEF Malformed
  <1>6. i \in opened \/ opened = {}
    OBVIOUS
  <1> HIDE DEF opened, i, p
  <1>7. /\ v.type = MessageTypeQuery /\ opened # {} /\ p.err = None
        /\ Decrypt(k, v) = Read([query |-> i, dns |-> p.val.dns])
    BY <1>3, <1>4, <1>5
  <1>8. i \in DOMAIN queries /\ Opens(k, v, i)
    BY <1>6, <1>7 DEF opened
  <1>9. Decrypt(k, v).val = [query |-> i, dns |-> Asked(i)]
    BY <1>7 DEF Read, Asked, p
  <1> QED  BY <1>2, <1>7, <1>8, <1>9 DEF v, m

(* A query is kept as it was, and so is what was made from it.             *)
LEMMA QueryKept ==
    ASSUME NEW c, NEW n \in Name, NEW pad \in Padding, IsSeq(queries),
           EncryptQuery(c, n, pad)
    PROVE  /\ IsSeq(queries') /\ pad \in PaddingOK
           /\ DOMAIN queries \subseteq DOMAIN queries'
           /\ DOMAIN queries' = DOMAIN queries \cup {Len(queries) + 1}
           /\ \A i \in DOMAIN queries :
                  queries'[i] = queries[i] /\ Asked(i)' = Asked(i) /\ secrets(i)' = secrets(i)
           /\ queries'[Len(queries) + 1]
                 = [pub |-> config[c].pub, aad |-> KeyID(config[c]),
                    plain |-> Plaintext(<<n>>, pad)]
  <1> DEFINE e == [pub |-> config[c].pub, aad |-> KeyID(config[c]),
                   plain |-> Plaintext(<<n>>, pad)]
  <1>1. queries' = Append(queries, e) /\ pad \in PaddingOK
    BY DEF EncryptQuery, Plaintext, PaddingOK
  <1> HIDE DEF e
  <1>2. /\ IsSeq(queries') /\ Len(queries) \in Nat /\ DOMAIN queries = 1 .. Len(queries)
        /\ DOMAIN queries' = 1 .. Len(queries) + 1
        /\ \A i \in DOMAIN queries : queries'[i] = queries[i]
        /\ queries'[Len(queries) + 1] = e
    BY <1>1, AppendFacts
  <1>3. DOMAIN queries' = DOMAIN queries \cup {Len(queries) + 1}
    BY <1>2
  <1>4. ASSUME NEW i \in DOMAIN queries
        PROVE  Asked(i)' = Asked(i) /\ secrets(i)' = secrets(i)
    BY <1>2 DEF Asked, secrets
  <1> QED  BY <1>1, <1>2, <1>3, <1>4 DEF e

(* What the client with query i accepts was sealed for it.                 *)
LEMMA OpenFacts ==
    ASSUME ExchangeInv, NEW i \in DOMAIN queries, NEW m, OpenResponse(i, m).err = None
    PROVE  LET r == OpenResponse(i, m).val
           IN  /\ r.response \in DOMAIN responses
               /\ responses[r.response].query = i
               /\ r.dns = Asked(i)
  <1> DEFINE opened == {j \in DOMAIN responses :
                          /\ m.keyId = <<Nonce(j)>>
                          /\ m.encrypted = Ciphertext(SealedResponse(j), responses[j].plain)
                          /\ responses[j].secrets = secrets(i)}
             j == CHOOSE j \in opened : TRUE
             p == ParsePlaintext(responses[j].plain)
  <1>1. OpenResponse(i, m) =
          IF m.type # MessageTypeResponse \/ Len(m.keyId) # 1 THEN Malformed
          ELSE IF opened = {} THEN [err |-> "open"]
          ELSE IF p.err # None THEN p ELSE Read([response |-> j, dns |-> p.val.dns])
    BY DEF OpenResponse
  <1>2. [err |-> "open"].err # None /\ Malformed.err # None
    BY NoneAssumption DEF Malformed
  <1>3. j \in opened \/ opened = {}
    OBVIOUS
  <1> HIDE DEF opened, j, p
  <1>4. /\ opened # {} /\ p.err = None
        /\ OpenResponse(i, m) = Read([response |-> j, dns |-> p.val.dns])
    BY <1>1, <1>2
  <1>5. j \in DOMAIN responses /\ responses[j].secrets = secrets(i)
    BY <1>3, <1>4 DEF opened
  <1> DEFINE q == responses[j].query
  <1>6. /\ q \in DOMAIN queries /\ responses[j].secrets = secrets(q)
        /\ \E pad \in PaddingOK, dns \in {Asked(q), <<>>} :
               responses[j].plain = Plaintext(dns, pad)
    BY <1>5 DEF ExchangeInv, AnswerInv
  <1>7. q = i
    <2>1. secrets(q) = secrets(i)
      BY <1>5, <1>6
    <2>2. Enc(q) = Enc(i)
      BY <2>1 DEF secrets
    <2>3. q \in Nat /\ i \in Nat
      <3>1. queries \in Seq({queries[x] : x \in DOMAIN queries})
        BY DEF ExchangeInv, TablesInv, IsSeq
      <3>2. DOMAIN queries \subseteq Nat
        <4> DEFINE S == {queries[x] : x \in DOMAIN queries}
        <4> HIDE DEF S
        <4> QED  BY <3>1 DEF S
      <3> QED  BY <3>2, <1>6
    <2> HIDE DEF q
    <2> QED  BY <2>2, <2>3 DEF Enc
  <1>8. p.val.dns = Asked(i)
    <2>1. PICK n \in Name, pn \in PaddingOK : queries[i].plain = Plaintext(<<n>>, pn)
      BY DEF ExchangeInv, NamesInv
    <2>2. Asked(i) = <<n>>
      BY <2>1, NamePlaintext DEF Asked
    <2>3. PICK pad \in PaddingOK, dns \in {<<n>>, <<>>} :
              responses[j].plain = Plaintext(dns, pad)
      BY <1>6, <1>7, <2>2
    <2>4. CASE dns = <<>>
      BY <1>2, <1>4, <2>3, <2>4, EmptyPlaintext DEF p
    <2>5. CASE dns = <<n>>
      <3>1. ParsePlaintext(responses[j].plain).val.dns = <<n>>
        BY <2>3, <2>5, NamePlaintext
      <3> QED  BY <2>2, <3>1 DEF p
    <2>6. dns = <<>> \/ dns = <<n>>
      BY <2>3
    <2> HIDE DEF p
    <2> QED  BY <2>4, <2>5, <2>6
  <1> QED  BY <1>4, <1>5, <1>7, <1>8 DEF Read

LEMMA SameQueries ==
    ASSUME queries' = queries
    PROVE  \A i : Asked(i)' = Asked(i) /\ secrets(i)' = secrets(i)
  BY DEF Asked, secrets

LEMMA QueryKeepsExchange ==
    ASSUME ExchangeInv, NEW c, NEW n \in Name, NEW pad \in Padding, EncryptQuery(c, n, pad)
    PROVE  ExchangeInv'
  <1> DEFINE new == Len(queries) + 1
  <1>0. IsSeq(queries)
    BY DEF ExchangeInv, TablesInv
  <1>8. queries'[new].plain = Plaintext(<<n>>, pad)
    <2>1. queries'[new] = [pub |-> config[c].pub, aad |-> KeyID(config[c]),
                           plain |-> Plaintext(<<n>>, pad)]
      BY <1>0, QueryKept
    <2> QED  BY <2>1
  <1>1. /\ IsSeq(queries') /\ pad \in PaddingOK
        /\ DOMAIN queries \subseteq DOMAIN queries' /\ DOMAIN queries' = DOMAIN queries \cup {new}
        /\ \A i \in DOMAIN queries :
               queries'[i] = queries[i] /\ Asked(i)' = Asked(i) /\ secrets(i)' = secrets(i)
    BY <1>0, QueryKept
  <1> HIDE DEF new
  <1>2. /\ pending' = pending \cup {new}
        /\ accepted' = accepted /\ work' = work /\ responses' = responses
    BY DEF EncryptQuery, new
  <1>3. TablesInv'
    BY <1>1, <1>2 DEF ExchangeInv, TablesInv
  <1>4. NamesInv'
    <2> SUFFICES ASSUME NEW i \in DOMAIN queries'
                 PROVE  \E x \in Name, y \in PaddingOK : queries'[i].plain = Plaintext(<<x>>, y)
      BY DEF NamesInv, PaddingOK, checkField, Plaintext
    <2>1. CASE i \in DOMAIN queries
      BY <1>1, <2>1 DEF ExchangeInv, NamesInv
    <2>2. CASE i = new
      BY <1>1, <1>8, <2>2
    <2> QED  BY <1>1, <2>1, <2>2
  <1>5. ContextInv'
    BY <1>1, <1>2 DEF ExchangeInv, ContextInv
  <1>6. AnswerInv'
    <2>1. ASSUME NEW j \in DOMAIN responses, NEW q \in DOMAIN queries, responses[j].query = q
          PROVE  /\ q \in DOMAIN queries' /\ responses[j].secrets = secrets(q)'
                 /\ \E y \in PaddingOK, x \in {Asked(q)', <<>>} :
                        responses[j].plain = Plaintext(x, y)
      <3>1. /\ responses[j].secrets = secrets(q)
            /\ \E y \in PaddingOK, x \in {Asked(q), <<>>} :
                   responses[j].plain = Plaintext(x, y)
        BY <2>1 DEF ExchangeInv, AnswerInv
      <3>2. Asked(q)' = Asked(q) /\ secrets(q)' = secrets(q) /\ q \in DOMAIN queries'
        BY <1>1, <2>1
      <3> QED  BY <3>1, <3>2
    <2>2. \A j \in DOMAIN responses : responses[j].query \in DOMAIN queries
      BY DEF ExchangeInv, AnswerInv
    <2> QED  BY <1>2, <2>1, <2>2 DEF AnswerInv, secrets, Asked
  <1>7. AcceptedInv'
    <2> SUFFICES ASSUME NEW a \in accepted
                 PROVE  /\ a.query \in DOMAIN queries' /\ a.response \in DOMAIN responses
                        /\ responses[a.response].query = a.query
                        /\ a.dns = Asked(a.query)'
      BY <1>2 DEF AcceptedInv
    <2> QED  BY <1>1 DEF ExchangeInv, AcceptedInv
  <1> QED  BY <1>3, <1>4, <1>5, <1>6, <1>7 DEF ExchangeInv

LEMMA AnswerKeepsExchange ==
    ASSUME ExchangeInv, NEW w \in work, NEW pad \in Padding, NEW dns \in {w.dns, <<>>},
           EncryptResponse(w, dns, pad)
    PROVE  ExchangeInv'
  <1> DEFINE new == Len(responses) + 1
             e == [secrets |-> secrets(w.query), query |-> w.query,
                   plain |-> Plaintext(dns, pad)]
  <1>1. /\ pad \in PaddingOK /\ responses' = Append(responses, e) /\ work' \subseteq work
        /\ queries' = queries /\ pending' = pending /\ accepted' = accepted
    BY DEF EncryptResponse, Plaintext, PaddingOK
  <1> HIDE DEF e
  <1>2. /\ IsSeq(responses') /\ Len(responses) \in Nat
        /\ DOMAIN responses = 1 .. Len(responses)
        /\ DOMAIN responses' = 1 .. new
        /\ \A j \in DOMAIN responses : responses'[j] = responses[j]
        /\ responses'[new] = e
    BY <1>1, AppendFacts DEF ExchangeInv, TablesInv
  <1>3. DOMAIN responses' = DOMAIN responses \cup {new}
    BY <1>2
  <1> HIDE DEF new
  <1>4. \A i : Asked(i)' = Asked(i) /\ secrets(i)' = secrets(i)
    BY <1>1, SameQueries
  <1>5. /\ e.query = w.query /\ e.secrets = secrets(w.query)
        /\ e.plain = Plaintext(dns, pad)
    BY DEF e
  <1>6. w.query \in DOMAIN queries /\ dns \in {Asked(w.query), <<>>}
    BY DEF ExchangeInv, ContextInv
  <1>7. TablesInv'
    BY <1>1, <1>2 DEF ExchangeInv, TablesInv
  <1>8. NamesInv'
    BY <1>1 DEF ExchangeInv, NamesInv, PaddingOK, checkField, Plaintext
  <1>9. ContextInv'
    BY <1>1, <1>4 DEF ExchangeInv, ContextInv
  <1>10. AnswerInv'
    <2> DEFINE Answers(r) ==
                 /\ r.query \in DOMAIN queries /\ r.secrets = secrets(r.query)
                 /\ \E y \in PaddingOK, x \in {Asked(r.query), <<>>} :
                        r.plain = Plaintext(x, y)
    <2>1. ASSUME NEW j \in DOMAIN responses'
          PROVE  Answers(responses'[j])
      <3>1. CASE j \in DOMAIN responses
        BY <1>2, <3>1 DEF ExchangeInv, AnswerInv
      <3>2. CASE j = new
        BY <1>1, <1>2, <1>5, <1>6, <3>2
      <3> QED  BY <1>3, <3>1, <3>2
    <2> QED  BY <1>1, <2>1 DEF AnswerInv, secrets, Asked
  <1>11. AcceptedInv'
    BY <1>1, <1>2, <1>3, <1>4 DEF ExchangeInv, AcceptedInv
  <1> QED  BY <1>7, <1>8, <1>9, <1>10, <1>11 DEF ExchangeInv

LEMMA ExchangeStep ==
    ASSUME ExchangeInv, [Next]_vars
    PROVE  ExchangeInv'
  <1> DEFINE SameTables == queries' = queries /\ responses' = responses
  <1>0. ASSUME SameTables, ContextInv', AcceptedInv'
        PROVE  ExchangeInv'
    <2>1. \A i : Asked(i)' = Asked(i) /\ secrets(i)' = secrets(i)
      BY <1>0, SameQueries
    <2>2. TablesInv'
      BY <1>0 DEF ExchangeInv, TablesInv
    <2>3. NamesInv'
      BY <1>0 DEF ExchangeInv, NamesInv, PaddingOK, checkField, Plaintext
    <2>4. AnswerInv'
      BY <1>0, <2>1 DEF ExchangeInv, AnswerInv, PaddingOK, checkField, Plaintext
    <2> QED  BY <1>0, <2>2, <2>3, <2>4 DEF ExchangeInv
  <1>1. CASE Restart
    <2>1. SameTables /\ work' = {} /\ pending' = pending /\ accepted' = accepted
      BY <1>1 DEF Restart
    <2>2. ContextInv'
      BY <2>1 DEF ExchangeInv, ContextInv
    <2>3. AcceptedInv'
      BY <2>1, SameQueries DEF ExchangeInv, AcceptedInv
    <2> QED  BY <1>0, <2>1, <2>2, <2>3
  <1>2. ASSUME NEW c \in Client, NEW x \in Foreign, Fetch(c, x)
        PROVE  ExchangeInv'
    <2>1. SameTables /\ work' = work /\ pending' = pending /\ accepted' = accepted
      BY <1>2 DEF Fetch
    <2>2. ContextInv'
      BY <2>1, SameQueries DEF ExchangeInv, ContextInv
    <2>3. AcceptedInv'
      BY <2>1, SameQueries DEF ExchangeInv, AcceptedInv
    <2> QED  BY <1>0, <2>1, <2>2, <2>3
  <1>3. ASSUME NEW b \in net, DecryptQuery(b)
        PROVE  ExchangeInv'
    <2>1. /\ SameTables /\ pending' = pending /\ accepted' = accepted
          /\ Receive(key, b).err = None /\ work' = work \cup {Receive(key, b).val}
      BY <1>3 DEF DecryptQuery
    <2>2. PICK i \in DOMAIN queries : Receive(key, b).val = [query |-> i, dns |-> Asked(i)]
      BY <2>1, ReceiveFacts
    <2>3. work' = work \cup {[query |-> i, dns |-> Asked(i)]}
      BY <2>1, <2>2
    <2>4. ContextInv'
      BY <2>1, <2>3, SameQueries DEF ExchangeInv, ContextInv
    <2>5. AcceptedInv'
      BY <2>1, SameQueries DEF ExchangeInv, AcceptedInv
    <2> QED  BY <1>0, <2>1, <2>4, <2>5
  <1>4. ASSUME NEW i \in pending, NEW b \in net, DecryptResponse(i, b)
        PROVE  ExchangeInv'
    <2> DEFINE v == ParseMessage(b).val
               r == OpenResponse(i, v).val
               a == [query |-> i, response |-> r.response, dns |-> r.dns]
    <2>1. /\ SameTables /\ pending' \subseteq pending /\ work' = work
          /\ OpenResponse(i, v).err = None /\ accepted' = accepted \cup {a}
      BY <1>4 DEF DecryptResponse
    <2> HIDE DEF v
    <2>2. i \in DOMAIN queries
      BY DEF ExchangeInv, ContextInv
    <2>3. r.response \in DOMAIN responses /\ responses[r.response].query = i /\ r.dns = Asked(i)
      BY <2>1, <2>2, OpenFacts
    <2> HIDE DEF r
    <2>4. /\ a.query = i /\ a.response \in DOMAIN responses
          /\ responses[a.response].query = i /\ a.dns = Asked(i)
      BY <2>3
    <2> HIDE DEF a
    <2>5. ContextInv'
      BY <2>1, SameQueries DEF ExchangeInv, ContextInv
    <2>6. AcceptedInv'
      BY <2>1, <2>2, <2>4, SameQueries DEF ExchangeInv, AcceptedInv
    <2> QED  BY <1>0, <2>1, <2>5, <2>6
  <1>5. CASE UNCHANGED vars
    <2>1. SameTables /\ work' = work /\ pending' = pending /\ accepted' = accepted
      BY <1>5 DEF vars
    <2>2. ContextInv'
      BY <2>1, SameQueries DEF ExchangeInv, ContextInv
    <2>3. AcceptedInv'
      BY <2>1, SameQueries DEF ExchangeInv, AcceptedInv
    <2> QED  BY <1>0, <2>1, <2>2, <2>3
  <1> HIDE DEF SameTables
  <1> QED  BY <1>1, <1>2, <1>3, <1>4, <1>5, QueryKeepsExchange, AnswerKeepsExchange DEF Next

(* What is accepted and what it answers stay tied together for ever: the   *)
(* response was sealed for the query the client holds and says what that   *)
(* one asked.                                                              *)
THEOREM ExchangeInductive == Spec => []ExchangeInv
  <1>1. Init => ExchangeInv
    <2> SUFFICES ASSUME Init
                 PROVE  ExchangeInv
      OBVIOUS
    <2>1. IsSeq(<<>>)
      BY DEF IsSeq
    <2> QED  BY <2>1 DEF Init, ExchangeInv, TablesInv, NamesInv, ContextInv, AnswerInv,
                         AcceptedInv
  <1>2. ExchangeInv /\ [Next]_vars => ExchangeInv'
    BY ExchangeStep
  <1> QED  BY <1>1, <1>2, PTL DEF Spec

(* A client accepts a response only to the query it holds (secrets from    *)
(* deriveResponseSecrets, DecryptResponse), whatever the proxy reorders or *)
(* repeats and although others asked for the same name.                    *)
THEOREM ResponsesMatch == Spec => []ResponseForItsQuery
  <1>1. ExchangeInv => ResponseForItsQuery
    BY DEF ExchangeInv, AcceptedInv, ResponseForItsQuery, Asked
  <1> QED  BY <1>1, ExchangeInductive, PTL

-----------------------------------------------------------------------------
(* A set of numbers that holds 0 and with each number the next one holds   *)
(* all.  What the library has on induction is about an operator; of sets   *)
(* it is a consequence of the pigeonhole principle.                        *)
LEMMA SetInduction ==
  ASSUME NEW P, 0 \in P, \A n \in Nat : n \in P => n + 1 \in P
  PROVE  Nat \subseteq P
<1> SUFFICES ASSUME NEW x \in Nat, x \notin P
             PROVE  FALSE
  OBVIOUS
<1> DEFINE A == {n \in 0 .. x : n \in P}
           next == [n \in A |-> n + 1]
<1>1. IsFiniteSet(A)
  <2>1. IsFiniteSet(0 .. x)
    BY FS_Interval
  <2>2. A \subseteq 0 .. x
    OBVIOUS
  <2> HIDE DEF A
  <2> QED
    BY <2>1, <2>2, FS_Subset
<1>2. 0 \in A /\ IsFiniteSet(A \ {0}) /\ Cardinality(A \ {0}) = Cardinality(A) - 1
  <2>1. 0 \in A
    OBVIOUS
  <2> HIDE DEF A
  <2> QED
    BY <1>1, <2>1, FS_RemoveElement
<1>3. next \in [A -> A \ {0}] /\ A \subseteq Nat
  OBVIOUS
<1> HIDE DEF A
<1>4. Cardinality(A \ {0}) < Cardinality(A)
  BY <1>1, <1>2, FS_CardinalityType
<1>5. \E m, n \in A : m # n /\ next[m] = next[n]
  <2> HIDE DEF next
  <2> QED
    BY <1>1, <1>2, <1>3, <1>4, FS_PigeonHole
<1> QED
  BY <1>3, <1>5

(* f has, at each place up to hi, the value there or that of the place to  *)
(* which one jumps.                                                        *)
Jumps(hi, stop, val, next, f) ==
    f = [i \in 3 .. hi |-> IF stop[i] THEN val[i] ELSE f[next[i]]]

LEMMA JumpsExist ==
    ASSUME NEW hi \in Nat, NEW stop, NEW val, NEW next,
           \A i \in 3 .. hi : ~stop[i] => next[i] \in i + 1 .. hi
    PROVE  \E f : Jumps(hi, stop, val, next, f)
  <1> DEFINE Step(f, i) == IF stop[i] THEN val[i] ELSE f[next[i]]
             Good(f, n) == /\ f = [i \in 3 .. hi |-> f[i]]
                           /\ \A i \in 3 .. hi : hi - i < n => f[i] = Step(f, i)
             P == {n \in Nat : \E f : Good(f, n)}
  <1>1. 0 \in P
    <2> DEFINE f == [i \in 3 .. hi |-> 0]
    <2>1. Good(f, 0)
      OBVIOUS
    <2> QED  BY <2>1
  <1>2. ASSUME NEW n \in Nat, n \in P
        PROVE  n + 1 \in P
    <2>1. PICK f : Good(f, n)
      BY <1>2
    <2> DEFINE g == [i \in 3 .. hi |-> IF hi - i = n THEN Step(f, i) ELSE f[i]]
    <2>2. \A i \in 3 .. hi : g[i] = IF hi - i = n THEN Step(f, i) ELSE f[i]
      OBVIOUS
    <2>3. g = [i \in 3 .. hi |-> g[i]]
      OBVIOUS
    <2> HIDE DEF g
    <2>4. ASSUME NEW i \in 3 .. hi, hi - i < n + 1
          PROVE  g[i] = Step(g, i)
      <3>1. g[i] = Step(f, i)
        <4>1. CASE hi - i = n
          <5>1. g[i] = IF hi - i = n THEN Step(f, i) ELSE f[i]
            BY <2>2
          <5> HIDE DEF Step
          <5> QED  BY <4>1, <5>1
        <4>2. CASE hi - i # n
          <5>1. hi - i < n
            BY <2>4, <4>2
          <5>2. f[i] = Step(f, i)
            BY <2>1, <5>1
          <5>3. g[i] = IF hi - i = n THEN Step(f, i) ELSE f[i]
            BY <2>2
          <5> HIDE DEF Step
          <5> QED  BY <4>2, <5>2, <5>3
        <4> QED  BY <4>1, <4>2
      <3>2. CASE stop[i]
        BY <3>1, <3>2
      <3>3. CASE ~stop[i]
        <4>1. next[i] \in i + 1 .. hi
          BY <3>3
        <4>2. next[i] \in 3 .. hi /\ hi - next[i] # n
          BY <2>4, <4>1
        <4>3. g[next[i]] = f[next[i]]
          BY <2>2, <4>2
        <4> QED  BY <3>1, <3>3, <4>3
      <3> QED  BY <3>2, <3>3
    <2>5. Good(g, n + 1)
      BY <2>3, <2>4
    <2> QED  BY <2>5
  <1>3. hi \in P
    <2> HIDE DEF P
    <2> QED  BY <1>1, <1>2, SetInduction
  <1>4. PICK f : Good(f, hi)
    BY <1>3
  <1>5. \A i \in 3 .. hi : f[i] = Step(f, i)
    BY <1>4
  <1>6. f = [i \in 3 .. hi |-> Step(f, i)]
    BY <1>4, <1>5
  <1> QED  BY <1>6 DEF Jumps

(* What ParseConfigs does at the place i of the list b.                    *)
ContentsAt(b, i) == parseConfigContents(SubSeq(b, i + 4, i + 3 + Uint16(b, i + 2)))
FitsAt(b, i) == i + 3 <= Len(b) /\ i + 3 + Uint16(b, i + 2) <= Len(b)
KnownAt(b, i) == Uint16(b, i) = ConfigVersion
TakenAt(b, i) == KnownAt(b, i) /\ Supported(ContentsAt(b, i).val)
BrokenAt(b, i) == ~FitsAt(b, i) \/ (KnownAt(b, i) /\ ContentsAt(b, i).err # None)

Scan(b, f) ==
    f = [i \in 3 .. Len(b) + 1 |->
            IF i = Len(b) + 1 THEN [err |-> "unsupported"]
            ELSE IF ~FitsAt(b, i) THEN Malformed
            ELSE IF KnownAt(b, i) /\ ContentsAt(b, i).err # None THEN Malformed
            ELSE IF KnownAt(b, i) /\ Supported(ContentsAt(b, i).val) THEN ContentsAt(b, i)
            ELSE f[i + 4 + Uint16(b, i + 2)]]

LEMMA ScanExists ==
    ASSUME NEW b \in Seq(Nat)
    PROVE  \E f : Scan(b, f)
  <1> DEFINE hi == Len(b) + 1
             stop == [i \in 3 .. hi |-> i = hi \/ BrokenAt(b, i) \/ TakenAt(b, i)]
             val == [i \in 3 .. hi |-> IF i = hi THEN [err |-> "unsupported"]
                                       ELSE IF BrokenAt(b, i) THEN Malformed
                                       ELSE ContentsAt(b, i)]
             next == [i \in 3 .. hi |-> i + 4 + Uint16(b, i + 2)]
  <1>1. hi \in Nat /\ Base \in Nat
    BY BaseAssumption
  <1>2. ASSUME NEW i \in 3 .. hi, ~stop[i]
        PROVE  next[i] \in i + 1 .. hi
    <2>1. ~(i = hi \/ BrokenAt(b, i) \/ TakenAt(b, i))
      BY <1>2
    <2>2. next[i] = i + 4 + Uint16(b, i + 2)
      BY <1>2
    <2>3. i \in Nat /\ i >= 3
      BY <1>1, <1>2
    <2> HIDE DEF stop, val, next
    <2>4. FitsAt(b, i) /\ i \in Nat /\ i >= 3 /\ next[i] = i + 4 + Uint16(b, i + 2)
      BY <2>1, <2>2, <2>3 DEF BrokenAt
    <2>5. i + 3 <= Len(b) /\ i + 3 + Uint16(b, i + 2) <= Len(b)
      BY <2>4 DEF FitsAt
    <2>6. b[i + 2] \in Nat /\ b[i + 3] \in Nat
      BY <2>4, <2>5
    <2>7. Uint16(b, i + 2) \in Nat
      <3>1. Uint16(b, i + 2) = b[i + 2] * Base + b[i + 3]
        BY <2>4 DEF Uint16
      <3>2. PICK u \in Nat, v \in Nat : b[i + 2] = u /\ b[i + 3] = v
        BY <2>6
      <3>3. u * Base + v \in Nat
        BY <1>1
      <3> QED  BY <3>1, <3>2, <3>3
    <2> QED  BY <1>1, <2>4, <2>5, <2>7
  <1>3. PICK f : Jumps(hi, stop, val, next, f)
    <2> HIDE DEF hi, stop, val, next
    <2> QED  BY <1>1, <1>2, JumpsExist
  <1>4. f = [i \in 3 .. hi |-> IF stop[i] THEN val[i] ELSE f[next[i]]]
    BY <1>3 DEF Jumps
  <1>5. f = [i \in 3 .. Len(b) + 1 |->
               IF i = Len(b) + 1 \/ BrokenAt(b, i) \/ TakenAt(b, i)
               THEN IF i = Len(b) + 1 THEN [err |-> "unsupported"]
                    ELSE IF BrokenAt(b, i) THEN Malformed
                    ELSE ContentsAt(b, i)
               ELSE f[i + 4 + Uint16(b, i + 2)]]
    BY <1>4
  <1> HIDE DEF hi, stop, val, next
  <1>6. Scan(b, f)
    BY <1>5 DEF Scan, BrokenAt, TakenAt
  <1> QED  BY <1>6

LEMMA ParseScans ==
    ASSUME NEW b \in Seq(Nat), Len(b) >= 2, Uint16(b, 1) = Len(b) - 2
    PROVE  \E f : Scan(b, f) /\ ParseConfigs(b) = f[3]
  <1>1. Scan(b, CHOOSE f : Scan(b, f))
    BY ScanExists
  <1>2. ParseConfigs(b) = (CHOOSE f : Scan(b, f))[3]
    BY DEF ParseConfigs, Scan, ContentsAt, FitsAt, KnownAt
  <1> QED  BY <1>1, <1>2

(* The target's own config, number by number.                              *)
LEMMA PairField ==
    ASSUME NEW n \in Nat
    PROVE  /\ U16(n) \in Seq(Nat) /\ Len(U16(n)) = 2
           /\ U16(n)[1] \in Nat /\ U16(n)[2] \in Nat /\ U16(n)[1] * Base + U16(n)[2] = n
  <1> DEFINE q == n \div Base
             r == n % Base
  <1>1. q \in Nat /\ r \in Nat /\ q * Base + r = n
    BY Prefix
  <1> HIDE DEF q, r
  <1>2. U16(n) = <<q, r>>
    BY DEF U16, q, r
  <1>3. <<q, r>> \in Seq(Nat) /\ Len(<<q, r>>) = 2 /\ <<q, r>>[1] = q /\ <<q, r>>[2] = r
    BY <1>1, PairFacts
  <1> QED  BY <1>1, <1>2, <1>3

LEMMA ContentsFacts ==
    ASSUME NEW k \in Nat
    PROVE  LET m == MarshalContents(Contents(k))
           IN  /\ m \in Seq(Nat) /\ Len(m) = 9
               /\ parseConfigContents(m) = Read(Contents(k))
  <1> DEFINE u == U16(Kem)
             v == U16(Kdf)
             w == U16(Aead)
             pub == <<Pub(k)>>
             h == Field(pub)
             uv == u \o v
             uvw == uv \o w
             m == uvw \o h
  <1>1. Kem \in Nat /\ Kdf \in Nat /\ Aead \in Nat /\ Pub(k) \in Nat
    BY DEF Kem, Kdf, Aead, Pub
  <1>2. /\ u \in Seq(Nat) /\ Len(u) = 2 /\ u[1] * Base + u[2] = Kem
        /\ v \in Seq(Nat) /\ Len(v) = 2 /\ v[1] * Base + v[2] = Kdf
        /\ w \in Seq(Nat) /\ Len(w) = 2 /\ w[1] * Base + w[2] = Aead
    BY <1>1, PairField
  <1>3. pub \in Seq(Nat) /\ Len(pub) = 1 /\ pub[1] = Pub(k)
    BY <1>1, SingleFacts
  <1>4. MarshalContents(Contents(k)) = m
    BY DEF MarshalContents, Contents
  <1>5. Contents(k) = [kem |-> Kem, kdf |-> Kdf, aead |-> Aead, pub |-> pub]
    BY DEF Contents
  <1> HIDE DEF pub, u, v, w
  <1>6. /\ h \in Seq(Nat) /\ Len(h) = 3 /\ h[1] * Base + h[2] = 1 /\ h[3] = Pub(k)
    <2>1. /\ h \in Seq(Nat) /\ Len(h) = Len(pub) + 2 /\ Uint16(h, 1) = wireLen(Len(pub))
          /\ \A i \in 1 .. Len(pub) : h[i + 2] = pub[i]
      BY <1>3, FieldFacts
    <2>2. wireLen(1) = 1
      BY Prefix
    <2> HIDE DEF h
    <2>3. Uint16(h, 1) = h[1] * Base + h[2]
      BY DEF Uint16
    <2>4. h[1 + 2] = pub[1]
      BY <1>3, <2>1
    <2> QED  BY <1>3, <2>1, <2>2, <2>3, <2>4
  <1> HIDE DEF h
  <1>7. /\ uv \in Seq(Nat) /\ Len(uv) = 4
        /\ uv[1] = u[1] /\ uv[2] = u[2] /\ uv[3] = v[1] /\ uv[4] = v[2]
    <2>1. /\ uv \in Seq(Nat) /\ Len(uv) = Len(u) + Len(v)
          /\ \A i \in 1 .. Len(u) : uv[i] = u[i]
          /\ \A i \in 1 .. Len(v) : uv[Len(u) + i] = v[i]
      BY <1>2, ConcatFacts
    <2> HIDE DEF uv
    <2>2. Len(u) = 2 /\ Len(v) = 2
      BY <1>2
    <2>3. uv[1] = u[1] /\ uv[2] = u[2]
      BY <2>1, <2>2
    <2>4. uv[Len(u) + 1] = v[1] /\ uv[Len(u) + 2] = v[2]
      BY <2>1, <2>2
    <2> QED  BY <2>1, <2>2, <2>3, <2>4
  <1> HIDE DEF uv
  <1>8. /\ uvw \in Seq(Nat) /\ Len(uvw) = 6
        /\ uvw[1] = u[1] /\ uvw[2] = u[2] /\ uvw[3] = v[1] /\ uvw[4] = v[2]
        /\ uvw[5] = w[1] /\ uvw[6] = w[2]
    <2>1. /\ uvw \in Seq(Nat) /\ Len(uvw) = Len(uv) + Len(w)
          /\ \A i \in 1 .. Len(uv) : uvw[i] = uv[i]
          /\ \A i \in 1 .. Len(w) : uvw[Len(uv) + i] = w[i]
      BY <1>2, <1>7, ConcatFacts
    <2> HIDE DEF uvw
    <2>2. Len(uv) = 4 /\ Len(w) = 2
      BY <1>2, <1>7
    <2>3. uvw[1] = uv[1] /\ uvw[2] = uv[2] /\ uvw[3] = uv[3] /\ uvw[4] = uv[4]
      BY <2>1, <2>2
    <2>4. uvw[Len(uv) + 1] = w[1] /\ uvw[Len(uv) + 2] = w[2]
      BY <2>1, <2>2
    <2> QED  BY <1>7, <2>1, <2>2, <2>3, <2>4
  <1> HIDE DEF uvw
  <1>9. /\ m \in Seq(Nat) /\ Len(m) = 9
        /\ m[1] = u[1] /\ m[2] = u[2] /\ m[3] = v[1] /\ m[4] = v[2]
        /\ m[5] = w[1] /\ m[6] = w[2]
        /\ m[7] = h[1] /\ m[8] = h[2] /\ m[9] = Pub(k)
    <2>1. /\ m \in Seq(Nat) /\ Len(m) = Len(uvw) + Len(h)
          /\ \A i \in 1 .. Len(uvw) : m[i] = uvw[i]
          /\ \A i \in 1 .. Len(h) : m[Len(uvw) + i] = h[i]
      BY <1>6, <1>8, ConcatFacts
    <2> HIDE DEF m
    <2>2. Len(uvw) = 6 /\ Len(h) = 3
      BY <1>6, <1>8
    <2>3. m[1] = uvw[1] /\ m[2] = uvw[2] /\ m[3] = uvw[3] /\ m[4] = uvw[4] /\ m[5] = uvw[5] /\ m[6] = uvw[6]
      BY <2>1, <2>2
    <2>4. m[Len(uvw) + 1] = h[1] /\ m[Len(uvw) + 2] = h[2] /\ m[Len(uvw) + 3] = h[3]
      BY <2>1, <2>2
    <2> QED  BY <1>6, <1>8, <2>1, <2>2, <2>3, <2>4
  <1> HIDE DEF m
  <1>10. /\ Uint16(m, 1) = Kem /\ Uint16(m, 3) = Kdf /\ Uint16(m, 5) = Aead
         /\ Uint16(m, 7) = 1
    BY <1>2, <1>6, <1>9 DEF Uint16
  <1>11. SubSeq(m, 9, 9) = pub
    <2> DEFINE c == SubSeq(m, 9, 9)
    <2> DEFINE i == 9
               len == 1
    <2>0. CutOut(c, m, i, i, len)
      BY <1>9 DEF CutOut
    <2> HIDE DEF c, i, len
    <2>5. c \in Seq(Nat) /\ Len(c) = len /\ \A x \in 1 .. len : c[x] = m[(i + x) - 1]
      BY <2>0, SubSeqFacts
    <2>2. c \in Seq(Nat) /\ Len(c) = 1 /\ \A x \in 1 .. 1 : c[x] = m[(9 + x) - 1]
      BY <2>5 DEF i, len
    <2>3. c[1] = m[(9 + 1) - 1]
      BY <2>2
    <2>1. \A x \in 1 .. 1 : c[x] = pub[x]
      BY <1>3, <1>9, <2>3
    <2>4. c = pub
      BY <1>3, <2>1, <2>2, SeqEqual
    <2> QED  BY <2>4 DEF c
  <1>12. parseConfigContents(m) = Read(Contents(k))
    <2>1. parseConfigContents(m) =
             Read([kem |-> Uint16(m, 1), kdf |-> Uint16(m, 3), aead |-> Uint16(m, 5),
                   pub |-> SubSeq(m, 9, 8 + Uint16(m, 7))])
      BY <1>9, <1>10 DEF parseConfigContents
    <2>2. SubSeq(m, 9, 8 + Uint16(m, 7)) = pub
      BY <1>10, <1>11
    <2> QED  BY <1>5, <1>10, <2>1, <2>2
  <1> QED  BY <1>4, <1>9, <1>12

LEMMA ConfigFacts ==
    ASSUME NEW k \in Nat
    PROVE  LET g == MarshalConfig(Contents(k))
           IN  /\ g \in Seq(Nat) /\ Len(g) = 13
               /\ Uint16(g, 1) = ConfigVersion /\ Uint16(g, 3) = wireLen(9)
               /\ parseConfigContents(SubSeq(g, 5, 13)) = Read(Contents(k))
  <1> DEFINE u == U16(ConfigVersion)
             m == MarshalContents(Contents(k))
             h == Field(m)
             g == u \o h
  <1>1. ConfigVersion \in Nat
    BY DEF ConfigVersion
  <1>2. u \in Seq(Nat) /\ Len(u) = 2 /\ u[1] * Base + u[2] = ConfigVersion
    BY <1>1, PairField
  <1>3. m \in Seq(Nat) /\ Len(m) = 9 /\ parseConfigContents(m) = Read(Contents(k))
    BY ContentsFacts
  <1> HIDE DEF u, m
  <1>4. /\ h \in Seq(Nat) /\ Len(h) = 11 /\ h[1] * Base + h[2] = wireLen(9)
        /\ \A i \in 1 .. 9 : h[i + 2] = m[i]
    <2>1. /\ h \in Seq(Nat) /\ Len(h) = Len(m) + 2 /\ Uint16(h, 1) = wireLen(Len(m))
          /\ \A i \in 1 .. Len(m) : h[i + 2] = m[i]
      BY <1>3, FieldFacts
    <2> HIDE DEF h
    <2>3. Uint16(h, 1) = h[1] * Base + h[2]
      BY DEF Uint16
    <2> QED  BY <1>3, <2>1, <2>3
  <1> HIDE DEF h
  <1>5. /\ g \in Seq(Nat) /\ Len(g) = 13
        /\ g[1] = u[1] /\ g[2] = u[2] /\ g[3] = h[1] /\ g[4] = h[2]
        /\ \A i \in 1 .. 9 : g[i + 4] = h[i + 2]
    <2>1. /\ g \in Seq(Nat) /\ Len(g) = Len(u) + Len(h)
          /\ \A i \in 1 .. Len(u) : g[i] = u[i]
          /\ \A i \in 1 .. Len(h) : g[Len(u) + i] = h[i]
      BY <1>2, <1>4, ConcatFacts
    <2> HIDE DEF g
    <2>2. Len(u) = 2 /\ Len(h) = 11
      BY <1>2, <1>4
    <2>3. g[1] = u[1] /\ g[2] = u[2]
      BY <2>1, <2>2
    <2>4. g[Len(u) + 1] = h[1] /\ g[Len(u) + 2] = h[2]
      BY <2>1, <2>2
    <2>5. ASSUME NEW i \in 1 .. 9
          PROVE  g[i + 4] = h[i + 2]
      <3>1. g[Len(u) + (i + 2)] = h[i + 2] /\ Len(u) + (i + 2) = i + 4
        BY <2>1, <2>2
      <3> QED  BY <3>1
    <2> QED  BY <2>1, <2>2, <2>3, <2>4, <2>5
  <1>6. MarshalConfig(Contents(k)) = g
    BY DEF MarshalConfig, u, m, h
  <1> HIDE DEF g
  <1>7. Uint16(g, 1) = ConfigVersion /\ Uint16(g, 3) = wireLen(9)
    BY <1>2, <1>4, <1>5 DEF Uint16
  <1>8. SubSeq(g, 5, 13) = m
    <2> DEFINE c == SubSeq(g, 5, 13)
    <2> DEFINE i == 5
               n == 13
               len == 9
    <2>1. CutOut(c, g, i, n, len)
      BY <1>5 DEF CutOut
    <2> HIDE DEF c, i, n, len
    <2>5. c \in Seq(Nat) /\ Len(c) = len /\ \A x \in 1 .. len : c[x] = g[(i + x) - 1]
      BY <2>1, SubSeqFacts
    <2>2. c \in Seq(Nat) /\ Len(c) = 9 /\ \A x \in 1 .. 9 : c[x] = g[(5 + x) - 1]
      BY <2>5 DEF i, len
    <2>3. ASSUME NEW x \in 1 .. 9
          PROVE  c[x] = m[x]
      <3>1. (5 + x) - 1 = x + 4
        OBVIOUS
      <3> QED  BY <1>4, <1>5, <2>2, <3>1
    <2>4. c = m
      BY <1>3, <2>2, <2>3, SeqEqual
    <2> QED  BY <2>4 DEF c
  <1> QED  BY <1>3, <1>5, <1>6, <1>7, <1>8

(* The string s stands in b after o numbers; q is cut out of s from first  *)
(* to last, and p at the same place of b, from i to n.                     *)
StandsIn(p, b, i, n, q, s, first, last, o) ==
    /\ b \in Seq(Nat) /\ s \in Seq(Nat) /\ o \in Nat /\ o + Len(s) <= Len(b)
    /\ \A x \in 1 .. Len(s) : b[o + x] = s[x]
    /\ first \in Nat /\ last \in Nat /\ first >= 1 /\ last <= Len(s) /\ first <= last + 1
    /\ i = o + first /\ n = o + last
    /\ p = SubSeq(b, i, n) /\ q = SubSeq(s, first, last)

(* Where a string stands in another, parts of it are found at their places.*)
LEMMA PartAt ==
    ASSUME NEW p, NEW b, NEW i, NEW n, NEW q, NEW s, NEW first, NEW last, NEW o,
           StandsIn(p, b, i, n, q, s, first, last, o)
    PROVE  p = q
  <1> DEFINE len == (last - first) + 1
  <1>1. len \in Nat /\ Len(s) \in Nat /\ Len(b) \in Nat
    BY DEF StandsIn
  <1>2. CutOut(p, b, i, n, len)
    BY <1>1 DEF CutOut, StandsIn
  <1>3. CutOut(q, s, first, last, len)
    BY <1>1 DEF CutOut, StandsIn
  <1> HIDE DEF len
  <1>4. p \in Seq(Nat) /\ Len(p) = len /\ \A x \in 1 .. len : p[x] = b[(i + x) - 1]
    BY <1>2, SubSeqFacts
  <1>5. q \in Seq(Nat) /\ Len(q) = len /\ \A x \in 1 .. len : q[x] = s[(first + x) - 1]
    BY <1>3, SubSeqFacts
  <1>6. ASSUME NEW x \in 1 .. len
        PROVE  p[x] = q[x]
    <2>1. PICK y : y = (first + x) - 1
      OBVIOUS
    <2>2. y \in 1 .. Len(s) /\ (i + x) - 1 = o + y
      BY <1>1, <1>6, <2>1 DEF len, StandsIn
    <2>3. p[x] = b[o + y] /\ q[x] = s[y]
      BY <1>4, <1>5, <1>6, <2>1, <2>2
    <2>4. b[o + y] = s[y]
      BY <2>2 DEF StandsIn
    <2> QED  BY <2>3, <2>4
  <1> QED  BY <1>4, <1>5, <1>6, SeqEqual

-----------------------------------------------------------------------------
(* What precedes the target's config in the published list is passed over  *)
(* (ParseConfigs), and the config that is found is the target's.           *)
LEMMA ConfigsAreFound ==
    ASSUME NEW x \in Foreign, NEW k \in 1 .. MaxKeys
    PROVE  ParseConfigs(Field(x \o MarshalConfig(Contents(k)))) = Read(Contents(k))
  <1> DEFINE g == MarshalConfig(Contents(k))
             y == x \o g
             b == Field(y)
             l == Len(x)
             R == Read(Contents(k))
             o == l + 2
             at == l + 3
             Skip(i) == i + 4 + Uint16(x, i + 2)
  <1>1. k \in Nat /\ x \in Seq(Nat) /\ l \in Nat /\ checkField(Len(y))
    BY ForeignAssumption, BoundAssumption
  <1>2. PICK starts \in SUBSET (1 .. l + 1) : PassedOver(x, starts)
    BY ForeignAssumption
  <1>3. /\ g \in Seq(Nat) /\ Len(g) = 13 /\ Uint16(g, 1) = ConfigVersion
        /\ Uint16(g, 3) = wireLen(9) /\ parseConfigContents(SubSeq(g, 5, 13)) = R
    BY <1>1, ConfigFacts
  <1>4. R.err = None /\ Supported(R.val)
    BY DEF Read, Supported, Contents
  <1> HIDE DEF g, R
  <1>5. /\ y \in Seq(Nat) /\ Len(y) = l + 13
        /\ \A i \in 1 .. l : y[i] = x[i]
        /\ \A i \in 1 .. 13 : y[l + i] = g[i]
    <2>1. /\ y \in Seq(Nat) /\ Len(y) = Len(x) + Len(g)
          /\ \A i \in 1 .. Len(x) : y[i] = x[i]
          /\ \A i \in 1 .. Len(g) : y[Len(x) + i] = g[i]
      BY <1>1, <1>3, ConcatFacts
    <2> HIDE DEF y
    <2> QED  BY <1>3, <2>1
  <1> HIDE DEF y
  <1>6. wireLen(9) = 9 /\ wireLen(Len(y)) = l + 13
    <2>1. l + 13 <= maxField
      BY <1>1, <1>5 DEF checkField
    <2>2. maxField \in Nat
      BY Prefix
    <2>3. 9 <= maxField
      BY <1>1, <2>1, <2>2
    <2> QED  BY <1>1, <1>5, <2>1, <2>3, Prefix
  <1>7. /\ b \in Seq(Nat) /\ Len(b) = l + 15 /\ Uint16(b, 1) = l + 13
        /\ \A i \in 1 .. l + 13 : b[i + 2] = y[i]
    <2>1. /\ b \in Seq(Nat) /\ Len(b) = Len(y) + 2 /\ Uint16(b, 1) = wireLen(Len(y))
          /\ \A i \in 1 .. Len(y) : b[i + 2] = y[i]
      BY <1>5, FieldFacts
    <2> HIDE DEF b
    <2>2. Len(b) = l + 15
      BY <1>1, <1>5, <2>1
    <2> QED  BY <1>5, <1>6, <2>1, <2>2
  <1> HIDE DEF b
  <1>8. ASSUME NEW i \in 1 .. l
        PROVE  b[2 + i] = x[i]
    <2>1. i \in 1 .. l + 13 /\ 2 + i = i + 2
      BY <1>1
    <2> QED  BY <1>5, <1>7, <2>1
  <1>9. ASSUME NEW i \in 1 .. 13
        PROVE  b[o + i] = g[i]
    <2>1. l + i \in 1 .. l + 13 /\ (l + i) + 2 = o + i
      BY <1>1
    <2>2. b[(l + i) + 2] = y[l + i] /\ y[l + i] = g[i]
      BY <1>5, <1>7, <2>1
    <2> QED  BY <2>1, <2>2
  <1>10. PICK f : Scan(b, f) /\ ParseConfigs(b) = f[3]
    <2>1. b \in Seq(Nat) /\ Len(b) >= 2 /\ Uint16(b, 1) = Len(b) - 2
      BY <1>1, <1>7
    <2> QED  BY <2>1, ParseScans
  <1>11. ASSUME NEW i \in 3 .. Len(b), FitsAt(b, i)
         PROVE  f[i] = IF KnownAt(b, i) /\ ContentsAt(b, i).err # None THEN Malformed
                       ELSE IF KnownAt(b, i) /\ Supported(ContentsAt(b, i).val)
                       THEN ContentsAt(b, i)
                       ELSE f[i + 4 + Uint16(b, i + 2)]
    <2>1. i \in 3 .. Len(b) + 1 /\ i # Len(b) + 1
      BY <1>7
    <2>2. Scan(b, f)
      BY <1>10
    <2>3. f[i] = IF i = Len(b) + 1 THEN [err |-> "unsupported"]
                 ELSE IF ~FitsAt(b, i) THEN Malformed
                 ELSE IF KnownAt(b, i) /\ ContentsAt(b, i).err # None THEN Malformed
                 ELSE IF KnownAt(b, i) /\ Supported(ContentsAt(b, i).val) THEN ContentsAt(b, i)
                 ELSE f[i + 4 + Uint16(b, i + 2)]
      BY <2>1, <2>2 DEF Scan
    <2> QED  BY <1>11, <2>1, <2>3
  <1>12. f[at] = R
    <2>1. Uint16(b, at) = Uint16(g, 1) /\ Uint16(b, at + 2) = Uint16(g, 3)
      <3>1. b[o + 1] = g[1] /\ b[o + 2] = g[2] /\ b[o + 3] = g[3] /\ b[o + 4] = g[4]
        BY <1>9
      <3>2. o + 1 = at /\ o + 2 = at + 1 /\ o + 3 = at + 2 /\ o + 4 = (at + 2) + 1
        BY <1>1
      <3> QED  BY <3>1, <3>2 DEF Uint16
    <2>2. Uint16(b, at + 2) = 9 /\ KnownAt(b, at)
      BY <1>3, <1>6, <2>1 DEF KnownAt
    <2>3. at \in 3 .. Len(b) /\ FitsAt(b, at)
      BY <1>1, <1>7, <2>2 DEF FitsAt
    <2>4. SubSeq(b, o + 5, o + 13) = SubSeq(g, 5, 13)
      <3> DEFINE first == 5
                 last == 13
                 i == o + first
                 n == o + last
                 p == SubSeq(b, i, n)
                 q == SubSeq(g, first, last)
      <3>1. /\ first \in Nat /\ last \in Nat /\ first >= 1 /\ last <= Len(g)
            /\ first <= last + 1 /\ o \in Nat /\ o + Len(g) <= Len(b)
        BY <1>1, <1>3, <1>7
      <3>2. \A j \in 1 .. Len(g) : b[o + j] = g[j]
        BY <1>3, <1>9
      <3> HIDE DEF first, last, o
      <3>3. StandsIn(p, b, i, n, q, g, first, last, o)
        BY <1>3, <1>7, <3>1, <3>2 DEF StandsIn
      <3> HIDE DEF i, n, p, q
      <3>4. p = q
        BY <3>3, PartAt
      <3> QED  BY <3>4 DEF first, last, i, n, p, q
    <2>5. ContentsAt(b, at) = R
      <3>1. at + 4 = o + 5 /\ at + 3 + 9 = o + 13
        BY <1>1
      <3> QED  BY <1>3, <2>2, <2>4, <3>1 DEF ContentsAt
    <2> HIDE DEF at
    <2> QED  BY <1>4, <1>11, <2>2, <2>3, <2>5
  <1>13. ASSUME NEW i \in starts, i # l + 1
         PROVE  Skip(i) \in starts /\ Skip(i) > i /\ f[i + 2] = f[Skip(i) + 2]
    <2> DEFINE n == Uint16(x, i + 2)
               first == i + 4
               last == i + 3 + n
               c == parseConfigContents(SubSeq(x, first, last))
    <2>1. /\ i \in Nat /\ i >= 1 /\ i + 3 <= l /\ i + 4 + n \in starts
          /\ (Uint16(x, i) = ConfigVersion => c.err = None /\ ~Supported(c.val))
      BY <1>1, <1>2, <1>13 DEF PassedOver
    <2>2. x[i + 2] \in Nat /\ x[i + 3] \in Nat
      BY <1>1, <2>1
    <2>3. n \in Nat
      <3>1. n = x[i + 2] * Base + x[i + 3]
        BY <2>1 DEF Uint16
      <3>2. PICK u \in Nat, v \in Nat : x[i + 2] = u /\ x[i + 3] = v
        BY <2>2
      <3>3. u * Base + v \in Nat
        BY BaseAssumption
      <3> QED  BY <3>1, <3>2, <3>3
    <2> HIDE DEF n
    <2>4. i + 4 + n <= l + 1
      <3>1. i + 4 + n \in 1 .. l + 1
        BY <1>2, <2>1
      <3> QED  BY <1>1, <3>1
    <2>5. Uint16(b, i + 2) = Uint16(x, i) /\ Uint16(b, i + 4) = n
      <3>1. /\ i \in 1 .. l /\ i + 1 \in 1 .. l /\ i + 2 \in 1 .. l /\ i + 3 \in 1 .. l
        BY <1>1, <2>1
      <3>2. /\ b[2 + i] = x[i] /\ b[2 + (i + 1)] = x[i + 1]
            /\ b[2 + (i + 2)] = x[i + 2] /\ b[2 + (i + 3)] = x[i + 3]
        BY <1>8, <3>1
      <3>3. /\ 2 + i = i + 2 /\ 2 + (i + 1) = (i + 2) + 1 /\ 2 + (i + 2) = i + 4
            /\ 2 + (i + 3) = (i + 4) + 1 /\ (i + 2) + 1 = i + 3
        BY <2>1
      <3> QED  BY <3>2, <3>3 DEF Uint16, n
    <2>6. SubSeq(b, 2 + first, 2 + last) = SubSeq(x, first, last)
      <3> DEFINE two == 2
                 from == two + first
                 to == two + last
                 p == SubSeq(b, from, to)
                 q == SubSeq(x, first, last)
      <3>1. /\ first \in Nat /\ last \in Nat /\ first >= 1 /\ last <= Len(x)
            /\ first <= last + 1 /\ two \in Nat /\ two + Len(x) <= Len(b)
        BY <1>1, <1>7, <2>1, <2>3, <2>4
      <3>2. \A j \in 1 .. Len(x) : b[two + j] = x[j]
        BY <1>8
      <3> HIDE DEF first, last, two
      <3>3. StandsIn(p, b, from, to, q, x, first, last, two)
        BY <1>1, <1>7, <3>1, <3>2 DEF StandsIn
      <3> HIDE DEF from, to, p, q
      <3>4. p = q
        BY <3>3, PartAt
      <3> QED  BY <3>4 DEF two, from, to, p, q
    <2>7. PICK j : j = i + 2
      OBVIOUS
    <2>8. /\ j \in 3 .. Len(b) /\ j + 2 = i + 4 /\ j + 4 = 2 + first /\ j + 3 + n = 2 + last
          /\ j + 4 + n = (i + 4 + n) + 2
      <3>1. l \in Nat /\ Len(b) = l + 15 /\ i \in Nat /\ i >= 1 /\ i + 3 <= l /\ n \in Nat
        BY <1>1, <1>7, <2>1, <2>3
      <3>2. j \in 3 .. Len(b)
        BY <2>7, <3>1
      <3>3. j + 2 = i + 4 /\ j + 4 = 2 + first
        BY <2>7, <3>1
      <3>4. j + 3 + n = 2 + last /\ j + 4 + n = (i + 4 + n) + 2
        BY <2>7, <3>1
      <3> QED  BY <3>2, <3>3, <3>4
    <2>9. Uint16(b, j) = Uint16(x, i) /\ Uint16(b, j + 2) = n
      BY <2>5, <2>7, <2>8
    <2>10. FitsAt(b, j)
      <3>1. l \in Nat /\ Len(b) = l + 15 /\ i \in Nat /\ i + 3 <= l /\ n \in Nat
        BY <1>1, <1>7, <2>1, <2>3
      <3>2. j + 3 <= Len(b) /\ j + 3 + n <= Len(b)
        BY <2>4, <2>7, <3>1
      <3> QED  BY <2>9, <3>2 DEF FitsAt
    <2>11. ContentsAt(b, j) = c
      BY <2>6, <2>8, <2>9 DEF ContentsAt
    <2>12. ~(KnownAt(b, j) /\ (ContentsAt(b, j).err # None \/ Supported(ContentsAt(b, j).val)))
      BY <2>1, <2>9, <2>11 DEF KnownAt
    <2>13. f[j] = f[j + 4 + n]
      BY <1>11, <2>8, <2>9, <2>10, <2>12
    <2>14. i + 4 + n > i
      BY <2>1, <2>3
    <2> QED  BY <2>1, <2>7, <2>8, <2>13, <2>14 DEF n
  <1> DEFINE P == {n \in Nat : \A i \in starts : (l + 1) - i < n => f[i + 2] = R}
  <1>14. \A i \in starts : i \in 1 .. l + 1
    BY <1>2
  <1>15. 0 \in P
    BY <1>1, <1>14
  <1>16. ASSUME NEW n \in Nat, n \in P
         PROVE  n + 1 \in P
    <2>1. ASSUME NEW i \in starts, (l + 1) - i < n + 1
          PROVE  f[i + 2] = R
      <3>1. CASE i = l + 1
        BY <1>1, <1>12, <3>1
      <3>2. CASE i # l + 1
        <4>1. PICK j \in starts : j > i /\ f[i + 2] = f[j + 2]
          BY <1>13, <3>2
        <4>2. (l + 1) - j < n
          BY <1>1, <1>14, <2>1, <4>1
        <4> QED  BY <1>16, <4>1, <4>2
      <3> QED  BY <3>1, <3>2
    <2> QED  BY <2>1
  <1>17. l + 1 \in P
    <2> HIDE DEF P
    <2> QED  BY <1>1, <1>15, <1>16, SetInduction
  <1>18. f[1 + 2] = R
    <2>1. 1 \in starts
      BY <1>2 DEF PassedOver
    <2>2. (l + 1) - 1 < l + 1
      BY <1>1
    <2> QED  BY <1>17, <2>1, <2>2
  <1> QED  BY <1>10, <1>18 DEF b, y, g, R

-----------------------------------------------------------------------------
SealedQuery(i) == [type |-> MessageTypeQuery, keyId |-> queries[i].aad,
                   encrypted |-> <<Enc(i)>> \o Ciphertext(Sealed(i), queries[i].plain)]

SealedAnswer(j) == [type |-> MessageTypeResponse, keyId |-> <<Nonce(j)>>,
                    encrypted |-> Ciphertext(SealedResponse(j), responses[j].plain)]

(* Queries are sealed to a key the target has or had, under its key ID.    *)
KeyInv == \A i \in DOMAIN queries :
             \E k \in 1 .. MaxKeys : queries[i].pub = <<Pub(k)>> /\ queries[i].aad = <<Digest(k)>>

NetInv == \A b \in net : \/ \E i \in DOMAIN queries : b = MarshalMessage(SealedQuery(i))
                        \/ \E j \in DOMAIN responses : b = MarshalMessage(SealedAnswer(j))

TargetInv == ExchangeInv /\ TypeOK /\ KeyInv /\ NetInv

LEMMA KeyFacts ==
    ASSUME NEW k \in Nat
    PROVE  KeyID(Contents(k)) = <<Digest(k)>> /\ Contents(k).pub = <<Pub(k)>>
  <1>1. Contents(k).pub = <<Pub(k)>>
    BY DEF Contents
  <1>2. Contents(k).pub[1] = Pub(k)
    BY <1>1
  <1>3. Pub(k) - Pub(0) = k
    BY DEF Pub
  <1> QED  BY <1>1, <1>2, <1>3 DEF KeyID

LEMMA CiphertextFacts ==
    ASSUME NEW n \in Nat, NEW plain \in Seq(Nat)
    PROVE  Ciphertext(n, plain) \in Seq(Nat) /\ Len(Ciphertext(n, plain)) = Len(plain) + 1
  <1> DEFINE z == Zeros(Len(plain))
             s == <<n>>
  <1>1. z \in Seq(Nat) /\ Len(z) = Len(plain) /\ s \in Seq(Nat) /\ Len(s) = 1
    BY ZerosFacts, SingleFacts
  <1> HIDE DEF z, s
  <1>2. s \o z \in Seq(Nat) /\ Len(s \o z) = Len(s) + Len(z)
    BY <1>1, ConcatFacts
  <1>3. Len(s \o z) = Len(plain) + 1
    BY <1>1, <1>2
  <1> QED  BY <1>2, <1>3 DEF Ciphertext, z, s

LEMMA SealedFacts ==
    ASSUME NEW i \in Nat, NEW plain \in Seq(Nat)
    PROVE  LET e == <<Enc(i)>> \o Ciphertext(Sealed(i), plain)
           IN  e \in Seq(Nat) /\ Len(e) = Len(plain) + 2 /\ e[1] = Enc(i)
  <1> DEFINE c == Ciphertext(Sealed(i), plain)
             n == Enc(i)
             s == <<n>>
  <1>1. n \in Nat /\ Sealed(i) \in Nat
    BY DEF Enc, Sealed
  <1>2. c \in Seq(Nat) /\ Len(c) = Len(plain) + 1
    BY <1>1, CiphertextFacts
  <1> HIDE DEF c, n
  <1>3. s \in Seq(Nat) /\ Len(s) = 1 /\ s[1] = n
    BY <1>1, SingleFacts
  <1> HIDE DEF s
  <1>4. /\ s \o c \in Seq(Nat) /\ Len(s \o c) = Len(s) + Len(c)
        /\ \A x \in 1 .. Len(s) : (s \o c)[x] = s[x]
    BY <1>2, <1>3, ConcatFacts
  <1>5. Len(s \o c) = Len(plain) + 2 /\ (s \o c)[1] = n
    BY <1>2, <1>3, <1>4
  <1> QED  BY <1>4, <1>5 DEF s, c, n

LEMMA TableIndex ==
    ASSUME NEW s, IsSeq(s)
    PROVE  DOMAIN s \subseteq Nat
  <1> DEFINE S == {s[x] : x \in DOMAIN s}
  <1>1. s \in Seq(S)
    BY DEF IsSeq
  <1> HIDE DEF S
  <1> QED  BY <1>1

(* Every message ever sent has an identifier of one number; its text is    *)
(* that of a query sealed, or it is a response.                            *)
LEMMA NetForm ==
    ASSUME TargetInv, NEW b \in net
    PROVE  \E t \in Nat, k \in Seq(Nat), e \in Seq(Nat) :
              /\ b = Message(t, k, e) /\ Len(k) = 1 /\ Len(e) >= 1
              /\ \/ t = MessageTypeResponse
                 \/ \E i \in DOMAIN queries :
                       SealedQuery(i) = [type |-> t, keyId |-> k, encrypted |-> e]
  <1>2. ASSUME NEW i \in DOMAIN queries, b = MarshalMessage(SealedQuery(i))
        PROVE  \E t \in Nat, k \in Seq(Nat), e \in Seq(Nat) :
                  /\ b = Message(t, k, e) /\ Len(k) = 1 /\ Len(e) >= 1
                  /\ SealedQuery(i) = [type |-> t, keyId |-> k, encrypted |-> e]
    <2> DEFINE e == <<Enc(i)>> \o Ciphertext(Sealed(i), queries[i].plain)
    <2>1. PICK k \in 1 .. MaxKeys : queries[i].aad = <<Digest(k)>>
      BY DEF TargetInv, KeyInv
    <2>2. PICK n \in Name, pad \in PaddingOK : queries[i].plain = Plaintext(<<n>>, pad)
      BY DEF TargetInv, ExchangeInv, NamesInv
    <2>3. queries[i].plain \in Seq(Nat)
      BY <2>2, NamePlaintext
    <2>4. i \in Nat
      BY TableIndex DEF TargetInv, ExchangeInv, TablesInv
    <2>5. e \in Seq(Nat) /\ Len(e) = Len(queries[i].plain) + 2
      BY <2>3, <2>4, SealedFacts
    <2>6. SealedQuery(i) = [type |-> 1, keyId |-> <<Digest(k)>>, encrypted |-> e]
      BY <2>1 DEF SealedQuery, MessageTypeQuery
    <2> HIDE DEF e
    <2> DEFINE id == <<Digest(k)>>
    <2>7. id \in Seq(Nat) /\ Len(id) = 1
      <3>1. Digest(k) \in Nat
        BY DEF Digest
      <3> QED  BY <3>1, SingleFacts
    <2>8. b = Message(1, id, e)
      BY <1>2, <2>6 DEF Message
    <2>9. SealedQuery(i) = [type |-> 1, keyId |-> id, encrypted |-> e]
      BY <2>6
    <2> HIDE DEF id
    <2>10. Len(e) >= 1
      BY <2>3, <2>5
    <2> QED  BY <2>5, <2>7, <2>8, <2>9, <2>10
  <1>3. ASSUME NEW j \in DOMAIN responses, b = MarshalMessage(SealedAnswer(j))
        PROVE  \E k \in Seq(Nat), e \in Seq(Nat) :
                  b = Message(MessageTypeResponse, k, e) /\ Len(k) = 1 /\ Len(e) >= 1
    <2> DEFINE e == Ciphertext(SealedResponse(j), responses[j].plain)
               id == <<Nonce(j)>>
    <2>1. responses[j].plain \in Seq(Nat)
      <3>1. PICK q \in DOMAIN queries : q = responses[j].query
        BY DEF TargetInv, ExchangeInv, AnswerInv
      <3>2. PICK pad \in PaddingOK, dns \in {Asked(q), <<>>} :
                responses[j].plain = Plaintext(dns, pad)
        BY <3>1 DEF TargetInv, ExchangeInv, AnswerInv
      <3>3. PICK n \in Name, pn \in PaddingOK : queries[q].plain = Plaintext(<<n>>, pn)
        BY DEF TargetInv, ExchangeInv, NamesInv
      <3>4. Asked(q) = <<n>>
        BY <3>3, NamePlaintext DEF Asked
      <3> QED  BY <3>2, <3>4, NamePlaintext, EmptyPlaintext
    <2>2. j \in Nat
      BY TableIndex DEF TargetInv, ExchangeInv, TablesInv
    <2>3. Nonce(j) \in Nat /\ SealedResponse(j) \in Nat
      BY <2>2 DEF Nonce, SealedResponse
    <2>4. e \in Seq(Nat) /\ Len(e) = Len(responses[j].plain) + 1
      BY <2>1, <2>3, CiphertextFacts
    <2>5. id \in Seq(Nat) /\ Len(id) = 1
      BY <2>3, SingleFacts
    <2>6. b = Message(MessageTypeResponse, id, e)
      BY <1>3 DEF SealedAnswer, Message
    <2> HIDE DEF e, id
    <2>7. Len(e) >= 1
      BY <2>1, <2>4
    <2> QED  BY <2>4, <2>5, <2>6, <2>7
  <1>4. MessageTypeResponse \in Nat
    BY DEF MessageTypeResponse
  <1>5. CASE \E i \in DOMAIN queries : b = MarshalMessage(SealedQuery(i))
    BY <1>2, <1>5
  <1>6. CASE \E j \in DOMAIN responses : b = MarshalMessage(SealedAnswer(j))
    BY <1>3, <1>4, <1>6
  <1> QED  BY <1>5, <1>6 DEF TargetInv, NetInv

(* A message that is read at all and is a query is one of those sealed, as *)
(* it was sealed.                                                          *)
LEMMA QueryRead ==
    ASSUME TargetInv, NEW b \in net,
           ParseMessage(b).err = None, ParseMessage(b).val.type = MessageTypeQuery
    PROVE  \E i \in DOMAIN queries : ParseMessage(b).val = SealedQuery(i)
  <1>1. PICK t \in Nat, k \in Seq(Nat), e \in Seq(Nat) :
               /\ b = Message(t, k, e) /\ Len(k) = 1 /\ Len(e) >= 1
               /\ \/ t = MessageTypeResponse
                  \/ \E i \in DOMAIN queries :
                        SealedQuery(i) = [type |-> t, keyId |-> k, encrypted |-> e]
    BY NetForm
  <1>2. Len(k) <= maxField
    <2>1. maxField \in Nat /\ maxField >= 3
      BY Prefix
    <2> HIDE DEF maxField
    <2> QED  BY <1>1, <2>1
  <1>3. ParseMessage(b) = IF Len(e) > maxField THEN Malformed
                          ELSE Read([type |-> t, keyId |-> k, encrypted |-> e])
    BY <1>1, <1>2, MessageFacts
  <1>4. Malformed.err # None
    BY NoneAssumption DEF Malformed
  <1>5. ParseMessage(b).val = [type |-> t, keyId |-> k, encrypted |-> e]
    BY <1>3, <1>4 DEF Read
  <1>6. t # MessageTypeResponse
    BY <1>5 DEF MessageTypeQuery, MessageTypeResponse
  <1> QED  BY <1>1, <1>5, <1>6

-----------------------------------------------------------------------------
LEMMA QueryKeepsTarget ==
    ASSUME TargetInv, NEW c \in Client, NEW n \in Name, NEW pad \in Padding,
           EncryptQuery(c, n, pad)
    PROVE  TypeOK' /\ KeyInv' /\ NetInv'
  <1> PICK new : new = Len(queries) + 1
    OBVIOUS
  <1>0. IsSeq(queries)
    BY DEF TargetInv, ExchangeInv, TablesInv
  <1>1. /\ DOMAIN queries \subseteq DOMAIN queries'
        /\ DOMAIN queries' = DOMAIN queries \cup {new}
        /\ \A i \in DOMAIN queries : queries'[i] = queries[i]
        /\ queries'[new] = [pub |-> config[c].pub, aad |-> KeyID(config[c]),
                            plain |-> Plaintext(<<n>>, pad)]
    BY <1>0, QueryKept
  <1>2. PICK k \in 1 .. MaxKeys : config[c] = Contents(k)
    BY DEF TargetInv, TypeOK, EncryptQuery
  <1>3. k \in Nat
    BY BoundAssumption
  <1>4. /\ queries'[new].pub = <<Pub(k)>> /\ queries'[new].aad = <<Digest(k)>>
        /\ queries'[new].plain = Plaintext(<<n>>, pad)
    BY <1>1, <1>2, <1>3, KeyFacts
  <1>5. Len(queries') = new /\ new <= MaxQueries
    BY <1>0, AppendFacts DEF EncryptQuery
  <1>6. /\ pending' = pending \cup {new} /\ key' = key /\ config' = config
        /\ work' = work /\ responses' = responses
        /\ net' = net \cup {MarshalMessage([type |-> MessageTypeQuery,
                                            keyId |-> KeyID(config[c]),
                                            encrypted |-> <<Enc(new)>> \o
                                                  Ciphertext(Sealed(new), Plaintext(<<n>>, pad))])}
    BY DEF EncryptQuery, Plaintext
  <1>7. KeyID(config[c]) = queries'[new].aad /\ Plaintext(<<n>>, pad) = queries'[new].plain
    BY <1>1
  <1>8. net' = net \cup {MarshalMessage(SealedQuery(new)')}
    BY <1>6, <1>7 DEF SealedQuery
  <1>9. \A i \in DOMAIN queries : SealedQuery(i)' = SealedQuery(i)
    BY <1>1 DEF SealedQuery
  <1>10. \A j : SealedAnswer(j)' = SealedAnswer(j)
    BY <1>6 DEF SealedAnswer
  <1>11. TypeOK'
    BY <1>1, <1>5, <1>6 DEF TargetInv, TypeOK
  <1>12. KeyInv'
    BY <1>1, <1>4 DEF TargetInv, KeyInv
  <1>13. NetInv'
    <2> SUFFICES ASSUME NEW b \in net'
                 PROVE  \/ \E i \in DOMAIN queries' : b = MarshalMessage(SealedQuery(i)')
                        \/ \E j \in DOMAIN responses' : b = MarshalMessage(SealedAnswer(j)')
      BY DEF NetInv
    <2>1. CASE b \in net
      BY <1>1, <1>6, <1>9, <1>10, <2>1 DEF TargetInv, NetInv
    <2>2. CASE b = MarshalMessage(SealedQuery(new)')
      BY <1>1, <2>2
    <2> QED  BY <1>8, <2>1, <2>2
  <1> QED  BY <1>11, <1>12, <1>13

LEMMA AnswerKeepsTarget ==
    ASSUME TargetInv, NEW w \in work, NEW pad \in Padding, NEW dns \in {w.dns, <<>>},
           EncryptResponse(w, dns, pad)
    PROVE  TypeOK' /\ KeyInv' /\ NetInv'
  <1> PICK new : new = Len(responses) + 1
    OBVIOUS
  <1>0. IsSeq(responses)
    BY DEF TargetInv, ExchangeInv, TablesInv
  <1> DEFINE e == [secrets |-> secrets(w.query), query |-> w.query,
                   plain |-> Plaintext(dns, pad)]
  <1>1. /\ responses' = Append(responses, e) /\ new <= MaxResponses
        /\ work' \subseteq work /\ queries' = queries /\ pending' = pending
        /\ key' = key /\ config' = config
        /\ net' = net \cup {MarshalMessage([type |-> MessageTypeResponse,
                                            keyId |-> <<Nonce(new)>>,
                                            encrypted |-> Ciphertext(SealedResponse(new), e.plain)])}
    BY DEF EncryptResponse, Plaintext
  <1> HIDE DEF e
  <1>2. /\ Len(responses') = new /\ DOMAIN responses' = DOMAIN responses \cup {new}
        /\ \A j \in DOMAIN responses : responses'[j] = responses[j]
        /\ responses'[new] = e
    <2>1. /\ Len(responses) \in Nat /\ DOMAIN responses = 1 .. Len(responses)
          /\ Len(responses') = Len(responses) + 1
          /\ DOMAIN responses' = 1 .. Len(responses) + 1
          /\ \A j \in DOMAIN responses : responses'[j] = responses[j]
          /\ responses'[Len(responses) + 1] = e
      BY <1>0, <1>1, AppendFacts
    <2> QED  BY <2>1
  <1>3. net' = net \cup {MarshalMessage(SealedAnswer(new)')}
    BY <1>1, <1>2 DEF SealedAnswer
  <1>4. \A j \in DOMAIN responses : SealedAnswer(j)' = SealedAnswer(j)
    BY <1>2 DEF SealedAnswer
  <1>5. \A i : SealedQuery(i)' = SealedQuery(i)
    BY <1>1 DEF SealedQuery
  <1>6. TypeOK'
    BY <1>1, <1>2 DEF TargetInv, TypeOK
  <1>7. KeyInv'
    BY <1>1 DEF TargetInv, KeyInv
  <1>8. NetInv'
    <2> SUFFICES ASSUME NEW b \in net'
                 PROVE  \/ \E i \in DOMAIN queries' : b = MarshalMessage(SealedQuery(i)')
                        \/ \E j \in DOMAIN responses' : b = MarshalMessage(SealedAnswer(j)')
      BY DEF NetInv
    <2>1. CASE b \in net
      BY <1>1, <1>2, <1>4, <1>5, <2>1 DEF TargetInv, NetInv
    <2>2. CASE b = MarshalMessage(SealedAnswer(new)')
      BY <1>2, <2>2
    <2> QED  BY <1>3, <2>1, <2>2
  <1> QED  BY <1>6, <1>7, <1>8

LEMMA TargetStep ==
    ASSUME TargetInv, [Next]_vars
    PROVE  TargetInv'
  <1> DEFINE Rest == queries' = queries /\ responses' = responses /\ net' = net
             Goal == TypeOK' /\ KeyInv' /\ NetInv'
  <1>0. ASSUME Rest
        PROVE  KeyInv' /\ NetInv'
    <2>1. \A i : SealedQuery(i)' = SealedQuery(i) /\ SealedAnswer(i)' = SealedAnswer(i)
      BY <1>0 DEF SealedQuery, SealedAnswer
    <2> QED  BY <1>0, <2>1 DEF TargetInv, KeyInv, NetInv
  <1>1. CASE Restart
    <2>1. Rest /\ TypeOK'
      BY <1>1, BoundAssumption DEF Restart, TargetInv, TypeOK
    <2> QED  BY <1>0, <1>1, <2>1, ExchangeStep DEF TargetInv, Next
  <1>2. ASSUME NEW c \in Client, NEW x \in Foreign, Fetch(c, x)
        PROVE  Goal
    <2>1. /\ Rest /\ key' = key /\ pending' = pending /\ work' = work
          /\ config' = [config EXCEPT ![c] = ParseConfigs(Published(x)).val]
      BY <1>2 DEF Fetch
    <2>2. key \in 1 .. MaxKeys /\ config \in [Client -> {Contents(k) : k \in 1 .. MaxKeys} \cup {None}]
      BY DEF TargetInv, TypeOK
    <2>3. ParseConfigs(Published(x)).val = Contents(key)
      <3>1. ParseConfigs(Published(x)) = Read(Contents(key))
        BY <2>2, ConfigsAreFound DEF Published
      <3> QED  BY <3>1 DEF Read
    <2>4. config' \in [Client -> {Contents(k) : k \in 1 .. MaxKeys} \cup {None}]
      BY <2>1, <2>2, <2>3
    <2>5. TypeOK'
      BY <2>1, <2>4 DEF TargetInv, TypeOK
    <2> QED  BY <1>0, <2>1, <2>5
  <1>3. ASSUME NEW b \in net, DecryptQuery(b)
        PROVE  Goal
    <2>1. /\ Rest /\ key' = key /\ pending' = pending /\ config' = config
          /\ Receive(key, b).err = None /\ work' = work \cup {Receive(key, b).val}
      BY <1>3 DEF DecryptQuery
    <2>2. PICK i \in DOMAIN queries : Receive(key, b).val = [query |-> i, dns |-> Asked(i)]
      BY <2>1, ReceiveFacts
    <2>3. PICK n \in Name, pad \in PaddingOK : queries[i].plain = Plaintext(<<n>>, pad)
      BY DEF TargetInv, ExchangeInv, NamesInv
    <2>4. Asked(i) = <<n>>
      BY <2>3, NamePlaintext DEF Asked
    <2>5. work' = work \cup {[query |-> i, dns |-> <<n>>]}
      BY <2>1, <2>2, <2>4
    <2>6. TypeOK'
      BY <2>1, <2>5 DEF TargetInv, TypeOK
    <2> QED  BY <1>0, <2>1, <2>6
  <1>4. ASSUME NEW i \in pending, NEW b \in net, DecryptResponse(i, b)
        PROVE  Goal
    <2>1. Rest /\ TypeOK'
      BY <1>4 DEF DecryptResponse, TargetInv, TypeOK
    <2> QED  BY <1>0, <2>1
  <1>5. CASE UNCHANGED vars
    <2>1. Rest /\ TypeOK'
      BY <1>5 DEF vars, TargetInv, TypeOK
    <2> QED  BY <1>0, <2>1, <1>5, ExchangeStep DEF TargetInv
  <1>6. ExchangeInv'
    BY ExchangeStep DEF TargetInv
  <1> HIDE DEF Rest
  <1>7. Goal
    BY <1>1, <1>2, <1>3, <1>4, <1>5, QueryKeepsTarget, AnswerKeepsTarget DEF Next, TargetInv
  <1> QED  BY <1>6, <1>7 DEF TargetInv

THEOREM TargetInductive == Spec => []TargetInv
  <1>1. Init => TargetInv
    <2> SUFFICES ASSUME Init
                 PROVE  TargetInv
      OBVIOUS
    <2>1. ExchangeInv
      <3>1. IsSeq(<<>>)
        BY DEF IsSeq
      <3> QED  BY <3>1 DEF Init, ExchangeInv, TablesInv, NamesInv, ContextInv, AnswerInv,
                           AcceptedInv
    <2>2. TypeOK
      BY BoundAssumption DEF Init, TypeOK
    <2> QED  BY <2>1, <2>2 DEF Init, TargetInv, KeyInv, NetInv
  <1>2. TargetInv /\ [Next]_vars => TargetInv'
    BY TargetStep
  <1> QED  BY <1>1, <1>2, PTL DEF Spec

(* Clients hold configs the target has published, contexts are of queries  *)
(* that were sealed, and ask for names.                                    *)
THEOREM TypeCorrect == Spec => []TypeOK
  <1>1. TargetInv => TypeOK
    BY DEF TargetInv
  <1> QED  BY <1>1, TargetInductive, PTL

(* The sealed text of a query opens with its own key and ID, and as itself.*)
LEMMA OpensAsItself ==
    ASSUME TargetInv, NEW i \in DOMAIN queries, queries[i].pub = <<Pub(key)>>
    PROVE  {x \in DOMAIN queries : Opens(key, SealedQuery(i), x)} = {i}
  <1>1. i \in Nat /\ DOMAIN queries \subseteq Nat
    BY TableIndex DEF TargetInv, ExchangeInv, TablesInv
  <1>2. queries[i].plain \in Seq(Nat)
    <2>1. PICK n \in Name, pad \in PaddingOK : queries[i].plain = Plaintext(<<n>>, pad)
      BY DEF TargetInv, ExchangeInv, NamesInv
    <2> QED  BY <2>1, NamePlaintext
  <1>3. /\ SealedQuery(i).encrypted = <<Enc(i)>> \o Ciphertext(Sealed(i), queries[i].plain)
        /\ SealedQuery(i).keyId = queries[i].aad
    BY DEF SealedQuery
  <1>4. SealedQuery(i).encrypted[1] = Enc(i)
    BY <1>1, <1>2, <1>3, SealedFacts
  <1>5. Opens(key, SealedQuery(i), i)
    BY <1>3, <1>4 DEF Opens
  <1>6. ASSUME NEW x \in DOMAIN queries, Opens(key, SealedQuery(i), x)
        PROVE  x = i
    <2>1. Enc(x) = Enc(i)
      BY <1>4, <1>6 DEF Opens
    <2> QED  BY <1>1, <2>1 DEF Enc
  <1> QED  BY <1>5, <1>6

(* A query sealed to a key the target no longer holds is always told so    *)
(* ("keyid", so that the client fetches the config anew) and never looks   *)
(* like a damaged one; one sealed to the present key opens, however late   *)
(* and often it arrives (DecryptQuery).                                    *)
THEOREM StaleToldSo == Spec => []StaleIsToldSo
  <1>1. ASSUME TargetInv
        PROVE  StaleIsToldSo
    <2> SUFFICES ASSUME NEW b \in net, ParseMessage(b).err = None,
                        ParseMessage(b).val.type = MessageTypeQuery
                 PROVE  Receive(key, b).err
                          = IF queries[ParseMessage(b).val.encrypted[1] - Enc(0)].pub = <<Pub(key)>>
                            THEN None ELSE "keyid"
      BY DEF StaleIsToldSo
    <2>1. PICK i \in DOMAIN queries : ParseMessage(b).val = SealedQuery(i)
      BY <1>1, QueryRead
    <2> DEFINE m == SealedQuery(i)
               e == <<Enc(i)>> \o Ciphertext(Sealed(i), queries[i].plain)
               p == ParsePlaintext(queries[i].plain)
    <2>2. i \in Nat
      BY <1>1, TableIndex DEF TargetInv, ExchangeInv, TablesInv
    <2>3. queries[i].plain \in Seq(Nat) /\ p.err = None
      <3>1. PICK n \in Name, pad \in PaddingOK : queries[i].plain = Plaintext(<<n>>, pad)
        BY <1>1 DEF TargetInv, ExchangeInv, NamesInv
      <3> QED  BY <3>1, NamePlaintext
    <2>4. e \in Seq(Nat) /\ Len(e) = Len(queries[i].plain) + 2 /\ e[1] = Enc(i)
      BY <2>2, <2>3, SealedFacts
    <2>5. m.type = MessageTypeQuery /\ m.keyId = queries[i].aad /\ m.encrypted = e
      BY DEF SealedQuery
    <2>6. PICK k \in 1 .. MaxKeys : queries[i].pub = <<Pub(k)>> /\ queries[i].aad = <<Digest(k)>>
      BY <1>1 DEF TargetInv, KeyInv
    <2>7. k \in Nat /\ key \in Nat
      BY <1>1, BoundAssumption DEF TargetInv, TypeOK
    <2>8. KeyID(Contents(key)) = <<Digest(key)>>
      BY <2>7, KeyFacts
    <2> DEFINE opened == {x \in DOMAIN queries : Opens(key, m, x)}
    <2>9. Receive(key, b) = Decrypt(key, m)
      BY <2>1 DEF Receive
    <2> HIDE DEF m, e
    <2>10. m.encrypted[1] - Enc(0) = i
      BY <2>2, <2>4, <2>5 DEF Enc
    <2>11. CASE k = key
      <3>1. queries[i].pub = <<Pub(key)>> /\ m.keyId = KeyID(Contents(key))
        BY <2>5, <2>6, <2>8, <2>11
      <3>2. opened = {i}
        BY <1>1, <3>1, OpensAsItself DEF m
      <3>3. ~(Len(m.encrypted) <= 1)
        BY <2>3, <2>4, <2>5
      <3>4. Decrypt(key, m) = LET x == CHOOSE x \in opened : TRUE
                                  q == ParsePlaintext(queries[x].plain)
                              IN  IF q.err # None THEN q
                                  ELSE Read([query |-> x, dns |-> q.val.dns])
        <4>1. opened # {}
          BY <3>2
        <4> QED  BY <2>5, <3>1, <3>3, <4>1 DEF Decrypt
      <3>5. (CHOOSE x \in opened : TRUE) = i
        BY <3>2
      <3>6. Decrypt(key, m) = Read([query |-> i, dns |-> p.val.dns])
        BY <2>3, <3>4, <3>5
      <3> QED  BY <2>1, <2>9, <2>10, <3>1, <3>6 DEF m, Read
    <2>12. CASE k # key
      <3>1. <<Digest(k)>> # <<Digest(key)>> /\ <<Pub(k)>> # <<Pub(key)>>
        <4>1. Digest(k) # Digest(key) /\ Pub(k) # Pub(key)
          BY <2>7, <2>12 DEF Digest, Pub
        <4> QED  BY <4>1
      <3>2. m.keyId # KeyID(Contents(key)) /\ queries[i].pub # <<Pub(key)>>
        BY <2>5, <2>6, <2>8, <3>1
      <3>3. Decrypt(key, m) = [err |-> "keyid"]
        BY <2>5, <3>2 DEF Decrypt
      <3> QED  BY <2>1, <2>9, <2>10, <3>2, <3>3 DEF m
    <2> QED  BY <2>11, <2>12
  <1>2. TargetInv => StaleIsToldSo
    BY <1>1
  <1> QED  BY <1>2, TargetInductive, PTL

(* The receiver of a message reads what was sent or reports it malformed:  *)
(* one too long for its length prefix is refused rather than read as a     *)
(* shorter one, and of one cut short nothing is read, or, when the cut is  *)
(* just where a saturated prefix says it ends, opened (ParseMessage,       *)
(* DecryptQuery).  That the target's config is found is the hypothesis.    *)
THEOREM FramingExact == Spec => []FramingIsExact
  <1>0. maxField \in Nat /\ maxField >= 3
    BY Prefix
  <1>1. Malformed.err # None
    BY NoneAssumption DEF Malformed
  <1>2. ASSUME TargetInv
        PROVE  FramingIsExact
    <2>1. ASSUME NEW x \in Foreign
          PROVE  ParseConfigs(Published(x)) = Read(Contents(key))
      BY <1>2, ConfigsAreFound DEF TargetInv, TypeOK, Published
    <2>2. ASSUME NEW b \in net
          PROVE  LET m == ParseMessage(b)
                     fits == Len(b) <= maxField + 6
                 IN  /\ IF fits THEN m.err = None /\ MarshalMessage(m.val) = b ELSE m = Malformed
                     /\ \A n \in 0 .. Len(b) - 1 :
                            LET cut == SubSeq(b, 1, n)
                            IN  IF fits THEN ParseMessage(cut) = Malformed
                                ELSE Receive(key, cut).err # None
      <3>1. PICK t \in Nat, k \in Seq(Nat), e \in Seq(Nat) :
                   /\ b = Message(t, k, e) /\ Len(k) = 1 /\ Len(e) >= 1
                   /\ \/ t = MessageTypeResponse
                      \/ \E i \in DOMAIN queries :
                            SealedQuery(i) = [type |-> t, keyId |-> k, encrypted |-> e]
        BY <1>2, NetForm
      <3> DEFINE fits == Len(b) <= maxField + 6
                 m == ParseMessage(b)
                 r == [type |-> t, keyId |-> k, encrypted |-> e]
                 Cut(n) == SubSeq(b, 1, n)
      <3>2. Len(k) <= maxField
        <4> HIDE DEF maxField
        <4> QED  BY <1>0, <3>1
      <3>3. m = IF Len(e) > maxField THEN Malformed ELSE Read(r)
        BY <3>1, <3>2, MessageFacts
      <3>4. b = MarshalMessage(r)
        BY <3>1 DEF Message
      <3>5. Len(b) = 6 + Len(e) /\ CutsRefused(b, t, k, e)
        BY <3>1, CutFacts
      <3> HIDE DEF maxField
      <3>6. fits <=> ~(Len(e) > maxField)
        <4>1. Len(e) \in Nat
          OBVIOUS
        <4> QED  BY <1>0, <3>5, <4>1
      <3> HIDE DEF fits, Cut
      <3>7. IF fits THEN m.err = None /\ MarshalMessage(m.val) = b ELSE m = Malformed
        BY <3>3, <3>4, <3>6 DEF Read
      <3>8. ASSUME NEW n \in 0 .. Len(b) - 1, fits
            PROVE  ParseMessage(Cut(n)) = Malformed
        BY <3>5, <3>6, <3>8 DEF CutsRefused, Cut
      <3>9. ASSUME NEW n \in 0 .. Len(b) - 1, ~fits, Receive(key, Cut(n)).err = None
            PROVE  FALSE
        <4> DEFINE v == ParseMessage(Cut(n)).val
        <4>1. PICK x \in DOMAIN queries :
                     /\ ParseMessage(Cut(n)).err = None /\ v.type = MessageTypeQuery
                     /\ Opens(key, v, x)
          BY <3>9, ReceiveFacts
        <4>2. PICK c \in Seq(Nat) :
                     /\ Len(c) = maxField /\ c[1] = e[1]
                     /\ ParseMessage(Cut(n)) = Read([type |-> t, keyId |-> k, encrypted |-> c])
          BY <1>1, <3>5, <4>1 DEF CutsRefused, Cut
        <4>3. v = [type |-> t, keyId |-> k, encrypted |-> c]
          BY <4>2 DEF Read
        <4>4. PICK i \in DOMAIN queries : SealedQuery(i) = r
          BY <3>1, <4>1, <4>3 DEF MessageTypeQuery, MessageTypeResponse
        <4>5. e = <<Enc(i)>> \o Ciphertext(Sealed(i), queries[i].plain)
          BY <4>4 DEF SealedQuery
        <4>6. i \in Nat /\ x \in Nat
          BY <1>2, TableIndex DEF TargetInv, ExchangeInv, TablesInv
        <4>7. queries[i].plain \in Seq(Nat)
          <5>1. PICK y \in Name, pad \in PaddingOK : queries[i].plain = Plaintext(<<y>>, pad)
            BY <1>2 DEF TargetInv, ExchangeInv, NamesInv
          <5> QED  BY <5>1, NamePlaintext
        <4>8. e[1] = Enc(i)
          BY <4>5, <4>6, <4>7, SealedFacts
        <4>9. /\ c[1] = Enc(x)
              /\ c = <<Enc(x)>> \o Ciphertext(Sealed(x), queries[x].plain)
          BY <4>1, <4>3 DEF Opens
        <4>10. x = i
          BY <4>2, <4>6, <4>8, <4>9 DEF Enc
        <4>11. Len(e) = maxField
          BY <4>2, <4>5, <4>9, <4>10
        <4> QED  BY <1>0, <3>6, <3>9, <4>11
      <3> QED  BY <3>7, <3>8, <3>9 DEF fits, Cut
    <2> QED  BY <2>1, <2>2 DEF FramingIsExact
  <1>3. TargetInv => FramingIsExact
    BY <1>2
  <1> QED  BY <1>3, TargetInductive, PTL
=============================================================================
