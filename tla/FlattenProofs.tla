---------------------------- MODULE FlattenProofs ----------------------------
(***************************************************************************)
(* What FlattenSeq() of SequencesExt computes, for all sequences of        *)
(* sequences: the k-th part comes after all before it.  FlattenSeq is      *)
(* defined by a recursive function; induction on its arguments is by the   *)
(* least number for which a claim fails (LeastNat).                        *)
(***************************************************************************)
EXTENDS Integers, Sequences, SequencesExt, SequenceTheorems, WellFoundedInduction, TLAPS

\* Every set of numbers has a least one.
LEMMA LeastNat ==
  ASSUME NEW T, T \subseteq Nat, T # {}
  PROVE  \E n \in T : \A m \in T : n <= m
<1> DEFINE R == {ss \in Nat \X Nat : ss[1] < ss[2]}
<1>1. IsWellFoundedOn(R, Nat)
  BY NatLessThanWellFounded DEF OpToRel
<1>2. \A x, y \in Nat : <<y, x>> \in R <=> y < x
  OBVIOUS
<1> HIDE DEF R
<1>3. PICK n \in T : \A y \in T : ~ (<<y, n>> \in R)
  BY <1>1, WFMin
<1>4. \A y \in T : ~ (y < n)
  BY <1>2, <1>3
<1>5. \A y \in T : n <= y
  BY <1>4
<1>6. QED
  BY <1>5

\* Induction: a set of numbers that holds 1, and with each number up to n the
\* next, holds all up to n.
LEMMA UpTo ==
  ASSUME NEW S, NEW n \in Nat,
         1 \in S, \A m \in 1..n - 1 : m \in S => m + 1 \in S
  PROVE  1..n \subseteq S
<1> DEFINE T == {m \in 1..n : m \notin S}
<1> SUFFICES ASSUME T # {} PROVE FALSE
  OBVIOUS
<1>1. T \subseteq Nat
  OBVIOUS
<1>2. PICK m \in T : \A k \in T : m <= k
  <2> HIDE DEF T
  <2>1. QED
    BY <1>1, LeastNat
<1>3. m \in 1..n /\ m \notin S /\ m # 1
  BY <1>2
<1>4. m - 1 \in 1..n - 1 /\ m - 1 \notin T
  BY <1>2, <1>3
<1>5. m - 1 \in S
  BY <1>4
<1>6. (m - 1) + 1 \in S
  BY <1>4, <1>5
<1>7. QED
  BY <1>3, <1>6

-----------------------------------------------------------------------------
\* The recursive function inside FlattenSeq: g holds what the first parts of ss
\* make, m of them.
Concats(ss, m, g) == g = [i \in 1..m |-> IF i = 1 THEN ss[i] ELSE g[i - 1] \o ss[i]]
Flat(ss) == CHOOSE g : Concats(ss, Len(ss), g)

\* FlattenSeq is defined by a recursive function.
LEMMA FlattenIsFlat ==
  ASSUME NEW ss, Len(ss) # 0
  PROVE  FlattenSeq(ss) = Flat(ss)[Len(ss)]
  BY DEF FlattenSeq, Flat, Concats

\* There is such a function, ...
LEMMA ConcatsExists ==
  ASSUME NEW ss, NEW n \in Nat
  PROVE  \E g : Concats(ss, n, g)
<1> DEFINE S == {m \in 1..n : \E g : Concats(ss, m, g)}
<1>1. CASE n = 0
  BY <1>1 DEF Concats
<1>2. CASE n # 0
  <2>1. 1 \in S
    <3>1. Concats(ss, 1, [i \in 1..1 |-> ss[i]])
      BY DEF Concats
    <3>2. QED
      BY <1>2, <3>1
  <2>2. ASSUME NEW m \in 1..n - 1, m \in S PROVE m + 1 \in S
    <3>1. PICK g : Concats(ss, m, g)
      BY <2>2
    <3>2. PICK x : x = g[m] \o ss[m + 1]
      OBVIOUS
    <3> DEFINE h == [i \in 1..m + 1 |-> IF i = m + 1 THEN x ELSE g[i]]
    <3>3. /\ \A i \in 1..m : h[i] = g[i]
          /\ m + 1 \in 1..m + 1 /\ h[m + 1] = x
          /\ h = [i \in 1..m + 1 |-> h[i]]
      OBVIOUS
    <3> HIDE DEF h
    <3>4. \A i \in 1..m : h[i] = IF i = 1 THEN ss[i] ELSE h[i - 1] \o ss[i]
      <4>1. ASSUME NEW i \in 1..m PROVE g[i] = IF i = 1 THEN ss[i] ELSE g[i - 1] \o ss[i]
        BY <3>1 DEF Concats
      <4>2. ASSUME NEW i \in 1..m, i # 1 PROVE i - 1 \in 1..m
        BY <4>2
      <4>3. QED
        BY <3>3, <4>1, <4>2
    <3>5. h[m + 1] = h[m] \o ss[m + 1] /\ m + 1 # 1
      <4>1. m \in 1..m /\ m + 1 # 1
        OBVIOUS
      <4>2. h[m] = g[m]
        BY <3>3, <4>1
      <4>3. QED
        BY <3>2, <3>3, <4>1, <4>2
    <3>6. \A i \in 1..m + 1 : h[i] = IF i = 1 THEN ss[i] ELSE h[i - 1] \o ss[i]
      <4>1. \A i \in 1..m + 1 : i \in 1..m \/ (i = m + 1 /\ i - 1 = m)
        OBVIOUS
      <4>2. QED
        BY <3>4, <3>5, <4>1
    <3>7. Concats(ss, m + 1, h)
      BY <3>3, <3>6 DEF Concats
    <3>8. QED
      BY <3>7
  <2> HIDE DEF S
  <2>3. 1..n \subseteq S
    BY <2>1, <2>2, UpTo
  <2>4. n \in S
    BY <1>2, <2>3
  <2>5. QED
    BY <2>4 DEF S
<1>3. QED
  BY <1>1, <1>2

\* ... so Flat is one, ...
LEMMA FlatConcats ==
  ASSUME NEW ss, Len(ss) \in Nat
  PROVE  Concats(ss, Len(ss), Flat(ss))
<1>1. \E g : Concats(ss, Len(ss), g)
  BY ConcatsExists
<1> HIDE DEF Concats
<1>2. QED
  BY <1>1 DEF Flat

\* ... and two of them agree as far as both go.
LEMMA ConcatsUnique ==
  ASSUME NEW ss, NEW tt, NEW n \in Nat, NEW m \in 1..n, NEW g, NEW h,
         \A i \in 1..m : ss[i] = tt[i],
         Concats(ss, n, g), Concats(tt, m, h)
  PROVE  g[m] = h[m]
<1> DEFINE S == {k \in 1..m : g[k] = h[k]}
<1>1. 1 \in S
  BY DEF Concats
<1>2. ASSUME NEW k \in 1..m - 1, k \in S PROVE k + 1 \in S
  <2>1. g[k + 1] = g[k] \o ss[k + 1]
    <3>1. k + 1 \in 1..n /\ k + 1 # 1 /\ (k + 1) - 1 = k
      OBVIOUS
    <3>2. QED
      BY <3>1 DEF Concats
  <2>2. h[k + 1] = h[k] \o tt[k + 1]
    <3>1. k + 1 \in 1..m /\ k + 1 # 1 /\ (k + 1) - 1 = k
      OBVIOUS
    <3>2. QED
      BY <3>1 DEF Concats
  <2>3. k + 1 \in 1..m /\ g[k] = h[k]
    BY <1>2
  <2>4. ss[k + 1] = tt[k + 1]
    BY <2>3
  <2>5. g[k + 1] = h[k + 1]
    BY <2>1, <2>2, <2>3, <2>4
  <2>6. QED
    BY <2>3, <2>5
<1> HIDE DEF S
<1>3. 1..m \subseteq S
  BY <1>1, <1>2, UpTo
<1>4. QED
  BY <1>3 DEF S

-----------------------------------------------------------------------------
\* What the first m parts of ss make, and where the part after them starts.
Before(ss, m) == FlattenSeq(SubSeq(ss, 1, m))
Off(ss, m) == Len(Before(ss, m - 1))

\* Nothing comes before the first part, ...
LEMMA BeforeNone == ASSUME NEW ss PROVE Before(ss, 0) = <<>>
  BY DEF Before, FlattenSeq

\* The last of the parts, and what is before it.
LEMMA FlatLast ==
  ASSUME NEW s, NEW m \in Nat \ {0}, Len(s) = m
  PROVE  /\ Concats(s, m, Flat(s)) /\ FlattenSeq(s) = Flat(s)[m]
         /\ m = 1 => FlattenSeq(s) = s[1]
         /\ m # 1 => FlattenSeq(s) = Flat(s)[m - 1] \o s[m]
<1>1. Concats(s, m, Flat(s))
  BY FlatConcats
<1>2. FlattenSeq(s) = Flat(s)[m]
  BY FlattenIsFlat
<1>3. Flat(s)[m] = IF m = 1 THEN s[m] ELSE Flat(s)[m - 1] \o s[m]
  <2>1. m \in 1..m
    OBVIOUS
  <2>2. QED
    BY <1>1, <2>1 DEF Concats
<1>4. QED
  BY <1>1, <1>2, <1>3

\* ... every part comes behind those before it, ...
LEMMA BeforeNext ==
  ASSUME NEW S, NEW ss \in Seq(Seq(S)), NEW m \in 1..Len(ss)
  PROVE  Before(ss, m) = Before(ss, m - 1) \o ss[m]
<1> DEFINE s == SubSeq(ss, 1, m)
           t == SubSeq(ss, 1, m - 1)
<1>1. /\ Len(s) = m /\ Len(t) = m - 1
      /\ \A i \in 1..m : s[i] = ss[i]
      /\ \A i \in 1..m - 1 : t[i] = ss[i]
  OBVIOUS
<1>2. Before(ss, m) = FlattenSeq(s) /\ Before(ss, m - 1) = FlattenSeq(t)
  BY DEF Before
<1>3. ss[m] \in Seq(S) /\ m \in Nat \ {0} /\ m \in 1..m /\ Len(ss) \in Nat
  OBVIOUS
<1> HIDE DEF s, t
<1>4. CASE m = 1
  <2>1. Before(ss, m) = ss[m]
    BY <1>1, <1>2, <1>3, <1>4, FlatLast
  <2>2. Before(ss, m - 1) = <<>>
    BY <1>4, BeforeNone
  <2>3. <<>> \o ss[m] = ss[m]
    BY <1>3, ConcatEmptySeq
  <2>4. QED
    BY <2>1, <2>2, <2>3
<1>5. CASE m # 1
  <2>1. m - 1 \in Nat \ {0} /\ m - 1 \in 1..m /\ \A i \in 1..m - 1 : s[i] = t[i]
    <3>1. 1..m - 1 \subseteq 1..m
      BY <1>3
    <3>2. QED
      BY <1>1, <1>3, <1>5, <3>1
  <2>2. Concats(s, m, Flat(s)) /\ FlattenSeq(s) = Flat(s)[m - 1] \o s[m]
    BY <1>1, <1>3, <1>5, FlatLast
  <2>3. Concats(t, m - 1, Flat(t)) /\ FlattenSeq(t) = Flat(t)[m - 1]
    BY <1>1, <2>1, FlatLast
  <2>4. Flat(s)[m - 1] = Flat(t)[m - 1]
    BY <1>3, <2>1, <2>2, <2>3, ConcatsUnique
  <2>5. s[m] = ss[m]
    BY <1>1, <1>3
  <2>6. FlattenSeq(s) = FlattenSeq(t) \o s[m]
    BY <2>2, <2>3, <2>4
  <2>7. QED
    BY <1>2, <2>5, <2>6
<1>6. QED
  BY <1>4, <1>5

\* ... and all of them are what FlattenSeq makes.
LEMMA BeforeAll == ASSUME NEW S, NEW ss \in Seq(S) PROVE Before(ss, Len(ss)) = FlattenSeq(ss)
  BY SubSeqFull DEF Before

\* What comes before a part is a sequence, and the offset its length.
LEMMA BeforeType ==
  ASSUME NEW S, NEW ss \in Seq(Seq(S)), NEW m \in 0..Len(ss)
  PROVE  Before(ss, m) \in Seq(S) /\ Off(ss, m + 1) = Len(Before(ss, m)) /\ Off(ss, m + 1) \in Nat
<1> DEFINE T == {k \in 1..Len(ss) : Before(ss, k) \in Seq(S)}
<1>1. Len(ss) \in Nat /\ Before(ss, 0) \in Seq(S)
  <2>1. <<>> \in Seq(S)
    BY EmptySeq
  <2>2. Len(ss) \in Nat
    BY LenProperties
  <2>3. QED
    BY <2>1, <2>2, BeforeNone
<1>2. ASSUME NEW k \in 1..Len(ss), Before(ss, k - 1) \in Seq(S) PROVE k \in T
  <2>1. ss[k] \in Seq(S)
    OBVIOUS
  <2>2. Before(ss, k - 1) \o ss[k] \in Seq(S)
    BY <1>2, <2>1, ConcatProperties
  <2>3. QED
    BY <2>2, BeforeNext
<1>3. CASE m = 0
  BY <1>1, <1>3 DEF Off
<1>4. CASE m # 0
  <2>1. 1 \in T
    BY <1>1, <1>2, <1>4
  <2>2. ASSUME NEW k \in 1..Len(ss) - 1, k \in T PROVE k + 1 \in T
    <3>1. k + 1 \in 1..Len(ss) /\ (k + 1) - 1 = k
      BY <1>1
    <3>2. Before(ss, (k + 1) - 1) \in Seq(S)
      BY <2>2, <3>1
    <3>3. QED
      BY <1>2, <3>1, <3>2
  <2> HIDE DEF T
  <2>3. 1..Len(ss) \subseteq T
    BY <1>1, <2>1, <2>2, UpTo
  <2>4. Before(ss, m) \in Seq(S)
    <3>1. m \in 1..Len(ss)
      BY <1>1, <1>4
    <3>2. m \in T
      BY <2>3, <3>1
    <3>3. QED
      BY <3>2 DEF T
  <2>5. (m + 1) - 1 = m
    BY <1>1
  <2>6. QED
    BY <2>4, <2>5 DEF Off
<1>5. QED
  BY <1>3, <1>4

\* The parts lie one behind the other, in order and without gaps.
LEMMA FlattenParts ==
  ASSUME NEW S, NEW ss \in Seq(Seq(S))
  PROVE  /\ FlattenSeq(ss) \in Seq(S) /\ Len(FlattenSeq(ss)) = Off(ss, Len(ss) + 1)
         /\ Off(ss, 1) = 0
         /\ \A m \in 1..Len(ss) :
               /\ Off(ss, m) \in Nat
               /\ Off(ss, m + 1) = Off(ss, m) + Len(ss[m])
               /\ Off(ss, m + 1) <= Len(FlattenSeq(ss))
               /\ \A c \in 1..Len(ss[m]) : FlattenSeq(ss)[Off(ss, m) + c] = ss[m][c]
<1>1. Len(ss) \in Nat /\ \A m \in 1..Len(ss) : ss[m] \in Seq(S) /\ Len(ss[m]) \in Nat
  OBVIOUS
<1>2. FlattenSeq(ss) \in Seq(S) /\ Len(FlattenSeq(ss)) = Off(ss, Len(ss) + 1)
  BY <1>1, BeforeAll, BeforeType
<1>3. Off(ss, 1) = 0
  <2>1. 0 \in 0..Len(ss) /\ 0 + 1 = 1
    BY <1>1
  <2>2. Off(ss, 0 + 1) = Len(Before(ss, 0))
    BY <2>1, BeforeType
  <2>3. QED
    BY <2>1, <2>2, BeforeNone
<1>4. ASSUME NEW m \in 1..Len(ss)
      PROVE  /\ Before(ss, m - 1) \in Seq(S) /\ Len(Before(ss, m - 1)) = Off(ss, m)
             /\ Off(ss, m) \in Nat
  <2>1. m - 1 \in 0..Len(ss) /\ (m - 1) + 1 = m
    BY <1>1
  <2>2. QED
    BY <2>1, BeforeType DEF Off
<1>5. ASSUME NEW m \in 1..Len(ss)
      PROVE  /\ Before(ss, m) \in Seq(S) /\ Len(Before(ss, m)) = Off(ss, m + 1)
             /\ Off(ss, m + 1) = Off(ss, m) + Len(ss[m])
             /\ \A c \in 1..Len(ss[m]) : Before(ss, m)[Off(ss, m) + c] = ss[m][c]
             /\ \A i \in 1..Off(ss, m) : Before(ss, m)[i] = Before(ss, m - 1)[i]
  <2> DEFINE b == Before(ss, m - 1)
             d == ss[m]
  <2>1. m \in 0..Len(ss)
    BY <1>1
  <2>2. Before(ss, m) \in Seq(S) /\ Off(ss, m + 1) = Len(Before(ss, m))
    BY <2>1, BeforeType
  <2>3. Before(ss, m) = b \o d /\ b \in Seq(S) /\ d \in Seq(S) /\ Len(b) = Off(ss, m)
    BY <1>1, <1>4, BeforeNext
  <2> HIDE DEF b, d
  <2>4. /\ Len(b \o d) = Len(b) + Len(d)
        /\ \A i \in 1..Len(b) + Len(d) : (b \o d)[i] = IF i <= Len(b) THEN b[i] ELSE d[i - Len(b)]
    BY <2>3, ConcatProperties
  <2>5. Len(b) \in Nat /\ Len(d) \in Nat
    BY <2>3
  <2>6. \A c \in 1..Len(d) : (b \o d)[Len(b) + c] = d[c]
    <3>1. ASSUME NEW c \in 1..Len(d)
          PROVE  Len(b) + c \in 1..Len(b) + Len(d) /\ ~(Len(b) + c <= Len(b)) /\ (Len(b) + c) - Len(b) = c
      BY <2>5
    <3>2. QED
      BY <2>4, <3>1
  <2>7. \A i \in 1..Len(b) : (b \o d)[i] = b[i]
    BY <2>4, <2>5
  <2>8. QED
    BY <2>2, <2>3, <2>4, <2>6, <2>7 DEF b, d
<1> DEFINE In(k, m) == /\ Off(ss, k + 1) <= Off(ss, m + 1)
                       /\ \A c \in 1..Len(ss[k]) : Before(ss, m)[Off(ss, k) + c] = ss[k][c]
           T == {m \in 1..Len(ss) : \A k \in 1..m : In(k, m)}
<1> HIDE DEF In
<1>6. ASSUME NEW m \in 1..Len(ss), \A k \in 1..m - 1 : In(k, m - 1) PROVE m \in T
  <2>1. In(m, m)
    <3>1. Off(ss, m + 1) <= Off(ss, m + 1)
      BY <1>1, <1>4, <1>5
    <3>2. QED
      BY <1>5, <3>1 DEF In
  <2>2. ASSUME NEW k \in 1..m - 1 PROVE In(k, m)
    <3>1. /\ In(k, m - 1) /\ (m - 1) + 1 = m /\ k \in 1..Len(ss)
      <4>1. (m - 1) + 1 = m /\ k \in 1..Len(ss)
        BY <1>1
      <4>2. QED
        BY <1>6, <4>1
    <3>2. /\ Off(ss, k + 1) <= Off(ss, m)
          /\ \A c \in 1..Len(ss[k]) : Before(ss, m - 1)[Off(ss, k) + c] = ss[k][c]
      BY <3>1 DEF In
    <3>3. /\ Off(ss, k) \in Nat /\ Off(ss, m) \in Nat /\ Len(ss[k]) \in Nat /\ Len(ss[m]) \in Nat
          /\ Off(ss, k + 1) = Off(ss, k) + Len(ss[k]) /\ Off(ss, m + 1) = Off(ss, m) + Len(ss[m])
      BY <1>1, <1>4, <1>5, <3>1
    <3> DEFINE o == Off(ss, k)
               p == Off(ss, m)
               l == Len(ss[k])
    <3>4. /\ \A c \in 1..l : o + c \in 1..p
          /\ Off(ss, k + 1) <= Off(ss, m + 1)
      <4>1. o \in Nat /\ p \in Nat /\ l \in Nat /\ Len(ss[m]) \in Nat /\ o + l <= p
        BY <3>2, <3>3
      <4>2. Off(ss, k + 1) = o + l /\ Off(ss, m + 1) = p + Len(ss[m])
        BY <3>3
      <4> HIDE DEF o, p, l
      <4>3. QED
        BY <4>1, <4>2
    <3>5. \A c \in 1..Len(ss[k]) : Before(ss, m)[Off(ss, k) + c] = ss[k][c]
      BY <1>5, <3>2, <3>4
    <3>6. QED
      BY <3>4, <3>5 DEF In
  <2>3. \A k \in 1..m : k \in 1..m - 1 \/ k = m
    BY <1>1
  <2>4. QED
    BY <2>1, <2>2, <2>3
<1>7. ASSUME NEW m \in 1..Len(ss) PROVE In(m, Len(ss))
  <2>1. 1 \in T
    <3>1. 1 \in 1..Len(ss) /\ \A k \in 1..1 - 1 : In(k, 1 - 1)
      BY <1>1
    <3>2. QED
      BY <1>6, <3>1
  <2>2. ASSUME NEW k \in 1..Len(ss) - 1, k \in T PROVE k + 1 \in T
    <3>1. k + 1 \in 1..Len(ss) /\ (k + 1) - 1 = k
      BY <1>1
    <3>2. \A i \in 1..(k + 1) - 1 : In(i, (k + 1) - 1)
      BY <2>2, <3>1
    <3>3. QED
      BY <1>6, <3>1, <3>2
  <2> HIDE DEF T
  <2>3. 1..Len(ss) \subseteq T
    BY <1>1, <2>1, <2>2, UpTo
  <2>4. Len(ss) \in T
    <3>1. Len(ss) \in 1..Len(ss)
      BY <1>1
    <3>2. QED
      BY <2>3, <3>1
  <2>5. QED
    BY <2>4 DEF T
<1>8. Before(ss, Len(ss)) = FlattenSeq(ss)
  BY BeforeAll
<1>9. QED
  BY <1>2, <1>3, <1>4, <1>5, <1>7, <1>8 DEF In
=============================================================================
