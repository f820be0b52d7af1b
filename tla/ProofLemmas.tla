----------------------------- MODULE ProofLemmas ------------------------------
(***************************************************************************)
(* What several of the proofs need and the library does not state in a     *)
(* form the provers can use: induction over the natural numbers for a set, *)
(* loops written as recursive functions, the remainders that indices of a  *)
(* ring of n slots are made of, and parts of sequences.                    *)
(***************************************************************************)
EXTENDS Integers, Sequences, WellFoundedInduction, NaturalsInduction, SequenceTheorems, TLAPS

\* A set of natural numbers that is not empty has a least element.
LEMMA LeastElement ==
    ASSUME NEW S \in SUBSET Nat, S # {}
    PROVE  \E m \in S : \A n \in S : m <= n
<1> DEFINE less == OpToRel(<, Nat)
<1>1. \A m, n \in Nat : m < n => <<m, n>> \in less
  BY DEF OpToRel
<1> HIDE DEF less
<1>2. IsWellFoundedOn(less, Nat)
  BY NatLessThanWellFounded DEF less
<1>3. PICK m \in S : \A n \in S : <<n, m>> \notin less
  BY <1>2, WFMin
<1>4. \A n \in S : m <= n
  <2> SUFFICES ASSUME NEW n \in S, ~(m <= n) PROVE FALSE
    OBVIOUS
  <2>1. m \in Nat /\ n \in Nat /\ n < m
    BY SMT
  <2> QED BY <1>1, <1>3, <2>1, Zenon
<1> QED BY <1>4

\* Induction over 0 .. m, with a set instead of a predicate: a set that has 0
\* and the successor of each of its members below m has all of 0 .. m.
LEMMA SetInduction ==
    ASSUME NEW m \in Nat, NEW P, 0 \in P, \A n \in 1 .. m : n - 1 \in P => n \in P
    PROVE  0 .. m \subseteq P
<1> SUFFICES ASSUME (0 .. m) \ P # {} PROVE FALSE
  OBVIOUS
<1>1. (0 .. m) \ P \in SUBSET Nat
  OBVIOUS
<1>2. PICK k \in (0 .. m) \ P : \A n \in (0 .. m) \ P : k <= n
  BY <1>1, LeastElement
<1>3. k \in 1 .. m
  BY <1>2
<1>4. k - 1 \in P
  BY <1>2, <1>3
<1> QED BY <1>2, <1>3, <1>4

\* The values, round by round, of a loop of m rounds that starts with x and
\* makes g[n][y] of y in round n.
Loop(m, S, x, g) ==
    CHOOSE f \in [0 .. m -> S] : f[0] = x /\ \A n \in 1 .. m : f[n] = g[n][f[n - 1]]

\* Such a loop has a value after every round.
LEMMA LoopValues ==
    ASSUME NEW m \in Nat, NEW S, NEW x \in S, NEW g \in [1 .. m -> [S -> S]]
    PROVE  /\ Loop(m, S, x, g) \in [0 .. m -> S]
           /\ Loop(m, S, x, g)[0] = x
           /\ \A n \in 1 .. m : Loop(m, S, x, g)[n] = g[n][Loop(m, S, x, g)[n - 1]]
<1> DEFINE Good(k, f) == f[0] = x /\ \A n \in 1 .. k : f[n] = g[n][f[n - 1]]
           P == {k \in 0 .. m : \E f \in [0 .. k -> S] : Good(k, f)}
<1>1. 0 \in P
  <2> DEFINE h == [n \in 0 .. 0 |-> x]
  <2>1. h \in [0 .. 0 -> S] /\ Good(0, h)
    OBVIOUS
  <2>2. 0 \in 0 .. m
    OBVIOUS
  <2> HIDE DEF h, Good
  <2> QED BY <2>1, <2>2
<1>2. ASSUME NEW k \in 1 .. m, k - 1 \in P PROVE k \in P
  <2>1. PICK f \in [0 .. k - 1 -> S] : Good(k - 1, f)
    BY <1>2
  <2> DEFINE h == [n \in 0 .. k |-> IF n = k THEN g[k][f[k - 1]] ELSE f[n]]
  <2>2. f[k - 1] \in S /\ g[k][f[k - 1]] \in S
    OBVIOUS
  <2>3. h \in [0 .. k -> S]
    BY <2>2
  <2>4. h[0] = x
    BY <2>1
  <2>5. ASSUME NEW n \in 1 .. k PROVE h[n] = g[n][h[n - 1]]
    <3>1. CASE n = k
      BY <3>1
    <3>2. CASE n # k
      BY <2>1, <3>2
    <3> QED BY <3>1, <3>2
  <2>6. Good(k, h)
    BY <2>4, <2>5
  <2>7. k \in 0 .. m
    OBVIOUS
  <2> HIDE DEF h, Good
  <2> QED BY <2>3, <2>6, <2>7
<1>3. 0 .. m \subseteq P
  <2> HIDE DEF P
  <2> QED BY <1>1, <1>2, SetInduction
<1>4. \E f \in [0 .. m -> S] : f[0] = x /\ \A n \in 1 .. m : f[n] = g[n][f[n - 1]]
  BY <1>3
<1> QED BY <1>4 DEF Loop

\* The distance from slot t to slot h of a ring of n slots.
LEMMA RingDistance ==
    ASSUME NEW n \in Nat, n > 0, NEW h \in 0 .. n - 1, NEW t \in 0 .. n - 1
    PROVE  (n + h - t) % n = IF t <= h THEN h - t ELSE n + h - t
OBVIOUS

\* A number below 2n wraps around once at most.
LEMMA Wrap ==
    ASSUME NEW n \in Nat, n > 0, NEW a \in 0 .. 2 * n - 1
    PROVE  a % n = IF a < n THEN a ELSE a - n
OBVIOUS

\* The i-th slot of a ring with k bytes is the head only after the last byte.
LEMMA RingSlot ==
    ASSUME NEW n \in Nat, n > 1, NEW h \in 0 .. n - 1, NEW t \in 0 .. n - 1, NEW k,
           k = (IF t <= h THEN h - t ELSE n + h - t), NEW i \in 1 .. k + 1, NEW at,
           at = (IF t + i - 1 < n THEN t + i - 1 ELSE t + i - 1 - n)
    PROVE  at \in 0 .. n - 1 /\ (at = h <=> i = k + 1)
OBVIOUS

\* Counted from the slot after t, slot i + 1 is slot i.
LEMMA RingNext ==
    ASSUME NEW n \in Nat, n > 1, NEW t \in 0 .. n - 1, NEW u,
           u = (IF t = n - 1 THEN 0 ELSE t + 1), NEW i \in 1 .. n - 1
    PROVE  (IF t + (1 + i) - 1 < n THEN t + (1 + i) - 1 ELSE t + (1 + i) - 1 - n)
           = (IF u + i - 1 < n THEN u + i - 1 ELSE u + i - 1 - n)
OBVIOUS

\* Taking k bytes out of a ring leaves that many less.
LEMMA RingTake ==
    ASSUME NEW n \in Nat, n > 1, NEW h \in 0 .. n - 1, NEW t \in 0 .. n - 1, NEW a,
           a = (IF t <= h THEN h - t ELSE n + h - t), NEW k \in 0 .. a, NEW u,
           u = (IF t + k < n THEN t + k ELSE t + k - n)
    PROVE  (IF u <= h THEN h - u ELSE n + h - u) = a - k
OBVIOUS

-----------------------------------------------------------------------------
(* Sequences.                                                              *)

\* Sequences that agree in length and in every place are equal.
LEMMA SameSeq ==
    ASSUME NEW S, NEW s \in Seq(S), NEW t \in Seq(S), Len(s) = Len(t),
           \A i \in 1 .. Len(s) : s[i] = t[i]
    PROVE  s = t
BY SeqEqual

\* Concatenation is associative.
LEMMA ConcatAssoc ==
    ASSUME NEW S, NEW a \in Seq(S), NEW b \in Seq(S), NEW c \in Seq(S)
    PROVE  (a \o b) \o c = a \o (b \o c)
OBVIOUS

\* Concatenation, for steps in which nothing more of it matters than that it
\* is associative.
Cat(a, b) == a \o b

\* Concatenation is associative.
LEMMA CatAssoc ==
    ASSUME NEW S, NEW a \in Seq(S), NEW b \in Seq(S), NEW c \in Seq(S)
    PROVE  Cat(Cat(a, b), c) = Cat(a, Cat(b, c))
BY ConcatAssoc DEF Cat

\* The parts of a concatenation.
LEMMA ConcatParts ==
    ASSUME NEW S, NEW a \in Seq(S), NEW b \in Seq(S)
    PROVE  /\ a \o b \in Seq(S) /\ Len(a \o b) = Len(a) + Len(b)
           /\ SubSeq(a \o b, 1, Len(a)) = a
           /\ SubSeq(a \o b, Len(a) + 1, Len(a \o b)) = b
<1> DEFINE r == a \o b
           t == SubSeq(r, 1, Len(a))
           u == SubSeq(r, Len(a) + 1, Len(r))
<1>1. r \in Seq(S) /\ Len(r) = Len(a) + Len(b) /\ Len(a) \in Nat /\ Len(b) \in Nat
      /\ (\A i \in 1 .. Len(a) : r[i] = a[i])
      /\ (\A i \in 1 .. Len(b) : r[Len(a) + i] = b[i])
  OBVIOUS
<1> HIDE DEF r
<1>2. t \in Seq(S) /\ Len(t) = Len(a) /\ \A i \in 1 .. Len(a) : t[i] = r[i]
  BY <1>1
<1>3. u \in Seq(S) /\ Len(u) = Len(b) /\ \A i \in 1 .. Len(b) : u[i] = r[Len(a) + i]
  BY <1>1
<1> HIDE DEF t, u
<1>4. t = a
  BY <1>1, <1>2, SameSeq
<1>5. u = b
  BY <1>1, <1>3, SameSeq
<1> QED BY <1>1, <1>4, <1>5 DEF r, t, u

\* A sequence is what its first elements and the others make together.
LEMMA TwoPieces ==
    ASSUME NEW S, NEW a \in Seq(S), NEW b \in Seq(S), NEW s \in Seq(S),
           Len(s) = Len(a) + Len(b), \A i \in 1 .. Len(a) : a[i] = s[i],
           \A i \in 1 .. Len(b) : b[i] = s[Len(a) + i]
    PROVE  s = a \o b
<1> DEFINE r == a \o b
<1>1. r \in Seq(S) /\ Len(r) = Len(a) + Len(b) /\ Len(a) \in Nat /\ Len(b) \in Nat
      /\ (\A i \in 1 .. Len(a) : r[i] = a[i])
      /\ (\A i \in 1 .. Len(b) : r[Len(a) + i] = b[i])
  OBVIOUS
<1> HIDE DEF r
<1>2. ASSUME NEW i \in 1 .. Len(s) PROVE r[i] = s[i]
  <2>1. CASE i <= Len(a)
    BY <1>1, <2>1
  <2>2. CASE i > Len(a)
    <3>1. i - Len(a) \in 1 .. Len(b) /\ Len(a) + (i - Len(a)) = i
      BY <1>1, <2>2
    <3>2. r[Len(a) + (i - Len(a))] = b[i - Len(a)] /\ b[i - Len(a)] = s[Len(a) + (i - Len(a))]
      BY <1>1, <3>1
    <3> QED BY <3>1, <3>2, Zenon
  <2> QED BY <1>1, <2>1, <2>2
<1>3. r = s
  BY <1>1, <1>2, SameSeq
<1> QED BY <1>3 DEF r

\* A sequence is its first element and the others.
LEMMA HeadAndTail ==
    ASSUME NEW S, NEW s \in Seq(S), s # <<>>
    PROVE  /\ Head(s) \in S /\ Tail(s) \in Seq(S) /\ Head(s) = s[1]
           /\ <<Head(s)>> \in Seq(S) /\ s = <<Head(s)>> \o Tail(s)
<1>1. Head(s) \in S /\ Tail(s) \in Seq(S) /\ Head(s) = s[1] /\ Len(s) \in Nat \ {0}
      /\ Len(Tail(s)) = Len(s) - 1 /\ \A i \in 1 .. Len(s) - 1 : Tail(s)[i] = s[i + 1]
  OBVIOUS
<1> DEFINE a == <<Head(s)>>
           t == Tail(s)
<1>2. /\ a \in Seq(S) /\ Len(a) = 1 /\ a[1] = s[1] /\ t \in Seq(S)
      /\ Len(s) = Len(a) + Len(t) /\ \A i \in 1 .. Len(t) : t[i] = s[Len(a) + i]
  BY <1>1
<1> HIDE DEF a, t
<1>3. \A i \in 1 .. Len(a) : a[i] = s[i]
  BY <1>2
<1>4. s = a \o t
  BY <1>2, <1>3, TwoPieces
<1> QED BY <1>1, <1>2, <1>4 DEF a, t

=============================================================================
