------------------------------ MODULE Folding ------------------------------
(***************************************************************************)
(* What FoldLeft computes, for any operator Op: the theory that the proofs *)
(* about the loops of the program rest on.                                 *)
(***************************************************************************)
EXTENDS Integers, Sequences, SequencesExt, WellFoundedInduction, TLAPS

CONSTANT Op(_, _)

-----------------------------------------------------------------------------
(* Induction, on a set of numbers.                                         *)

\* A nonempty set of natural numbers has a least element.
LEMMA LeastNatural ==
  ASSUME NEW S, S \subseteq Nat, S # {}
  PROVE  \E m \in S : \A n \in S : m <= n
<1> DEFINE R == OpToRel(<, Nat)
<1>1. PICK m \in S : \A n \in S : ~(<<n, m>> \in R)
  BY NatLessThanWellFounded, WFMin
<1>2. \A i, j \in Nat : i < j => <<i, j>> \in R
  BY DEF OpToRel
<1> HIDE DEF R
<1>3. \A n \in S : m <= n
  <2> TAKE n \in S
  <2>1. m \in Nat /\ n \in Nat /\ ~(n < m)
    BY <1>1, <1>2
  <2> QED
    BY <2>1
<1> QED
  BY <1>3

\* Up to n.
LEMMA Induction ==
  ASSUME NEW n \in Nat, NEW S, 0 \in S, \A i \in 1..n : i - 1 \in S => i \in S
  PROVE  0..n \subseteq S
<1> SUFFICES ASSUME (0..n) \ S # {}
             PROVE  FALSE
  OBVIOUS
<1>1. PICK m \in (0..n) \ S : \A i \in (0..n) \ S : m <= i
  <2>1. (0..n) \ S \subseteq Nat
    OBVIOUS
  <2> QED
    BY <2>1, LeastNatural
<1>2. m \in 1..n /\ m - 1 \in 0..n
  BY <1>1
<1>3. m - 1 \in S
  BY <1>1, <1>2
<1> QED
  BY <1>1, <1>2, <1>3

-----------------------------------------------------------------------------
(* The steps of a fold.                                                    *)

\* The greatest number of a set that has one.
LEMMA MaxIsGreatest ==
  ASSUME NEW n \in Nat, NEW s \in SUBSET (1..n), n \in s
  PROVE  Max(s) = n
<1>1. n \in s /\ \A y \in s : n >= y
  OBVIOUS
<1>2. \A x \in s : (\A y \in s : x >= y) => x = n
  OBVIOUS
<1> QED BY <1>1, <1>2 DEF Max

\* What FoldLeft does with the part s of the indexes of seq, given what g does
\* with the smaller ones.
Folded(g, s, base, seq) ==
  IF s = {} THEN base ELSE Op(g[s \ {Max(s)}], seq[Max(s)])

IsFold(g, n, base, seq) ==
  g = [s \in SUBSET (1..n) |-> Folded(g, s, base, seq)]

\* The fold of the first items of a sequence, step by step.
LEMMA FoldExists ==
  ASSUME NEW base, NEW seq, NEW n \in Nat
  PROVE  \E g : IsFold(g, n, base, seq)
<1> DEFINE Done == {k \in 0..n : \E g : IsFold(g, k, base, seq)}
<1>1. 0 \in Done
  <2> DEFINE g == [s \in SUBSET (1..0) |-> base]
  <2>1. \A s \in SUBSET (1..0) : s = {}
    OBVIOUS
  <2>2. g = [s \in SUBSET (1..0) |-> Folded(g, s, base, seq)]
    BY <2>1 DEF Folded
  <2>3. IsFold(g, 0, base, seq)
    BY <2>2 DEF IsFold
  <2> QED BY <2>3
<1>2. ASSUME NEW k \in 1..n, k - 1 \in Done
      PROVE  k \in Done
  <2>1. PICK g : IsFold(g, k - 1, base, seq)
    BY <1>2
  <2> DEFINE f == [s \in SUBSET (1..k) |->
                     IF k \in s THEN Op(g[s \ {k}], seq[k]) ELSE g[s]]
  <2>2. ASSUME NEW s \in SUBSET (1..k), k \in s
        PROVE  f[s] = Folded(f, s, base, seq)
    <3>1. Max(s) = k
      BY <2>2, MaxIsGreatest
    <3>2. s \ {k} \in SUBSET (1..k) /\ k \notin s \ {k}
      OBVIOUS
    <3>3. f[s \ {k}] = g[s \ {k}]
      BY <3>2
    <3>4. f[s] = Op(g[s \ {k}], seq[k])
      BY <2>2
    <3> QED BY <2>2, <3>1, <3>3, <3>4 DEF Folded
  <2>3. ASSUME NEW s \in SUBSET (1..k), k \notin s
        PROVE  f[s] = Folded(f, s, base, seq)
    <3>1. s \in SUBSET (1 .. k - 1)
      BY <2>3
    <3>2. f[s] = g[s] /\ g[s] = Folded(g, s, base, seq)
      BY <2>1, <2>3, <3>1 DEF IsFold
    <3>3. s \ {Max(s)} \in SUBSET (1..k) /\ k \notin s \ {Max(s)}
      BY <2>3
    <3>4. f[s \ {Max(s)}] = g[s \ {Max(s)}]
      BY <3>3
    <3> QED BY <3>2, <3>4 DEF Folded
  <2>4. f = [s \in SUBSET (1..k) |-> Folded(f, s, base, seq)]
    <3> HIDE DEF f
    <3>1. \A s \in SUBSET (1..k) : f[s] = Folded(f, s, base, seq)
      BY <2>2, <2>3
    <3>2. f = [s \in SUBSET (1..k) |-> f[s]]
      BY DEF f
    <3> QED BY <3>1, <3>2
  <2>5. IsFold(f, k, base, seq)
    BY <2>4 DEF IsFold
  <2> QED BY <2>5
<1> HIDE DEF Done
<1>3. n \in Done
  BY <1>1, <1>2, Induction
<1> QED BY <1>3 DEF Done

\* The fold of a sequence.
Fold(base, seq) == FoldLeft(Op, base, seq)

\* It goes through the states of h, from base.
THEOREM FoldSteps ==
  ASSUME NEW base, NEW n \in Nat, NEW seq, DOMAIN seq = 1..n
  PROVE  \E h : /\ h[0] = base
                /\ \A i \in 1..n : h[i] = Op(h[i - 1], seq[i])
                /\ Fold(base, seq) = h[n]
<1> DEFINE iter == CHOOSE g : IsFold(g, n, base, seq)
           h == [i \in 0..n |-> iter[1..i]]
<1>1. IsFold(iter, n, base, seq)
  BY FoldExists
<1>2. Fold(base, seq) = iter[1..n]
  BY DEF Fold, FoldLeft, MapThenFoldSet, IsFold, Folded
<1> HIDE DEF iter
<1>3. \A s \in SUBSET (1..n) : iter[s] = Folded(iter, s, base, seq)
  BY <1>1 DEF IsFold
<1>4. h[0] = base
  <2>1. 1..0 = {}
    OBVIOUS
  <2>2. iter[{}] = base
    BY <1>3 DEF Folded
  <2> QED BY <2>1, <2>2
<1>5. ASSUME NEW i \in 1..n
      PROVE  h[i] = Op(h[i - 1], seq[i])
  <2>1. 1..i \in SUBSET (1..n) /\ 1..i # {}
    OBVIOUS
  <2>2. Max(1..i) = i
    BY MaxIsGreatest
  <2>3. (1..i) \ {i} = 1 .. i - 1
    OBVIOUS
  <2>4. iter[1..i] = Op(iter[1 .. i - 1], seq[i])
    BY <1>3, <2>1, <2>2, <2>3 DEF Folded
  <2> QED BY <2>4
<1>6. Fold(base, seq) = h[n]
  BY <1>2
<1> HIDE DEF h
<1> QED BY <1>4, <1>5, <1>6

=============================================================================
