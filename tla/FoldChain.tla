------------------------------ MODULE FoldChain ------------------------------
(***************************************************************************)
(* A fold of a sequence, as the chain of its intermediate results.  The    *)
(* operator is a constant of the module: an instance of it gives the facts *)
(* about one operator.                                                     *)
(***************************************************************************)
EXTENDS Integers, Sequences, WellFoundedInduction, TLAPS

CONSTANT Op(_, _)

(* The largest of a set of numbers, as in FiniteSetsExt.                   *)
Max(S) == CHOOSE x \in S : \A y \in S : x >= y

(* FoldLeft(Op, base, s) of SequencesExt, written out.                     *)
Fold(base, s) ==
  LET iter[x \in SUBSET (DOMAIN s)] ==
        IF x = {} THEN base
        ELSE LET k == Max(x) IN Op(iter[x \ {k}], s[k])
  IN  iter[DOMAIN s]

(* h[k] is the result after k elements of s.                               *)
Results(h, base, s) ==
  /\ h[0] = base
  /\ \A k \in 1..Len(s) : h[k] = Op(h[k - 1], s[k])
  /\ Fold(base, s) = h[Len(s)]

(* Induction over the natural numbers, for a set.                          *)
LEMMA SetInduction ==
  ASSUME NEW T, 0 \in T, \A k \in Nat : k \in T => k + 1 \in T
  PROVE  Nat \subseteq T
<1> SUFFICES ASSUME NEW m \in Nat, m \notin T PROVE FALSE
  OBVIOUS
<1> DEFINE L == Nat \ T
<1>1. IsWellFoundedOn(OpToRel(<, Nat), Nat)
  BY NatLessThanWellFounded
<1>2. PICK x \in L : \A y \in L : ~ (<<y, x>> \in OpToRel(<, Nat))
  BY <1>1, WFMin, m \in L, L \subseteq Nat
<1>3. \A y \in L : ~ (y < x)
  BY <1>2 DEF OpToRel
<1>4. x # 0 /\ x \in Nat /\ x \notin T
  OBVIOUS
<1>5. x - 1 \in Nat /\ x - 1 < x
  BY <1>4
<1>6. x - 1 \in T
  BY <1>3, <1>5
<1> QED
  BY <1>4, <1>5, <1>6

(* The maximum of numbers from 1 to m.                                     *)
LEMMA MaxOf ==
  ASSUME NEW m \in Nat, NEW x \in SUBSET (1..m), x # {}
  PROVE  Max(x) \in x /\ \A j \in x : j <= Max(x)
<1> SUFFICES \E j \in x : \A y \in x : j >= y
  BY DEF Max
<1>1. \A y \in x : y \in Nat /\ m - y \in Nat
  OBVIOUS
<1> DEFINE L == {m - y : y \in x}
<1>2. IsWellFoundedOn(OpToRel(<, Nat), Nat)
  BY NatLessThanWellFounded
<1>3. L \subseteq Nat /\ L # {}
  BY <1>1
<1>4. PICK z \in L : \A y \in L : ~ (<<y, z>> \in OpToRel(<, Nat))
  BY <1>2, <1>3, WFMin
<1>5. \A y \in L : ~ (y < z)
  BY <1>3, <1>4 DEF OpToRel
<1>6. PICK j \in x : z = m - j
  OBVIOUS
<1>7. \A y \in x : ~ (m - y < m - j)
  BY <1>5, <1>6
<1> QED
  BY <1>1, <1>7

(* The sets a fold from the left goes through.                             *)
LEMMA Upto ==
  ASSUME NEW n \in Nat
  PROVE  /\ 0 \in 0..n /\ n \in 0..n /\ 1..0 = {}
         /\ \A k \in 1..n : /\ 1..k # {} /\ Max(1..k) = k /\ (1..k) \ {k} = 1..(k - 1)
                            /\ k \in 0..n /\ k - 1 \in 0..n
         /\ \A k \in 0..n : 1..k \in SUBSET (1..n)
<1> SUFFICES ASSUME NEW k \in 1..n PROVE Max(1..k) = k
  OBVIOUS
<1>1. k \in Nat /\ 1..k \in SUBSET (1..k) /\ 1..k # {} /\ k \in 1..k
  OBVIOUS
<1>2. Max(1..k) \in 1..k /\ k <= Max(1..k)
  BY <1>1, MaxOf
<1> QED
  BY <1>2

(* One more element, which is the largest.                                 *)
LEMMA OneMore ==
  ASSUME NEW m \in Nat, NEW x \in SUBSET (1..(m + 1))
  PROVE  /\ m + 1 \in x => Max(x) = m + 1 /\ x # {}
         /\ m + 1 \notin x => x \in SUBSET (1..m)
         /\ \A y : x \ {y} \in SUBSET (1..(m + 1))
<1>1. ASSUME m + 1 \in x PROVE Max(x) = m + 1
  <2>1. m + 1 \in Nat /\ x # {}
    BY <1>1
  <2>2. Max(x) \in x /\ \A j \in x : j <= Max(x)
    BY MaxOf, <2>1
  <2>3. Max(x) \in 1..(m + 1) /\ m + 1 <= Max(x)
    BY <1>1, <2>2
  <2> QED
    BY <2>3
<1>2. ASSUME m + 1 \notin x PROVE x \in SUBSET (1..m)
  BY <1>2
<1> QED
  BY <1>1, <1>2

(* The results after each element of a sequence of n elements.             *)
THEOREM Chain ==
  ASSUME NEW S, NEW s \in Seq(S), NEW base
  PROVE  \E h : Results(h, base, s)
<1> DEFINE n == Len(s)
<1>0. n \in Nat /\ DOMAIN s = 1..n
  OBVIOUS
<1> HIDE DEF n
<1> DEFINE Rec(f, m) ==
      f = [x \in SUBSET (1..m) |-> IF x = {} THEN base
                                   ELSE Op(f[x \ {Max(x)}], s[Max(x)])]
           T == {m \in Nat : \E f : Rec(f, m)}
<1>1. 0 \in T
  <2> DEFINE f == [x \in SUBSET (1..0) |-> base]
  <2>1. Rec(f, 0)
    <3>1. SUBSET (1..0) = {{}}
      <4> HIDE DEF Rec, T
      <4> QED
        OBVIOUS
    <3> QED
      BY <3>1, Zenon
  <2>2. 0 \in Nat
    <3> HIDE DEF Rec, T
    <3> QED
      OBVIOUS
  <2> QED
    BY <2>1, <2>2, Zenon
<1>2. ASSUME NEW m \in Nat, m \in T PROVE m + 1 \in T
  <2>1. PICK f : Rec(f, m)
    BY <1>2, Zenon
  <2> DEFINE g == [x \in SUBSET (1..(m + 1)) |->
                     IF m + 1 \in x THEN Op(f[x \ {m + 1}], s[m + 1]) ELSE f[x]]
  <2>2. ASSUME NEW x \in SUBSET (1..(m + 1))
        PROVE  g[x] = IF x = {} THEN base ELSE Op(g[x \ {Max(x)}], s[Max(x)])
    <3>1. CASE m + 1 \in x
      <4>1. Max(x) = m + 1 /\ x # {}
        BY OneMore, <3>1, Zenon
      <4>2. x \ {m + 1} \in SUBSET (1..(m + 1)) /\ m + 1 \notin x \ {m + 1}
        BY OneMore, Zenon
      <4>3. g[x \ {m + 1}] = f[x \ {m + 1}]
        BY <4>2, Zenon
      <4>4. g[x] = Op(f[x \ {m + 1}], s[m + 1])
        BY <3>1, Zenon
      <4> HIDE DEF g
      <4> QED
        BY <4>1, <4>3, <4>4, Zenon
    <3>2. CASE m + 1 \notin x
      <4>1. x \in SUBSET (1..m)
        BY <3>2, OneMore, Zenon
      <4>2. g[x] = f[x]
        BY <3>2, Zenon
      <4>3. f[x] = IF x = {} THEN base ELSE Op(f[x \ {Max(x)}], s[Max(x)])
        BY <2>1, <4>1, Zenon
      <4>4. x \ {Max(x)} \in SUBSET (1..(m + 1)) /\ m + 1 \notin x \ {Max(x)}
        BY <3>2, OneMore, Zenon
      <4>5. g[x \ {Max(x)}] = f[x \ {Max(x)}]
        BY <4>4, Zenon
      <4> HIDE DEF g
      <4> QED
        BY <4>2, <4>3, <4>5, Zenon
    <3> QED
      BY <3>1, <3>2, Zenon
  <2>3. Rec(g, m + 1)
    BY <2>2, Zenon
  <2>4. m + 1 \in Nat
    <3> HIDE DEF Rec, T, g
    <3> QED
      OBVIOUS
  <2> QED
    BY <2>3, <2>4, Zenon
<1>3. n \in T
  <2> HIDE DEF T
  <2> QED
    BY <1>0, <1>1, <1>2, SetInduction, Zenon
<1> DEFINE fold == CHOOSE f : Rec(f, n)
<1>4. Rec(fold, n)
  BY <1>3, Zenon
<1>5. Fold(base, s) = fold[1..n]
  BY <1>0, Zenon DEF Fold
<1> DEFINE h == [k \in 0..n |-> fold[1..k]]
<1>6. \A k \in 0..n : h[k] = fold[1..k]
  <2> HIDE DEF fold
  <2> QED
    BY Zenon
<1> HIDE DEF fold, h
<1>7. ASSUME NEW k \in 1..n PROVE h[k] = Op(h[k - 1], s[k])
  <2>1. 1..k # {} /\ Max(1..k) = k /\ (1..k) \ {k} = 1..(k - 1)
    BY <1>0, Upto, Zenon
  <2>2. k \in 0..n /\ k - 1 \in 0..n
    BY <1>0, Upto, Zenon
  <2>3. 1..k \in SUBSET (1..n)
    BY <1>0, <2>2, Upto, Zenon
  <2>4. fold[1..k] = Op(fold[(1..k) \ {Max(1..k)}], s[Max(1..k)])
    BY <1>4, <2>1, <2>3, Zenon
  <2>5. h[k] = fold[1..k] /\ h[k - 1] = fold[1..(k - 1)]
    BY <1>6, <2>2, Zenon
  <2> HIDE DEF Rec, T
  <2> QED
    BY <2>1, <2>4, <2>5, Zenon
<1>8. h[0] = base
  BY <1>0, <1>4, <1>6, Upto, Zenon
<1>9. Fold(base, s) = h[n]
  BY <1>0, <1>5, <1>6, Upto, Zenon
<1> QED
  BY <1>7, <1>8, <1>9, Zenon DEF Results, n

(* What holds of the base and is kept by every element holds of the fold:  *)
(* T[k] is the set of the possible results after k elements.               *)
THEOREM FoldIn ==
  ASSUME NEW S, NEW s \in Seq(S), NEW base, NEW T, base \in T[0],
         \A k \in 1..Len(s) : \A x \in T[k - 1] : Op(x, s[k]) \in T[k]
  PROVE  Fold(base, s) \in T[Len(s)]
<1>1. PICK h : Results(h, base, s)
  BY Chain, Zenon
<1>2. h[0] = base /\ \A k \in 1..Len(s) : h[k] = Op(h[k - 1], s[k])
  BY <1>1, Zenon DEF Results
<1>3. Fold(base, s) = h[Len(s)]
  BY <1>1, Zenon DEF Results
<1> DEFINE K == {k \in Nat : k <= Len(s) => h[k] \in T[k]}
<1>4. 0 \in K
  <2>1. h[0] \in T[0]
    BY <1>2, Zenon
  <2> QED
    BY <2>1
<1>5. ASSUME NEW k \in Nat, k \in K PROVE k + 1 \in K
  <2>1. CASE k + 1 <= Len(s)
    <3>1. k + 1 \in 1..Len(s) /\ (k + 1) - 1 = k /\ h[k] \in T[k]
      <4>1. Len(s) \in Nat
        OBVIOUS
      <4> QED
        BY <1>5, <2>1, <4>1
    <3>2. h[k + 1] = Op(h[k], s[k + 1])
      BY <1>2, <3>1, Zenon
    <3>3. Op(h[k], s[k + 1]) \in T[k + 1]
      BY <3>1, Zenon
    <3>4. h[k + 1] \in T[k + 1]
      BY <3>2, <3>3, Zenon
    <3> QED
      BY <3>4
  <2>2. CASE ~ (k + 1 <= Len(s))
    BY <2>2
  <2> QED
    BY <2>1, <2>2
<1> HIDE DEF K
<1>6. Nat \subseteq K
  BY <1>4, <1>5, SetInduction, Zenon
<1>7. Len(s) \in Nat
  OBVIOUS
<1>8. h[Len(s)] \in T[Len(s)]
  <2>1. Len(s) \in K /\ Len(s) <= Len(s)
    BY <1>6, <1>7
  <2> QED
    BY <2>1 DEF K
<1> QED
  BY <1>3, <1>8, Zenon
=============================================================================
