---------------------------- MODULE FreeListProofs ----------------------------
(***************************************************************************)
(* The types and the safety of the free list and the retrieval pointers,   *)
(* for any volume, files, sizes and bounds: the list stays in order and    *)
(* counted, no sector has two uses, and the code's allocations, releases,  *)
(* commits and mounts are steps of SpaceMap.                               *)
(*                                                                         *)
(* A loop of the code over a list is a fold; what it keeps is shown with   *)
(* the instance of FoldChain for its body.                                 *)
(***************************************************************************)
EXTENDS FreeListInv, FiniteSetTheorems, SequenceTheorems, WellFoundedInduction, TLAPS

(* The loops of the code, by their bodies.                                 *)
Adding == INSTANCE FoldChain WITH Op <- Plus
Absorbing == INSTANCE FoldChain WITH Op <- Absorb
Extending == INSTANCE FoldChain WITH Op <- ExtendLoop
Copying == INSTANCE FoldChain WITH Op <- ExtendCopy
Heading == INSTANCE FoldChain WITH Op <- HeaderStep
Flushing == INSTANCE FoldChain WITH Op <- FlushStep
Formatting == INSTANCE FoldChain WITH Op <- FormatArea
Skipping == INSTANCE FoldChain WITH Op <- SkipHome
Joining == INSTANCE FoldChain WITH Op <- Concat

(* Induction over the natural numbers, for a set.                          *)
LEMMA SetInduction ==
  ASSUME NEW T, 0 \in T, \A k \in Nat : k \in T => k + 1 \in T
  PROVE  Nat \subseteq T
BY Adding!SetInduction, Zenon

(* The largest of numbers up to m.                                         *)
LEMMA MaxOf ==
  ASSUME NEW m \in Nat, NEW S \in SUBSET (1..m), S # {}
  PROVE  Max(S) \in S /\ \A y \in S : y <= Max(S)
BY Adding!MaxOf DEF Max, Adding!Max

(* What holds of the base of a fold and is kept by each of its steps holds *)
(* of its result.                                                          *)
LEMMA AbsorbFold ==
  ASSUME NEW S, NEW s \in Seq(S), NEW base, NEW T, base \in T[0],
         \A k \in 1..Len(s) : \A x \in T[k - 1] : Absorb(x, s[k]) \in T[k]
  PROVE  FoldLeft(Absorb, base, s) \in T[Len(s)]
<1>1. Absorbing!Fold(base, s) \in T[Len(s)]
  BY Absorbing!FoldIn, Zenon
<1> QED
  BY <1>1 DEF FoldLeft, Absorbing!Fold, MapThenFoldSet, Max, Absorbing!Max

(* The same of the loop over the extents of a request.                     *)
LEMMA ExtendFold ==
  ASSUME NEW S, NEW s \in Seq(S), NEW base, NEW T, base \in T[0],
         \A k \in 1..Len(s) : \A x \in T[k - 1] : ExtendLoop(x, s[k]) \in T[k]
  PROVE  FoldLeft(ExtendLoop, base, s) \in T[Len(s)]
<1>1. Extending!Fold(base, s) \in T[Len(s)]
  BY Extending!FoldIn, Zenon
<1> QED
  BY <1>1 DEF FoldLeft, Extending!Fold, MapThenFoldSet, Max, Extending!Max

(* The same of the loop over the copies of a file.                         *)
LEMMA CopyFold ==
  ASSUME NEW S, NEW s \in Seq(S), NEW base, NEW T, base \in T[0],
         \A k \in 1..Len(s) : \A x \in T[k - 1] : ExtendCopy(x, s[k]) \in T[k]
  PROVE  FoldLeft(ExtendCopy, base, s) \in T[Len(s)]
<1>1. Copying!Fold(base, s) \in T[Len(s)]
  BY Copying!FoldIn, Zenon
<1> QED
  BY <1>1 DEF FoldLeft, Copying!Fold, MapThenFoldSet, Max, Copying!Max

(* The same of the loop over the headers of a file.                        *)
LEMMA HeaderFold ==
  ASSUME NEW S, NEW s \in Seq(S), NEW base, NEW T, base \in T[0],
         \A k \in 1..Len(s) : \A x \in T[k - 1] : HeaderStep(x, s[k]) \in T[k]
  PROVE  FoldLeft(HeaderStep, base, s) \in T[Len(s)]
<1>1. Heading!Fold(base, s) \in T[Len(s)]
  BY Heading!FoldIn, Zenon
<1> QED
  BY <1>1 DEF FoldLeft, Heading!Fold, MapThenFoldSet, Max, Heading!Max

(* The same of the loop over the extents in limbo.                         *)
LEMMA FlushFold ==
  ASSUME NEW S, NEW s \in Seq(S), NEW base, NEW T, base \in T[0],
         \A k \in 1..Len(s) : \A x \in T[k - 1] : FlushStep(x, s[k]) \in T[k]
  PROVE  FoldLeft(FlushStep, base, s) \in T[Len(s)]
<1>1. Flushing!Fold(base, s) \in T[Len(s)]
  BY Flushing!FoldIn, Zenon
<1> QED
  BY <1>1 DEF FoldLeft, Flushing!Fold, MapThenFoldSet, Max, Flushing!Max

(* The same of the loop over the home blocks.                              *)
LEMMA SkipFold ==
  ASSUME NEW S, NEW s \in Seq(S), NEW base, NEW T, base \in T[0],
         \A k \in 1..Len(s) : \A x \in T[k - 1] : SkipHome(x, s[k]) \in T[k]
  PROVE  FoldLeft(SkipHome, base, s) \in T[Len(s)]
<1>1. Skipping!Fold(base, s) \in T[Len(s)]
  BY Skipping!FoldIn, Zenon
<1> QED
  BY <1>1 DEF FoldLeft, Skipping!Fold, MapThenFoldSet, Max, Skipping!Max

(* The same of a sum.                                                      *)
LEMMA PlusFold ==
  ASSUME NEW S, NEW s \in Seq(S), NEW base, NEW T, base \in T[0],
         \A k \in 1..Len(s) : \A x \in T[k - 1] : Plus(x, s[k]) \in T[k]
  PROVE  FoldLeft(Plus, base, s) \in T[Len(s)]
<1>1. Adding!Fold(base, s) \in T[Len(s)]
  BY Adding!FoldIn, Zenon
<1> QED
  BY <1>1 DEF FoldLeft, Adding!Fold, MapThenFoldSet, Max, Adding!Max

(* What is kept by joining lists, one after the other.                     *)
LEMMA ConcatFold ==
  ASSUME NEW S, NEW s \in Seq(S), NEW base, NEW T, base \in T[0],
         \A k \in 1..Len(s) : \A x \in T[k - 1] : Concat(x, s[k]) \in T[k]
  PROVE  FoldLeft(Concat, base, s) \in T[Len(s)]
<1>1. Joining!Fold(base, s) \in T[Len(s)]
  BY Joining!FoldIn, Zenon
<1> QED
  BY <1>1 DEF FoldLeft, Joining!Fold, MapThenFoldSet, Max, Joining!Max

(* What init_file_system has done after each area.                         *)
FormatSteps(h, base, s) ==
  /\ h[0] = base /\ \A k \in 1..Len(s) : h[k] = FormatArea(h[k - 1], s[k])
  /\ FoldLeft(FormatArea, base, s) = h[Len(s)]

(* It has done something after each of them.                               *)
LEMMA FormatChain ==
  ASSUME NEW S, NEW s \in Seq(S), NEW base
  PROVE  \E h : FormatSteps(h, base, s)
<1>1. PICK h : Formatting!Results(h, base, s)
  BY Formatting!Chain, Zenon
<1>2. /\ h[0] = base /\ \A k \in 1..Len(s) : h[k] = FormatArea(h[k - 1], s[k])
      /\ Formatting!Fold(base, s) = h[Len(s)]
  BY <1>1, Zenon DEF Formatting!Results
<1>3. FoldLeft(FormatArea, base, s) = h[Len(s)]
  BY <1>2 DEF FoldLeft, Formatting!Fold, MapThenFoldSet, Max, Formatting!Max
<1> QED
  BY <1>2, <1>3 DEF FormatSteps

-----------------------------------------------------------------------------
(* The entries in use are in order and share no sector.                    *)
Weak(l) ==
  \A i, j \in DOMAIN l : i < j /\ l[i].n > 0 /\ l[j].n > 0 => End(l[i]) <= l[j].start

-----------------------------------------------------------------------------
(* A set of numbers has a least one.                                       *)
LEMMA LeastOf ==
  ASSUME NEW S \in SUBSET Nat, S # {}
  PROVE  \E x \in S : \A y \in S : x <= y
<1>1. IsWellFoundedOn(OpToRel(<, Nat), Nat)
  BY NatLessThanWellFounded
<1>2. PICK x \in S : \A y \in S : ~ (<<y, x>> \in OpToRel(<, Nat))
  BY <1>1, WFMin
<1>3. \A y \in S : ~ (y < x)
  BY <1>2 DEF OpToRel
<1> QED
  BY <1>3

(* The least of a set of numbers.                                          *)
LEMMA MinOf ==
  ASSUME NEW S \in SUBSET Nat, S # {}
  PROVE  Min(S) \in S /\ \A y \in S : Min(S) <= y
BY LeastOf DEF Min

(* The smaller and the larger of two numbers.                              *)
LEMMA OfTwo ==
  ASSUME NEW a \in Int, NEW b \in Int
  PROVE  /\ Min({a, b}) = IF a <= b THEN a ELSE b
         /\ Max({a, b}) = IF a >= b THEN a ELSE b
<1>1. Min({a, b}) = IF a <= b THEN a ELSE b
  <2> DEFINE P(x) == x \in {a, b} /\ \A y \in {a, b} : x <= y
  <2>1. P(IF a <= b THEN a ELSE b)
    OBVIOUS
  <2>2. P(Min({a, b}))
    BY <2>1 DEF Min
  <2> QED
    BY <2>2
<1>2. Max({a, b}) = IF a >= b THEN a ELSE b
  <2> DEFINE P(x) == x \in {a, b} /\ \A y \in {a, b} : x >= y
  <2>1. P(IF a >= b THEN a ELSE b)
    OBVIOUS
  <2>2. P(Max({a, b}))
    BY <2>1 DEF Max
  <2> QED
    BY <2>2
<1> QED
  BY <1>1, <1>2

-----------------------------------------------------------------------------
(* What is in an extent.                                                   *)
LEMMA PieceIs ==
  ASSUME NEW e \in Piece
  PROVE  /\ e \in Extent /\ e.start \in Nat \ {0} /\ e.n \in Nat \ {0}
         /\ End(e) \in Nat /\ End(e) <= MaxLba /\ End(e) = e.start + e.n
         /\ e = [start |-> e.start, n |-> e.n]
BY VolumeAssumption DEF Piece, Extent, End

(* An extent on the volume, from its numbers.                              *)
LEMMA PieceMade ==
  ASSUME NEW s \in Nat \ {0}, NEW m \in Nat \ {0}, s + m <= MaxLba
  PROVE  [start |-> s, n |-> m] \in Piece
BY VolumeAssumption DEF Piece, Extent, End

(* An entry has numbers, and is an extent in use or empty.                 *)
LEMMA EntryIs ==
  ASSUME NEW e \in Entry
  PROVE  /\ e.start \in Nat /\ e.n \in Nat /\ End(e) \in Nat /\ End(e) = e.start + e.n
         /\ e.n > 0 => e \in Piece
         /\ e.n = 0 => e = Null
         /\ e \in Piece => e.n > 0
         /\ e = [start |-> e.start, n |-> e.n]
<1>1. CASE e \in Piece
  BY <1>1, PieceIs
<1>2. CASE e = Null
  BY <1>2 DEF Null, End, Piece
<1> QED
  BY <1>1, <1>2 DEF Entry

(* The sectors of an entry are the numbers from its start to its end.      *)
LEMMA SectorsIn ==
  ASSUME NEW e \in Entry
  PROVE  /\ \A s : s \in SectorsOf(e) <=> s \in Nat /\ e.start <= s /\ s < End(e)
         /\ e.n = 0 => SectorsOf(e) = {}
         /\ e.n > 0 => e.start \in SectorsOf(e)
         /\ SectorsOf(e) \subseteq 1..(MaxLba - 1)
<1>1. e.start \in Nat /\ e.n \in Nat /\ End(e) = e.start + e.n
  BY EntryIs
<1>2. \A s : s \in SectorsOf(e) <=> s \in Nat /\ e.start <= s /\ s < End(e)
  BY <1>1 DEF SectorsOf
<1>3. e.n = 0 => SectorsOf(e) = {}
  BY <1>1, <1>2
<1>4. e.n > 0 => e.start > 0 /\ End(e) <= MaxLba
  BY EntryIs, PieceIs
<1>5. SectorsOf(e) \subseteq 1..(MaxLba - 1)
  BY <1>1, <1>2, <1>3, <1>4, VolumeAssumption
<1> QED
  BY <1>1, <1>2, <1>3, <1>5

(* A sector is covered if an entry has it.                                 *)
LEMMA CoveredIn ==
  \A l, s : s \in Covered(l) <=> \E i \in DOMAIN l : s \in SectorsOf(l[i])
BY DEF Covered

(* An entry of a list, in numbers.                                         *)
Is(e) ==
  /\ e \in Entry
  /\ e.start \in Nat /\ e.n \in Nat /\ End(e) \in Nat /\ End(e) = e.start + e.n
  /\ e.n > 0 => e \in Piece /\ e.start > 0 /\ End(e) <= MaxLba
  /\ \A s : s \in SectorsOf(e) => s \in Nat /\ e.start <= s /\ s < End(e)
  /\ \A s \in Nat : e.start <= s /\ s < End(e) => s \in SectorsOf(e)

(* An entry in numbers, with its sectors.                                  *)
LEMMA EntryNumbers == ASSUME NEW e \in Entry PROVE Is(e)
<1>1. e.start \in Nat /\ e.n \in Nat /\ End(e) \in Nat /\ End(e) = e.start + e.n
  BY EntryIs
<1>2. e.n > 0 => e \in Piece /\ e.start > 0 /\ End(e) <= MaxLba
  BY EntryIs, PieceIs
<1>3. \A s : s \in SectorsOf(e) <=> s \in Nat /\ e.start <= s /\ s < End(e)
  BY SectorsIn
<1> QED
  BY <1>1, <1>2, <1>3 DEF Is

(* An extent in use in numbers.                                            *)
LEMMA PieceNumbers == ASSUME NEW e \in Piece PROVE Is(e) /\ e.n > 0
BY EntryNumbers, PieceIs DEF Entry

(* The entries of a list in numbers.                                       *)
LEMMA EntriesOf ==
  ASSUME NEW l \in Seq(Entry), NEW i \in DOMAIN l
  PROVE  Is(l[i]) /\ i \in 1..Len(l) /\ i \in Nat \ {0}
<1>1. l[i] \in Entry /\ i \in 1..Len(l) /\ i \in Nat \ {0}
  OBVIOUS
<1> QED
  BY <1>1, EntryNumbers

(* A cut of an extent in two.                                              *)
LEMMA RestIs ==
  ASSUME NEW e \in Piece, NEW r \in Nat \ {0}
  PROVE  /\ Taken(e, r) \in Piece /\ Rest(e, r) \in Entry
         /\ Taken(e, r).n <= r /\ Taken(e, r).start = e.start
         /\ End(Taken(e, r)) <= End(e)
         /\ Rest(e, r).n > 0 => /\ Rest(e, r).start = End(Taken(e, r))
                                /\ End(Rest(e, r)) = End(e)
         /\ Rest(e, r).n = 0 => End(Taken(e, r)) = End(e)
<1>1. e.start \in Nat \ {0} /\ e.n \in Nat \ {0} /\ e.start + e.n <= MaxLba /\ End(e) = e.start + e.n
  BY PieceIs
<1>2. CASE e.n <= r
  <2>1. Taken(e, r) = [start |-> e.start, n |-> e.n] /\ Rest(e, r) = Null
    BY <1>1, <1>2, OfTwo DEF Taken, Rest
  <2>2. Taken(e, r) = e
    BY <2>1, PieceIs
  <2> QED
    BY <1>1, <1>2, <2>1, <2>2 DEF Entry, Null, End
<1>3. CASE ~ (e.n <= r)
  <2>1. /\ Taken(e, r) = [start |-> e.start, n |-> r]
        /\ Rest(e, r) = [start |-> e.start + r, n |-> e.n - r]
    BY <1>1, <1>3, OfTwo DEF Taken, Rest
  <2>2. Taken(e, r) \in Piece /\ Rest(e, r) \in Piece
    <3>1. e.start + r \in Nat \ {0} /\ e.n - r \in Nat \ {0} /\ e.start + r <= MaxLba
          /\ (e.start + r) + (e.n - r) <= MaxLba
      BY <1>1, <1>3, VolumeAssumption
    <3> QED
      BY <1>1, <2>1, <3>1, PieceMade
  <2> QED
    BY <1>1, <1>3, <2>1, <2>2 DEF Entry, End
<1> QED
  BY <1>2, <1>3

(* Sectors apart, and sectors of the parts of an extent.                   *)
LEMMA Apart ==
  ASSUME NEW l \in Seq(Entry), Weak(l), NEW i \in DOMAIN l, NEW j \in DOMAIN l, i # j
  PROVE  SectorsOf(l[i]) \cap SectorsOf(l[j]) = {}
<1> SUFFICES ASSUME NEW s, s \in SectorsOf(l[i]), s \in SectorsOf(l[j]) PROVE FALSE
  OBVIOUS
<1>1. Is(l[i]) /\ Is(l[j]) /\ i \in Nat /\ j \in Nat
  BY EntriesOf
<1>2. s \in Nat /\ l[i].start <= s /\ s < End(l[i]) /\ l[j].start <= s /\ s < End(l[j])
  BY <1>1 DEF Is
<1>3. l[i].n > 0 /\ l[j].n > 0
  BY SMTT(60), <1>1, <1>2 DEF Is
<1>4. CASE i < j
  BY <1>1, <1>2, <1>3, <1>4 DEF Weak, Is
<1>5. CASE j < i
  BY <1>1, <1>2, <1>3, <1>5 DEF Weak, Is
<1> QED
  BY <1>1, <1>4, <1>5

(* Entries that do not touch share no sector.                              *)
LEMMA StrictWeak ==
  ASSUME NEW l \in Seq(Entry), Strict(l) PROVE Weak(l)
<1> SUFFICES ASSUME NEW i \in DOMAIN l, NEW j \in DOMAIN l, i < j, l[i].n > 0, l[j].n > 0
             PROVE  End(l[i]) <= l[j].start
  BY DEF Weak
<1>1. Is(l[i]) /\ Is(l[j])
  BY EntriesOf
<1> QED
  BY <1>1 DEF Strict, Is

(* A list with the entries from i to before j replaced by c.               *)
Splices(S, l, c, i, j, m) ==
  /\ m \in Seq(S) /\ Len(m) = Len(l) + Len(c) - (j - i)
  /\ \A k \in 1..(i - 1) : m[k] = l[k]
  /\ \A k \in 1..Len(c) : m[i - 1 + k] = c[k]
  /\ \A k \in j..Len(l) : m[k + Len(c) - (j - i)] = l[k]

(* Part of a list replaced.                                                *)
LEMMA Spliced ==
  ASSUME NEW S, NEW l \in Seq(S), NEW c \in Seq(S), NEW i \in 1..(Len(l) + 1),
         NEW j \in i..(Len(l) + 1)
  PROVE  Splices(S, l, c, i, j, SubSeq(l, 1, i - 1) \o c \o SubSeq(l, j, Len(l)))
<1> DEFINE p == SubSeq(l, 1, i - 1)
           q == SubSeq(l, j, Len(l))
           d == p \o c
<1>0. i \in Nat /\ j \in Nat /\ Len(l) \in Nat /\ Len(c) \in Nat /\ 1 <= i /\ i <= j /\ j <= Len(l) + 1
  OBVIOUS
<1>1. p \in Seq(S) /\ Len(p) = i - 1 /\ \A k \in 1..(i - 1) : p[k] = l[k]
  <2>1. \A k \in 1..(i - 1) : l[k] \in S
    OBVIOUS
  <2>2. /\ p \in Seq(S) /\ Len(p) = IF 1 <= i - 1 THEN i - 1 - 1 + 1 ELSE 0
        /\ \A k \in 1..(i - 1 - 1 + 1) : p[k] = l[1 + k - 1]
    BY <1>0, <2>1, SubSeqProperties, 1 \in Int, i - 1 \in Int
  <2> QED
    BY <1>0, <2>2
<1>2. q \in Seq(S) /\ Len(q) = Len(l) - j + 1 /\ \A k \in 1..(Len(l) - j + 1) : q[k] = l[j + k - 1]
  <2>1. \A k \in j..Len(l) : l[k] \in S
    OBVIOUS
  <2>2. /\ q \in Seq(S) /\ Len(q) = IF j <= Len(l) THEN Len(l) - j + 1 ELSE 0
        /\ \A k \in 1..(Len(l) - j + 1) : q[k] = l[j + k - 1]
    BY <1>0, <2>1, SubSeqProperties
  <2> QED
    BY <1>0, <2>2
<1> HIDE DEF p, q
<1>3. /\ d \in Seq(S) /\ Len(d) = i - 1 + Len(c)
      /\ \A k \in 1..(i - 1 + Len(c)) : d[k] = IF k <= i - 1 THEN l[k] ELSE c[k - (i - 1)]
  <2>1. /\ d \in Seq(S) /\ Len(d) = Len(p) + Len(c)
        /\ \A k \in 1..(Len(p) + Len(c)) : d[k] = IF k <= Len(p) THEN p[k] ELSE c[k - Len(p)]
    BY <1>1, ConcatProperties
  <2> QED
    BY <1>0, <1>1, <2>1
<1> HIDE DEF d
<1>4. /\ d \o q \in Seq(S) /\ Len(d \o q) = Len(d) + Len(q)
      /\ \A k \in 1..(Len(d) + Len(q)) : (d \o q)[k] = IF k <= Len(d) THEN d[k] ELSE q[k - Len(d)]
  BY <1>2, <1>3, ConcatProperties
<1> DEFINE m == d \o q
<1> HIDE DEF m
<1>5. /\ m \in Seq(S) /\ Len(m) = Len(l) + Len(c) - (j - i)
      /\ \A k \in 1..Len(m) : m[k] = IF k <= i - 1 + Len(c) THEN d[k] ELSE q[k - (i - 1 + Len(c))]
  BY SMTT(60), <1>0, <1>2, <1>3, <1>4 DEF m
<1>6. ASSUME NEW k \in 1..(i - 1) PROVE m[k] = l[k]
  <2>1. k \in 1..Len(m) /\ k <= i - 1 + Len(c) /\ k \in 1..(i - 1 + Len(c)) /\ k <= i - 1
    BY <1>0, <1>5
  <2> QED
    BY <1>3, <1>5, <2>1
<1>7. ASSUME NEW k \in 1..Len(c) PROVE m[i - 1 + k] = c[k]
  <2>1. i - 1 + k \in 1..Len(m) /\ i - 1 + k <= i - 1 + Len(c) /\ i - 1 + k \in 1..(i - 1 + Len(c))
        /\ ~ (i - 1 + k <= i - 1) /\ (i - 1 + k) - (i - 1) = k
    BY <1>0, <1>5
  <2> QED
    BY <1>3, <1>5, <2>1
<1>8. ASSUME NEW k \in j..Len(l) PROVE m[k + Len(c) - (j - i)] = l[k]
  <2> DEFINE x == k + Len(c) - (j - i)
  <2>1. x \in 1..Len(m) /\ ~ (x <= i - 1 + Len(c)) /\ x - (i - 1 + Len(c)) = k - j + 1
        /\ k - j + 1 \in 1..(Len(l) - j + 1) /\ j + (k - j + 1) - 1 = k
    BY <1>0, <1>5
  <2> HIDE DEF x
  <2>2. m[x] = q[k - j + 1] /\ q[k - j + 1] = l[k]
    BY <1>2, <1>5, <2>1
  <2> QED
    BY <2>2 DEF x
<1>9. m = SubSeq(l, 1, i - 1) \o c \o SubSeq(l, j, Len(l))
  BY DEF m, d, p, q
<1> QED
  BY <1>5, <1>6, <1>7, <1>8, <1>9 DEF Splices

(* What fsys_findfree gives for a request of r sectors, out of l.          *)
Gives(l, g, r) ==
  /\ g.free \in Seq(Entry) /\ Strict(g.free)
  /\ g.ans \in Piece /\ g.ans.n <= r
  /\ SectorsOf(g.ans) \subseteq Covered(l)
  /\ Covered(g.free) = Covered(l) \ SectorsOf(g.ans)

(* An entry before which another may end where it starts.                  *)
Fit(l, i) ==
  \A j, k \in DOMAIN l : j < k /\ l[j].n > 0 /\ l[k].n > 0 =>
    End(l[j]) <= l[k].start /\ (k # i => End(l[j]) < l[k].start)

(* What fsys_findfree takes from the front of an entry.                    *)
LEMMA GiveIs ==
  ASSUME NEW l \in Seq(Entry), NEW i \in DOMAIN l, l[i].n > 0, NEW r \in Nat \ {0}, Fit(l, i)
  PROVE  Gives(l, Give(l, i, r), r) /\ Len(Give(l, i, r).free) = Len(l)
<1> DEFINE rest == Rest(l[i], r)
           ans == Taken(l[i], r)
           new == [l EXCEPT ![i] = rest]
<1>1. Is(l[i]) /\ l[i] \in Piece /\ i \in 1..Len(l) /\ i \in Nat
  BY EntriesOf DEF Is
<1>2. /\ ans \in Piece /\ rest \in Entry /\ ans.n <= r /\ ans.start = l[i].start
      /\ End(ans) <= End(l[i])
      /\ rest.n > 0 => rest.start = End(ans) /\ End(rest) = End(l[i])
      /\ rest.n = 0 => End(ans) = End(l[i])
  BY <1>1, RestIs
<1>3. Give(l, i, r).free = new /\ Give(l, i, r).ans = ans
  BY DEF Give
<1> HIDE DEF rest, ans
<1>4. /\ new \in Seq(Entry) /\ Len(new) = Len(l) /\ DOMAIN new = DOMAIN l
      /\ new[i] = rest /\ \A j \in DOMAIN l : j # i => new[j] = l[j]
  BY <1>1, <1>2
<1> HIDE DEF new
<1>5. ASSUME NEW j \in DOMAIN l, NEW k \in DOMAIN l, j < k, new[j].n > 0, new[k].n > 0
      PROVE  End(new[j]) < new[k].start
  <2>1. Is(l[j]) /\ Is(l[k]) /\ Is(ans) /\ Is(rest) /\ ans.n > 0 /\ j \in Nat /\ k \in Nat
    BY EntriesOf, EntryNumbers, PieceNumbers, <1>2
  <2>2. CASE j # i /\ k # i
    BY <2>1, <2>2, <1>4, <1>5 DEF Fit
  <2>3. CASE j = i
    <3>1. k # i /\ new[k] = l[k] /\ new[j] = rest
      BY <1>1, <2>1, <2>3, <1>4, <1>5
    <3>2. End(l[i]) < l[k].start
      BY <2>3, <3>1, <1>5 DEF Fit
    <3> QED
      BY <3>1, <3>2, <1>2, <1>5
  <2>4. CASE k = i
    <3>1. j # i /\ new[k] = rest /\ new[j] = l[j]
      BY <1>1, <2>1, <2>4, <1>4, <1>5
    <3>2. End(l[j]) <= l[i].start
      BY <2>4, <3>1, <1>5 DEF Fit
    <3>3. l[i].start < rest.start /\ l[i].start \in Nat /\ rest.start \in Nat
      <4>1. rest.n > 0
        BY <3>1, <1>5
      <4>2. rest.start = ans.start + ans.n /\ ans.start = l[i].start
        BY <4>1, <1>2, <2>1 DEF Is
      <4>3. ans.n \in Nat /\ ans.n > 0 /\ l[i].start \in Nat /\ rest.start \in Nat
        BY <1>1, <2>1 DEF Is
      <4> QED
        BY <4>2, <4>3
    <3>4. End(l[j]) \in Nat
      BY <2>1 DEF Is
    <3> QED
      BY <3>1, <3>2, <3>3, <3>4
  <2> QED
    BY <2>2, <2>3, <2>4
<1>6. Strict(new)
  BY <1>4, <1>5 DEF Strict
<1>7. Weak(l)
  BY DEF Weak, Fit
<1>8. Is(l[i]) /\ Is(ans) /\ Is(rest) /\ ans.n > 0
  BY EntriesOf, EntryNumbers, PieceNumbers, <1>2
<1>9. /\ SectorsOf(ans) \subseteq SectorsOf(l[i])
      /\ SectorsOf(rest) = SectorsOf(l[i]) \ SectorsOf(ans)
  <2>1. ASSUME NEW s
        PROVE  /\ s \in SectorsOf(ans) => s \in SectorsOf(l[i]) /\ s \notin SectorsOf(rest)
               /\ s \in SectorsOf(rest) => s \in SectorsOf(l[i])
               /\ s \in SectorsOf(l[i]) => s \in SectorsOf(ans) \/ s \in SectorsOf(rest)
    BY SMTT(60), <1>2, <1>8 DEF Is
  <2> QED
    BY <2>1
<1>10. SectorsOf(ans) \subseteq Covered(l)
  BY <1>9, CoveredIn
<1>11. Covered(new) = Covered(l) \ SectorsOf(ans)
  <2>1. ASSUME NEW s, s \in Covered(new) PROVE s \in Covered(l) /\ s \notin SectorsOf(ans)
    <3>1. PICK j \in DOMAIN l : s \in SectorsOf(new[j])
      BY <2>1, <1>4, CoveredIn
    <3>2. CASE j = i
      <4>1. s \in SectorsOf(l[i]) /\ s \notin SectorsOf(ans)
        BY <3>1, <3>2, <1>4, <1>9
      <4> QED
        BY <4>1, CoveredIn
    <3>3. CASE j # i
      <4>1. s \in SectorsOf(l[j])
        BY <3>1, <3>3, <1>4
      <4>2. s \notin SectorsOf(l[i])
        BY <4>1, <3>3, <1>7, Apart
      <4> QED
        BY <4>1, <4>2, <1>9, CoveredIn
    <3> QED
      BY <3>2, <3>3
  <2>2. ASSUME NEW s, s \in Covered(l), s \notin SectorsOf(ans) PROVE s \in Covered(new)
    <3>1. PICK j \in DOMAIN l : s \in SectorsOf(l[j])
      BY <2>2, CoveredIn
    <3>2. s \in SectorsOf(new[j])
      BY <3>1, <2>2, <1>4, <1>9
    <3> QED
      BY <3>2, <1>4, CoveredIn
  <2> QED
    BY <2>1, <2>2
<1> QED
  BY <1>2, <1>3, <1>4, <1>6, <1>10, <1>11 DEF Gives

-----------------------------------------------------------------------------
(* The list with entry i cut at lo.                                        *)
LEMMA SplitIs ==
  ASSUME NEW l \in Seq(Entry), Strict(l), NEW i \in DOMAIN l, l[i].n > 0, NEW lo \in Nat,
         l[i].start < lo, lo < End(l[i])
  PROVE  LET m == Split(l, i, lo)
         IN  /\ m \in Seq(Entry) /\ Len(m) = Len(l) + 1 /\ i + 1 \in DOMAIN m
             /\ m[i + 1].n > 0 /\ Fit(m, i + 1) /\ Covered(m) = Covered(l)
<1> DEFINE a == [start |-> l[i].start, n |-> lo - l[i].start]
           b == [start |-> lo, n |-> End(l[i]) - lo]
           m == Split(l, i, lo)
<1>0. Is(l[i]) /\ l[i] \in Piece /\ i \in 1..Len(l) /\ i \in Nat /\ Len(l) \in Nat
  BY EntriesOf DEF Is
<1>2. a \in Piece /\ b \in Piece /\ a \in Entry /\ b \in Entry
  <2>1. l[i].start \in Nat \ {0} /\ lo - l[i].start \in Nat \ {0} /\ lo \in Nat \ {0}
        /\ End(l[i]) - lo \in Nat \ {0} /\ l[i].start + (lo - l[i].start) <= MaxLba
        /\ lo + (End(l[i]) - lo) <= MaxLba
    BY SMTT(60), <1>0, VolumeAssumption DEF Is
  <2> QED
    BY <2>1, PieceMade DEF Entry
<1>3. End(a) = lo /\ a.start = l[i].start /\ b.start = lo /\ End(b) = End(l[i])
  BY <1>0 DEF End, Is
<1>4. m = SubSeq(l, 1, i - 1) \o <<a, b>> \o SubSeq(l, i + 1, Len(l))
  BY DEF Split
<1> HIDE DEF a, b, m
<1>5. Is(a) /\ Is(b) /\ a.n > 0 /\ b.n > 0
  BY <1>2, PieceNumbers
<1>6. /\ m \in Seq(Entry) /\ Len(m) = Len(l) + 1
      /\ \A j \in 1..(i - 1) : m[j] = l[j]
      /\ m[i] = a /\ m[i + 1] = b
      /\ \A j \in (i + 1)..Len(l) : m[j + 1] = l[j]
  <2>1. <<a, b>> \in Seq(Entry) /\ Len(<<a, b>>) = 2 /\ <<a, b>>[1] = a /\ <<a, b>>[2] = b
    BY <1>2
  <2> DEFINE c == <<a, b>>
  <2> HIDE DEF c
  <2>2. c \in Seq(Entry) /\ Len(c) = 2 /\ c[1] = a /\ c[2] = b
    BY <2>1 DEF c
  <2>3. i \in 1..(Len(l) + 1) /\ i + 1 \in i..(Len(l) + 1)
    BY <1>0
  <2>4. Splices(Entry, l, c, i, i + 1, m)
    <3>1. m = SubSeq(l, 1, i - 1) \o c \o SubSeq(l, i + 1, Len(l))
      BY <1>4 DEF c
    <3> QED
      BY <3>1, <2>2, <2>3, Spliced, Zenon
  <2>5. 1 \in 1..Len(c) /\ 2 \in 1..Len(c) /\ i - 1 + 1 = i /\ i - 1 + 2 = i + 1
    BY <1>0, <2>2
  <2>6. \A k \in (i + 1)..Len(l) : k + Len(c) - ((i + 1) - i) = k + 1
    BY <1>0, <2>2
  <2>7. m[i - 1 + 1] = a /\ m[i - 1 + 2] = b
    BY <2>2, <2>4, <2>5 DEF Splices
  <2>8. Len(l) + Len(c) - ((i + 1) - i) = Len(l) + 1
    BY <1>0, <2>2
  <2> QED
    BY <2>4, <2>5, <2>6, <2>7, <2>8 DEF Splices
<1>7. DOMAIN m = 1..(Len(l) + 1) /\ i + 1 \in DOMAIN m /\ i \in DOMAIN m
  BY <1>0, <1>6
(* The index in l of what m has at j.                                      *)
<1> DEFINE at(j) == IF j <= i THEN j ELSE j - 1
<1>8. ASSUME NEW j \in DOMAIN m
      PROVE  /\ at(j) \in DOMAIN l /\ Is(l[at(j)])
             /\ m[j].n > 0 => l[at(j)].n > 0
             /\ m[j].n > 0 => End(m[j]) <= End(l[at(j)]) /\ l[at(j)].start <= m[j].start
             /\ \A s \in SectorsOf(m[j]) : s \in SectorsOf(l[at(j)])
  <2>1. j \in Nat /\ j >= 1 /\ j <= Len(l) + 1 /\ at(j) \in 1..Len(l)
    BY <1>0, <1>7
  <2>2. at(j) \in DOMAIN l /\ Is(l[at(j)])
    BY <2>1, EntriesOf
  <2>3. CASE j = i
    BY SMTT(60), <1>0, <1>3, <1>5, <1>6, <2>2, <2>3 DEF Is
  <2>4. CASE j = i + 1
    BY SMTT(60), <1>0, <1>3, <1>5, <1>6, <2>2, <2>4 DEF Is
  <2>5. CASE j # i /\ j # i + 1
    <3>1. m[j] = l[at(j)]
      <4>1. CASE j < i
        BY <1>0, <1>6, <2>1, <4>1
      <4>2. CASE j > i + 1
        <5>1. j - 1 \in (i + 1)..Len(l) /\ (j - 1) + 1 = j /\ at(j) = j - 1
          BY <1>0, <2>1, <4>2
        <5>2. m[(j - 1) + 1] = l[j - 1]
          BY <1>6, <5>1
        <5> QED
          BY <5>1, <5>2
      <4> QED
        BY <1>0, <2>1, <2>5, <4>1, <4>2
    <3> QED
      BY <2>2, <3>1 DEF Is
  <2> QED
    BY <2>2, <2>3, <2>4, <2>5
<1>9. Fit(m, i + 1)
  <2> SUFFICES ASSUME NEW j \in DOMAIN m, NEW k \in DOMAIN m, j < k, m[j].n > 0, m[k].n > 0
               PROVE  End(m[j]) <= m[k].start /\ (k # i + 1 => End(m[j]) < m[k].start)
    BY DEF Fit
  <2>1. /\ j \in Nat /\ k \in Nat /\ at(j) \in DOMAIN l /\ at(k) \in DOMAIN l
        /\ l[at(j)].n > 0 /\ l[at(k)].n > 0
        /\ End(m[j]) <= End(l[at(j)]) /\ l[at(k)].start <= m[k].start
    BY <1>7, <1>8
  <2>2. End(l[at(j)]) \in Nat /\ l[at(k)].start \in Nat /\ End(m[j]) \in Nat /\ m[k].start \in Nat
    <3>1. Is(l[at(j)]) /\ Is(l[at(k)]) /\ Is(m[j]) /\ Is(m[k])
      BY <1>6, <1>8, EntriesOf
    <3> QED
      BY <3>1 DEF Is
  <2>3. CASE at(j) < at(k)
    <3>1. End(l[at(j)]) < l[at(k)].start
      <4> HIDE DEF at
      <4> QED
        BY <2>1, <2>3 DEF Strict
    <3> QED
      BY <2>1, <2>2, <3>1
  <2>4. CASE ~ (at(j) < at(k))
    <3>1. j = i /\ k = i + 1
      BY <1>0, <2>1, <2>4
    <3>2. m[j] = a /\ m[k] = b
      BY <1>6, <3>1
    <3> QED
      BY <1>3, <2>2, <3>1, <3>2
  <2> QED
    BY <2>3, <2>4
<1>10. ASSUME NEW s, s \in SectorsOf(l[i]) PROVE s \in SectorsOf(a) \/ s \in SectorsOf(b)
  BY <1>0, <1>3, <1>5, <1>10 DEF Is
<1>11. Covered(m) = Covered(l)
  <2>1. ASSUME NEW s, s \in Covered(m) PROVE s \in Covered(l)
    <3>1. PICK j \in DOMAIN m : s \in SectorsOf(m[j])
      BY <2>1, CoveredIn
    <3>2. s \in SectorsOf(l[at(j)]) /\ at(j) \in DOMAIN l
      BY <1>8, <3>1
    <3> HIDE DEF at
    <3> QED
      BY <3>2, CoveredIn
  <2>2. ASSUME NEW s, s \in Covered(l) PROVE s \in Covered(m)
    <3>1. PICK j \in DOMAIN l : s \in SectorsOf(l[j])
      BY <2>2, CoveredIn
    <3>2. j \in 1..Len(l) /\ j \in Nat
      BY EntriesOf
    <3>3. CASE j < i
      <4>1. j \in DOMAIN m /\ m[j] = l[j]
        BY <1>0, <1>6, <1>7, <3>2, <3>3
      <4> QED
        BY <3>1, <4>1, CoveredIn
    <3>4. CASE j > i
      <4>1. j + 1 \in DOMAIN m /\ m[j + 1] = l[j]
        BY <1>0, <1>6, <1>7, <3>2, <3>4
      <4> QED
        BY <3>1, <4>1, CoveredIn
    <3>5. CASE j = i
      <4>1. s \in SectorsOf(m[i]) \/ s \in SectorsOf(m[i + 1])
        BY <1>6, <1>10, <3>1, <3>5
      <4> QED
        BY <1>7, <4>1, CoveredIn
    <3> QED
      BY <1>0, <3>2, <3>3, <3>4, <3>5
  <2> QED
    BY <2>1, <2>2
<1> QED
  BY <1>5, <1>6, <1>7, <1>9, <1>11 DEF m

(* In a list in order every entry fits.                                    *)
LEMMA StrictFit ==
  ASSUME NEW l \in Seq(Entry), Strict(l), NEW i PROVE Fit(l, i)
<1>1. Weak(l)
  BY StrictWeak
<1> QED
  BY <1>1 DEF Weak, Strict, Fit

(* The entry with the least surplus is one of the list.                    *)
LEMMA ClosestIs ==
  ASSUME NEW l \in Seq(Entry), NEW r \in Nat, NEW over \in SUBSET (DOMAIN l), over # {}
  PROVE  Closest(l, r, over) \in over
<1> DEFINE d(i) == Surplus(l[i], r)
<1>1. \A i \in over : i \in Nat /\ d(i) \in Nat
  <2> SUFFICES ASSUME NEW i \in over PROVE i \in Nat /\ d(i) \in Nat
    OBVIOUS
  <2>1. Is(l[i]) /\ i \in Nat
    BY EntriesOf
  <2>2. l[i].n - r \in Int
    BY <2>1 DEF Is
  <2> QED
    BY <2>1, <2>2, WidthAssumption DEF Surplus
<1> HIDE DEF d
<1>2. PICK m \in {d(i) : i \in over} : \A y \in {d(i) : i \in over} : m <= y
  <2>1. {d(i) : i \in over} \in SUBSET Nat /\ {d(i) : i \in over} # {}
    BY <1>1
  <2> QED
    BY <2>1, LeastOf
<1>3. PICK k \in {i \in over : d(i) = m} : \A y \in {i \in over : d(i) = m} : k <= y
  <2>1. {i \in over : d(i) = m} \in SUBSET Nat /\ {i \in over : d(i) = m} # {}
    BY <1>1, <1>2
  <2> QED
    BY <2>1, LeastOf
<1>4. \A j \in over \ {k} : d(k) < d(j) \/ (d(k) = d(j) /\ k < j)
  <2> SUFFICES ASSUME NEW j \in over \ {k} PROVE d(k) < d(j) \/ (d(k) = d(j) /\ k < j)
    OBVIOUS
  <2>1. k \in over /\ d(k) = m /\ m \in Nat /\ k \in Nat /\ j \in Nat /\ d(j) \in Nat
    BY <1>1, <1>3
  <2>2. m <= d(j)
    BY <1>2
  <2>3. d(j) = m => k <= j
    BY <1>3
  <2> QED
    BY <2>1, <2>2, <2>3
<1>5. \E i \in over : \A j \in over \ {i} :
        \/ Surplus(l[i], r) < Surplus(l[j], r)
        \/ Surplus(l[i], r) = Surplus(l[j], r) /\ i < j
  <2>1. k \in over
    BY <1>3
  <2>2. \A j \in over \ {k} :
          \/ Surplus(l[k], r) < Surplus(l[j], r)
          \/ Surplus(l[k], r) = Surplus(l[j], r) /\ k < j
    BY <1>4, Zenon DEF d
  <2> QED
    BY <2>1, <2>2, Zenon
<1> QED
  BY <1>5, Zenon DEF Closest

(* What was found fits the memory of the list if the list did.             *)
FindsIn(l, elems, g, r) ==
  Gives(l, g, r) /\ (Len(l) <= elems => Len(g.free) <= elems)

(* What fsys_findfree takes where it stops, splitting the entry if it      *)
(* starts below the limit.                                                 *)
LEMMA GiveAtIs ==
  ASSUME NEW l \in Seq(Entry), Strict(l), NEW elems \in Nat, NEW r \in Nat \ {0},
         NEW hint, NEW lo \in Nat, NEW i \in DOMAIN l, l[i].n > 0
  PROVE  FindsIn(l, elems, GiveAt(l, elems, i, r, hint, lo), r)
<1>0. Is(l[i]) /\ Len(l) \in Nat
  BY EntriesOf
<1>1. CASE ~Abuts(l[i], hint) /\ CanSplit(l, elems, i, r, lo)
  <2> DEFINE m == Split(l, i, lo)
             g == Give(m, i + 1, r)
  <2>1. GiveAt(l, elems, i, r, hint, lo) = g
    BY <1>1 DEF GiveAt
  <2>2. l[i].start < lo /\ Len(l) < elems - 1 /\ lo < End(l[i])
    BY <1>0, <1>1 DEF CanSplit, Is
  <2>3. /\ m \in Seq(Entry) /\ Len(m) = Len(l) + 1 /\ i + 1 \in DOMAIN m
        /\ m[i + 1].n > 0 /\ Fit(m, i + 1) /\ Covered(m) = Covered(l)
    BY <2>2, SplitIs
  <2> HIDE DEF m
  <2>4. Gives(m, g, r) /\ Len(g.free) = Len(m)
    BY <2>3, GiveIs
  <2> HIDE DEF g
  <2>5. Gives(l, g, r)
    BY <2>3, <2>4 DEF Gives
  <2>6. Len(g.free) <= elems
    BY <1>0, <2>2, <2>3, <2>4
  <2> QED
    BY <2>1, <2>5, <2>6 DEF FindsIn
<1>2. CASE ~ (~Abuts(l[i], hint) /\ CanSplit(l, elems, i, r, lo))
  <2>1. GiveAt(l, elems, i, r, hint, lo) = Give(l, i, r)
    BY <1>2 DEF GiveAt
  <2>2. Gives(l, Give(l, i, r), r) /\ Len(Give(l, i, r).free) = Len(l)
    BY StrictFit, GiveIs
  <2> QED
    BY <2>1, <2>2 DEF FindsIn
<1> QED
  BY <1>1, <1>2

(* The entries that fsys_findfree looks at.                                *)
Live(l) == {i \in DOMAIN l : l[i].n > 0 /\ l[i].start > 0}

(* The entries at which it stops.                                          *)
Stops(l, elems, r, hint, lo) == {i \in Live(l) : StopsAt(l, elems, i, r, hint, lo)}

(* The entries it may fall back on: larger than asked for.                 *)
Over(l, r, lo) ==
  {i \in Live(l) : End(l[i]) > lo /\ Surplus(l[i], r) < (Word \div 2) - 1}

(* The three outcomes of fsys_findfree, by those sets.                     *)
LEMMA FindFreeIn ==
  ASSUME NEW l, NEW elems, NEW r, NEW hint, NEW lo
  PROVE  FindFree(l, elems, r, hint, lo)
           = IF Stops(l, elems, r, hint, lo) # {}
             THEN GiveAt(l, elems, Min(Stops(l, elems, r, hint, lo)), r, hint, lo)
             ELSE IF Over(l, r, lo) # {} THEN Give(l, Closest(l, r, Over(l, r, lo)), r)
             ELSE [free |-> l, ans |-> Null]
BY DEF FindFree, Stops, Over, Live

(* fsys_findfree gives nothing, and leaves the list alone, or sectors that *)
(* were free and no longer are.                                            *)
LEMMA FindFreeIs ==
  ASSUME NEW l \in Seq(Entry), Strict(l), NEW elems \in Nat, NEW r \in Nat \ {0},
         NEW hint, NEW lo \in Nat
  PROVE  \/ FindFree(l, elems, r, hint, lo) = [free |-> l, ans |-> Null]
         \/ FindsIn(l, elems, FindFree(l, elems, r, hint, lo), r)
<1> DEFINE live == Live(l)
           stops == Stops(l, elems, r, hint, lo)
           over == Over(l, r, lo)
           g == FindFree(l, elems, r, hint, lo)
<1>1. g = IF stops # {} THEN GiveAt(l, elems, Min(stops), r, hint, lo)
          ELSE IF over # {} THEN Give(l, Closest(l, r, over), r)
          ELSE [free |-> l, ans |-> Null]
  BY FindFreeIn
<1>2. stops \subseteq live /\ over \subseteq live /\ live \subseteq DOMAIN l /\ live \subseteq Nat
  BY DEF Stops, Over, Live
<1>3. \A i \in live : i \in DOMAIN l /\ l[i].n > 0
  BY DEF Live
<1> HIDE DEF g, stops, over, live
<1>4. CASE stops # {}
  <2>1. Min(stops) \in live
    BY <1>2, <1>4, MinOf
  <2>2. Min(stops) \in DOMAIN l /\ l[Min(stops)].n > 0
    BY <1>3, <2>1
  <2>3. FindsIn(l, elems, GiveAt(l, elems, Min(stops), r, hint, lo), r)
    BY <2>2, GiveAtIs
  <2> QED
    BY <1>1, <1>4, <2>3 DEF g
<1>5. CASE stops = {} /\ over # {}
  <2>1. over \in SUBSET (DOMAIN l)
    BY <1>2
  <2>2. Closest(l, r, over) \in live
    BY <1>2, <1>5, <2>1, ClosestIs
  <2> DEFINE i == Closest(l, r, over)
  <2> HIDE DEF i
  <2>3. i \in DOMAIN l /\ l[i].n > 0
    BY <1>3, <2>2 DEF i
  <2>4. Gives(l, Give(l, i, r), r) /\ Len(Give(l, i, r).free) = Len(l)
    BY <2>3, StrictFit, GiveIs
  <2>5. g = Give(l, i, r)
    BY <1>1, <1>5 DEF i
  <2> QED
    BY <2>4, <2>5 DEF g, FindsIn
<1>6. CASE stops = {} /\ over = {}
  BY <1>1, <1>6 DEF g
<1> QED
  BY <1>4, <1>5, <1>6

(* Where fsys_findfree stops, and where it stops for one sector.           *)
LEMMA FindFreeStops ==
  ASSUME NEW l, NEW elems, NEW r, NEW hint, NEW lo, Stops(l, elems, r, hint, lo) # {}
  PROVE  FindFree(l, elems, r, hint, lo)
           = GiveAt(l, elems, Min(Stops(l, elems, r, hint, lo)), r, hint, lo)
BY FindFreeIn, Zenon

(* When it stops, it has found sectors.                                    *)
LEMMA StopsFinds ==
  ASSUME NEW l \in Seq(Entry), Strict(l), NEW elems \in Nat, NEW r \in Nat \ {0},
         NEW hint, NEW lo \in Nat, Stops(l, elems, r, hint, lo) # {}
  PROVE  FindsIn(l, elems, FindFree(l, elems, r, hint, lo), r)
<1> DEFINE stops == Stops(l, elems, r, hint, lo)
<1>1. Min(stops) \in stops
  <2>1. stops \in SUBSET Nat /\ stops # {}
    BY DEF Stops, Live
  <2> QED
    BY <2>1, MinOf
<1>2. Min(stops) \in DOMAIN l /\ l[Min(stops)].n > 0
  BY <1>1 DEF Stops, Live
<1>3. FindFree(l, elems, r, hint, lo) = GiveAt(l, elems, Min(stops), r, hint, lo)
  BY FindFreeStops
<1> HIDE DEF stops
<1> QED
  BY <1>2, <1>3, GiveAtIs

(* A list that covers something has a sector for a header.                 *)
LEMMA FindsSector ==
  ASSUME NEW l \in Seq(Entry), Strict(l), NEW elems \in Nat, Covered(l) # {}
  PROVE  FindsIn(l, elems, FindFree(l, elems, 1, 0, 0), 1)
<1>1. PICK s : s \in Covered(l)
  OBVIOUS
<1>0. PICK i \in DOMAIN l : s \in SectorsOf(l[i])
  BY <1>1, CoveredIn
<1>2. Is(l[i])
  BY EntriesOf
<1>3. l[i].n > 0 /\ l[i].start > 0 /\ End(l[i]) > 0
  BY <1>0, <1>2 DEF Is
<1>4. StopsAt(l, elems, i, 1, 0, 0)
  BY <1>3 DEF StopsAt
<1>5. Stops(l, elems, 1, 0, 0) # {}
  BY <1>3, <1>4 DEF Stops, Live
<1>6. 1 \in Nat \ {0} /\ 0 \in Nat
  OBVIOUS
<1> QED
  BY <1>5, <1>6, StopsFinds, Zenon

(* A list that ends by sector b.                                           *)
Below(l, b) == \A j \in DOMAIN l : l[j].n > 0 => End(l[j]) <= b

(* What one more entry does to a collapsed list.                           *)
Absorbed(c, e, m) ==
  /\ m \in Seq(Entry) /\ Len(m) \in 1..(Len(c) + 1)
  /\ Clean(m) /\ Strict(m)
  /\ Covered(m) = Covered(c) \cup SectorsOf(e)
  /\ \A b \in Nat : Below(c, b) /\ (e.n > 0 => End(e) <= b) => Below(m, b)

(* collapse_free joins one more entry to the last one, or adds it.         *)
LEMMA AbsorbIs ==
  ASSUME NEW c \in Seq(Entry), Len(c) > 0, Clean(c), Strict(c), NEW e \in Entry,
         e.n > 0 => Below(c, e.start)
  PROVE  Absorbed(c, e, Absorb(c, e))
<1> DEFINE k == Len(c)
           last == c[k]
           m == Absorb(c, e)
<1>0. k \in DOMAIN c /\ k \in Nat /\ Is(last) /\ Is(e) /\ last \in Entry
  BY EntryNumbers
<1>1. CASE e.n = 0
  <2>1. m = c
    BY <1>1 DEF Absorb
  <2>2. SectorsOf(e) = {}
    BY <1>1, SectorsIn
  <2> QED
    BY <1>0, <1>1, <2>1, <2>2 DEF Absorbed
<1>2. CASE e.n > 0 /\ End(last) = 0
  <2>1. last.n = 0
    BY <1>0, <1>2 DEF Is
  <2>2. c = <<Null>>
    BY <1>0, <2>1 DEF Clean
  <2>3. m = <<e>>
    BY <1>0, <1>2, <2>2 DEF Absorb, Is
  <2>4. Covered(c) = {} /\ Covered(m) = SectorsOf(e)
    <3>1. SectorsOf(Null) = {}
      BY SectorsIn DEF Entry, Null
    <3>2. DOMAIN c = {1} /\ c[1] = Null /\ DOMAIN m = {1} /\ m[1] = e
      BY <2>2, <2>3
    <3> QED
      BY <3>1, <3>2 DEF Covered
  <2>5. m \in Seq(Entry) /\ Len(m) = 1 /\ Clean(m) /\ Strict(m)
    BY <1>2, <2>3 DEF Clean, Strict
  <2>6. \A b \in Nat : (e.n > 0 => End(e) <= b) => Below(m, b)
    BY <1>2, <2>3 DEF Below
  <2>7. Len(m) \in 1..(Len(c) + 1) /\ Covered(m) = Covered(c) \cup SectorsOf(e)
    BY <1>0, <2>4, <2>5
  <2> HIDE DEF m
  <2> QED
    BY <2>5, <2>6, <2>7 DEF Absorbed, m
<1>3. CASE e.n > 0 /\ End(last) > 0 /\ e.start <= End(last)
  <2>1. last.n > 0
    <3>1. last.n = 0 => last = Null
      BY <1>0, EntryIs
    <3>2. End(Null) = 0
      BY DEF Null, End
    <3> QED
      BY <1>0, <1>3, <3>1, <3>2 DEF Is
  <2>2. e.start = End(last)
    BY <1>0, <1>3, <2>1 DEF Below, Is
  <2> DEFINE new == [start |-> last.start, n |-> last.n + e.n]
  <2>3. m = [c EXCEPT ![k] = new]
    <3>1. m = [c EXCEPT ![k].n = @ + e.n - (End(last) - e.start)]
      BY SMTT(60), <1>0, <1>3 DEF Absorb, Is
    <3>2. last = [start |-> last.start, n |-> last.n]
      BY <1>0, EntryIs
    <3>3. [last EXCEPT !.n = @ + e.n - (End(last) - e.start)] = new
      BY <1>0, <2>2, <3>2 DEF Is
    <3> QED
      BY <3>1, <3>3
  <2>4. new \in Piece /\ End(new) = End(e) /\ new.start = last.start
    <3>1. last.start \in Nat \ {0} /\ last.n + e.n \in Nat \ {0}
          /\ last.start + (last.n + e.n) <= MaxLba
          /\ last.start + (last.n + e.n) = End(e)
      BY SMTT(60), <1>0, <1>3, <2>1, <2>2, VolumeAssumption DEF Is
    <3> QED
      BY <3>1, PieceMade DEF End
  <2> HIDE DEF new, m
  <2>5. Is(new) /\ new.n > 0 /\ new \in Entry
    BY <2>4, PieceNumbers DEF Entry
  <2>6. /\ m \in Seq(Entry) /\ Len(m) = Len(c) /\ DOMAIN m = DOMAIN c
        /\ m[k] = new /\ \A j \in DOMAIN c : j # k => m[j] = c[j]
    BY <1>0, <2>3, <2>5
  <2>7. \A j \in DOMAIN m : m[j].n > 0
    <3>1. \A j \in DOMAIN c : c[j].n > 0
      BY <1>0, <2>1 DEF Clean, Null
    <3> QED
      BY <2>5, <2>6, <3>1
  <2>8. Strict(m)
    <3> SUFFICES ASSUME NEW i \in DOMAIN m, NEW j \in DOMAIN m, i < j, m[i].n > 0, m[j].n > 0
                 PROVE  End(m[i]) < m[j].start
      BY DEF Strict
    <3>1. i # k /\ m[i] = c[i] /\ i \in DOMAIN c /\ j \in DOMAIN c
      BY <1>0, <2>6
    <3>2. c[j].n > 0 => End(c[i]) < c[j].start
      BY <3>1 DEF Strict
    <3> QED
      BY <2>1, <2>4, <2>6, <3>1, <3>2
  <2>9. SectorsOf(new) = SectorsOf(last) \cup SectorsOf(e)
    <3>1. ASSUME NEW s
          PROVE  /\ s \in SectorsOf(new) => s \in SectorsOf(last) \/ s \in SectorsOf(e)
                 /\ s \in SectorsOf(last) => s \in SectorsOf(new)
                 /\ s \in SectorsOf(e) => s \in SectorsOf(new)
      BY SMTT(60), <1>0, <2>2, <2>4, <2>5 DEF Is
    <3> QED
      BY <3>1
  <2>10. Covered(m) = Covered(c) \cup SectorsOf(e)
    <3>1. ASSUME NEW s, s \in Covered(m) PROVE s \in Covered(c) \cup SectorsOf(e)
      <4>1. PICK j \in DOMAIN c : s \in SectorsOf(m[j])
        BY <2>6, <3>1, CoveredIn
      <4> QED
        BY <2>6, <2>9, <4>1, CoveredIn
    <3>2. ASSUME NEW s, s \in Covered(c) PROVE s \in Covered(m)
      <4>1. PICK j \in DOMAIN c : s \in SectorsOf(c[j])
        BY <3>2, CoveredIn
      <4>2. s \in SectorsOf(m[j])
        BY <2>6, <2>9, <4>1
      <4> QED
        BY <2>6, <4>2, CoveredIn
    <3>3. ASSUME NEW s, s \in SectorsOf(e) PROVE s \in Covered(m)
      <4>1. s \in SectorsOf(m[k])
        BY <2>6, <2>9, <3>3
      <4> QED
        BY <1>0, <2>6, <4>1, CoveredIn
    <3> QED
      BY <3>1, <3>2, <3>3
  <2>11. \A b \in Nat : Below(c, b) /\ (e.n > 0 => End(e) <= b) => Below(m, b)
    <3> SUFFICES ASSUME NEW b \in Nat, Below(c, b), End(e) <= b,
                        NEW j \in DOMAIN m, m[j].n > 0
                 PROVE  End(m[j]) <= b
      BY <1>3 DEF Below
    <3> QED
      BY <2>4, <2>6 DEF Below
  <2> QED
    BY <1>0, <2>6, <2>7, <2>8, <2>10, <2>11 DEF Absorbed, Clean, m
<1>4. CASE e.n > 0 /\ End(last) > 0 /\ ~ (e.start <= End(last))
  <2>1. last.n > 0
    <3>1. last.n = 0 => last = Null
      BY <1>0, EntryIs
    <3>2. End(Null) = 0
      BY DEF Null, End
    <3> QED
      BY <1>0, <1>4, <3>1, <3>2 DEF Is
  <2>2. m = Append(c, e)
    BY <1>0, <1>4 DEF Absorb, Is
  <2>3. /\ m \in Seq(Entry) /\ Len(m) = k + 1 /\ m[k + 1] = e
        /\ \A j \in DOMAIN c : m[j] = c[j]
    <3> HIDE DEF m
    <3> QED
      BY <2>2, AppendProperties
  <2> HIDE DEF m
  <2>4. \A j \in DOMAIN m : j \in DOMAIN c \/ j = k + 1
    BY <1>0, <2>3
  <2>5. \A j \in DOMAIN c : j \in DOMAIN m /\ c[j].n > 0 /\ j \in Nat /\ j <= k
    BY <1>0, <2>1, <2>3 DEF Clean, Null
  <2>6. \A j \in DOMAIN m : m[j].n > 0
    BY <1>4, <2>3, <2>4, <2>5
  <2>7. Strict(m)
    <3> SUFFICES ASSUME NEW i \in DOMAIN m, NEW j \in DOMAIN m, i < j
                 PROVE  End(m[i]) < m[j].start
      BY DEF Strict
    <3>0. i \in DOMAIN c /\ m[i] = c[i] /\ c[i].n > 0
      BY <1>0, <2>3, <2>4, <2>5
    <3>1. CASE j \in DOMAIN c
      BY <2>3, <2>5, <3>0, <3>1 DEF Strict
    <3>2. CASE j = k + 1
      <4>1. CASE i = k
        BY <1>0, <1>4, <2>3, <3>0, <3>2, <4>1 DEF Is
      <4>2. CASE i # k
        <5>1. End(c[i]) < last.start /\ Is(c[i])
          BY <1>0, <2>1, <2>5, <3>0, <4>2, EntriesOf DEF Strict
        <5> QED
          BY SMTT(60), <1>0, <1>4, <2>3, <3>0, <3>2, <5>1 DEF Is
      <4> QED
        BY <4>1, <4>2
    <3> QED
      BY <2>4, <3>1, <3>2
  <2>8. Covered(m) = Covered(c) \cup SectorsOf(e)
    <3>1. ASSUME NEW s, s \in Covered(m) PROVE s \in Covered(c) \cup SectorsOf(e)
      <4>1. PICK j \in DOMAIN m : s \in SectorsOf(m[j])
        BY <3>1, CoveredIn
      <4> QED
        BY <2>3, <2>4, <4>1, CoveredIn
    <3>2. ASSUME NEW s, s \in Covered(c) PROVE s \in Covered(m)
      <4>1. PICK j \in DOMAIN c : s \in SectorsOf(c[j])
        BY <3>2, CoveredIn
      <4> QED
        BY <2>3, <2>5, <4>1, CoveredIn
    <3>3. k + 1 \in DOMAIN m
      BY <1>0, <2>3
    <3>4. SectorsOf(e) \subseteq Covered(m)
      BY <2>3, <3>3, CoveredIn
    <3> QED
      BY <3>1, <3>2, <3>4
  <2>9. \A b \in Nat : Below(c, b) /\ (e.n > 0 => End(e) <= b) => Below(m, b)
    BY <1>4, <2>3, <2>4 DEF Below
  <2> QED
    BY <1>0, <2>3, <2>6, <2>7, <2>8, <2>9 DEF Absorbed, Clean, m
<1> QED
  BY <1>0, <1>1, <1>2, <1>3, <1>4 DEF Is

-----------------------------------------------------------------------------
(* What collapse_free makes of a list whose entries are in order.          *)
Collapses(l, c) ==
  /\ c \in Seq(Entry) /\ Strict(c) /\ Clean(c) /\ Covered(c) = Covered(l)
  /\ Len(c) > 0 /\ (Len(l) > 0 => Len(c) <= Len(l)) /\ (Len(l) = 0 => Len(c) = 1)

(* collapse_free of a list in order: nothing is lost and no two entries    *)
(* touch.                                                                  *)
LEMMA CollapseIs ==
  ASSUME NEW l \in Seq(Entry), Weak(l)
  PROVE  Collapses(l, CollapseFree(l))
<1>1. CASE l = <<>>
  <2>1. CollapseFree(l) = <<Null>>
    BY <1>1 DEF CollapseFree
  <2>2. Covered(<<Null>>) = {} /\ Covered(l) = {}
    <3>1. SectorsOf(Null) = {}
      BY SectorsIn DEF Entry, Null
    <3>2. DOMAIN <<Null>> = {1} /\ <<Null>>[1] = Null /\ DOMAIN l = {}
      BY <1>1
    <3> QED
      BY <3>1, <3>2 DEF Covered
  <2>3. <<Null>> \in Seq(Entry) /\ Len(<<Null>>) = 1 /\ Strict(<<Null>>) /\ Clean(<<Null>>)
    BY DEF Entry, Strict, Clean
  <2>4. Len(l) = 0
    BY <1>1
  <2> QED
    BY <2>1, <2>2, <2>3, <2>4 DEF Collapses
<1>2. CASE l # <<>>
  <2> DEFINE t == Tail(l)
             first == <<Head(l)>>
             m == Len(t)
             Upto(k) == {s \in 1..MaxLba : \E j \in 1..(k + 1) : s \in SectorsOf(l[j])}
             Good(k, c) ==
               /\ Len(c) \in 1..(k + 1) /\ Clean(c) /\ Strict(c) /\ Covered(c) = Upto(k)
               /\ \A j \in (k + 2)..Len(l) : l[j].n > 0 => Below(c, l[j].start)
             T == [k \in 0..m |-> {c \in Seq(Entry) : Good(k, c)}]
  <2>1. /\ t \in Seq(Entry) /\ m = Len(l) - 1 /\ \A k \in 1..m : t[k] = l[k + 1]
        /\ m \in Nat /\ Len(l) \in Nat /\ Len(l) > 0 /\ first = <<l[1]>> /\ 1 \in DOMAIN l
    BY <1>2, HeadTailProperties
  <2>2. CollapseFree(l) = FoldLeft(Absorb, first, t)
    BY <1>2 DEF CollapseFree
  <2> HIDE DEF t, first, m
  <2>3. first \in T[0]
    <3>1. first \in Seq(Entry) /\ Len(first) = 1 /\ first[1] = l[1] /\ DOMAIN first = {1}
          /\ Is(l[1])
      BY <2>1, EntriesOf
    <3>2. Clean(first) /\ Strict(first)
      <4>1. l[1].n > 0 \/ l[1] = Null
        BY <3>1, EntryIs DEF Is
      <4> QED
        BY <2>1, <3>1, <4>1 DEF Clean, Strict
    <3>3. Covered(first) = Upto(0)
      <4>1. ASSUME NEW s PROVE s \in Covered(first) <=> s \in Upto(0)
        <5>1. s \in Covered(first) <=> s \in SectorsOf(l[1])
          BY <3>1 DEF Covered
        <5>2. s \in SectorsOf(l[1]) => s \in 1..MaxLba
          BY <3>1, VolumeAssumption DEF Is
        <5>3. 1..(0 + 1) = {1}
          OBVIOUS
        <5> QED
          BY <5>1, <5>2, <5>3
      <4> QED
        BY <4>1
    <3>4. \A j \in (0 + 2)..Len(l) : l[j].n > 0 => Below(first, l[j].start)
      BY <2>1, <3>1 DEF Weak, Below
    <3>5. Good(0, first)
      BY <3>1, <3>2, <3>3, <3>4
    <3>6. first \in Seq(Entry) /\ 0 \in 0..m
      BY <2>1, <3>1
    <3> HIDE DEF Good, Upto
    <3> QED
      BY <3>5, <3>6, Zenon
  <2>4. ASSUME NEW k \in 1..m, NEW c \in T[k - 1] PROVE Absorb(c, t[k]) \in T[k]
    <3>0. k \in Nat /\ k >= 1 /\ k <= m /\ k - 1 \in 0..m /\ k \in 0..m /\ (k - 1) + 1 = k
          /\ (k - 1) + 2 = k + 1 /\ k + 1 \in DOMAIN l /\ k + 1 \in (k + 1)..Len(l)
      BY <2>1
    <3>1. c \in Seq(Entry) /\ Good(k - 1, c)
      BY <3>0
    <3> DEFINE e == l[k + 1]
               d == Absorb(c, e)
    <3>2. t[k] = e /\ Is(e) /\ e \in Entry
      BY <2>1, <3>0, EntriesOf DEF Is
    <3>3. Len(c) \in 1..k /\ Clean(c) /\ Strict(c) /\ Covered(c) = Upto(k - 1)
          /\ \A j \in (k + 1)..Len(l) : l[j].n > 0 => Below(c, l[j].start)
      BY <3>0, <3>1
    <3> HIDE DEF e, Good, Upto, T
    <3>4. e.n > 0 => Below(c, e.start)
      BY <3>0, <3>3 DEF e
    <3>5. Absorbed(c, e, d)
      <4>1. Len(c) > 0
        BY <3>0, <3>3
      <4> QED
        BY <3>1, <3>2, <3>3, <3>4, <4>1, AbsorbIs
    <3> HIDE DEF d
    <3>6. d \in Seq(Entry) /\ Len(d) \in 1..(k + 1) /\ Clean(d) /\ Strict(d)
          /\ Covered(d) = Upto(k - 1) \cup SectorsOf(e)
      BY <3>0, <3>3, <3>5 DEF Absorbed
    <3>7. Upto(k - 1) \cup SectorsOf(e) = Upto(k)
      <4>1. SectorsOf(e) \subseteq 1..MaxLba
        BY <3>2, VolumeAssumption DEF Is
      <4>2. 1..(k + 1) = 1..((k - 1) + 1) \cup {k + 1}
        BY <3>0
      <4> QED
        BY <4>1, <4>2 DEF Upto, e
    <3>8. ASSUME NEW j \in (k + 2)..Len(l), l[j].n > 0 PROVE Below(d, l[j].start)
      <4>1. j \in DOMAIN l /\ j \in (k + 1)..Len(l) /\ k + 1 < j
        BY <3>0, <2>1
      <4>2. l[j].start \in Nat
        BY <4>1, EntriesOf DEF Is
      <4>3. Below(c, l[j].start)
        BY <3>3, <3>8, <4>1
      <4>4. e.n > 0 => End(e) <= l[j].start
        BY <3>0, <3>8, <4>1 DEF Weak, e
      <4> QED
        BY <3>5, <4>2, <4>3, <4>4 DEF Absorbed
    <3>9. Good(k, d)
      BY <3>6, <3>7, <3>8 DEF Good
    <3> QED
      BY <3>0, <3>2, <3>6, <3>9 DEF T, d
  <2>5. FoldLeft(Absorb, first, t) \in T[m]
    <3> HIDE DEF T
    <3> QED
      BY <2>1, <2>3, <2>4, AbsorbFold, Zenon DEF m
  <2> DEFINE c == CollapseFree(l)
  <2>6. c \in Seq(Entry) /\ Good(m, c)
    BY <2>1, <2>2, <2>5
  <2> HIDE DEF c
  <2>7. Covered(c) = Covered(l)
    <3>1. m + 1 = Len(l) /\ Covered(c) = Upto(m)
      BY <2>1, <2>6
    <3>2. ASSUME NEW s PROVE s \in Upto(m) <=> s \in Covered(l)
      <4>1. s \in Covered(l) <=> \E j \in 1..Len(l) : s \in SectorsOf(l[j])
        BY CoveredIn
      <4>2. ASSUME NEW j \in 1..Len(l), s \in SectorsOf(l[j]) PROVE s \in 1..MaxLba
        <5>1. Is(l[j])
          BY EntriesOf
        <5> QED
          BY <4>2, <5>1, VolumeAssumption DEF Is
      <4> QED
        BY <3>1, <4>1, <4>2
    <3> QED
      BY <3>1, <3>2
  <2>8. Strict(c) /\ Clean(c) /\ Len(c) \in 1..Len(l)
    BY <2>1, <2>6
  <2> QED
    BY <2>1, <2>6, <2>7, <2>8 DEF Collapses, c
<1> QED
  BY <1>1, <1>2

-----------------------------------------------------------------------------
(* How many sectors an extent and a list have.                             *)
LEMMA SizeIs ==
  ASSUME NEW e \in Entry
  PROVE  IsFiniteSet(SectorsOf(e)) /\ Cardinality(SectorsOf(e)) = e.n
<1>1. e.start \in Nat /\ e.n \in Nat /\ End(e) = e.start + e.n
  BY EntryIs
<1>2. e.start \in Int /\ End(e) - 1 \in Int
  BY <1>1
<1>3. /\ IsFiniteSet(e.start..(End(e) - 1))
      /\ Cardinality(e.start..(End(e) - 1))
           = IF e.start > End(e) - 1 THEN 0 ELSE End(e) - 1 - e.start + 1
  BY <1>2, FS_Interval
<1> QED
  BY <1>1, <1>3 DEF SectorsOf

(* A list covers finitely many sectors, at most the volume.                *)
LEMMA CoveredFinite ==
  ASSUME NEW l \in Seq(Entry)
  PROVE  Covered(l) \subseteq 1..(MaxLba - 1) /\ IsFiniteSet(Covered(l))
         /\ Cardinality(Covered(l)) \in 0..MaxLba /\ Cardinality(Covered(l)) \in Nat
<1>1. Covered(l) \subseteq 1..(MaxLba - 1)
  <2> SUFFICES ASSUME NEW s, s \in Covered(l) PROVE s \in 1..(MaxLba - 1)
    OBVIOUS
  <2>1. PICK i \in DOMAIN l : s \in SectorsOf(l[i])
    BY CoveredIn
  <2>2. l[i] \in Entry
    OBVIOUS
  <2> QED
    BY <2>1, <2>2, SectorsIn
<1>2. /\ IsFiniteSet(1..(MaxLba - 1))
      /\ Cardinality(1..(MaxLba - 1)) = IF 1 > MaxLba - 1 THEN 0 ELSE MaxLba - 1 - 1 + 1
  BY FS_Interval, VolumeAssumption
<1>3. IsFiniteSet(Covered(l)) /\ Cardinality(Covered(l)) <= Cardinality(1..(MaxLba - 1))
  BY <1>1, <1>2, FS_Subset
<1>4. Cardinality(Covered(l)) \in Nat
  BY <1>3, FS_CardinalityType
<1> QED
  BY <1>1, <1>2, <1>3, <1>4, VolumeAssumption

(* What a list has and what is added to it without overlap.                *)
LEMMA AddedSize ==
  ASSUME NEW S, IsFiniteSet(S), NEW e \in Entry, S \cap SectorsOf(e) = {}
  PROVE  /\ IsFiniteSet(S \cup SectorsOf(e))
         /\ Cardinality(S \cup SectorsOf(e)) = Cardinality(S) + e.n
<1>1. IsFiniteSet(SectorsOf(e)) /\ Cardinality(SectorsOf(e)) = e.n /\ e.n \in Nat
  BY SizeIs, EntryIs
<1>2. /\ IsFiniteSet(S \cup SectorsOf(e))
      /\ Cardinality(S \cup SectorsOf(e))
           = Cardinality(S) + Cardinality(SectorsOf(e)) - Cardinality(S \cap SectorsOf(e))
  BY <1>1, FS_Union
<1>3. Cardinality(S \cap SectorsOf(e)) = 0 /\ Cardinality(S) \in Nat
  BY FS_EmptySet, FS_CardinalityType
<1> QED
  BY <1>1, <1>2, <1>3

(* The sum of the sizes of a list in order is the number of sectors it     *)
(* covers.                                                                 *)
LEMMA AmountIs ==
  ASSUME NEW l \in Seq(Entry), Weak(l)
  PROVE  Amount(l) = Cardinality(Covered(l))
<1> DEFINE n == Len(l)
           Upto(k) == UNION {SectorsOf(l[j]) : j \in 1..k}
           T == [k \in 0..n |-> {IF IsFiniteSet(Upto(k)) THEN Cardinality(Upto(k)) ELSE -1}]
<1>0. n \in Nat /\ DOMAIN l = 1..n
  OBVIOUS
<1>1. ASSUME NEW k \in 0..n PROVE IsFiniteSet(Upto(k))
  <2>1. Upto(k) \subseteq Covered(l)
    BY <1>0, CoveredIn
  <2> HIDE DEF Upto
  <2> QED
    BY <2>1, CoveredFinite, FS_Subset
<1>2. \A k \in 0..n : T[k] = {Cardinality(Upto(k))}
  <2> HIDE DEF Upto, n
  <2> QED
    BY <1>1
<1>3. 0 \in T[0]
  <2>1. Upto(0) = {} /\ 0 \in 0..n
    BY <1>0
  <2> HIDE DEF Upto, T, n
  <2> QED
    BY <1>2, <2>1, FS_EmptySet
<1>4. ASSUME NEW k \in 1..n, NEW x \in T[k - 1] PROVE Plus(x, l[k]) \in T[k]
  <2>0. k - 1 \in 0..n /\ k \in 0..n /\ k \in DOMAIN l /\ l[k] \in Entry /\ k \in Nat
    BY <1>0
  <2>1. Upto(k) = Upto(k - 1) \cup SectorsOf(l[k])
    <3>1. 1..k = 1..(k - 1) \cup {k}
      OBVIOUS
    <3> QED
      BY <3>1
  <2>2. Upto(k - 1) \cap SectorsOf(l[k]) = {}
    <3> SUFFICES ASSUME NEW j \in 1..(k - 1) PROVE SectorsOf(l[j]) \cap SectorsOf(l[k]) = {}
      OBVIOUS
    <3>1. j \in DOMAIN l /\ j # k
      BY <1>0, <2>0
    <3> QED
      BY <2>0, <3>1, Apart
  <2>3. x = Cardinality(Upto(k - 1)) /\ IsFiniteSet(Upto(k - 1))
    <3> HIDE DEF Upto, T, n
    <3> QED
      BY <1>1, <1>2, <2>0
  <2> HIDE DEF Upto, T, n
  <2>4. Cardinality(Upto(k)) = x + l[k].n
    BY <2>0, <2>1, <2>2, <2>3, AddedSize
  <2> QED
    BY <1>2, <2>0, <2>4 DEF Plus
<1>5. Amount(l) \in T[n]
  <2>1. FoldLeft(Plus, 0, l) \in T[Len(l)]
    <3> HIDE DEF T
    <3> QED
      BY <1>3, <1>4, PlusFold, Zenon DEF n
  <2> QED
    BY <2>1 DEF Amount
<1>6. Upto(n) = Covered(l)
  BY <1>0 DEF Covered
<1> HIDE DEF Upto, T, n
<1> QED
  BY <1>0, <1>2, <1>5, <1>6

-----------------------------------------------------------------------------
(* The parts of a volume in use.                                           *)
LEMMA VolIs ==
  ASSUME NEW v, VolOK(v)
  PROVE  /\ v.free \in Seq(Entry) /\ v.elems \in Nat \ {0} /\ v.total \in 0..MaxLba
         /\ Strict(v.free) /\ Weak(v.free) /\ Len(v.free) <= v.elems /\ Len(v.free) \in Nat
         /\ v.total = Cardinality(Covered(v.free)) /\ IsFiniteSet(Covered(v.free))
         /\ v = [free |-> v.free, elems |-> v.elems, total |-> v.total]
BY CoveredFinite, StrictWeak DEF VolOK

(* A volume in use from its parts.                                         *)
LEMMA VolMade ==
  ASSUME NEW l \in Seq(Entry), NEW m \in Nat \ {0}, NEW c, Strict(l), Len(l) <= m,
         c = Cardinality(Covered(l))
  PROVE  VolOK([free |-> l, elems |-> m, total |-> c])
BY CoveredFinite DEF VolOK

(* A collapsed list in the place of the list.                              *)
LEMMA VolCollapsed ==
  ASSUME NEW l \in Seq(Entry), Weak(l), NEW m \in Nat \ {0}, NEW c, Len(l) <= m,
         c = Cardinality(Covered(l))
  PROVE  /\ VolOK([free |-> CollapseFree(l), elems |-> m, total |-> c])
         /\ Covered(CollapseFree(l)) = Covered(l) /\ Clean(CollapseFree(l))
<1> DEFINE d == CollapseFree(l)
<1>1. Collapses(l, d) /\ Len(l) \in Nat
  BY CollapseIs
<1> HIDE DEF d
<1>2. d \in Seq(Entry) /\ Strict(d) /\ Covered(d) = Covered(l) /\ Clean(d)
  BY <1>1 DEF Collapses
<1>3. Len(d) \in Nat /\ Len(d) <= m
  <2>1. (Len(l) > 0 => Len(d) <= Len(l)) /\ (Len(l) = 0 => Len(d) = 1)
    BY <1>1 DEF Collapses
  <2>2. Len(d) \in Nat /\ Len(l) \in Nat
    BY <1>1, <1>2
  <2> QED
    BY <2>1, <2>2
<1>4. c = Cardinality(Covered(d))
  BY <1>2
<1> QED
  BY <1>2, <1>3, <1>4, VolMade DEF d

-----------------------------------------------------------------------------
(* What back_to_free does to a volume.                                     *)
Returned(v, rp, b) ==
  /\ VolOK(b.v) /\ Covered(b.v.free) = Covered(v.free) \cup SectorsOf(rp)
  /\ Clean(b.v.free) /\ b.torn \in BOOLEAN

(* A volume with another list and count.                                   *)
LEMMA VolSet ==
  ASSUME NEW v, v = [free |-> v.free, elems |-> v.elems, total |-> v.total], NEW x, NEW y
  PROVE  [v EXCEPT !.free = x, !.total = y] = [free |-> x, elems |-> v.elems, total |-> y]
<1> DEFINE a == v.free
           b == v.elems
           c == v.total
<1>1. v = [free |-> a, elems |-> b, total |-> c]
  OBVIOUS
<1>2. v.elems = b
  OBVIOUS
<1> HIDE DEF a, b, c
<1>3. [[free |-> a, elems |-> b, total |-> c] EXCEPT !.free = x, !.total = y]
        = [[[free |-> a, elems |-> b, total |-> c] EXCEPT !.free = x] EXCEPT !.total = y]
  OBVIOUS
<1>4. [[free |-> a, elems |-> b, total |-> c] EXCEPT !.free = x]
        = [free |-> x, elems |-> b, total |-> c]
  OBVIOUS
<1>5. [[free |-> x, elems |-> b, total |-> c] EXCEPT !.total = y]
        = [free |-> x, elems |-> b, total |-> y]
  OBVIOUS
<1> QED
  BY <1>1, <1>2, <1>3, <1>4, <1>5

(* A list with the extent rp in it, over entries without sectors.          *)
LEMMA ReturnedList ==
  ASSUME NEW v, VolOK(v), NEW rp \in Piece, Covered(v.free) \cap SectorsOf(rp) = {},
         NEW l \in Seq(Entry), Weak(l), Covered(l) = Covered(v.free) \cup SectorsOf(rp),
         NEW m \in Nat \ {0}, Len(l) <= m, NEW c, c = v.total + rp.n,
         NEW t \in BOOLEAN, NEW b,
         b = [v |-> [free |-> CollapseFree(l), elems |-> m, total |-> c], torn |-> t]
  PROVE  Returned(v, rp, b)
<1>1. IsFiniteSet(Covered(v.free)) /\ v.total = Cardinality(Covered(v.free)) /\ rp \in Entry
  BY VolIs DEF Entry
<1>2. c = Cardinality(Covered(l))
  BY <1>1, AddedSize
<1>3. /\ VolOK([free |-> CollapseFree(l), elems |-> m, total |-> c])
      /\ Covered(CollapseFree(l)) = Covered(l) /\ Clean(CollapseFree(l))
  BY <1>2, VolCollapsed
<1> QED
  BY <1>3 DEF Returned

(* Two extents that touch, and share no sector, are one.                   *)
LEMMA MeetIs ==
  ASSUME NEW e \in Piece, NEW rp \in Piece, rp.start <= End(e), e.start <= End(rp),
         SectorsOf(e) \cap SectorsOf(rp) = {}
  PROVE  /\ Joined(e, rp) \in Piece /\ Joined(e, rp).n = rp.n + e.n
         /\ SectorsOf(Joined(e, rp)) = SectorsOf(e) \cup SectorsOf(rp)
         /\ Joined(e, rp).start \in {e.start, rp.start}
         /\ End(Joined(e, rp)) \in {End(e), End(rp)}
<1> DEFINE es == e.start
           ee == End(e)
           rs == rp.start
           re == End(rp)
           join == Joined(e, rp)
           J(a, b) == [start |-> a, n |-> b - a]
<1>1. Is(e) /\ e.n > 0 /\ Is(rp) /\ rp.n > 0
  BY PieceNumbers
<1>2. /\ es \in Nat \ {0} /\ ee \in Nat /\ es < ee /\ ee <= MaxLba /\ e.n = ee - es
      /\ rs \in Nat \ {0} /\ re \in Nat /\ rs < re /\ re <= MaxLba /\ rp.n = re - rs
      /\ rs <= ee /\ es <= re
  BY <1>1 DEF Is
<1>3. /\ \A s : s \in SectorsOf(e) <=> s \in Nat /\ es <= s /\ s < ee
      /\ \A s : s \in SectorsOf(rp) <=> s \in Nat /\ rs <= s /\ s < re
  BY <1>1 DEF Is
<1>4. join = [start |-> Min({es, rs}), n |-> Max({ee, re}) - Min({es, rs})]
  BY DEF Joined
<1> HIDE DEF es, ee, rs, re, join
<1>5. re = es \/ ee = rs
  <2>1. es \in SectorsOf(e) /\ rs \in SectorsOf(rp)
    BY <1>2, <1>3
  <2>2. es \notin SectorsOf(rp) /\ rs \notin SectorsOf(e)
    BY <2>1
  <2>3. ~ (rs <= es /\ es < re)
    BY <1>2, <1>3, <2>2
  <2>4. ~ (es <= rs /\ rs < ee)
    BY <1>2, <1>3, <2>2
  <2> QED
    BY <1>2, <2>3, <2>4
<1>0. es \in Int /\ rs \in Int /\ ee \in Int /\ re \in Int
  BY <1>2
<1>a. Min({es, rs}) = IF es <= rs THEN es ELSE rs
  BY <1>0, OfTwo
<1>b. Max({ee, re}) = IF ee >= re THEN ee ELSE re
  BY <1>0, OfTwo
<1>6. CASE re = es
  <2>1. Min({es, rs}) = rs /\ Max({ee, re}) = ee
    BY <1>a, <1>b, <1>2, <1>6
  <2>2. join = [start |-> rs, n |-> ee - rs]
    BY <1>4, <2>1
  <2>3. ee - rs \in Nat \ {0} /\ rs + (ee - rs) = ee
    BY <1>2, <1>6
  <2>4. join \in Piece /\ join.start = rs /\ End(join) = ee /\ join.n = ee - rs
    BY <1>2, <2>2, <2>3, PieceMade DEF End
  <2>5. Is(join)
    BY <2>4, PieceNumbers
  <2>6. \A s : s \in SectorsOf(join) <=> s \in Nat /\ rs <= s /\ s < ee
    BY <2>4, <2>5 DEF Is
  <2>7. SectorsOf(join) = SectorsOf(e) \cup SectorsOf(rp)
    <3>1. \A s \in Nat : (rs <= s /\ s < ee) <=> (es <= s /\ s < ee) \/ (rs <= s /\ s < re)
      BY <1>2, <1>6
    <3> QED
      BY <1>3, <2>6, <3>1
  <2>8. join.n = rp.n + e.n
    BY <1>2, <1>6, <2>4
  <2> QED
    BY <2>4, <2>7, <2>8 DEF join, es, ee, rs, re
<1>7. CASE ee = rs
  <2>1. Min({es, rs}) = es /\ Max({ee, re}) = re
    BY <1>a, <1>b, <1>2, <1>7
  <2>2. join = [start |-> es, n |-> re - es]
    BY <1>4, <2>1
  <2>3. re - es \in Nat \ {0} /\ es + (re - es) = re
    BY <1>2, <1>7
  <2>4. join \in Piece /\ join.start = es /\ End(join) = re /\ join.n = re - es
    BY <1>2, <2>2, <2>3, PieceMade DEF End
  <2>5. Is(join)
    BY <2>4, PieceNumbers
  <2>6. \A s : s \in SectorsOf(join) <=> s \in Nat /\ es <= s /\ s < re
    BY <2>4, <2>5 DEF Is
  <2>7. SectorsOf(join) = SectorsOf(e) \cup SectorsOf(rp)
    <3>1. \A s \in Nat : (es <= s /\ s < re) <=> (es <= s /\ s < ee) \/ (rs <= s /\ s < re)
      BY <1>2, <1>7
    <3> QED
      BY <1>3, <2>6, <3>1
  <2>8. join.n = rp.n + e.n
    BY <1>2, <1>7, <2>4
  <2> QED
    BY <2>4, <2>7, <2>8 DEF join, es, ee, rs, re
<1> QED
  BY <1>5, <1>6, <1>7

(* The extent touches or meets the first entry that ends at or after it.   *)
LEMMA JoinedIs ==
  ASSUME NEW v, VolOK(v), NEW rp \in Piece, Covered(v.free) \cap SectorsOf(rp) = {},
         NEW i \in DOMAIN v.free, rp.start <= End(v.free[i]), v.free[i].start <= End(rp),
         \A j \in DOMAIN v.free : rp.start <= End(v.free[j]) => i <= j,
         NEW clusters
  PROVE  Returned(v, rp, [v |-> [v EXCEPT
                                   !.free = CollapseFree([@ EXCEPT ![i] = Joined(v.free[i], rp)]),
                                   !.total = @ + Joined(v.free[i], rp).n - v.free[i].n],
                          torn |-> FALSE])
<1> DEFINE l == v.free
           e == l[i]
           join == Joined(e, rp)
           new == [l EXCEPT ![i] = join]
           c == v.total + join.n - e.n
           b == [v |-> [v EXCEPT !.free = CollapseFree([@ EXCEPT ![i] = join]),
                                 !.total = @ + join.n - e.n],
                 torn |-> FALSE]
<1>0. /\ l \in Seq(Entry) /\ v.elems \in Nat \ {0} /\ v.total \in Nat /\ Strict(l) /\ Weak(l)
      /\ Len(l) <= v.elems /\ v = [free |-> l, elems |-> v.elems, total |-> v.total]
      /\ Is(e) /\ i \in Nat /\ i \in DOMAIN l
  BY VolIs, EntriesOf
<1>1. Is(rp) /\ rp.n > 0 /\ rp \in Entry
  BY PieceNumbers DEF Entry
<1>2. e.n > 0 /\ e \in Piece /\ e.start > 0
  <2>1. End(e) > 0
    BY <1>0, <1>1 DEF Is
  <2>2. e.n # 0
    BY <1>0, <2>1, EntryIs DEF Is, Null, End
  <2> QED
    BY <1>0, <2>2 DEF Is
<1>3. SectorsOf(e) \cap SectorsOf(rp) = {}
  BY <1>0, CoveredIn
<1>4. /\ join \in Piece /\ join.n = rp.n + e.n
      /\ SectorsOf(join) = SectorsOf(e) \cup SectorsOf(rp)
      /\ join.start \in {e.start, rp.start} /\ End(join) \in {End(e), End(rp)}
  BY <1>2, <1>3, MeetIs
<1> HIDE DEF join
<1>5. Is(join) /\ join.n > 0 /\ join \in Entry
  BY <1>4, PieceNumbers DEF Entry
(* Another entry is before both or after both.                             *)
<1>6. ASSUME NEW j \in DOMAIN l, j # i, l[j].n > 0
      PROVE  /\ Is(l[j]) /\ j \in Nat
             /\ j < i => End(l[j]) <= join.start
             /\ i < j => End(join) <= l[j].start
  <2>1. Is(l[j]) /\ j \in Nat
    BY <1>0, EntriesOf
  <2>0. End(l[j]) \in Nat /\ rp.start \in Nat /\ i \in Nat /\ j \in Nat
    BY <1>0, <1>1, <2>1 DEF Is
  <2>2. j < i => End(l[j]) < rp.start
    <3>1. rp.start <= End(l[j]) => i <= j
      OBVIOUS
    <3> QED
      BY <2>0, <3>1
  <2>3. j < i => End(l[j]) < e.start
    BY <1>0, <1>2, <1>6 DEF Strict
  <2>4. i < j => End(e) < l[j].start
    BY <1>0, <1>2, <1>6 DEF Strict
  <2>5. ASSUME i < j PROVE End(rp) <= l[j].start
    <3>1. l[j].start \notin SectorsOf(rp)
      <4>1. l[j].start \in SectorsOf(l[j])
        BY <1>6, <2>1 DEF Is
      <4> QED
        BY <4>1, CoveredIn
    <3>2. rp.start <= l[j].start
      <4>1. rp.start <= End(e) /\ End(e) < l[j].start
        BY <2>4, <2>5
      <4> QED
        BY <1>0, <1>1, <2>1, <4>1 DEF Is
    <3> QED
      BY <1>1, <2>1, <3>1, <3>2 DEF Is
  <2>6. End(l[j]) \in Nat /\ l[j].start \in Nat /\ e.start \in Nat /\ rp.start \in Nat
        /\ End(e) \in Nat /\ End(rp) \in Nat
    BY <1>0, <1>1, <2>1 DEF Is
  <2> HIDE DEF e, l
  <2> QED
    BY <1>4, <2>1, <2>2, <2>3, <2>4, <2>5, <2>6
<1> HIDE DEF l, e
<1>10. /\ new \in Seq(Entry) /\ Len(new) = Len(l) /\ DOMAIN new = DOMAIN l
       /\ new[i] = join /\ \A j \in DOMAIN l : j # i => new[j] = l[j]
  BY <1>0, <1>5
<1> HIDE DEF new
<1>11. Weak(new)
  <2> SUFFICES ASSUME NEW j \in DOMAIN l, NEW k \in DOMAIN l, j < k, new[j].n > 0, new[k].n > 0
               PROVE  End(new[j]) <= new[k].start
    BY <1>10 DEF Weak
  <2>1. CASE j # i /\ k # i
    BY <1>0, <1>10, <2>1 DEF Weak
  <2>2. CASE j = i
    BY <1>0, <1>4, <1>6, <1>10, <2>2
  <2>3. CASE k = i
    BY <1>0, <1>4, <1>6, <1>10, <2>3
  <2> QED
    BY <2>1, <2>2, <2>3
<1>12. Covered(new) = Covered(l) \cup SectorsOf(rp)
  <2>1. ASSUME NEW s, s \in Covered(new) PROVE s \in Covered(l) \/ s \in SectorsOf(rp)
    <3>1. PICK j \in DOMAIN l : s \in SectorsOf(new[j])
      BY <1>10, <2>1, CoveredIn
    <3>2. CASE j = i
      <4>1. s \in SectorsOf(l[i]) \/ s \in SectorsOf(rp)
        BY <1>4, <1>10, <3>1, <3>2 DEF e
      <4> QED
        BY <1>0, <4>1, CoveredIn
    <3>3. CASE j # i
      BY <1>10, <3>1, <3>3, CoveredIn
    <3> QED
      BY <3>2, <3>3
  <2>2. ASSUME NEW s, s \in Covered(l) PROVE s \in Covered(new)
    <3>1. PICK j \in DOMAIN l : s \in SectorsOf(l[j])
      BY <2>2, CoveredIn
    <3>2. s \in SectorsOf(new[j])
      BY <1>4, <1>10, <3>1 DEF e
    <3> QED
      BY <1>10, <3>2, CoveredIn
  <2>3. ASSUME NEW s, s \in SectorsOf(rp) PROVE s \in Covered(new)
    <3>1. s \in SectorsOf(new[i])
      BY <1>4, <1>10, <2>3
    <3> QED
      BY <1>0, <1>10, <3>1, CoveredIn
  <2> QED
    BY <2>1, <2>2, <2>3
<1>13. c = v.total + rp.n
  BY <1>0, <1>1, <1>4 DEF Is, c
<1>14. b = [v |-> [free |-> CollapseFree(new), elems |-> v.elems, total |-> c], torn |-> FALSE]
  <2>1. [v EXCEPT !.free = CollapseFree(new), !.total = c]
          = [free |-> CollapseFree(new), elems |-> v.elems, total |-> c]
    BY <1>0, VolSet
  <2>2. b.v = [v EXCEPT !.free = CollapseFree(new), !.total = c] /\ b.torn = FALSE
    BY DEF new, l, e
  <2> QED
    BY <2>1, <2>2
<1> HIDE DEF b, c
<1>15. Returned(v, rp, b)
  BY <1>0, <1>10, <1>11, <1>12, <1>13, <1>14, ReturnedList DEF l
<1> QED
  BY <1>15 DEF b, join, e, l

(* The extent rp goes before entry i, and touches nothing.                 *)
Before(l, rp, i) ==
  /\ i \in 1..(Len(l) + 1)
  /\ \A j \in DOMAIN l : l[j].n > 0 =>
       IF j < i THEN End(l[j]) < rp.start ELSE End(rp) < l[j].start

(* In the place of an entry without sectors.                               *)
LEMMA Replaced ==
  ASSUME NEW l \in Seq(Entry), Strict(l), NEW rp \in Piece, NEW i, Before(l, rp, i),
         NEW k \in DOMAIN l, k < i, \A j \in DOMAIN l : k <= j /\ j < i => l[j].n = 0
  PROVE  LET m == [l EXCEPT ![k] = rp]
         IN  /\ m \in Seq(Entry) /\ Len(m) = Len(l) /\ Weak(m)
             /\ Covered(m) = Covered(l) \cup SectorsOf(rp)
<1> DEFINE m == [l EXCEPT ![k] = rp]
<1>0. rp \in Entry /\ Is(rp) /\ rp.n > 0 /\ i \in Nat /\ k \in Nat /\ Len(l) \in Nat
  BY PieceNumbers DEF Entry, Before
<1>1. /\ m \in Seq(Entry) /\ Len(m) = Len(l) /\ DOMAIN m = DOMAIN l
      /\ m[k] = rp /\ \A j \in DOMAIN l : j # k => m[j] = l[j]
  BY <1>0
<1> HIDE DEF m
<1>2. ASSUME NEW j \in DOMAIN l PROVE Is(l[j]) /\ j \in Nat
  BY EntriesOf
<1>3. l[k].n = 0 /\ Is(l[k])
  BY <1>0, <1>2
<1>4. Weak(m)
  <2> SUFFICES ASSUME NEW a \in DOMAIN l, NEW b \in DOMAIN l, a < b, m[a].n > 0, m[b].n > 0
               PROVE  End(m[a]) <= m[b].start
    BY <1>1 DEF Weak
  <2>0. a \in Nat /\ b \in Nat /\ Is(l[a]) /\ Is(l[b])
    BY <1>2
  <2>1. CASE a # k /\ b # k
    <3>1. End(l[a]) < l[b].start
      BY <1>1, <2>1 DEF Strict
    <3> QED
      BY <1>1, <2>0, <2>1, <3>1 DEF Is
  <2>2. CASE a = k
    <3>1. m[a] = rp /\ m[b] = l[b] /\ ~ (b < i)
      BY <1>0, <1>1, <2>0, <2>2
    <3>2. End(rp) < l[b].start
      BY <3>1 DEF Before
    <3> QED
      BY <1>0, <2>0, <3>1, <3>2 DEF Is
  <2>3. CASE b = k
    <3>1. m[b] = rp /\ m[a] = l[a] /\ a < i
      BY <1>0, <1>1, <2>0, <2>3
    <3>2. End(l[a]) < rp.start
      BY <3>1 DEF Before
    <3> QED
      BY SMTT(60), <1>0, <2>0, <3>1, <3>2 DEF Is
  <2> QED
    BY <2>1, <2>2, <2>3
<1>5. Covered(m) = Covered(l) \cup SectorsOf(rp)
  <2>1. ASSUME NEW s, s \in Covered(m) PROVE s \in Covered(l) \/ s \in SectorsOf(rp)
    <3>1. PICK j \in DOMAIN l : s \in SectorsOf(m[j])
      BY <1>1, <2>1, CoveredIn
    <3> QED
      BY <1>1, <3>1, CoveredIn
  <2>2. ASSUME NEW s, s \in Covered(l) PROVE s \in Covered(m)
    <3>1. PICK j \in DOMAIN l : s \in SectorsOf(l[j])
      BY <2>2, CoveredIn
    <3>2. SectorsOf(l[k]) = {}
      BY <1>3, SectorsIn DEF Is
    <3> QED
      BY <1>1, <3>1, <3>2, CoveredIn
  <2>3. ASSUME NEW s, s \in SectorsOf(rp) PROVE s \in Covered(m)
    BY <1>1, <2>3, CoveredIn
  <2> QED
    BY <2>1, <2>2, <2>3
<1> QED
  BY <1>1, <1>4, <1>5 DEF m

(* As an entry of its own.                                                 *)
LEMMA Inserted ==
  ASSUME NEW l \in Seq(Entry), Strict(l), NEW rp \in Piece, NEW i, Before(l, rp, i)
  PROVE  LET m == InsertAt(l, i, rp)
         IN  /\ m \in Seq(Entry) /\ Len(m) = Len(l) + 1 /\ Weak(m)
             /\ Covered(m) = Covered(l) \cup SectorsOf(rp)
<1> DEFINE m == InsertAt(l, i, rp)
           c == <<rp>>
<1>0. /\ rp \in Entry /\ Is(rp) /\ rp.n > 0 /\ Len(l) \in Nat
      /\ i \in Nat /\ 1 <= i /\ i <= Len(l) + 1
  BY PieceNumbers DEF Entry, Before
<1>1. c \in Seq(Entry) /\ Len(c) = 1 /\ c[1] = rp
  BY <1>0
<1>2. m = SubSeq(l, 1, i - 1) \o c \o SubSeq(l, i, Len(l))
  BY DEF InsertAt
<1> HIDE DEF m, c
<1>3. Splices(Entry, l, c, i, i, m)
  <2>1. i \in 1..(Len(l) + 1) /\ i \in i..(Len(l) + 1)
    BY <1>0
  <2> QED
    BY <1>1, <1>2, <2>1, Spliced, Zenon
<1>4. /\ m \in Seq(Entry) /\ Len(m) = Len(l) + 1 /\ m[i] = rp
      /\ \A j \in 1..(i - 1) : m[j] = l[j]
      /\ \A j \in i..Len(l) : m[j + 1] = l[j]
  <2>1. 1 \in 1..Len(c) /\ i - 1 + 1 = i /\ Len(l) + Len(c) - (i - i) = Len(l) + 1
    BY <1>0, <1>1
  <2>2. m[i - 1 + 1] = c[1]
    BY <1>3, <2>1 DEF Splices
  <2>3. \A j \in i..Len(l) : j + Len(c) - (i - i) = j + 1
    BY <1>0, <1>1
  <2>4. \A j \in i..Len(l) : m[j + Len(c) - (i - i)] = l[j]
    BY <1>3 DEF Splices
  <2> QED
    BY <1>1, <1>3, <2>1, <2>2, <2>3, <2>4 DEF Splices
<1>5. DOMAIN m = 1..(Len(l) + 1) /\ i \in DOMAIN m
  BY <1>0, <1>4
<1> DEFINE at(j) == IF j < i THEN j ELSE j - 1
<1>6. ASSUME NEW j \in DOMAIN m, j # i
      PROVE  j \in Nat /\ at(j) \in DOMAIN l /\ m[j] = l[at(j)] /\ Is(l[at(j)])
             /\ (at(j) < i <=> j < i)
  <2>1. j \in Nat /\ 1 <= j /\ j <= Len(l) + 1
    BY <1>0, <1>5
  <2>2. CASE j < i
    <3>1. j \in 1..(i - 1) /\ j \in DOMAIN l /\ at(j) = j
      BY <1>0, <2>1, <2>2
    <3> QED
      BY <1>4, <2>1, <2>2, <3>1, EntriesOf
  <2>3. CASE ~ (j < i)
    <3>1. j - 1 \in i..Len(l) /\ j - 1 \in DOMAIN l /\ at(j) = j - 1 /\ (j - 1) + 1 = j
          /\ ~ (j - 1 < i)
      BY <1>0, <1>6, <2>1, <2>3
    <3>2. m[(j - 1) + 1] = l[j - 1]
      BY <1>4, <3>1
    <3> QED
      BY <2>1, <2>3, <3>1, <3>2, EntriesOf
  <2> QED
    BY <2>2, <2>3
<1>7. Weak(m)
  <2> SUFFICES ASSUME NEW a \in DOMAIN m, NEW b \in DOMAIN m, a < b, m[a].n > 0, m[b].n > 0
               PROVE  End(m[a]) <= m[b].start
    BY DEF Weak
  <2>1. CASE a # i /\ b # i
    <3>1. a \in Nat /\ b \in Nat /\ at(a) \in DOMAIN l /\ at(b) \in DOMAIN l
          /\ m[a] = l[at(a)] /\ m[b] = l[at(b)] /\ Is(m[a]) /\ Is(m[b])
      BY <1>6, <2>1
    <3>2. at(a) < at(b)
      BY <1>0, <2>1, <3>1
    <3> HIDE DEF at
    <3>3. End(m[a]) < m[b].start
      BY <3>1, <3>2 DEF Strict
    <3> QED
      BY <3>1, <3>3 DEF Is
  <2>2. CASE a = i
    <3>1. b \in Nat /\ at(b) \in DOMAIN l /\ m[b] = l[at(b)] /\ ~ (at(b) < i) /\ m[a] = rp
          /\ Is(m[b])
      BY <1>0, <1>4, <1>6, <2>2
    <3> HIDE DEF at
    <3>2. End(rp) < m[b].start
      BY <3>1 DEF Before
    <3> QED
      BY <1>0, <3>1, <3>2 DEF Is
  <2>3. CASE b = i
    <3>1. a \in Nat /\ at(a) \in DOMAIN l /\ m[a] = l[at(a)] /\ at(a) < i /\ m[b] = rp
          /\ Is(m[a])
      BY <1>0, <1>4, <1>6, <2>3
    <3> HIDE DEF at
    <3>2. End(m[a]) < rp.start
      BY <3>1 DEF Before
    <3> QED
      BY <1>0, <3>1, <3>2 DEF Is
  <2> QED
    BY <2>1, <2>2, <2>3
<1>8. Covered(m) = Covered(l) \cup SectorsOf(rp)
  <2>1. ASSUME NEW s, s \in Covered(m) PROVE s \in Covered(l) \/ s \in SectorsOf(rp)
    <3>1. PICK j \in DOMAIN m : s \in SectorsOf(m[j])
      BY <2>1, CoveredIn
    <3>2. CASE j = i
      BY <1>4, <3>1, <3>2
    <3>3. CASE j # i
      <4>1. at(j) \in DOMAIN l /\ m[j] = l[at(j)]
        BY <1>6, <3>3
      <4> HIDE DEF at
      <4> QED
        BY <3>1, <4>1, CoveredIn
    <3> QED
      BY <3>2, <3>3
  <2>2. ASSUME NEW s, s \in Covered(l) PROVE s \in Covered(m)
    <3>1. PICK j \in DOMAIN l : s \in SectorsOf(l[j])
      BY <2>2, CoveredIn
    <3>2. j \in 1..Len(l) /\ j \in Nat
      BY EntriesOf
    <3>3. CASE j < i
      <4>1. j \in DOMAIN m /\ m[j] = l[j]
        BY <1>0, <1>4, <1>5, <3>2, <3>3
      <4> QED
        BY <3>1, <4>1, CoveredIn
    <3>4. CASE ~ (j < i)
      <4>1. j + 1 \in DOMAIN m /\ m[j + 1] = l[j]
        BY <1>0, <1>4, <1>5, <3>2, <3>4
      <4> QED
        BY <3>1, <4>1, CoveredIn
    <3> QED
      BY <3>3, <3>4
  <2>3. SectorsOf(rp) \subseteq Covered(m)
    BY <1>4, <1>5, CoveredIn
  <2> QED
    BY <2>1, <2>2, <2>3
<1> QED
  BY <1>4, <1>7, <1>8 DEF m

(* back_to_free, where nothing touches the extent.                         *)
LEMMA InsertIs ==
  ASSUME NEW v, VolOK(v), NEW rp \in Piece, Covered(v.free) \cap SectorsOf(rp) = {},
         NEW i, Before(v.free, rp, i), NEW clusters
  PROVE  Returned(v, rp, Insert(v, rp, i, clusters))
<1> DEFINE l == v.free
           used == {j \in 1..(i - 1) : l[j].n > 0}
           slot == IF used = {} THEN 1 ELSE Max(used) + 1
           room == MkRoom(v.elems, Len(l) + 1, clusters)
           c == v.total + rp.n
           b == Insert(v, rp, i, clusters)
<1>0. /\ l \in Seq(Entry) /\ v.elems \in Nat \ {0} /\ v.total \in Nat /\ Strict(l)
      /\ Len(l) <= v.elems /\ v = [free |-> l, elems |-> v.elems, total |-> v.total]
      /\ Len(l) \in Nat /\ i \in Nat /\ 1 <= i /\ i <= Len(l) + 1
  BY VolIs DEF Before
<1>1. b = IF slot < i
          THEN [v |-> [v EXCEPT !.free = CollapseFree([@ EXCEPT ![slot] = rp]), !.total = c],
                torn |-> FALSE]
          ELSE [v |-> [free |-> CollapseFree(InsertAt(l, i, rp)), elems |-> room.elems,
                       total |-> c],
                torn |-> room.nested]
  BY DEF Insert
<1>2. room.elems \in Nat \ {0} /\ Len(l) + 1 <= room.elems /\ room.nested \in BOOLEAN
  <2>1. CASE Len(l) + 1 < v.elems
    <3>1. room = [elems |-> v.elems, nested |-> FALSE]
      BY <2>1 DEF MkRoom
    <3> HIDE DEF room
    <3>2. room.elems = v.elems
      BY <3>1
    <3>3. room.nested = FALSE
      BY <3>1
    <3>4. room.nested \in BOOLEAN
      BY <3>3, Zenon
    <3>5. room.elems \in Nat \ {0} /\ Len(l) + 1 <= room.elems
      BY <1>0, <2>1, <3>2
    <3> QED
      BY <3>4, <3>5
  <2>2. CASE ~ (Len(l) + 1 < v.elems)
    <3> DEFINE nested == CeilDiv(v.elems + Chunk, Chunk) > clusters
    <3>1. room = [elems |-> v.elems + Chunk, nested |-> nested]
      BY <2>2 DEF MkRoom
    <3>2. nested \in BOOLEAN
      OBVIOUS
    <3> HIDE DEF nested
    <3>3. v.elems + Chunk \in Nat \ {0} /\ Len(l) + 1 <= v.elems + Chunk
      BY <1>0, ChunkAssumption
    <3> QED
      BY <3>1, <3>2, <3>3
  <2> QED
    BY <2>1, <2>2
<1>3. slot \in Nat /\ 1 <= slot /\ (slot < i => \A j \in DOMAIN l : slot <= j /\ j < i => l[j].n = 0)
  <2>1. CASE used = {}
    <3>1. ASSUME NEW j \in DOMAIN l, j < i PROVE l[j].n = 0
      <4>1. j \in 1..(i - 1) /\ l[j].n \in Nat
        BY <1>0, <3>1, EntriesOf DEF Is
      <4> QED
        BY <2>1, <4>1
    <3> QED
      BY <2>1, <3>1
  <2>2. CASE used # {}
    <3>1. used \in SUBSET (1..(i - 1)) /\ i - 1 \in Nat
      BY <1>0
    <3>2. Max(used) \in used /\ \A y \in used : y <= Max(used)
      BY <2>2, <3>1, MaxOf
    <3> DEFINE top == Max(used)
    <3>3. top \in Nat /\ slot = top + 1 /\ \A y \in used : y <= top
      BY <2>2, <3>1, <3>2
    <3> HIDE DEF top
    <3>4. ASSUME NEW j \in DOMAIN l, slot <= j, j < i PROVE l[j].n = 0
      <4>1. j \in 1..(i - 1) /\ l[j].n \in Nat /\ j \in Nat
        BY <1>0, <3>4, EntriesOf DEF Is
      <4>2. j \notin used
        BY <3>3, <3>4, <4>1
      <4> QED
        BY <4>1, <4>2
    <3> QED
      BY <3>3, <3>4
  <2> QED
    BY <2>1, <2>2
<1> HIDE DEF used, slot, room, b, l
<1>4. CASE slot < i
  <2> DEFINE m == [l EXCEPT ![slot] = rp]
  <2>1. slot \in DOMAIN l
    BY <1>0, <1>3, <1>4
  <2>2. m \in Seq(Entry) /\ Len(m) = Len(l) /\ Weak(m) /\ Covered(m) = Covered(l) \cup SectorsOf(rp)
    BY <1>0, <1>3, <1>4, <2>1, Replaced DEF l
  <2>3. b.v = [v EXCEPT !.free = CollapseFree(m), !.total = c] /\ b.torn = FALSE
        /\ b = [v |-> b.v, torn |-> b.torn]
    BY <1>1, <1>4 DEF l
  <2> HIDE DEF m, c
  <2>4. [v EXCEPT !.free = CollapseFree(m), !.total = c]
          = [free |-> CollapseFree(m), elems |-> v.elems, total |-> c]
    BY <1>0, VolSet DEF l
  <2>5. b = [v |-> [free |-> CollapseFree(m), elems |-> v.elems, total |-> c], torn |-> FALSE]
    BY <2>3, <2>4
  <2>6. Len(m) <= v.elems
    BY <1>0, <2>2
  <2>7. Returned(v, rp, b)
    BY <1>0, <2>2, <2>5, <2>6, ReturnedList DEF c, l
  <2> QED
    BY <2>7 DEF b
<1>5. CASE ~ (slot < i)
  <2> DEFINE m == InsertAt(l, i, rp)
  <2>1. m \in Seq(Entry) /\ Len(m) = Len(l) + 1 /\ Weak(m)
        /\ Covered(m) = Covered(l) \cup SectorsOf(rp)
    BY <1>0, Inserted DEF l
  <2>2. b = [v |-> [free |-> CollapseFree(m), elems |-> room.elems, total |-> c],
             torn |-> room.nested]
    BY <1>1, <1>5
  <2> HIDE DEF m
  <2>3. Len(m) <= room.elems
    BY <1>2, <2>1
  <2>4. Returned(v, rp, b)
    BY <1>0, <1>2, <2>1, <2>2, <2>3, ReturnedList DEF l
  <2> QED
    BY <2>4 DEF b
<1> QED
  BY <1>4, <1>5

(* back_to_free puts an extent nobody has back on the list, once.          *)
LEMMA BackToFreeIs ==
  ASSUME NEW v, VolOK(v), NEW rp \in Piece, Covered(v.free) \cap SectorsOf(rp) = {}, NEW clusters
  PROVE  Returned(v, rp, BackToFree(v, rp, clusters))
<1> DEFINE l == v.free
           near == {i \in DOMAIN l : rp.start <= End(l[i])}
           i == IF near = {} THEN Len(l) + 1 ELSE Min(near)
           join == Joined(l[i], rp)
           b == BackToFree(v, rp, clusters)
<1>0. /\ l \in Seq(Entry) /\ Strict(l) /\ Len(l) \in Nat /\ Is(rp) /\ rp.n > 0
      /\ \A j \in DOMAIN l : Is(l[j]) /\ j \in Nat
  BY VolIs, PieceNumbers, EntriesOf
<1>1. b = IF near # {} /\ l[i].start <= End(rp)
          THEN [v |-> [v EXCEPT !.free = CollapseFree([@ EXCEPT ![i] = join]),
                                !.total = @ + join.n - l[i].n],
                torn |-> FALSE]
          ELSE Insert(v, rp, i, clusters)
  BY DEF BackToFree
<1>2. CASE near = {}
  <2>1. i = Len(l) + 1
    BY <1>2
  <2>2. ASSUME NEW j \in DOMAIN l PROVE j < i /\ End(l[j]) < rp.start
    <3>1. ~ (rp.start <= End(l[j]))
      BY <1>2
    <3>2. End(l[j]) \in Nat /\ rp.start \in Nat
      BY <1>0 DEF Is
    <3> QED
      BY <1>0, <2>1, <3>1, <3>2
  <2>3. i \in 1..(Len(l) + 1)
    BY <1>0, <2>1
  <2> HIDE DEF near, i, l
  <2>4. Before(l, rp, i)
    BY <2>2, <2>3 DEF Before
  <2>5. b = Insert(v, rp, i, clusters)
    BY <1>1, <1>2
  <2> QED
    BY <2>4, <2>5, InsertIs DEF l, b
<1>3. CASE near # {}
  <2>1. near \in SUBSET Nat
    BY <1>0
  <2>2. i \in near /\ \A y \in near : i <= y
    BY <1>3, <2>1, MinOf
  <2>3. /\ i \in DOMAIN l /\ rp.start <= End(l[i])
        /\ \A j \in DOMAIN l : rp.start <= End(l[j]) => i <= j
    BY <2>2
  <2> HIDE DEF near, i
  <2>4. CASE l[i].start <= End(rp)
    <3>1. Returned(v, rp, [v |-> [v EXCEPT !.free = CollapseFree([@ EXCEPT ![i] = join]),
                                           !.total = @ + join.n - l[i].n],
                           torn |-> FALSE])
      BY <2>3, <2>4, JoinedIs
    <3> QED
      BY <1>1, <1>3, <2>4, <3>1
  <2>5. CASE ~ (l[i].start <= End(rp))
    <3> HIDE DEF l
    <3>1. l[i].n > 0 /\ l[i].start \in Nat /\ End(rp) \in Nat /\ i \in 1..(Len(l) + 1) /\ i \in Nat
      <4>1. End(l[i]) > 0 /\ Is(l[i]) /\ l[i] \in Entry
        BY <1>0, <2>3 DEF Is
      <4>2. l[i].n # 0
        BY <4>1, EntryIs DEF Null, End
      <4> QED
        BY <1>0, <2>3, <4>1, <4>2 DEF Is
    <3>2. ASSUME NEW j \in DOMAIN l, l[j].n > 0, j < i PROVE End(l[j]) < rp.start
      <4>1. ~ (rp.start <= End(l[j]))
        BY <1>0, <2>3, <3>1, <3>2
      <4> QED
        BY <1>0, <4>1 DEF Is
    <3>3. ASSUME NEW j \in DOMAIN l, l[j].n > 0, ~ (j < i) PROVE End(rp) < l[j].start
      <4>1. CASE j = i
        BY <2>5, <3>1, <4>1
      <4>2. CASE i < j
        <5>1. End(l[i]) < l[j].start
          BY <1>0, <2>3, <3>1, <3>3, <4>2 DEF Strict
        <5>2. l[i].start <= End(l[i]) /\ End(l[i]) \in Nat /\ l[j].start \in Nat
          BY <1>0, <2>3, <3>1 DEF Is
        <5> QED
          BY <2>5, <3>1, <5>1, <5>2
      <4> QED
        BY <1>0, <3>1, <3>3, <4>1, <4>2
    <3>4. Before(l, rp, i)
      BY <3>1, <3>2, <3>3 DEF Before
    <3>5. b = Insert(v, rp, i, clusters)
      BY <1>1, <2>5
    <3> QED
      BY <3>4, <3>5, InsertIs DEF l, b
  <2> QED
    BY <2>4, <2>5
<1> QED
  BY <1>2, <1>3

-----------------------------------------------------------------------------
(* The volume after limbo has gone back on its list.                       *)
Flushed(v, l, r) ==
  /\ VolOK(r.v) /\ Covered(r.v.free) = Covered(v.free) \cup Covered(l) /\ r.torn \in BOOLEAN
  /\ l # <<>> => Clean(r.v.free)

(* The volumes, whether or not their lists are in order.                   *)
Vols == [free: Seq(Entry), elems: Nat \ {0}, total: Nat]

(* The state of the loop that puts limbo back.                             *)
Flushes(C) == [v: Vols, clusters: C, torn: BOOLEAN]

(* One extent of limbo goes back on the list.                              *)
LEMMA FlushStepIs ==
  ASSUME NEW C, NEW x \in Flushes(C), VolOK(x.v),
         NEW rp \in Piece, Covered(x.v.free) \cap SectorsOf(rp) = {}
  PROVE  LET y == FlushStep(x, rp)
         IN  /\ y \in Flushes(C) /\ VolOK(y.v)
             /\ Covered(y.v.free) = Covered(x.v.free) \cup SectorsOf(rp)
<1> DEFINE b == BackToFree(x.v, rp, x.clusters)
           y == FlushStep(x, rp)
<1>1. Returned(x.v, rp, b)
  BY BackToFreeIs
<1> HIDE DEF b
<1>2. y = [x EXCEPT !.v = b.v, !.torn = @ \/ b.torn]
  BY DEF FlushStep, b
<1>3. b.v \in Vols /\ b.torn \in BOOLEAN
  BY <1>1 DEF Returned, VolOK, Vols
<1>4. x.torn \in BOOLEAN
  BY DEF Flushes
<1>5. (x.torn \/ b.torn) \in BOOLEAN
  BY <1>3, <1>4
<1> HIDE DEF y
<1>6. y \in Flushes(C) /\ y.v = b.v
  BY <1>2, <1>3, <1>5 DEF Flushes
<1> QED
  BY <1>1, <1>6 DEF Returned, y

(* All of limbo goes back on the list, once.                               *)
LEMMA FlushIs ==
  ASSUME NEW v, VolOK(v), NEW l \in Seq(Piece), Scattered(l), l # <<>>,
         Covered(v.free) \cap Covered(l) = {}, NEW c
  PROVE  LET x == [v |-> v, clusters |-> c, torn |-> FALSE]
             f == FoldLeft(FlushStep, x, l)
         IN  Flushed(v, l, [f EXCEPT !.v.free = CollapseFree(@)])
<1> DEFINE n == Len(l)
           x == [v |-> v, clusters |-> c, torn |-> FALSE]
           f == FoldLeft(FlushStep, x, l)
           r == [f EXCEPT !.v.free = CollapseFree(@)]
           Upto(k) == UNION {SectorsOf(l[j]) : j \in 1..k}
           R == Flushes({c})
           Good(k, y) == VolOK(y.v) /\ Covered(y.v.free) = Covered(v.free) \cup Upto(k)
           T == [k \in 0..n |-> {y \in R : Good(k, y)}]
<1>0. n \in Nat /\ DOMAIN l = 1..n
  OBVIOUS
<1> HIDE DEF n
<1>1. x \in T[0]
  <2>1. v \in Vols
    BY DEF VolOK, Vols
  <2>2. x \in R /\ x.v = v
    BY <2>1 DEF Flushes
  <2>3. Upto(0) = {}
    OBVIOUS
  <2>4. Good(0, x)
    BY <2>2, <2>3
  <2>5. 0 \in 0..n
    BY <1>0
  <2> HIDE DEF R, Good, x
  <2> QED
    BY <2>2, <2>4, <2>5
<1>2. ASSUME NEW k \in 1..n, NEW y \in T[k - 1] PROVE FlushStep(y, l[k]) \in T[k]
  <2>0. k - 1 \in 0..n /\ k \in 0..n /\ k \in DOMAIN l /\ l[k] \in Piece /\ k \in Nat
    BY <1>0
  <2>1. y \in R /\ Good(k - 1, y)
    <3> HIDE DEF R, Good
    <3> QED
      BY <2>0
  <2>2. Upto(k) = Upto(k - 1) \cup SectorsOf(l[k])
    <3>1. 1..k = 1..(k - 1) \cup {k}
      OBVIOUS
    <3> QED
      BY <3>1
  <2>3. Upto(k - 1) \cap SectorsOf(l[k]) = {}
    <3> SUFFICES ASSUME NEW j \in 1..(k - 1) PROVE SectorsOf(l[j]) \cap SectorsOf(l[k]) = {}
      OBVIOUS
    <3>1. j \in DOMAIN l /\ j # k
      BY <1>0, <2>0
    <3> QED
      BY <2>0, <3>1 DEF Scattered
  <2>4. Covered(v.free) \cap SectorsOf(l[k]) = {}
    BY <2>0, CoveredIn
  <2> DEFINE z == FlushStep(y, l[k])
  <2>5. VolOK(y.v) /\ Covered(y.v.free) = Covered(v.free) \cup Upto(k - 1)
    BY <2>1
  <2> HIDE DEF Upto
  <2>6. Covered(y.v.free) \cap SectorsOf(l[k]) = {}
    BY <2>3, <2>4, <2>5
  <2>7. z \in R /\ VolOK(z.v) /\ Covered(z.v.free) = Covered(y.v.free) \cup SectorsOf(l[k])
    BY <2>0, <2>1, <2>5, <2>6, FlushStepIs
  <2> HIDE DEF z, R
  <2>8. Good(k, z)
    BY <2>2, <2>5, <2>7
  <2> HIDE DEF Good
  <2> QED
    BY <2>0, <2>7, <2>8 DEF z
<1>3. f \in T[n]
  <2>1. l \in Seq(Piece)
    OBVIOUS
  <2> HIDE DEF T, x
  <2> QED
    BY <1>1, <1>2, <2>1, FlushFold, Zenon DEF n
<1>4. f \in R /\ Good(n, f)
  <2>1. n \in 0..n
    BY <1>0
  <2> HIDE DEF R, Good, f
  <2> QED
    BY <1>3, <2>1
<1>5. Upto(n) = Covered(l)
  BY <1>0 DEF Covered
<1> HIDE DEF Upto, f
<1>6. /\ f.v.free \in Seq(Entry) /\ Weak(f.v.free) /\ f.v.elems \in Nat \ {0}
      /\ Len(f.v.free) <= f.v.elems /\ f.v.total = Cardinality(Covered(f.v.free))
      /\ f.v = [free |-> f.v.free, elems |-> f.v.elems, total |-> f.v.total]
      /\ f.torn \in BOOLEAN
  BY <1>4, VolIs DEF Flushes
<1> DEFINE d == CollapseFree(f.v.free)
<1>7. /\ VolOK([free |-> d, elems |-> f.v.elems, total |-> f.v.total])
      /\ Covered(d) = Covered(f.v.free) /\ Clean(d)
  BY <1>6, VolCollapsed
<1> HIDE DEF d
<1>8. r.v = [f.v EXCEPT !.free = d] /\ r.torn = f.torn
  BY <1>4 DEF d, Flushes
<1> HIDE DEF r
<1>9. r.v = [free |-> d, elems |-> f.v.elems, total |-> f.v.total]
  BY <1>6, <1>8
<1> QED
  BY <1>4, <1>5, <1>6, <1>7, <1>8, <1>9 DEF Flushed, r, f

-----------------------------------------------------------------------------
(* compute_total_free keeps the entries up to a gap, and a mount has room. *)
LEMMA ReadFreeIs ==
  ASSUME NEW l \in Seq(Entry), Strict(l)
  PROVE  LET r == ReadFree(l)
         IN  /\ r \in Seq(Entry) /\ Strict(r) /\ Len(r) <= Len(l)
             /\ Covered(r) \subseteq Covered(l)
             /\ Clean(l) => Covered(r) = Covered(l)
<1> DEFINE ends == {i \in DOMAIN l :
                      \/ l[i].start = 0
                      \/ i > 1 /\ l[i].start < End(l[i - 1])}
           r == ReadFree(l)
<1>0. Len(l) \in Nat /\ DOMAIN l = 1..Len(l)
  OBVIOUS
<1>1. r = IF ends = {} THEN l ELSE SubSeq(l, 1, Min(ends) - 1)
  BY DEF ReadFree
<1>2. CASE ends = {}
  BY <1>0, <1>1, <1>2
<1>3. CASE ends # {}
  <2> DEFINE m == Min(ends) - 1
  <2>1. Min(ends) \in ends
    <3>1. ends \in SUBSET Nat
      BY <1>0
    <3> HIDE DEF ends
    <3> QED
      BY <1>3, <3>1, MinOf
  <2>2. m \in Nat /\ m < Len(l) /\ m + 1 \in ends
    BY SMTT(60), <1>0, <2>1
  <2> HIDE DEF m
  <2>3. r = SubSeq(l, 1, m)
    BY <1>1, <1>3 DEF m
  <2> HIDE DEF r
  <2>4. r \in Seq(Entry) /\ Len(r) = m /\ DOMAIN r = 1..m /\ \A k \in 1..m : r[k] = l[k]
    <3>1. \A k \in 1..m : l[k] \in Entry
      BY <1>0, <2>2
    <3>2. /\ SubSeq(l, 1, m) \in Seq(Entry)
          /\ Len(SubSeq(l, 1, m)) = IF 1 <= m THEN m - 1 + 1 ELSE 0
          /\ \A k \in 1..(m - 1 + 1) : SubSeq(l, 1, m)[k] = l[1 + k - 1]
      BY <2>2, <3>1, SubSeqProperties
    <3> QED
      BY <2>2, <2>3, <3>2
  <2>5. \A k \in DOMAIN r : k \in DOMAIN l /\ r[k] = l[k]
    BY <1>0, <2>2, <2>4
  <2>6. Strict(r)
    BY <2>5 DEF Strict
  <2>7. Covered(r) \subseteq Covered(l)
    BY <2>5, CoveredIn
  <2>8. ASSUME Clean(l) PROVE Covered(l) = {}
    <3>1. m + 1 \in DOMAIN l /\ Is(l[m + 1])
      BY <2>2, EntriesOf
    <3>2. CASE l = <<Null>>
      <4>1. SectorsOf(Null) = {} /\ DOMAIN l = {1} /\ l[1] = Null
        BY <3>2, SectorsIn DEF Entry, Null
      <4> QED
        BY <4>1 DEF Covered
    <3>3. CASE \A j \in DOMAIN l : l[j].n > 0
      <4>1. l[m + 1].n > 0 /\ l[m + 1].start > 0
        BY <3>1, <3>3 DEF Is
      <4>2. m + 1 > 1 /\ l[m + 1].start < End(l[(m + 1) - 1])
        BY <2>2, <4>1
      <4>3. m \in DOMAIN l /\ (m + 1) - 1 = m /\ m < m + 1
        BY <1>0, <2>2, <4>2
      <4>4. End(l[m]) < l[m + 1].start
        BY <3>1, <3>3, <4>3 DEF Strict
      <4>5. End(l[m]) \in Nat /\ l[m + 1].start \in Nat
        BY <3>1, <4>3, EntriesOf DEF Is
      <4> QED
        BY <4>2, <4>3, <4>4, <4>5
    <3> QED
      BY <2>8, <3>2, <3>3 DEF Clean
  <2>9. Len(r) <= Len(l)
    BY <1>0, <2>2, <2>4
  <2>10. Clean(l) => Covered(r) = Covered(l)
    BY <2>7, <2>8
  <2> QED
    BY <2>4, <2>6, <2>7, <2>9, <2>10 DEF r
<1> QED
  BY <1>2, <1>3

(* A mount has the list it read, in order, counted and with room; all of   *)
(* it if it was collapsed.                                                 *)
LEMMA MountedIs ==
  ASSUME NEW l \in Seq(Entry), Strict(l)
  PROVE  /\ VolOK(Mounted(l)) /\ Covered(Mounted(l).free) \subseteq Covered(l)
         /\ Clean(l) => Covered(Mounted(l).free) = Covered(l)
<1> DEFINE r == ReadFree(l)
           q == CeilDiv(Len(l), Chunk)
           m == Chunk * (q + 1)
<1>1. /\ r \in Seq(Entry) /\ Strict(r) /\ Len(r) <= Len(l) /\ Covered(r) \subseteq Covered(l)
      /\ Clean(l) => Covered(r) = Covered(l)
  BY ReadFreeIs
<1>2. Len(l) \in Nat /\ Len(r) \in Nat /\ Chunk \in Nat \ {0}
  BY <1>1, ChunkAssumption
<1>3. Mounted(l) = [free |-> r, elems |-> m, total |-> Amount(r)]
  BY DEF Mounted
<1> HIDE DEF r
<1>4. q = (Len(l) + Chunk - 1) \div Chunk /\ Len(l) + Chunk - 1 \in Nat
  BY <1>2 DEF CeilDiv
<1> HIDE DEF q
<1>5. q \in Nat /\ Len(l) + Chunk - 1 < Chunk * q + Chunk /\ Chunk * q \in Nat
  BY <1>2, <1>4
<1>6. m = Chunk * q + Chunk
  BY <1>2, <1>5
<1>7. m \in Nat \ {0} /\ Len(r) <= m
  BY <1>1, <1>2, <1>5, <1>6
<1>8. Amount(r) = Cardinality(Covered(r))
  BY <1>1, StrictWeak, AmountIs
<1> HIDE DEF m
<1>9. VolOK(Mounted(l))
  BY <1>1, <1>3, <1>7, <1>8, VolMade
<1>10. Mounted(l).free = r
  BY <1>3
<1> QED
  BY <1>1, <1>9, <1>10

-----------------------------------------------------------------------------
(* An extent added to a copy.                                              *)
LEMMA PieceSet ==
  ASSUME NEW e \in Piece, NEW m
  PROVE  [e EXCEPT !.n = m] = [start |-> e.start, n |-> m]
BY DEF Piece, Extent

(* The extents of a copy.                                                  *)
LEMMA PiecesOf ==
  ASSUME NEW l \in Seq(Piece)
  PROVE  /\ l \in Seq(Entry) /\ Len(l) \in Nat /\ DOMAIN l = 1..Len(l)
         /\ \A i \in DOMAIN l : l[i] \in Piece /\ Is(l[i]) /\ l[i].n > 0 /\ i \in Nat
<1>1. l \in Seq(Entry)
  <2>1. Piece \subseteq Entry
    BY DEF Entry
  <2> QED
    BY <2>1
<1> QED
  BY <1>1, EntriesOf, PieceNumbers

(* An extent that starts where the last one ends makes it longer.          *)
LEMMA JoinsIs ==
  ASSUME NEW rps \in Seq(Piece), Scattered(rps), NEW e \in Piece,
         Covered(rps) \cap SectorsOf(e) = {}
  PROVE  /\ Joins(rps, e) \in Seq(Piece) /\ Scattered(Joins(rps, e))
         /\ Covered(Joins(rps, e)) = Covered(rps) \cup SectorsOf(e)
         /\ Joins(rps, e) # <<>>
<1> DEFINE k == Len(rps)
           last == rps[k]
           m == Joins(rps, e)
<1>0. k \in Nat /\ DOMAIN rps = 1..k /\ Is(e) /\ e.n > 0
      /\ \A i \in DOMAIN rps : rps[i] \in Piece /\ Is(rps[i]) /\ rps[i].n > 0 /\ i \in Nat
  BY PiecesOf, PieceNumbers
<1>1. CASE rps # <<>> /\ e.start = HintAfter(rps)
  <2>1. k \in DOMAIN rps /\ last \in Piece /\ Is(last) /\ last.n > 0 /\ e.start = End(last)
    BY <1>0, <1>1 DEF HintAfter, Last
  <2> DEFINE new == [start |-> last.start, n |-> last.n + e.n]
  <2>2. m = [rps EXCEPT ![k] = new]
    <3>1. m = [rps EXCEPT ![k].n = @ + e.n]
      BY <1>1 DEF Joins
    <3>2. last = [start |-> last.start, n |-> last.n]
      BY <2>1, PieceIs
    <3>3. [last EXCEPT !.n = @ + e.n] = new
      BY <2>1, PieceSet, Zenon
    <3> QED
      BY <3>1, <3>3
  <2>3. new \in Piece /\ End(new) = End(e) /\ new.start = last.start
    <3>1. last.start \in Nat \ {0} /\ last.n + e.n \in Nat \ {0}
          /\ last.start + (last.n + e.n) <= MaxLba
          /\ last.start + (last.n + e.n) = End(e)
      <4>1. /\ last.start \in Nat /\ last.n \in Nat /\ End(last) = last.start + last.n
            /\ last.start > 0
        BY <2>1 DEF Is
      <4>2. /\ e.start \in Nat /\ e.n \in Nat /\ End(e) = e.start + e.n /\ End(e) <= MaxLba
        BY <1>0 DEF Is
      <4> QED
        BY <1>0, <2>1, <4>1, <4>2
    <3> QED
      BY <3>1, PieceMade DEF End
  <2> HIDE DEF new, m
  <2>4. Is(new)
    BY <2>3, PieceNumbers
  <2>5. /\ m \in Seq(Piece) /\ Len(m) = k /\ DOMAIN m = DOMAIN rps
        /\ m[k] = new /\ \A j \in DOMAIN rps : j # k => m[j] = rps[j]
    BY <2>1, <2>2, <2>3
  <2>6. SectorsOf(new) = SectorsOf(last) \cup SectorsOf(e)
    <3>1. ASSUME NEW s
          PROVE  /\ s \in SectorsOf(new) => s \in SectorsOf(last) \/ s \in SectorsOf(e)
                 /\ s \in SectorsOf(last) => s \in SectorsOf(new)
                 /\ s \in SectorsOf(e) => s \in SectorsOf(new)
      BY SMTT(60), <1>0, <2>1, <2>3, <2>4 DEF Is
    <3> QED
      BY <3>1
  <2>7. ASSUME NEW j \in DOMAIN rps, j # k PROVE SectorsOf(m[j]) \cap SectorsOf(m[k]) = {}
    <3>1. SectorsOf(rps[j]) \cap SectorsOf(last) = {}
      BY <2>1, <2>7 DEF Scattered
    <3>2. SectorsOf(rps[j]) \cap SectorsOf(e) = {}
      BY CoveredIn
    <3> QED
      BY <2>5, <2>6, <2>7, <3>1, <3>2
  <2>8. Scattered(m)
    <3> SUFFICES ASSUME NEW i \in DOMAIN rps, NEW j \in DOMAIN rps, i # j
                 PROVE  SectorsOf(m[i]) \cap SectorsOf(m[j]) = {}
      BY <2>5 DEF Scattered
    <3>1. CASE i # k /\ j # k
      BY <2>5, <3>1 DEF Scattered
    <3>2. CASE i = k
      BY <2>7, <3>2
    <3>3. CASE j = k
      BY <2>7, <3>3
    <3> QED
      BY <3>1, <3>2, <3>3
  <2>9. Covered(m) = Covered(rps) \cup SectorsOf(e)
    <3>1. ASSUME NEW s, s \in Covered(m) PROVE s \in Covered(rps) \cup SectorsOf(e)
      <4>1. PICK j \in DOMAIN rps : s \in SectorsOf(m[j])
        BY <2>5, <3>1, CoveredIn
      <4> QED
        BY <2>5, <2>6, <4>1, CoveredIn
    <3>2. ASSUME NEW s, s \in Covered(rps) PROVE s \in Covered(m)
      <4>1. PICK j \in DOMAIN rps : s \in SectorsOf(rps[j])
        BY <3>2, CoveredIn
      <4>2. s \in SectorsOf(m[j])
        BY <2>5, <2>6, <4>1
      <4> QED
        BY <2>5, <4>2, CoveredIn
    <3>3. ASSUME NEW s, s \in SectorsOf(e) PROVE s \in Covered(m)
      <4>1. s \in SectorsOf(m[k])
        BY <2>5, <2>6, <3>3
      <4> QED
        BY <2>1, <2>5, <4>1, CoveredIn
    <3> QED
      BY <3>1, <3>2, <3>3
  <2>10. m # <<>>
    BY <1>0, <2>1, <2>5
  <2> QED
    BY <2>5, <2>8, <2>9, <2>10 DEF m
<1>2. CASE ~ (rps # <<>> /\ e.start = HintAfter(rps))
  <2>1. m = Append(rps, e)
    BY <1>2 DEF Joins
  <2>2. /\ m \in Seq(Piece) /\ Len(m) = k + 1 /\ m[k + 1] = e
        /\ \A j \in DOMAIN rps : m[j] = rps[j]
    <3> HIDE DEF m
    <3> QED
      BY <2>1, AppendProperties
  <2> HIDE DEF m
  <2>3. \A j \in DOMAIN m : j \in DOMAIN rps \/ j = k + 1
    BY <1>0, <2>2
  <2>4. \A j \in DOMAIN rps : j \in DOMAIN m /\ j # k + 1
    BY <1>0, <2>2
  <2>5. k + 1 \in DOMAIN m
    BY <1>0, <2>2
  <2>6. Scattered(m)
    <3> SUFFICES ASSUME NEW i \in DOMAIN m, NEW j \in DOMAIN m, i # j
                 PROVE  SectorsOf(m[i]) \cap SectorsOf(m[j]) = {}
      BY DEF Scattered
    <3>1. \A x \in DOMAIN rps : SectorsOf(rps[x]) \cap SectorsOf(e) = {}
      BY CoveredIn
    <3>2. CASE i \in DOMAIN rps /\ j \in DOMAIN rps
      BY <2>2, <3>2 DEF Scattered
    <3>3. CASE i = k + 1
      BY <2>2, <2>3, <3>1, <3>3
    <3>4. CASE j = k + 1
      BY <2>2, <2>3, <3>1, <3>4
    <3> QED
      BY <2>3, <3>2, <3>3, <3>4
  <2>7. Covered(m) = Covered(rps) \cup SectorsOf(e)
    <3>1. ASSUME NEW s, s \in Covered(m) PROVE s \in Covered(rps) \cup SectorsOf(e)
      <4>1. PICK j \in DOMAIN m : s \in SectorsOf(m[j])
        BY <3>1, CoveredIn
      <4> QED
        BY <2>2, <2>3, <4>1, CoveredIn
    <3>2. ASSUME NEW s, s \in Covered(rps) PROVE s \in Covered(m)
      <4>1. PICK j \in DOMAIN rps : s \in SectorsOf(rps[j])
        BY <3>2, CoveredIn
      <4> QED
        BY <2>2, <2>4, <4>1, CoveredIn
    <3>3. SectorsOf(e) \subseteq Covered(m)
      BY <2>2, <2>5, CoveredIn
    <3> QED
      BY <3>1, <3>2, <3>3
  <2>8. m # <<>>
    BY <1>0, <2>2
  <2> QED
    BY <2>2, <2>6, <2>7, <2>8 DEF m
<1> QED
  BY <1>1, <1>2

-----------------------------------------------------------------------------
(* The sectors w of a copy had u, and has what is no longer free.          *)
Grows(F, u, G, w) == G \subseteq F /\ w = u \cup (F \ G)

(* The state of the loop that extends a copy.                              *)
Exts == [v: Vols, rps: Seq(Piece), rqst: Nat, lo: Nat, sts: Statuses]

(* A copy and a list that share no sector.                                 *)
ExtOK(x) ==
  /\ x \in Exts /\ VolOK(x.v) /\ Scattered(x.rps)
  /\ Covered(x.rps) \cap Covered(x.v.free) = {}

(* From x, y took what is no longer free.                                  *)
ExtFrom(x, y) ==
  ExtOK(y) /\ Grows(Covered(x.v.free), Covered(x.rps), Covered(y.v.free), Covered(y.rps))

(* What was found is added to the copy, which shares no sector with it.    *)
LEMMA AddFoundIs ==
  ASSUME NEW x, ExtOK(x), NEW g, FindsIn(x.v.free, x.v.elems, g, x.rqst)
  PROVE  ExtFrom(x, AddFound(x, g))
<1> DEFINE y == AddFound(x, g)
           m == Joins(x.rps, g.ans)
           v == [free |-> g.free, elems |-> x.v.elems, total |-> x.v.total - g.ans.n]
<1>1. /\ x.v \in Vols /\ x.v.free \in Seq(Entry) /\ x.v.elems \in Nat \ {0} /\ x.v.total \in Nat
      /\ x.v.total = Cardinality(Covered(x.v.free)) /\ Len(x.v.free) <= x.v.elems
      /\ x.rps \in Seq(Piece) /\ x.rqst \in Nat /\ Scattered(x.rps)
  BY VolIs DEF ExtOK, Exts, Vols
<1>2. /\ g.free \in Seq(Entry) /\ Strict(g.free) /\ Len(g.free) <= x.v.elems
      /\ g.ans \in Piece /\ g.ans.n <= x.rqst
      /\ SectorsOf(g.ans) \subseteq Covered(x.v.free)
      /\ Covered(g.free) = Covered(x.v.free) \ SectorsOf(g.ans)
  BY <1>1 DEF FindsIn, Gives
<1>3. /\ m \in Seq(Piece) /\ Scattered(m) /\ Covered(m) = Covered(x.rps) \cup SectorsOf(g.ans)
  <2>1. Covered(x.rps) \cap SectorsOf(g.ans) = {}
    BY <1>2 DEF ExtOK
  <2> QED
    BY <1>1, <1>2, <2>1, JoinsIs
<1>4. x.v.total - g.ans.n = Cardinality(Covered(g.free)) /\ g.ans.n \in Nat
  <2>1. IsFiniteSet(Covered(g.free)) /\ Cardinality(Covered(g.free)) \in Nat
    BY <1>2, CoveredFinite
  <2>2. Covered(g.free) \cap SectorsOf(g.ans) = {} /\ g.ans \in Entry
    BY <1>2 DEF Entry
  <2>3. Cardinality(Covered(g.free) \cup SectorsOf(g.ans)) = Cardinality(Covered(g.free)) + g.ans.n
    BY <2>1, <2>2, AddedSize
  <2>4. Covered(g.free) \cup SectorsOf(g.ans) = Covered(x.v.free)
    BY <1>2
  <2>5. g.ans.n \in Nat
    BY <1>2, PieceIs
  <2>6. x.v.total = Cardinality(Covered(g.free)) + g.ans.n /\ x.v.total \in Nat
    BY <1>1, <2>3, <2>4
  <2> QED
    BY <2>1, <2>5, <2>6
<1>5. VolOK(v)
  BY <1>1, <1>2, <1>4, VolMade
<1> HIDE DEF m
<1>6. /\ y.v = v /\ y.rps = m /\ y.rqst = x.rqst - g.ans.n /\ y.lo = x.lo /\ y.sts = x.sts
      /\ y \in Exts
  <2> DEFINE b == x.v.total - g.ans.n
             r == x.rqst - g.ans.n
  <2>1. y = [x EXCEPT !.v.free = g.free, !.v.total = b, !.rqst = r, !.rps = m]
    BY DEF AddFound, m, Joins, ExtOK, Exts, Vols
  <2>2. b \in Nat /\ r \in Nat /\ g.free \in Seq(Entry) /\ x \in Exts
    <3>1. Cardinality(Covered(g.free)) \in Nat
      BY <1>2, CoveredFinite
    <3> QED
      BY <1>1, <1>2, <1>4, <3>1 DEF ExtOK
  <2> DEFINE w == [[x.v EXCEPT !.free = g.free] EXCEPT !.total = b]
             z == [x EXCEPT !.v = w, !.rqst = r, !.rps = m]
  <2> HIDE DEF y, b, r
  <2>3. y = z
    <3>1. x \in Exts
      BY <2>2
    <3>2. [x EXCEPT !.v.free = g.free, !.v.total = b, !.rqst = r, !.rps = m] = z
      BY <3>1 DEF Exts
    <3> QED
      BY <2>1, <3>2, Zenon
  <2>4. w = [free |-> g.free, elems |-> x.v.elems, total |-> b]
    <3>1. w = [x.v EXCEPT !.free = g.free, !.total = b]
      BY <1>1 DEF Vols
    <3>2. x.v = [free |-> x.v.free, elems |-> x.v.elems, total |-> x.v.total]
      BY <1>1 DEF Vols
    <3> QED
      BY <3>1, <3>2, VolSet
  <2>5. [free |-> g.free, elems |-> x.v.elems, total |-> b] \in Vols
    BY <1>1, <2>2 DEF Vols
  <2> HIDE DEF w
  <2>6. z \in Exts /\ z.v = w /\ z.rps = m /\ z.rqst = r /\ z.lo = x.lo /\ z.sts = x.sts
    <3>1. w \in Vols
      BY <2>4, <2>5
    <3>2. m \in Seq(Piece) /\ r \in Nat /\ x \in Exts
      BY <1>3, <2>2
    <3> QED
      BY <3>1, <3>2 DEF Exts
  <2> HIDE DEF z
  <2> QED
    BY <2>3, <2>4, <2>6 DEF b, r
<1>7. Covered(y.v.free) = Covered(x.v.free) \ SectorsOf(g.ans)
      /\ Covered(y.rps) = Covered(x.rps) \cup SectorsOf(g.ans)
  BY <1>2, <1>3, <1>6
<1> HIDE DEF y, v
<1>8. ExtOK(y)
  BY <1>2, <1>3, <1>5, <1>6, <1>7 DEF ExtOK
<1>9. Grows(Covered(x.v.free), Covered(x.rps), Covered(y.v.free), Covered(y.rps))
  BY <1>2, <1>7 DEF Grows
<1> QED
  BY <1>8, <1>9 DEF ExtFrom, y

(* Nothing taken is an extension.                                          *)
LEMMA Unmoved ==
  ASSUME NEW x, ExtOK(x), NEW y, y \in Exts, y.v = x.v, y.rps = x.rps
  PROVE  ExtFrom(x, y)
BY DEF ExtFrom, ExtOK, Grows

(* Two extensions, one after the other, are one.                           *)
LEMMA ExtTrans ==
  ASSUME NEW x, NEW y, NEW z, ExtFrom(x, y), ExtFrom(y, z)
  PROVE  ExtFrom(x, z)
BY DEF ExtFrom, Grows

(* A pass of fsys_extend takes sectors that were free, for this copy       *)
(* alone.                                                                  *)
LEMMA ExtendStepIs ==
  ASSUME NEW x, ExtOK(x), x.rqst > 0
  PROVE  ExtFrom(x, ExtendStep(x))
<1> DEFINE y == ExtendStep(x)
           hint == HintAfter(x.rps)
           g == FindFree(x.v.free, x.v.elems, x.rqst, hint, x.lo)
<1>0. /\ x \in Exts /\ x.v.free \in Seq(Entry) /\ x.v.elems \in Nat /\ x.rqst \in Nat \ {0}
      /\ x.lo \in Nat /\ Strict(x.v.free) /\ Len(x.v.free) <= x.v.elems
  BY VolIs DEF ExtOK, Exts
<1>1. CASE Len(x.rps) >= MaxPtrs
  <2>1. y = [x EXCEPT !.sts = "2MNYRP"]
    BY <1>1 DEF ExtendStep
  <2>2. y \in Exts /\ y.v = x.v /\ y.rps = x.rps
    BY <1>0, <2>1 DEF Exts, Statuses
  <2> QED
    BY <2>2, Unmoved
<1>2. CASE ~ (Len(x.rps) >= MaxPtrs)
  <2>1. y = Found(x, g)
    BY <1>2 DEF ExtendStep
  <2>2. \/ g = [free |-> x.v.free, ans |-> Null]
        \/ FindsIn(x.v.free, x.v.elems, g, x.rqst)
    BY <1>0, FindFreeIs
  <2> HIDE DEF g, y
  <2>3. CASE g.ans.start = 0
    <3>1. y = IF x.lo = 0 THEN [x EXCEPT !.sts = "FULL"] ELSE [x EXCEPT !.lo = 0]
      BY <2>1, <2>3 DEF Found, NoneFound
    <3>2. y \in Exts /\ y.v = x.v /\ y.rps = x.rps
      BY <1>0, <3>1 DEF Exts, Statuses
    <3> QED
      BY <3>2, Unmoved DEF y
  <2>4. CASE g.ans.start # 0
    <3>1. FindsIn(x.v.free, x.v.elems, g, x.rqst)
      <4>1. Null.start = 0
        BY DEF Null
      <4> QED
        BY <2>2, <2>4, <4>1
    <3>2. y = AddFound(x, g)
      BY <2>1, <2>4 DEF Found
    <3>3. ExtFrom(x, AddFound(x, g))
      BY <3>1, AddFoundIs
    <3> QED
      BY <3>2, <3>3 DEF y
  <2> QED
    BY <2>3, <2>4
<1> QED
  BY <1>1, <1>2

(* fsys_extend does, however many passes it makes.                         *)
LEMMA ExtendedIs ==
  ASSUME NEW x, ExtOK(x)
  PROVE  ExtFrom(x, Extended(x))
<1>1. CASE x.sts # "OK"
  <2>1. Extended(x) = x
    BY <1>1 DEF Extended
  <2> QED
    BY <2>1, Unmoved DEF ExtOK
<1>2. CASE x.sts = "OK"
  <2> DEFINE d == CollapseFree(x.v.free)
             w == [x.v EXCEPT !.free = d]
             y == [x EXCEPT !.v = w]
  <2>0. x \in Exts /\ x.v \in Vols
    BY DEF ExtOK, Exts
  <2>1. Extended(x) = y
    BY <1>2, <2>0 DEF Extended, Exts
  <2>2. /\ x.v.free \in Seq(Entry) /\ Weak(x.v.free) /\ x.v.elems \in Nat \ {0}
        /\ Len(x.v.free) <= x.v.elems /\ x.v.total = Cardinality(Covered(x.v.free))
        /\ x.v = [free |-> x.v.free, elems |-> x.v.elems, total |-> x.v.total]
    BY VolIs DEF ExtOK
  <2>3. /\ VolOK([free |-> d, elems |-> x.v.elems, total |-> x.v.total])
        /\ Covered(d) = Covered(x.v.free)
    BY <2>2, VolCollapsed
  <2> HIDE DEF d
  <2>4. w = [free |-> d, elems |-> x.v.elems, total |-> x.v.total]
    BY <2>0 DEF Vols
  <2>5. VolOK(w) /\ w \in Vols /\ w.free = d
    BY <2>3, <2>4 DEF VolOK, Vols
  <2> HIDE DEF w
  <2>6. y \in Exts /\ y.v = w /\ y.rps = x.rps
    BY <2>0, <2>5 DEF Exts
  <2> HIDE DEF y
  <2>7. Covered(y.v.free) = Covered(x.v.free) /\ VolOK(y.v)
    BY <2>3, <2>5, <2>6
  <2>8. ExtOK(y)
    BY <2>6, <2>7 DEF ExtOK
  <2>9. Grows(Covered(x.v.free), Covered(x.rps), Covered(y.v.free), Covered(y.rps))
    BY <2>6, <2>7 DEF Grows
  <2> QED
    BY <2>1, <2>8, <2>9 DEF ExtFrom
<1> QED
  BY <1>1, <1>2

(* extend_file gives the copy what it takes off the free list, and no      *)
(* more, whatever it was asked for and however it ends.                    *)
LEMMA ExtendFileIs ==
  ASSUME NEW v, VolOK(v), NEW rps \in Seq(Piece), Scattered(rps),
         Covered(rps) \cap Covered(v.free) = {}, NEW rqst \in Nat, NEW lo \in Nat
  PROVE  LET x == ExtendFile(v, rps, rqst, lo)
         IN  /\ ExtOK(x)
             /\ Grows(Covered(v.free), Covered(rps), Covered(x.v.free), Covered(x.rps))
<1> DEFINE start == [v |-> v, rps |-> rps, rqst |-> rqst, lo |-> lo, sts |-> "OK"]
           x == ExtendFile(v, rps, rqst, lo)
           loop == [k \in 1..(rqst + 1) |-> k]
           f == FoldLeft(ExtendLoop, start, loop)
           Good == {y \in Exts : ExtFrom(start, y)}
           T == [k \in 0..Len(loop) |-> Good]
<1>1. v \in Vols
  BY DEF VolOK, Vols
<1>2. start \in Exts /\ start.v = v /\ start.rps = rps
  BY <1>1 DEF Exts, Statuses
<1>3. CASE v.total < rqst
  <2>1. x = [start EXCEPT !.sts = "FULL"]
    BY <1>3 DEF ExtendFile
  <2>2. x \in Exts /\ x.v = v /\ x.rps = rps
    BY <1>1, <2>1 DEF Exts, Statuses
  <2> HIDE DEF x
  <2>3. ExtOK(x) /\ Grows(Covered(v.free), Covered(rps), Covered(x.v.free), Covered(x.rps))
    BY <2>2 DEF ExtOK, Grows
  <2> QED
    BY <2>3 DEF x
<1>4. CASE ~ (v.total < rqst)
  <2>1. x = Extended(f)
    BY <1>4 DEF ExtendFile
  <2> HIDE DEF start
  <2>2. ExtOK(start)
    BY <1>2 DEF ExtOK
  <2>3. loop \in Seq(Nat) /\ Len(loop) \in Nat
    <3>1. rqst + 1 \in Nat
      OBVIOUS
    <3> QED
      BY <3>1
  <2> HIDE DEF loop
  <2>4. start \in T[0]
    <3>1. ExtFrom(start, start)
      BY <1>2, <2>2, Unmoved
    <3> QED
      BY <1>2, <2>3, <3>1
  <2>5. ASSUME NEW k \in 1..Len(loop), NEW y \in T[k - 1] PROVE ExtendLoop(y, loop[k]) \in T[k]
    <3>1. k - 1 \in 0..Len(loop) /\ k \in 0..Len(loop)
      BY <2>3
    <3>2. y \in Good
      BY <3>1
    <3>3. y \in Exts /\ ExtFrom(start, y) /\ ExtOK(y)
      BY <3>2 DEF ExtFrom
    <3> DEFINE z == ExtendLoop(y, loop[k])
    <3>4. ExtFrom(y, z)
      <4>1. CASE y.sts # "OK" \/ y.rqst <= 0
        <5>1. z = y
          BY <4>1 DEF ExtendLoop
        <5> QED
          BY <3>3, <5>1, Unmoved
      <4>2. CASE ~ (y.sts # "OK" \/ y.rqst <= 0)
        <5>1. z = ExtendStep(y)
          BY <4>2 DEF ExtendLoop
        <5>2. y.rqst > 0
          BY <3>3, <4>2 DEF Exts
        <5>3. ExtFrom(y, ExtendStep(y))
          BY <3>3, <5>2, ExtendStepIs
        <5> QED
          BY <5>1, <5>3
      <4> QED
        BY <4>1, <4>2
    <3> HIDE DEF z
    <3>5. ExtFrom(start, z) /\ z \in Exts
      BY <3>3, <3>4, ExtTrans DEF ExtFrom, ExtOK
    <3> QED
      BY <3>1, <3>5 DEF z
  <2>6. f \in T[Len(loop)]
    <3> HIDE DEF T
    <3> QED
      BY <2>3, <2>4, <2>5, ExtendFold, Zenon
  <2>7. f \in Good
    <3>1. Len(loop) \in 0..Len(loop)
      BY <2>3
    <3> HIDE DEF Good, f
    <3> QED
      BY <2>6, <3>1
  <2>8. ExtFrom(start, f)
    BY <2>7
  <2> HIDE DEF f, Good
  <2>9. ExtFrom(start, Extended(f))
    <3>1. ExtFrom(f, Extended(f))
      BY <2>8, ExtendedIs DEF ExtFrom
    <3> QED
      BY <2>8, <3>1, ExtTrans
  <2> HIDE DEF x
  <2>10. ExtFrom(start, x)
    BY <2>1, <2>9
  <2> QED
    BY <1>2, <2>10 DEF ExtFrom, x
<1> QED
  BY <1>3, <1>4

-----------------------------------------------------------------------------
(* The owners D, which had o, have p, after the free sectors went from F   *)
(* to G: what is no longer free is in exactly one of them.                 *)
Takes(D, F, o, G, p) ==
  /\ G \subseteq F
  /\ \A x \in D : o[x] \subseteq p[x] /\ p[x] \ o[x] \subseteq F \ G
  /\ \A s \in F \ G : \E x \in D : s \in p[x]
  /\ \A x, y \in D : x # y => (p[x] \ o[x]) \cap (p[y] \ o[y]) = {}

(* Nobody takes nothing.                                                   *)
LEMMA TakesNone ==
  ASSUME NEW D, NEW F, NEW o
  PROVE  Takes(D, F, o, F, o)
BY DEF Takes

(* What owners took, and then took again.                                  *)
LEMMA TakesTrans ==
  ASSUME NEW D, NEW F, NEW o, NEW G, NEW p, NEW H, NEW q,
         Takes(D, F, o, G, p), Takes(D, G, p, H, q)
  PROVE  Takes(D, F, o, H, q)
<1>1. /\ G \subseteq F /\ H \subseteq G
      /\ \A x \in D : o[x] \subseteq p[x] /\ p[x] \ o[x] \subseteq F \ G
      /\ \A x \in D : p[x] \subseteq q[x] /\ q[x] \ p[x] \subseteq G \ H
  BY DEF Takes
<1>2. \A x \in D : o[x] \subseteq q[x] /\ q[x] \ o[x] \subseteq F \ H
  BY <1>1
<1>3. ASSUME NEW s \in F \ H PROVE \E x \in D : s \in q[x]
  <2>1. CASE s \in G
    BY <2>1 DEF Takes
  <2>2. CASE s \notin G
    <3>1. PICK x \in D : s \in p[x]
      BY <2>2 DEF Takes
    <3> QED
      BY <1>1, <3>1
  <2> QED
    BY <2>1, <2>2
<1>4. ASSUME NEW x \in D, NEW y \in D, x # y, NEW s, s \in q[x] \ o[x], s \in q[y] \ o[y]
      PROVE  FALSE
  <2>1. CASE s \in G
    <3>1. s \notin p[x] \ o[x] /\ s \notin p[y] \ o[y]
      BY <1>1, <2>1
    <3>2. s \in q[x] \ p[x] /\ s \in q[y] \ p[y]
      BY <1>4, <3>1
    <3>3. (q[x] \ p[x]) \cap (q[y] \ p[y]) = {}
      BY <1>4 DEF Takes
    <3> QED
      BY <3>2, <3>3
  <2>2. CASE s \notin G
    <3>1. s \in p[x] \ o[x] /\ s \in p[y] \ o[y]
      BY <1>1, <1>4, <2>2
    <3>2. (p[x] \ o[x]) \cap (p[y] \ o[y]) = {}
      BY <1>4 DEF Takes
    <3> QED
      BY <3>1, <3>2
  <2> QED
    BY <2>1, <2>2
<1>5. \A x, y \in D : x # y => (q[x] \ o[x]) \cap (q[y] \ o[y]) = {}
  BY <1>4
<1> QED
  BY <1>1, <1>2, <1>3, <1>5 DEF Takes

(* One of them takes it all.                                               *)
LEMMA TakesOne ==
  ASSUME NEW D, NEW F, NEW o, NEW G, NEW p, NEW a \in D, G \subseteq F,
         p[a] = o[a] \cup (F \ G), \A x \in D : x # a => p[x] = o[x]
  PROVE  Takes(D, F, o, G, p)
<1>1. \A x \in D : o[x] \subseteq p[x] /\ p[x] \ o[x] \subseteq F \ G
  BY Zenon
<1>2. \A s \in F \ G : s \in p[a]
  OBVIOUS
<1>3. \A x, y \in D : x # y => (p[x] \ o[x]) \cap (p[y] \ o[y]) = {}
  OBVIOUS
<1> QED
  BY <1>1, <1>2, <1>3 DEF Takes

(* Owners that had nothing in common, and take what is free, have nothing  *)
(* in common.                                                              *)
LEMMA TakesAlone ==
  ASSUME NEW D, NEW F, NEW o, NEW G, NEW p, Takes(D, F, o, G, p), Alone(D, F, o)
  PROVE  Alone(D, G, p)
<1>1. ASSUME NEW x \in D, NEW y \in D, x # y, NEW s, s \in p[x], s \in p[y] PROVE FALSE
  <2>1. s \in o[x] => s \notin o[y] /\ s \notin F
    BY <1>1 DEF Alone
  <2>2. s \in o[y] => s \notin F
    BY DEF Alone
  <2>3. p[x] \ o[x] \subseteq F /\ p[y] \ o[y] \subseteq F
    BY DEF Takes
  <2>4. (p[x] \ o[x]) \cap (p[y] \ o[y]) = {}
    BY <1>1 DEF Takes
  <2> QED
    BY <1>1, <2>1, <2>2, <2>3, <2>4
<1>2. ASSUME NEW x \in D, NEW s, s \in p[x], s \in G PROVE FALSE
  <2>1. s \in o[x] => s \notin F
    BY DEF Alone
  <2>2. p[x] \ o[x] \subseteq F \ G /\ G \subseteq F
    BY DEF Takes
  <2> QED
    BY <1>2, <2>1, <2>2
<1> QED
  BY <1>1, <1>2 DEF Alone

-----------------------------------------------------------------------------
(* The copies the code counts through are all of them.                     *)
LEMMA AllAltsIs ==
  /\ AllAlts \in Seq(Alts) /\ Len(AllAlts) = NAlts /\ NAlts \in Nat \ {0} /\ Alts = 1..NAlts
  /\ DOMAIN AllAlts = Alts /\ \A a \in Alts : AllAlts[a] = a
<1>1. NAlts \in Nat \ {0} /\ Alts = 1..NAlts
  BY AreaAssumption DEF Alts, NAlts
<1> QED
  BY <1>1 DEF AllAlts

(* The sectors of each copy of a file.                                     *)
Own(rps) == [a \in Alts |-> Covered(rps[a])]

(* The state of the loop over the copies.                                  *)
Copies(A) ==
  [v: Vols, rps: [Alts -> Seq(Piece)], alts: {A}, rqst: Nat, done: Nat, sts: Statuses]

(* No copy has a sector twice, or one that is free.                        *)
CopyOK(s) ==
  /\ s \in Copies(s.alts) /\ VolOK(s.v) /\ \A a \in Alts : Scattered(s.rps[a])
  /\ \A a \in Alts : Covered(s.rps[a]) \cap Covered(s.v.free) = {}

(* From s, the copies of t took what is no longer free.                    *)
CopyFrom(s, t) ==
  /\ CopyOK(t) /\ t.alts = s.alts
  /\ Takes(Alts, Covered(s.v.free), Own(s.rps), Covered(t.v.free), Own(t.rps))

(* Two such steps are one.                                                 *)
LEMMA CopyTrans ==
  ASSUME NEW s, NEW t, NEW u, CopyFrom(s, t), CopyFrom(t, u)
  PROVE  CopyFrom(s, u)
BY SMTT(60), TakesTrans DEF CopyFrom

(* No step is such a step.                                                 *)
LEMMA CopySame ==
  ASSUME NEW s, CopyOK(s)
  PROVE  CopyFrom(s, s)
BY TakesNone DEF CopyFrom

(* One copy extended.                                                      *)
LEMMA CopyExtendedIs ==
  ASSUME NEW s, CopyOK(s), NEW a \in Alts, NEW x, ExtOK(x),
         Grows(Covered(s.v.free), Covered(s.rps[a]), Covered(x.v.free), Covered(x.rps))
  PROVE  CopyFrom(s, CopyExtended(s, a, x))
<1> DEFINE t == CopyExtended(s, a, x)
           n == IF x.sts = "OK" THEN s.done + 1 ELSE s.done
           rps == [s.rps EXCEPT ![a] = x.rps]
<1>0. s \in Copies(s.alts) /\ s.rps \in [Alts -> Seq(Piece)] /\ s.done \in Nat /\ x \in Exts
      /\ x.v \in Vols /\ x.rps \in Seq(Piece) /\ x.sts \in Statuses /\ VolOK(x.v)
      /\ Scattered(x.rps)
  BY DEF CopyOK, Copies, ExtOK, Exts
<1>1. t = [s EXCEPT !.v = x.v, !.rps = rps, !.sts = x.sts, !.done = n]
  BY <1>0 DEF CopyExtended, Copies
<1>2. rps \in [Alts -> Seq(Piece)] /\ n \in Nat
  BY <1>0
<1>3. rps[a] = x.rps /\ \A b \in Alts : b # a => rps[b] = s.rps[b]
  BY <1>0
<1> HIDE DEF n, rps
<1>4. [s EXCEPT !.v = x.v, !.rps = rps, !.sts = x.sts, !.done = n] \in Copies(s.alts)
  BY <1>0, <1>2 DEF Copies
<1>5. t \in Copies(s.alts) /\ t.v = x.v /\ t.rps = rps
  <2>1. /\ [s EXCEPT !.v = x.v, !.rps = rps, !.sts = x.sts, !.done = n].v = x.v
        /\ [s EXCEPT !.v = x.v, !.rps = rps, !.sts = x.sts, !.done = n].rps = rps
    BY <1>0 DEF Copies
  <2> HIDE DEF t
  <2> QED
    BY <1>1, <1>4, <2>1
<1> HIDE DEF t
<1> DEFINE F == Covered(s.v.free)
           G == Covered(x.v.free)
<1>6. G \subseteq F /\ Covered(x.rps) = Covered(s.rps[a]) \cup (F \ G)
  BY DEF Grows
<1>7. Takes(Alts, F, Own(s.rps), G, Own(rps))
  <2>1. Own(rps)[a] = Own(s.rps)[a] \cup (F \ G)
    BY <1>3, <1>6 DEF Own
  <2>2. \A b \in Alts : b # a => Own(rps)[b] = Own(s.rps)[b]
    BY <1>3 DEF Own
  <2> HIDE DEF F, G
  <2> QED
    BY <1>6, <2>1, <2>2, TakesOne
<1>8. \A b \in Alts : Scattered(rps[b]) /\ Covered(rps[b]) \cap G = {}
  <2> SUFFICES ASSUME NEW b \in Alts PROVE Scattered(rps[b]) /\ Covered(rps[b]) \cap G = {}
    OBVIOUS
  <2>1. CASE b = a
    BY <1>3, <2>1 DEF ExtOK
  <2>2. CASE b # a
    BY <1>3, <1>6, <2>2 DEF CopyOK
  <2> QED
    BY <2>1, <2>2
<1>9. t.alts = s.alts
  BY <1>5 DEF Copies
<1>10. CopyOK(t)
  BY <1>0, <1>5, <1>8, <1>9 DEF CopyOK
<1> QED
  BY <1>5, <1>7, <1>9, <1>10 DEF CopyFrom, t

(* The loop extends each copy that is asked for, and stops at the first    *)
(* failure.                                                                *)
LEMMA ExtendCopyIs ==
  ASSUME NEW s, CopyOK(s), NEW a \in Alts
  PROVE  CopyFrom(s, ExtendCopy(s, a))
<1>1. CASE s.sts # "OK" \/ a \notin s.alts
  BY <1>1, CopySame DEF ExtendCopy
<1>2. CASE s.sts = "OK" /\ a \in s.alts
  <2> DEFINE x == ExtendFile(s.v, s.rps[a], s.rqst, Area[a])
  <2>1. ExtendCopy(s, a) = CopyExtended(s, a, x)
    BY <1>2 DEF ExtendCopy
  <2>2. /\ VolOK(s.v) /\ s.rps[a] \in Seq(Piece) /\ Scattered(s.rps[a]) /\ s.rqst \in Nat
        /\ Covered(s.rps[a]) \cap Covered(s.v.free) = {} /\ Area[a] \in Nat
    BY AreaAssumption DEF CopyOK, Copies, Alts
  <2>3. /\ ExtOK(x)
        /\ Grows(Covered(s.v.free), Covered(s.rps[a]), Covered(x.v.free), Covered(x.rps))
    BY <2>2, ExtendFileIs
  <2> HIDE DEF x
  <2>4. CopyFrom(s, CopyExtended(s, a, x))
    BY <2>3, CopyExtendedIs
  <2> QED
    BY <2>1, <2>4
<1> QED
  BY <1>1, <1>2

(* The copies of a file, extended one after the other.                     *)
LEMMA ExtendCopiesIs ==
  ASSUME NEW v, VolOK(v), NEW rps \in [Alts -> Seq(Piece)],
         \A a \in Alts : Scattered(rps[a]) /\ Covered(rps[a]) \cap Covered(v.free) = {},
         NEW alts, NEW rqst \in Nat
  PROVE  LET x == ExtendCopies(v, rps, alts, rqst)
         IN  CopyOK(x) /\ Takes(Alts, Covered(v.free), Own(rps), Covered(x.v.free), Own(x.rps))
<1> DEFINE s == [v |-> v, rps |-> rps, alts |-> alts, rqst |-> rqst, done |-> 0, sts |-> "OK"]
           x == ExtendCopies(v, rps, alts, rqst)
           Good == {y \in Copies(alts) : CopyFrom(s, y)}
           T == [k \in 0..Len(AllAlts) |-> Good]
<1>1. x = FoldLeft(ExtendCopy, s, AllAlts)
  BY DEF ExtendCopies
<1>2. s \in Copies(alts) /\ s.alts = alts /\ s.v = v /\ s.rps = rps
  BY DEF Copies, Statuses, VolOK, Vols
<1> HIDE DEF s
<1>3. CopyOK(s)
  BY <1>2 DEF CopyOK
<1>4. AllAlts \in Seq(Alts) /\ Len(AllAlts) \in Nat
  BY AllAltsIs
<1>5. s \in T[0]
  BY <1>2, <1>3, <1>4, CopySame
<1>6. ASSUME NEW k \in 1..Len(AllAlts), NEW y \in T[k - 1] PROVE ExtendCopy(y, AllAlts[k]) \in T[k]
  <2>1. k - 1 \in 0..Len(AllAlts) /\ k \in 0..Len(AllAlts) /\ AllAlts[k] \in Alts
    BY <1>4
  <2>2. CopyFrom(s, y) /\ CopyOK(y)
    BY <2>1 DEF CopyFrom
  <2> DEFINE z == ExtendCopy(y, AllAlts[k])
  <2>3. CopyFrom(y, z)
    BY <2>1, <2>2, ExtendCopyIs
  <2> HIDE DEF z
  <2>4. CopyFrom(s, z) /\ z \in Copies(alts)
    BY <1>2, <2>2, <2>3, CopyTrans DEF CopyFrom, CopyOK
  <2> QED
    BY <2>1, <2>4 DEF z
<1>7. x \in T[Len(AllAlts)]
  <2> HIDE DEF T, x
  <2>1. FoldLeft(ExtendCopy, s, AllAlts) \in T[Len(AllAlts)]
    BY <1>4, <1>5, <1>6, CopyFold, Zenon
  <2> QED
    BY <1>1, <2>1
<1>8. CopyFrom(s, x)
  <2>1. Len(AllAlts) \in 0..Len(AllAlts)
    BY <1>4
  <2> HIDE DEF x
  <2> QED
    BY <1>7, <2>1
<1> QED
  BY <1>2, <1>8 DEF CopyFrom

-----------------------------------------------------------------------------
(* What a search found, taken off the list and the count.                  *)
LEMMA VolTaken ==
  ASSUME NEW v, VolOK(v), NEW r \in Nat, NEW g, FindsIn(v.free, v.elems, g, r)
  PROVE  VolOK([free |-> g.free, elems |-> v.elems, total |-> v.total - g.ans.n])
<1>1. /\ v.free \in Seq(Entry) /\ v.elems \in Nat \ {0} /\ v.total \in Nat
      /\ v.total = Cardinality(Covered(v.free)) /\ Len(v.free) <= v.elems
  BY VolIs
<1>2. /\ g.free \in Seq(Entry) /\ Strict(g.free) /\ Len(g.free) <= v.elems
      /\ g.ans \in Piece
      /\ SectorsOf(g.ans) \subseteq Covered(v.free)
      /\ Covered(g.free) = Covered(v.free) \ SectorsOf(g.ans)
  BY <1>1 DEF FindsIn, Gives
<1>3. IsFiniteSet(Covered(g.free)) /\ Cardinality(Covered(g.free)) \in Nat
  BY <1>2, CoveredFinite
<1>4. Covered(g.free) \cap SectorsOf(g.ans) = {} /\ g.ans \in Entry
  BY <1>2 DEF Entry
<1>5. Cardinality(Covered(g.free) \cup SectorsOf(g.ans)) = Cardinality(Covered(g.free)) + g.ans.n
  BY <1>3, <1>4, AddedSize
<1>6. Covered(g.free) \cup SectorsOf(g.ans) = Covered(v.free)
  BY <1>2
<1>7. v.total = Cardinality(Covered(g.free)) + g.ans.n
  BY <1>1, <1>5, <1>6
<1>8. v.total - g.ans.n = Cardinality(Covered(g.free))
  BY <1>2, <1>3, <1>7, PieceIs
<1> QED
  BY <1>1, <1>2, <1>8, VolMade

(* A search for one sector gives that sector.                              *)
LEMMA OneSector ==
  ASSUME NEW e \in Piece, e.n <= 1
  PROVE  e.n = 1 /\ SectorsOf(e) = {e.start} /\ e.start \in 1..(MaxLba - 1) /\ e.start # 0
<1>1. Is(e) /\ e.n > 0
  BY PieceNumbers
<1>2. e.n = 1 /\ e.start \in Nat /\ e.start > 0 /\ End(e) = e.start + 1 /\ End(e) <= MaxLba
  BY <1>1 DEF Is
<1>3. SectorsOf(e) = {e.start}
  BY <1>2 DEF SectorsOf
<1> QED
  BY <1>2, <1>3, VolumeAssumption

(* A volume with free sectors has one for a header.                        *)
LEMMA FindHeaderIs ==
  ASSUME NEW v, VolOK(v), v.total > 0, NEW a \in Alts
  PROVE  FindsIn(v.free, v.elems, FindHeader(v, a), 1)
<1> DEFINE near == FindFree(v.free, v.elems, 1, 0, Area[a])
<1>1. /\ v.free \in Seq(Entry) /\ v.elems \in Nat /\ Strict(v.free)
      /\ v.total = Cardinality(Covered(v.free)) /\ Area[a] \in Nat /\ 1 \in Nat \ {0}
  BY VolIs, AreaAssumption DEF Alts
<1>2. Covered(v.free) # {}
  <2>1. Cardinality({}) = 0
    BY FS_EmptySet, Zenon
  <2>2. Cardinality(Covered(v.free)) # 0
    BY <1>1
  <2> QED
    BY <2>1, <2>2, Zenon
<1>3. \/ near = [free |-> v.free, ans |-> Null]
      \/ FindsIn(v.free, v.elems, near, 1)
  BY <1>1, FindFreeIs
<1>4. FindsIn(v.free, v.elems, FindFree(v.free, v.elems, 1, 0, 0), 1)
  BY <1>1, <1>2, FindsSector
<1> HIDE DEF near
<1>5. CASE near.ans.start # 0
  <2>1. near # [free |-> v.free, ans |-> Null]
    BY <1>5 DEF Null
  <2>2. FindHeader(v, a) = near
    BY <1>5 DEF FindHeader, near
  <2> QED
    BY <1>3, <2>1, <2>2
<1>6. CASE ~ (near.ans.start # 0)
  BY <1>4, <1>6 DEF FindHeader, near
<1> QED
  BY <1>5, <1>6

(* The state of the loop over the headers of a new file.                   *)
Heading0 == [v: Vols, lba: Seq(Lbas)]

(* Header sectors, all different, that came off the free list.             *)
Headed(v, s) ==
  /\ s \in Heading0 /\ VolOK(s.v) /\ s.v.total = v.total - Len(s.lba)
  /\ Covered(s.v.free) \subseteq Covered(v.free)
  /\ {s.lba[i] : i \in DOMAIN s.lba} = Covered(v.free) \ Covered(s.v.free)
  /\ \A i, j \in DOMAIN s.lba : i # j => s.lba[i] # s.lba[j]

(* A header takes one free sector, counted.                                *)
LEMMA HeaderStepIs ==
  ASSUME NEW v, VolOK(v), NEW s, Headed(v, s), s.v.total > 0, NEW a \in Alts
  PROVE  Headed(v, HeaderStep(s, a)) /\ Len(HeaderStep(s, a).lba) = Len(s.lba) + 1
<1> DEFINE g == FindHeader(s.v, a)
           y == HeaderStep(s, a)
           w == [free |-> g.free, elems |-> s.v.elems, total |-> s.v.total - 1]
<1>1. /\ s \in Heading0 /\ VolOK(s.v) /\ s.lba \in Seq(Lbas) /\ Len(s.lba) \in Nat
      /\ s.v.total \in Nat /\ v.total \in Nat /\ s.v.total = v.total - Len(s.lba)
      /\ DOMAIN s.lba = 1..Len(s.lba)
  BY VolIs DEF Headed, Heading0
<1>2. FindsIn(s.v.free, s.v.elems, g, 1)
  BY <1>1, FindHeaderIs
<1> HIDE DEF g
<1>3. g.ans.n = 1 /\ SectorsOf(g.ans) = {g.ans.start} /\ g.ans.start \in Lbas
  BY <1>2, OneSector DEF FindsIn, Gives, Lbas
<1>4. VolOK(w)
  BY <1>1, <1>2, <1>3, VolTaken
<1>5. y = [v |-> [s.v EXCEPT !.free = g.free, !.total = s.v.total - 1],
           lba |-> Append(s.lba, g.ans.start)]
  <2>1. s.v.total = s.v.total
    OBVIOUS
  <2> QED
    BY DEF HeaderStep, AddHeader, g
<1>6. [s.v EXCEPT !.free = g.free, !.total = s.v.total - 1] = w
  <2>1. s.v = [free |-> s.v.free, elems |-> s.v.elems, total |-> s.v.total]
    BY <1>1, VolIs, Zenon
  <2> QED
    BY <2>1, VolSet, Zenon
<1> DEFINE m == Append(s.lba, g.ans.start)
<1> HIDE DEF y, m
<1>7. y.v = w /\ y.lba = m /\ y = [v |-> w, lba |-> m]
  <2> HIDE DEF w
  <2> QED
    BY <1>5, <1>6 DEF m
<1> USE DEF m
<1>8. /\ m \in Seq(Lbas) /\ Len(m) = Len(s.lba) + 1 /\ DOMAIN m = 1..(Len(s.lba) + 1)
      /\ \A i \in 1..Len(s.lba) : m[i] = s.lba[i]
      /\ m[Len(s.lba) + 1] = g.ans.start
  BY <1>1, <1>3
<1> HIDE DEF m
<1>9. /\ g.ans.start \in Covered(s.v.free)
      /\ Covered(g.free) = Covered(s.v.free) \ {g.ans.start}
  BY <1>2, <1>3 DEF FindsIn, Gives
<1>10. y \in Heading0 /\ y.v.total = v.total - Len(y.lba)
  <2>1. w \in Vols
    BY <1>4 DEF VolOK, Vols
  <2>2. w.total = v.total - (Len(s.lba) + 1)
    BY <1>1
  <2> QED
    BY <1>7, <1>8, <2>1, <2>2 DEF Heading0
<1> DEFINE old == {s.lba[i] : i \in DOMAIN s.lba}
           new == {m[i] : i \in DOMAIN m}
<1>11. old = Covered(v.free) \ Covered(s.v.free) /\ Covered(s.v.free) \subseteq Covered(v.free)
  BY DEF Headed
<1>12. new = old \cup {g.ans.start}
  <2>1. 1..(Len(s.lba) + 1) = 1..Len(s.lba) \cup {Len(s.lba) + 1}
    BY <1>1
  <2> QED
    BY <1>1, <1>8, <2>1
<1>13. new = Covered(v.free) \ Covered(g.free)
  BY <1>9, <1>11, <1>12
<1>14. ASSUME NEW i \in DOMAIN m, NEW j \in DOMAIN m, i # j PROVE m[i] # m[j]
  <2>1. \A k \in 1..Len(s.lba) : m[k] # g.ans.start
    BY <1>1, <1>8, <1>9, <1>11
  <2>2. i \in 1..Len(s.lba) \/ i = Len(s.lba) + 1
    BY <1>1, <1>8
  <2>3. j \in 1..Len(s.lba) \/ j = Len(s.lba) + 1
    BY <1>1, <1>8
  <2>4. \A k, l \in DOMAIN s.lba : k # l => s.lba[k] # s.lba[l]
    BY DEF Headed
  <2> QED
    BY <1>1, <1>8, <1>14, <2>1, <2>2, <2>3, <2>4
<1>15. y.v.free = g.free
  BY <1>7
<1>16. Headed(v, y)
  BY <1>4, <1>7, <1>9, <1>10, <1>11, <1>13, <1>14, <1>15 DEF Headed
<1> QED
  BY <1>7, <1>8, <1>16 DEF y

(* The headers of a new file.                                              *)
LEMMA HeadersAre ==
  ASSUME NEW v, VolOK(v), v.total >= NAlts + 1
  PROVE  LET h == FoldLeft(HeaderStep, [v |-> v, lba |-> <<>>], AllAlts)
         IN  Headed(v, h) /\ Len(h.lba) = NAlts
<1> DEFINE s == [v |-> v, lba |-> <<>>]
           h == FoldLeft(HeaderStep, s, AllAlts)
           Good(k) == {y \in Heading0 : Headed(v, y) /\ Len(y.lba) = k}
           T == [k \in 0..NAlts |-> Good(k)]
<1>1. AllAlts \in Seq(Alts) /\ Len(AllAlts) = NAlts /\ NAlts \in Nat /\ v.total \in Nat
      /\ Alts = 1..NAlts /\ \A a \in Alts : AllAlts[a] = a
  BY AllAltsIs, VolIs
<1>2. s \in Heading0 /\ Headed(v, s) /\ Len(s.lba) = 0
  <2>1. v \in Vols /\ s.v = v /\ s.lba = <<>> /\ <<>> \in Seq(Lbas)
    BY DEF VolOK, Vols
  <2>2. s \in Heading0
    BY <2>1 DEF Heading0
  <2>3. {s.lba[i] : i \in DOMAIN s.lba} = {}
    OBVIOUS
  <2> HIDE DEF s
  <2>4. Len(s.lba) = 0 /\ DOMAIN s.lba = {}
    BY <2>1
  <2>5. s.v.total = v.total - Len(s.lba)
    BY <1>1, <2>1, <2>4
  <2> QED
    BY <2>1, <2>2, <2>3, <2>4, <2>5 DEF Headed
<1>3. s \in T[0]
  <2> HIDE DEF s
  <2> QED
    BY <1>1, <1>2
<1>4. ASSUME NEW k \in 1..Len(AllAlts), NEW y \in T[k - 1] PROVE HeaderStep(y, AllAlts[k]) \in T[k]
  <2>1. k - 1 \in 0..NAlts /\ k \in 0..NAlts /\ AllAlts[k] \in Alts /\ k <= NAlts /\ k \in Nat
    BY <1>1
  <2>2. Headed(v, y) /\ Len(y.lba) = k - 1
    BY <2>1
  <2>3. y.v.total > 0
    <3>1. y.v.total = v.total - (k - 1)
      BY <2>2 DEF Headed
    <3> QED
      BY <1>1, <2>1, <3>1
  <2> DEFINE z == HeaderStep(y, AllAlts[k])
  <2>4. Headed(v, z) /\ Len(z.lba) = k
    <3>1. Headed(v, z) /\ Len(z.lba) = Len(y.lba) + 1
      BY <2>1, <2>2, <2>3, HeaderStepIs
    <3> QED
      BY <2>1, <2>2, <3>1
  <2> HIDE DEF z
  <2>5. z \in Heading0
    BY <2>4 DEF Headed
  <2> QED
    BY <2>1, <2>4, <2>5 DEF z
<1>5. h \in T[Len(AllAlts)]
  <2> HIDE DEF T, s
  <2> QED
    BY <1>1, <1>3, <1>4, HeaderFold, Zenon
<1>6. Headed(v, h) /\ Len(h.lba) = NAlts
  <2>1. NAlts \in 0..NAlts
    BY <1>1
  <2> HIDE DEF h
  <2> QED
    BY <1>1, <1>5, <2>1
<1> QED
  BY <1>6

-----------------------------------------------------------------------------
(* The sectors copy a of a file has, as header or as data.                 *)
Owns(h, d, a) ==
  IF d = "data" THEN Covered(h.rps[a])
  ELSE IF a \in DOMAIN h.lba THEN {h.lba[a]} ELSE {}

(* What an owner uses is what its file has.                                *)
LEMMA UsesIs ==
  ASSUME NEW fl, NEW o \in Owners
  PROVE  /\ o[1] \in Ids /\ o[2] \in {"hdr", "data"} /\ o[3] \in Alts
         /\ o = <<o[1], o[2], o[3]>> /\ Uses(fl)[o] = Owns(fl[o[1]], o[2], o[3])
BY DEF Owners, Uses, Owns, Ids

(* An owner is a file, a kind and a copy.                                  *)
LEMMA OwnerIs ==
  ASSUME NEW f \in Ids, NEW d \in {"hdr", "data"}, NEW a \in Alts
  PROVE  /\ <<f, d, a>> \in Owners
         /\ \A fl : Uses(fl)[<<f, d, a>>] = Owns(fl[f], d, a)
BY DEF Owners, Uses, Owns, Ids

(* The parts of a file.                                                    *)
LEMMA HeadIs ==
  ASSUME NEW h \in Heads
  PROVE  /\ h.lba \in Seq(Lbas) /\ h.rps \in [Alts -> Seq(Piece)] /\ h.clusters \in Nat
         /\ h = [lba |-> h.lba, rps |-> h.rps, clusters |-> h.clusters]
         /\ Len(h.lba) <= NAlts /\ DOMAIN h.lba \subseteq Alts
         /\ \A a \in Alts : Scattered(h.rps[a])
<1>1. h \in Heads0 /\ Len(h.lba) <= NAlts /\ \A a \in Alts : Scattered(h.rps[a])
  BY DEF Heads
<1>2. /\ h.lba \in Seq(Lbas) /\ h.rps \in [Alts -> Seq(Piece)] /\ h.clusters \in Nat
      /\ h = [lba |-> h.lba, rps |-> h.rps, clusters |-> h.clusters]
  BY <1>1 DEF Heads0
<1>3. DOMAIN h.lba = 1..Len(h.lba) /\ Len(h.lba) \in Nat
  BY <1>2
<1>4. Alts = 1..NAlts /\ NAlts \in Nat
  BY AllAltsIs
<1> QED
  BY <1>1, <1>2, <1>3, <1>4

(* A file from its parts.                                                  *)
LEMMA HeadMade ==
  ASSUME NEW l \in Seq(Lbas), NEW r \in [Alts -> Seq(Piece)], NEW c \in Nat, Len(l) <= NAlts,
         \A a \in Alts : Scattered(r[a]), l # <<>>
  PROVE  [lba |-> l, rps |-> r, clusters |-> c] \in Heads
BY DEF Heads, Heads0

(* A file that does not exist has nothing.                                 *)
LEMMA NoFileIs ==
  /\ NoFile \in Heads /\ NoFile.lba = <<>> /\ NoFile.rps \in [Alts -> Seq(Piece)]
  /\ \A a \in Alts : Scattered(NoFile.rps[a]) /\ Covered(NoFile.rps[a]) = {}
  /\ \A d, a : a \in Alts => Owns(NoFile, d, a) = {}
<1>1. NoFile.lba = <<>> /\ NoFile.rps = [a \in Alts |-> <<>>] /\ NoFile.clusters = 0
  BY DEF NoFile
<1>2. <<>> \in Seq(Lbas) /\ <<>> \in Seq(Piece) /\ Len(<<>>) = 0 /\ DOMAIN <<>> = {}
  OBVIOUS
<1>3. Scattered(<<>>) /\ Covered(<<>>) = {}
  BY <1>2 DEF Scattered, Covered
<1>4. NoFile \in Heads0
  BY <1>1, <1>2 DEF Heads0, NoFile
<1>5. Len(NoFile.lba) <= NAlts
  BY <1>1, <1>2, AllAltsIs
<1> QED
  BY <1>1, <1>2, <1>3, <1>4, <1>5 DEF Heads, Owns

(* What one file takes with its copies, the volume takes.                  *)
LEMMA LiftData ==
  ASSUME NEW fl \in Table, NEW f \in Ids, NEW h, h.lba = fl[f].lba, NEW F, NEW G,
         Takes(Alts, F, Own(fl[f].rps), G, Own(h.rps))
  PROVE  Takes(Owners, F, Uses(fl), G, Uses([fl EXCEPT ![f] = h]))
<1> DEFINE gl == [fl EXCEPT ![f] = h]
           o == Uses(fl)
           p == Uses(gl)
           q == Own(fl[f].rps)
           r == Own(h.rps)
<1>1. gl[f] = h /\ \A g \in Ids : g # f => gl[g] = fl[g]
  BY DEF Table
<1> HIDE DEF gl
<1>2. /\ G \subseteq F
      /\ \A a \in Alts : q[a] \subseteq r[a] /\ r[a] \ q[a] \subseteq F \ G
      /\ \A s \in F \ G : \E a \in Alts : s \in r[a]
      /\ \A a, b \in Alts : a # b => (r[a] \ q[a]) \cap (r[b] \ q[b]) = {}
  BY DEF Takes
<1>3. \A a \in Alts : q[a] = Owns(fl[f], "data", a) /\ r[a] = Owns(h, "data", a)
  BY DEF Own, Owns
<1> HIDE DEF q, r
<1>4. ASSUME NEW x \in Owners
      PROVE  \/ x[1] = f /\ x[2] = "data" /\ x[3] \in Alts /\ o[x] = q[x[3]] /\ p[x] = r[x[3]]
             \/ o[x] = p[x]
  <2>1. /\ x[1] \in Ids /\ x[2] \in {"hdr", "data"} /\ x[3] \in Alts
        /\ o[x] = Owns(fl[x[1]], x[2], x[3]) /\ p[x] = Owns(gl[x[1]], x[2], x[3])
    BY UsesIs
  <2> HIDE DEF o, p
  <2>2. CASE x[1] # f
    BY <1>1, <2>1, <2>2
  <2>3. CASE x[1] = f /\ x[2] = "hdr"
    BY <1>1, <2>1, <2>3 DEF Owns
  <2>4. CASE x[1] = f /\ x[2] = "data"
    BY <1>1, <1>3, <2>1, <2>4
  <2> QED
    BY <2>1, <2>2, <2>3, <2>4
<1>5. \A s \in F \ G : \E x \in Owners : s \in p[x]
  <2> SUFFICES ASSUME NEW s \in F \ G PROVE \E x \in Owners : s \in p[x]
    OBVIOUS
  <2>1. PICK a \in Alts : s \in r[a]
    BY <1>2
  <2>2. <<f, "data", a>> \in Owners /\ p[<<f, "data", a>>] = Owns(gl[f], "data", a)
    BY OwnerIs
  <2> HIDE DEF p
  <2> QED
    BY <1>1, <1>3, <2>1, <2>2
<1>6. ASSUME NEW x \in Owners, NEW y \in Owners, x # y PROVE (p[x] \ o[x]) \cap (p[y] \ o[y]) = {}
  <2>1. x = <<x[1], x[2], x[3]>> /\ y = <<y[1], y[2], y[3]>>
    BY UsesIs
  <2> HIDE DEF o, p
  <2>2. CASE o[x] = p[x] \/ o[y] = p[y]
    BY <2>2
  <2>3. CASE o[x] # p[x] /\ o[y] # p[y]
    <3>1. /\ x[1] = f /\ x[2] = "data" /\ x[3] \in Alts /\ o[x] = q[x[3]] /\ p[x] = r[x[3]]
          /\ y[1] = f /\ y[2] = "data" /\ y[3] \in Alts /\ o[y] = q[y[3]] /\ p[y] = r[y[3]]
      BY <1>4, <2>3
    <3>2. x[3] # y[3]
      BY <1>6, <2>1, <3>1
    <3> QED
      BY <1>2, <3>1, <3>2
  <2> QED
    BY <2>2, <2>3
<1> HIDE DEF o, p
<1>7. \A x \in Owners : o[x] \subseteq p[x] /\ p[x] \ o[x] \subseteq F \ G
  BY <1>2, <1>4
<1> QED
  BY <1>2, <1>5, <1>6, <1>7 DEF Takes, o, p, gl

(* And what it takes for its headers.                                      *)
LEMMA LiftHeaders ==
  ASSUME NEW fl \in Table, NEW f \in Ids, NEW h, h.rps = fl[f].rps, fl[f].lba = <<>>,
         DOMAIN h.lba \subseteq Alts, NEW F, NEW G, G \subseteq F,
         {h.lba[i] : i \in DOMAIN h.lba} = F \ G,
         \A i, j \in DOMAIN h.lba : i # j => h.lba[i] # h.lba[j]
  PROVE  Takes(Owners, F, Uses(fl), G, Uses([fl EXCEPT ![f] = h]))
<1> DEFINE gl == [fl EXCEPT ![f] = h]
           o == Uses(fl)
           p == Uses(gl)
<1>1. gl[f] = h /\ \A g \in Ids : g # f => gl[g] = fl[g]
  BY DEF Table
<1> HIDE DEF gl
<1>2. \A i \in DOMAIN h.lba : h.lba[i] \in F \ G
  OBVIOUS
<1>3. ASSUME NEW x \in Owners
      PROVE  \/ /\ x[1] = f /\ x[2] = "hdr" /\ x[3] \in DOMAIN h.lba
                /\ o[x] = {} /\ p[x] = {h.lba[x[3]]}
             \/ o[x] = p[x]
  <2>1. /\ x[1] \in Ids /\ x[2] \in {"hdr", "data"} /\ x[3] \in Alts
        /\ o[x] = Owns(fl[x[1]], x[2], x[3]) /\ p[x] = Owns(gl[x[1]], x[2], x[3])
    BY UsesIs
  <2> HIDE DEF o, p
  <2>2. CASE x[1] # f
    BY <1>1, <2>1, <2>2
  <2>3. CASE x[1] = f /\ x[2] = "data"
    BY <1>1, <2>1, <2>3 DEF Owns
  <2>4. CASE x[1] = f /\ x[2] = "hdr"
    <3>1. "hdr" # "data" /\ DOMAIN fl[f].lba = {}
      OBVIOUS
    <3> QED
      BY <1>1, <2>1, <2>4, <3>1 DEF Owns
  <2> QED
    BY <2>1, <2>2, <2>3, <2>4
<1>4. \A s \in F \ G : \E x \in Owners : s \in p[x]
  <2> SUFFICES ASSUME NEW s \in F \ G PROVE \E x \in Owners : s \in p[x]
    OBVIOUS
  <2>1. PICK a \in DOMAIN h.lba : s = h.lba[a]
    OBVIOUS
  <2>2. <<f, "hdr", a>> \in Owners /\ p[<<f, "hdr", a>>] = Owns(gl[f], "hdr", a)
    BY OwnerIs
  <2>3. Owns(h, "hdr", a) = {h.lba[a]}
    BY DEF Owns
  <2> HIDE DEF p
  <2> QED
    BY <1>1, <2>1, <2>2, <2>3
<1>5. ASSUME NEW x \in Owners, NEW y \in Owners, x # y PROVE (p[x] \ o[x]) \cap (p[y] \ o[y]) = {}
  <2>1. x = <<x[1], x[2], x[3]>> /\ y = <<y[1], y[2], y[3]>>
    BY UsesIs
  <2> HIDE DEF o, p
  <2>2. CASE o[x] = p[x] \/ o[y] = p[y]
    BY <2>2
  <2>3. CASE o[x] # p[x] /\ o[y] # p[y]
    <3>1. /\ x[1] = f /\ x[2] = "hdr" /\ x[3] \in DOMAIN h.lba /\ p[x] = {h.lba[x[3]]}
          /\ y[1] = f /\ y[2] = "hdr" /\ y[3] \in DOMAIN h.lba /\ p[y] = {h.lba[y[3]]}
      BY <1>3, <2>3
    <3>2. x[3] # y[3]
      BY <1>5, <2>1, <3>1
    <3>3. h.lba[x[3]] # h.lba[y[3]]
      BY <3>1, <3>2
    <3> QED
      BY <3>1, <3>3
  <2> QED
    BY <2>2, <2>3
<1> HIDE DEF o, p
<1>6. \A x \in Owners : o[x] \subseteq p[x] /\ p[x] \ o[x] \subseteq F \ G
  BY <1>2, <1>3
<1> QED
  BY <1>4, <1>5, <1>6 DEF Takes, o, p, gl

-----------------------------------------------------------------------------
(* Files took free sectors.                                                *)
Allots(v, fl, w, gl, m) ==
  Sound(w, gl, m) /\ Takes(Owners, Covered(v.free), Uses(fl), Covered(w.free), Uses(gl))

(* What is not free stays alone beside less that is free.                  *)
LEMMA AloneBeside ==
  ASSUME NEW D, NEW F, NEW o, NEW G, NEW p, NEW M, Takes(D, F, o, G, p), Alone(D, F \cup M, o),
         F \cap M = {}
  PROVE  Alone(D, G \cup M, p)
<1>1. Alone(D, F, o)
  BY DEF Alone
<1>2. Alone(D, G, p)
  BY <1>1, TakesAlone
<1>3. ASSUME NEW x \in D, NEW s, s \in p[x], s \in M PROVE FALSE
  <2>1. s \notin o[x]
    BY <1>3 DEF Alone
  <2>2. p[x] \ o[x] \subseteq F
    BY DEF Takes
  <2> QED
    BY <1>3, <2>1, <2>2
<1> QED
  BY <1>2, <1>3 DEF Alone

(* Files that took free sectors, on a sound volume, make one.              *)
LEMMA Allotted ==
  ASSUME NEW v, NEW fl, NEW m, Sound(v, fl, m), NEW w, VolOK(w), NEW gl \in Table,
         Takes(Owners, Covered(v.free), Uses(fl), Covered(w.free), Uses(gl)),
         \A o \in System : gl[o].lba # <<>>
  PROVE  Allots(v, fl, w, gl, m)
<1>1. /\ m \in Seq(Piece) /\ Scattered(m) /\ Covered(v.free) \cap Covered(m) = {}
      /\ Alone(Owners, Covered(v.free) \cup Covered(m), Uses(fl))
  BY DEF Sound
<1>2. Covered(w.free) \subseteq Covered(v.free)
  BY DEF Takes
<1>3. Alone(Owners, Covered(w.free) \cup Covered(m), Uses(gl))
  BY <1>1, AloneBeside
<1> QED
  BY <1>1, <1>2, <1>3 DEF Sound, Allots

(* Two allotments are one.                                                 *)
LEMMA AllotsTrans ==
  ASSUME NEW v, NEW fl, NEW w, NEW gl, NEW x, NEW hl, NEW m,
         Allots(v, fl, w, gl, m), Allots(w, gl, x, hl, m)
  PROVE  Allots(v, fl, x, hl, m)
BY TakesTrans, Zenon DEF Allots

(* No change is an allotment.                                              *)
LEMMA AllotsNone ==
  ASSUME NEW v, NEW fl, NEW m, Sound(v, fl, m)
  PROVE  Allots(v, fl, v, fl, m)
BY TakesNone, Zenon DEF Allots

(* File f with other copies.                                               *)
Reach(fl, f, rps, c) == [fl EXCEPT ![f] = Holding(fl[f], rps, c)]

(* A file with other copies has the same headers.                          *)
LEMMA HoldingIs ==
  ASSUME NEW h, h \in Heads0, NEW r, NEW c
  PROVE  Holding(h, r, c) = [lba |-> h.lba, rps |-> r, clusters |-> c]
<1> DEFINE l == h.lba
           k == h.clusters
<1>1. [h EXCEPT !.rps = r] = [lba |-> l, rps |-> r, clusters |-> k]
  BY DEF Heads0
<1>2. Holding(h, r, c) = [[h EXCEPT !.rps = r] EXCEPT !.clusters = c]
  BY DEF Holding
<1> HIDE DEF l, k
<1>3. [[lba |-> l, rps |-> r, clusters |-> k] EXCEPT !.clusters = c]
        = [lba |-> l, rps |-> r, clusters |-> c]
  OBVIOUS
<1> QED
  BY <1>1, <1>2, <1>3 DEF l

(* Copies that grew are an allotment of the volume.                        *)
LEMMA ReachIs ==
  ASSUME NEW fl \in Table, NEW f \in Ids, NEW r, NEW c
  PROVE  /\ Reach(fl, f, r, c) = [fl EXCEPT ![f] = [lba |-> fl[f].lba, rps |-> r, clusters |-> c]]
         /\ Reach(fl, f, r, c)[f] = [lba |-> fl[f].lba, rps |-> r, clusters |-> c]
         /\ \A g \in Ids : g # f => Reach(fl, f, r, c)[g] = fl[g]
<1>1. fl[f] \in Heads0 /\ DOMAIN fl = Ids
  BY DEF Table, Heads
<1>2. Holding(fl[f], r, c) = [lba |-> fl[f].lba, rps |-> r, clusters |-> c]
  BY <1>1, HoldingIs
<1> QED
  BY <1>1, <1>2 DEF Reach

(* Copies of a file that exists, extended.                                 *)
LEMMA ExtendIn ==
  ASSUME NEW v, NEW fl, NEW m, Sound(v, fl, m), NEW f \in Ids, fl[f].lba # <<>>,
         NEW alts, NEW n \in Nat, NEW c \in Nat
  PROVE  LET x == ExtendCopies(v, fl[f].rps, alts, n)
         IN  /\ Allots(v, fl, x.v, Reach(fl, f, x.rps, c), m)
             /\ x.done \in Nat /\ x.sts \in Statuses
<1> DEFINE x == ExtendCopies(v, fl[f].rps, alts, n)
           h == [lba |-> fl[f].lba, rps |-> x.rps, clusters |-> c]
           gl == Reach(fl, f, x.rps, c)
           F == Covered(v.free)
           G == Covered(x.v.free)
<1>1. /\ VolOK(v) /\ fl \in Table /\ fl[f] \in Heads
      /\ Alone(Owners, F \cup Covered(m), Uses(fl)) /\ \A o \in System : fl[o].lba # <<>>
  BY DEF Sound, Table
<1>2. /\ fl[f].lba \in Seq(Lbas) /\ fl[f].rps \in [Alts -> Seq(Piece)] /\ Len(fl[f].lba) <= NAlts
      /\ \A a \in Alts : Scattered(fl[f].rps[a])
  BY <1>1, HeadIs
<1>3. \A a \in Alts : Covered(fl[f].rps[a]) \cap F = {}
  <2> SUFFICES ASSUME NEW a \in Alts PROVE Covered(fl[f].rps[a]) \cap F = {}
    OBVIOUS
  <2>1. <<f, "data", a>> \in Owners /\ Uses(fl)[<<f, "data", a>>] = Owns(fl[f], "data", a)
    BY OwnerIs
  <2>2. Owns(fl[f], "data", a) = Covered(fl[f].rps[a])
    BY DEF Owns
  <2> QED
    BY <1>1, <2>1, <2>2 DEF Alone
<1>4. CopyOK(x) /\ Takes(Alts, F, Own(fl[f].rps), G, Own(x.rps))
  BY <1>1, <1>2, <1>3, ExtendCopiesIs
<1> HIDE DEF x, F, G
<1>5. /\ VolOK(x.v) /\ x.rps \in [Alts -> Seq(Piece)] /\ x.done \in Nat /\ x.sts \in Statuses
      /\ \A a \in Alts : Scattered(x.rps[a])
  BY <1>4 DEF CopyOK, Copies
<1>6. h \in Heads /\ h.lba = fl[f].lba /\ h.rps = x.rps
  BY <1>2, <1>5, HeadMade
<1> HIDE DEF h
<1>7. gl = [fl EXCEPT ![f] = h]
  <2>1. fl[f] \in Heads0
    BY <1>1 DEF Heads
  <2>2. Holding(fl[f], x.rps, c) = h
    BY <2>1, HoldingIs DEF h
  <2> QED
    BY <2>2 DEF Reach
<1> HIDE DEF gl
<1>8. gl \in Table /\ \A o \in System : gl[o].lba # <<>>
  BY <1>1, <1>6, <1>7 DEF Table
<1>9. Takes(Owners, F, Uses(fl), G, Uses(gl))
  BY <1>1, <1>4, <1>6, <1>7, LiftData
<1>10. Allots(v, fl, x.v, gl, m)
  BY <1>5, <1>8, <1>9, Allotted DEF F, G
<1> QED
  BY <1>5, <1>10 DEF x, gl

(* The headers of a file that did not exist.                               *)
LEMMA HeadersIn ==
  ASSUME NEW v, NEW fl, NEW m, Sound(v, fl, m), NEW f \in Ids, fl[f].lba = <<>>,
         NEW s, Headed(v, s), Len(s.lba) = NAlts, NEW c \in Nat
  PROVE  Allots(v, fl, s.v, [fl EXCEPT ![f] = [lba |-> s.lba, rps |-> NoFile.rps, clusters |-> c]],
                m)
<1> DEFINE h == [lba |-> s.lba, rps |-> NoFile.rps, clusters |-> c]
           gl == [fl EXCEPT ![f] = h]
           F == Covered(v.free)
           G == Covered(s.v.free)
<1>1. fl \in Table /\ fl[f] \in Heads /\ (\A o \in System : fl[o].lba # <<>>) /\ f \notin System
  BY DEF Sound, Table
<1>2. fl[f] = NoFile
  BY <1>1 DEF Heads
<1>3. /\ s.lba \in Seq(Lbas) /\ VolOK(s.v) /\ G \subseteq F
      /\ {s.lba[i] : i \in DOMAIN s.lba} = F \ G
      /\ \A i, j \in DOMAIN s.lba : i # j => s.lba[i] # s.lba[j]
  BY DEF Headed, Heading0
<1>4. s.lba # <<>> /\ NAlts \in Nat \ {0}
  BY AllAltsIs
<1> HIDE DEF F, G
<1>5. h \in Heads /\ h.lba = s.lba /\ h.rps = NoFile.rps
  BY <1>3, <1>4, HeadMade, NoFileIs
<1> HIDE DEF h
<1>6. DOMAIN h.lba \subseteq Alts
  BY <1>5, HeadIs
<1>7. Takes(Owners, F, Uses(fl), G, Uses(gl))
  <2>1. h.rps = fl[f].rps
    BY <1>2, <1>5
  <2>2. {h.lba[i] : i \in DOMAIN h.lba} = F \ G
    BY <1>3, <1>5
  <2>3. \A i, j \in DOMAIN h.lba : i # j => h.lba[i] # h.lba[j]
    BY <1>3, <1>5
  <2> QED
    BY <1>1, <1>3, <1>6, <2>1, <2>2, <2>3, LiftHeaders, Zenon
<1>8. gl \in Table /\ \A o \in System : gl[o].lba # <<>>
  BY <1>1, <1>5 DEF Table
<1> HIDE DEF gl
<1>9. Allots(v, fl, s.v, gl, m)
  BY <1>3, <1>7, <1>8, Allotted DEF F, G
<1> QED
  BY <1>9 DEF gl, h

(* Two lists that share no sector.                                         *)
LEMMA ConcatIs ==
  ASSUME NEW l \in Seq(Piece), NEW m \in Seq(Piece), Scattered(l), Scattered(m),
         Covered(l) \cap Covered(m) = {}
  PROVE  /\ l \o m \in Seq(Piece) /\ Scattered(l \o m)
         /\ Covered(l \o m) = Covered(l) \cup Covered(m)
<1> DEFINE c == l \o m
           at(i) == i - Len(l)
<1>1. /\ Len(l) \in Nat /\ Len(m) \in Nat /\ DOMAIN l = 1..Len(l) /\ DOMAIN m = 1..Len(m)
  OBVIOUS
<1>2. /\ c \in Seq(Piece) /\ Len(c) = Len(l) + Len(m)
      /\ \A i \in 1..Len(l) + Len(m) : c[i] = IF i <= Len(l) THEN l[i] ELSE m[at(i)]
  BY ConcatProperties
<1> HIDE DEF c
<1>3. DOMAIN c = 1..(Len(l) + Len(m))
  BY <1>2
<1>4. ASSUME NEW i \in DOMAIN c
      PROVE  \/ i \in DOMAIN l /\ c[i] = l[i] /\ i <= Len(l)
             \/ at(i) \in DOMAIN m /\ c[i] = m[at(i)] /\ ~ (i <= Len(l))
  BY <1>1, <1>2, <1>3
<1>5. \A i \in DOMAIN l : i \in DOMAIN c /\ c[i] = l[i]
  BY <1>1, <1>2, <1>3
<1>6. \A i \in DOMAIN m : i + Len(l) \in DOMAIN c /\ c[i + Len(l)] = m[i]
  BY <1>1, <1>2, <1>3
<1>7. \A s : s \in Covered(c) <=> s \in Covered(l) \/ s \in Covered(m)
  <2> SUFFICES ASSUME NEW s PROVE s \in Covered(c) <=> s \in Covered(l) \/ s \in Covered(m)
    OBVIOUS
  <2>1. ASSUME s \in Covered(c) PROVE s \in Covered(l) \/ s \in Covered(m)
    BY <1>4, <2>1, CoveredIn
  <2>2. ASSUME s \in Covered(l) PROVE s \in Covered(c)
    BY <1>5, <2>2, CoveredIn
  <2>3. ASSUME s \in Covered(m) PROVE s \in Covered(c)
    BY <1>6, <2>3, CoveredIn
  <2> QED
    BY <2>1, <2>2, <2>3
<1>8. ASSUME NEW i \in DOMAIN c, NEW j \in DOMAIN c, i # j, NEW s,
             s \in SectorsOf(c[i]), s \in SectorsOf(c[j])
      PROVE  FALSE
  <2>1. \A k \in DOMAIN l : s \in SectorsOf(l[k]) => s \in Covered(l)
    BY CoveredIn
  <2>2. \A k \in DOMAIN m : s \in SectorsOf(m[k]) => s \in Covered(m)
    BY CoveredIn
  <2>3. ~ (s \in Covered(l) /\ s \in Covered(m))
    OBVIOUS
  <2>4. CASE i <= Len(l) /\ j <= Len(l)
    BY <1>4, <1>8, <2>4 DEF Scattered
  <2>5. CASE ~ (i <= Len(l)) /\ ~ (j <= Len(l))
    <3>1. at(i) # at(j)
      BY <1>1, <1>3, <1>8
    <3> QED
      BY <1>4, <1>8, <2>5, <3>1 DEF Scattered
  <2>6. CASE i <= Len(l) /\ ~ (j <= Len(l))
    BY <1>4, <1>8, <2>1, <2>2, <2>3, <2>6
  <2>7. CASE ~ (i <= Len(l)) /\ j <= Len(l)
    BY <1>4, <1>8, <2>1, <2>2, <2>3, <2>7
  <2> QED
    BY <2>4, <2>5, <2>6, <2>7
<1>9. Scattered(c)
  BY <1>8 DEF Scattered
<1> QED
  BY <1>2, <1>7, <1>9 DEF c

(* The pointers of a file, one copy after the other.                       *)
LEMMA PointersIs ==
  ASSUME NEW h \in Heads,
         \A a, b \in Alts : a # b => Covered(h.rps[a]) \cap Covered(h.rps[b]) = {}
  PROVE  /\ Pointers(h) \in Seq(Piece) /\ Scattered(Pointers(h))
         /\ Covered(Pointers(h)) = UNION {Covered(h.rps[a]) : a \in Alts}
<1> DEFINE r == h.rps
           Upto(k) == UNION {Covered(r[a]) : a \in 1..k}
           Good(k) == {y \in Seq(Piece) : Scattered(y) /\ Covered(y) = Upto(k)}
           T == [k \in 0..NAlts |-> Good(k)]
<1>1. Alts = 1..NAlts /\ NAlts \in Nat
  BY AllAltsIs
<1>2. r \in [Alts -> Seq(Piece)] /\ \A a \in Alts : Scattered(r[a])
  BY HeadIs
<1> HIDE DEF r
<1>3. r \in Seq(Seq(Piece)) /\ Len(r) = NAlts
  BY <1>1, <1>2
<1>4. <<>> \in T[0]
  <2>1. <<>> \in Seq(Piece) /\ DOMAIN <<>> = {}
    OBVIOUS
  <2>2. Scattered(<<>>) /\ Covered(<<>>) = {}
    BY <2>1 DEF Scattered, Covered
  <2>3. Upto(0) = {}
    OBVIOUS
  <2>4. 0 \in 0..NAlts
    BY <1>1
  <2> HIDE DEF Upto
  <2> QED
    BY <2>1, <2>2, <2>3, <2>4
<1>5. ASSUME NEW k \in 1..Len(r), NEW x \in T[k - 1] PROVE Concat(x, r[k]) \in T[k]
  <2>1. k - 1 \in 0..NAlts /\ k \in 0..NAlts /\ k \in Alts /\ k \in Nat
    BY <1>1, <1>3
  <2>2. x \in Seq(Piece) /\ Scattered(x) /\ Covered(x) = Upto(k - 1)
    <3> HIDE DEF Upto
    <3> QED
      BY <2>1
  <2>3. Upto(k) = Upto(k - 1) \cup Covered(r[k])
    <3>1. 1..k = 1..(k - 1) \cup {k}
      BY <2>1
    <3> QED
      BY <3>1
  <2>4. Upto(k - 1) \cap Covered(r[k]) = {}
    <3> SUFFICES ASSUME NEW j \in 1..(k - 1) PROVE Covered(r[j]) \cap Covered(r[k]) = {}
      OBVIOUS
    <3>1. j \in Alts /\ j # k
      BY <1>1, <2>1
    <3> QED
      BY <2>1, <3>1 DEF r
  <2> HIDE DEF Upto
  <2>5. r[k] \in Seq(Piece) /\ Scattered(r[k])
    BY <1>2, <2>1
  <2> DEFINE z == x \o r[k]
  <2>6. z \in Seq(Piece) /\ Scattered(z) /\ Covered(z) = Covered(x) \cup Covered(r[k])
    BY <2>2, <2>4, <2>5, ConcatIs
  <2> HIDE DEF z
  <2>7. z \in T[k]
    BY <2>1, <2>2, <2>3, <2>6
  <2> QED
    BY <2>7 DEF z, Concat
<1>6. FoldLeft(Concat, <<>>, r) \in T[Len(r)]
  <2> HIDE DEF T
  <2> QED
    BY <1>3, <1>4, <1>5, ConcatFold, Zenon
<1> DEFINE p == FoldLeft(Concat, <<>>, r)
<1>7. p \in Good(NAlts)
  <2>1. NAlts \in 0..NAlts
    BY <1>1
  <2> HIDE DEF Good
  <2> QED
    BY <1>3, <1>6, <2>1
<1>8. Upto(NAlts) = UNION {Covered(r[a]) : a \in Alts}
  BY <1>1
<1> HIDE DEF Upto, p
<1>9. p = Pointers(h)
  BY DEF p, Pointers, r
<1> QED
  BY <1>7, <1>8, <1>9 DEF r

(* A header's sector as an extent.                                         *)
LEMMA SectorIs ==
  ASSUME NEW s \in Lbas
  PROVE  Sector(s) \in Piece /\ SectorsOf(Sector(s)) = {s}
<1>1. s \in Nat \ {0} /\ 1 \in Nat \ {0} /\ s + 1 <= MaxLba
  BY VolumeAssumption DEF Lbas
<1>2. [start |-> s, n |-> 1] \in Piece
  BY <1>1, PieceMade
<1>3. SectorsOf([start |-> s, n |-> 1]) = {s}
  BY <1>1 DEF SectorsOf, End
<1> QED
  BY <1>2, <1>3 DEF Sector

(* The headers of a file, as extents.                                      *)
LEMMA SectorsAre ==
  ASSUME NEW l \in Seq(Lbas), \A i, j \in DOMAIN l : i # j => l[i] # l[j]
  PROVE  LET c == [a \in DOMAIN l |-> Sector(l[a])]
         IN  c \in Seq(Piece) /\ Scattered(c) /\ Covered(c) = {l[a] : a \in DOMAIN l}
<1> DEFINE c == [a \in DOMAIN l |-> Sector(l[a])]
<1>1. DOMAIN l = 1..Len(l) /\ Len(l) \in Nat
  OBVIOUS
<1>2. \A a \in DOMAIN l : c[a] = Sector(l[a]) /\ l[a] \in Lbas
  OBVIOUS
<1>3. DOMAIN c = DOMAIN l /\ c \in Seq(Piece)
  <2>1. c \in [1..Len(l) -> Piece]
    BY <1>1, <1>2, SectorIs
  <2> QED
    BY <1>1, <2>1
<1> HIDE DEF c
<1>4. \A a \in DOMAIN c : SectorsOf(c[a]) = {l[a]}
  BY <1>2, <1>3, SectorIs
<1>5. Scattered(c)
  <2> SUFFICES ASSUME NEW i \in DOMAIN c, NEW j \in DOMAIN c, i # j
               PROVE  SectorsOf(c[i]) \cap SectorsOf(c[j]) = {}
    BY DEF Scattered
  <2>1. l[i] # l[j]
    BY <1>3
  <2> QED
    BY <1>4, <2>1
<1>6. Covered(c) = {l[a] : a \in DOMAIN l}
  BY <1>3, <1>4 DEF Covered
<1> QED
  BY <1>3, <1>5, <1>6 DEF c

-----------------------------------------------------------------------------
(* The sectors of a file.                                                  *)
Used(h) == (UNION {Covered(h.rps[a]) : a \in Alts}) \cup {h.lba[a] : a \in DOMAIN h.lba}

(* A sector of a file is in a copy, or is a header.                        *)
LEMMA UsedIn ==
  ASSUME NEW h, NEW s
  PROVE  s \in Used(h) <=> \/ \E a \in Alts : s \in Covered(h.rps[a])
                           \/ \E a \in DOMAIN h.lba : s = h.lba[a]
<1> DEFINE A == UNION {Covered(h.rps[a]) : a \in Alts}
           B == {h.lba[a] : a \in DOMAIN h.lba}
<1>1. Used(h) = A \cup B
  BY Zenon DEF Used
<1>2. s \in A <=> \E a \in Alts : s \in Covered(h.rps[a])
  OBVIOUS
<1>3. s \in B <=> \E a \in DOMAIN h.lba : s = h.lba[a]
  OBVIOUS
<1> HIDE DEF A, B
<1> QED
  BY <1>1, <1>2, <1>3

(* The sectors of a file are those of its owners.                          *)
LEMMA UsedIs ==
  ASSUME NEW fl \in Table, NEW f \in Ids, NEW s
  PROVE  s \in Used(fl[f]) <=> \E o \in Owners : o[1] = f /\ s \in Uses(fl)[o]
<1> DEFINE u == Uses(fl)
           h == fl[f]
<1>1. h \in Heads
  BY DEF Table
<1>2. DOMAIN h.lba \subseteq Alts
  BY <1>1, HeadIs
<1>3. ASSUME s \in Used(h) PROVE \E o \in Owners : o[1] = f /\ s \in u[o]
  <2>1. CASE \E a \in Alts : s \in Covered(h.rps[a])
    <3>1. PICK a \in Alts : s \in Covered(h.rps[a])
      BY <2>1
    <3>2. <<f, "data", a>> \in Owners /\ u[<<f, "data", a>>] = Owns(h, "data", a)
      BY OwnerIs
    <3>3. Owns(h, "data", a) = Covered(h.rps[a])
      BY DEF Owns
    <3> HIDE DEF u, h
    <3>4. <<f, "data", a>>[1] = f
      OBVIOUS
    <3> QED
      BY <3>1, <3>2, <3>3, <3>4
  <2>2. CASE \E a \in DOMAIN h.lba : s = h.lba[a]
    <3>1. PICK a \in DOMAIN h.lba : s = h.lba[a]
      BY <2>2
    <3>2. <<f, "hdr", a>> \in Owners /\ u[<<f, "hdr", a>>] = Owns(h, "hdr", a)
      BY <1>2, OwnerIs
    <3>3. Owns(h, "hdr", a) = {h.lba[a]}
      BY DEF Owns
    <3> HIDE DEF u, h
    <3>4. <<f, "hdr", a>>[1] = f
      OBVIOUS
    <3> QED
      BY <3>1, <3>2, <3>3, <3>4
  <2> QED
    BY <1>3, <2>1, <2>2, UsedIn
<1>4. ASSUME NEW o \in Owners, o[1] = f, s \in u[o] PROVE s \in Used(h)
  <2>1. u[o] = Owns(h, o[2], o[3]) /\ o[3] \in Alts
    BY <1>4, UsesIs
  <2> HIDE DEF u, h
  <2>2. CASE o[2] = "data"
    BY <1>4, <2>1, <2>2, UsedIn DEF Owns
  <2>3. CASE o[2] # "data"
    BY <1>4, <2>1, <2>3, UsedIn DEF Owns
  <2> QED
    BY <2>2, <2>3
<1> QED
  BY <1>3, <1>4

(* What fsys_delete puts in limbo is what the file had, once.              *)
LEMMA FreedIs ==
  ASSUME NEW fl \in Table, NEW F, Alone(Owners, F, Uses(fl)), NEW f \in Ids
  PROVE  /\ Freed(fl[f]) \in Seq(Piece) /\ Scattered(Freed(fl[f]))
         /\ Covered(Freed(fl[f])) = Used(fl[f])
<1> DEFINE h == fl[f]
           u == Uses(fl)
           c == [a \in DOMAIN h.lba |-> Sector(h.lba[a])]
<1>1. h \in Heads
  BY DEF Table
<1>2. h.lba \in Seq(Lbas) /\ DOMAIN h.lba \subseteq Alts
  BY <1>1, HeadIs
<1>3. \A x, y \in Owners : x # y => u[x] \cap u[y] = {}
  BY DEF Alone
<1>4. \A a \in Alts : <<f, "data", a>> \in Owners /\ u[<<f, "data", a>>] = Covered(h.rps[a])
  <2> SUFFICES ASSUME NEW a \in Alts
               PROVE  <<f, "data", a>> \in Owners /\ u[<<f, "data", a>>] = Covered(h.rps[a])
    OBVIOUS
  <2>1. <<f, "data", a>> \in Owners /\ u[<<f, "data", a>>] = Owns(h, "data", a)
    BY OwnerIs
  <2> HIDE DEF u, h
  <2> QED
    BY <2>1 DEF Owns
<1>5. \A a \in DOMAIN h.lba : <<f, "hdr", a>> \in Owners /\ u[<<f, "hdr", a>>] = {h.lba[a]}
  <2> SUFFICES ASSUME NEW a \in DOMAIN h.lba
               PROVE  <<f, "hdr", a>> \in Owners /\ u[<<f, "hdr", a>>] = {h.lba[a]}
    OBVIOUS
  <2>1. <<f, "hdr", a>> \in Owners /\ u[<<f, "hdr", a>>] = Owns(h, "hdr", a)
    BY <1>2, OwnerIs
  <2>2. Owns(h, "hdr", a) = {h.lba[a]}
    BY DEF Owns
  <2> HIDE DEF u, h
  <2> QED
    BY <2>1, <2>2
<1> HIDE DEF u, h
<1>6. \A a, b \in Alts : a # b => Covered(h.rps[a]) \cap Covered(h.rps[b]) = {}
  <2> SUFFICES ASSUME NEW a \in Alts, NEW b \in Alts, a # b
               PROVE  Covered(h.rps[a]) \cap Covered(h.rps[b]) = {}
    OBVIOUS
  <2>1. <<f, "data", a>> # <<f, "data", b>>
    OBVIOUS
  <2> QED
    BY <1>3, <1>4, <2>1
<1>7. \A a, b \in DOMAIN h.lba : a # b => h.lba[a] # h.lba[b]
  <2> SUFFICES ASSUME NEW a \in DOMAIN h.lba, NEW b \in DOMAIN h.lba, a # b
               PROVE  {h.lba[a]} \cap {h.lba[b]} = {}
    OBVIOUS
  <2>1. <<f, "hdr", a>> # <<f, "hdr", b>>
    OBVIOUS
  <2> QED
    BY <1>3, <1>5, <2>1
<1>8. \A a \in Alts, b \in DOMAIN h.lba : Covered(h.rps[a]) \cap {h.lba[b]} = {}
  <2> SUFFICES ASSUME NEW a \in Alts, NEW b \in DOMAIN h.lba
               PROVE  Covered(h.rps[a]) \cap {h.lba[b]} = {}
    OBVIOUS
  <2>1. <<f, "data", a>> # <<f, "hdr", b>>
    OBVIOUS
  <2> QED
    BY <1>3, <1>4, <1>5, <2>1
<1>9. /\ Pointers(h) \in Seq(Piece) /\ Scattered(Pointers(h))
      /\ Covered(Pointers(h)) = UNION {Covered(h.rps[a]) : a \in Alts}
  BY <1>1, <1>6, PointersIs
<1>10. c \in Seq(Piece) /\ Scattered(c) /\ Covered(c) = {h.lba[a] : a \in DOMAIN h.lba}
  BY <1>2, <1>7, SectorsAre
<1>11. Freed(h) = Pointers(h) \o c
  BY DEF Freed
<1> HIDE DEF c
<1>12. Covered(Pointers(h)) \cap Covered(c) = {}
  BY <1>8, <1>9, <1>10
<1>13. /\ Pointers(h) \o c \in Seq(Piece) /\ Scattered(Pointers(h) \o c)
       /\ Covered(Pointers(h) \o c) = Covered(Pointers(h)) \cup Covered(c)
  BY <1>9, <1>10, <1>12, ConcatIs
<1>14. Covered(Freed(h)) = Used(h)
  <2> DEFINE A == UNION {Covered(h.rps[a]) : a \in Alts}
             B == {h.lba[a] : a \in DOMAIN h.lba}
  <2>1. Used(h) = A \cup B
    BY Zenon DEF Used
  <2>2. Covered(Pointers(h)) = A /\ Covered(c) = B
    BY <1>9, <1>10, Zenon
  <2> HIDE DEF A, B
  <2> QED
    BY <1>11, <1>13, <2>1, <2>2
<1> QED
  BY <1>11, <1>13, <1>14 DEF h

(* A file gives up what it has.                                            *)
Releases(v, fl, m, f, gl, n) ==
  /\ Sound(v, gl, n) /\ Covered(n) = Covered(m) \cup Used(fl[f])
  /\ \A o \in Owners : Uses(gl)[o] = IF o[1] = f THEN {} ELSE Uses(fl)[o]

(* A file that goes gives all it had to limbo.                             *)
LEMMA ReleaseIs ==
  ASSUME NEW v, NEW fl, NEW m, Sound(v, fl, m), NEW f \in Files
  PROVE  Releases(v, fl, m, f, [fl EXCEPT ![f] = NoFile], Freed(fl[f]) \o m)
<1> DEFINE gl == [fl EXCEPT ![f] = NoFile]
           n == Freed(fl[f]) \o m
           F == Covered(v.free)
           M == Covered(m)
           o == Uses(fl)
           p == Uses(gl)
           U == Used(fl[f])
<1>1. /\ VolOK(v) /\ fl \in Table /\ m \in Seq(Piece) /\ Scattered(m) /\ F \cap M = {}
      /\ Alone(Owners, F \cup M, o) /\ \A x \in System : fl[x].lba # <<>>
      /\ f \in Ids /\ f \notin System
  BY FilesAssumption DEF Sound, Ids
<1>2. /\ Freed(fl[f]) \in Seq(Piece) /\ Scattered(Freed(fl[f])) /\ Covered(Freed(fl[f])) = U
  BY <1>1, FreedIs
<1>3. gl \in Table /\ gl[f] = NoFile /\ \A g \in Ids : g # f => gl[g] = fl[g]
  BY <1>1, NoFileIs DEF Table
<1>4. \A x \in System : gl[x].lba # <<>>
  BY <1>1, <1>3 DEF Ids
<1> HIDE DEF gl
<1>5. ASSUME NEW x \in Owners PROVE p[x] = IF x[1] = f THEN {} ELSE o[x]
  <2>1. /\ x[1] \in Ids /\ x[3] \in Alts
        /\ o[x] = Owns(fl[x[1]], x[2], x[3]) /\ p[x] = Owns(gl[x[1]], x[2], x[3])
    BY UsesIs
  <2> HIDE DEF o, p
  <2> QED
    BY <1>3, <2>1, NoFileIs
<1>6. ASSUME NEW s \in U
      PROVE  s \notin F /\ s \notin M /\ \A x \in Owners : x[1] # f => s \notin o[x]
  <2>1. PICK y \in Owners : y[1] = f /\ s \in o[y]
    BY <1>1, <1>6, UsedIs
  <2> HIDE DEF o, F, M
  <2> QED
    BY <1>1, <2>1 DEF Alone
<1> HIDE DEF o, p, F, M, U
<1>7. n \in Seq(Piece) /\ Scattered(n) /\ Covered(n) = U \cup M
  <2>1. Covered(Freed(fl[f])) \cap Covered(m) = {}
    BY <1>2, <1>6 DEF M
  <2> QED
    BY <1>1, <1>2, <2>1, ConcatIs DEF M
<1> HIDE DEF n
<1>8. Alone(Owners, F \cup Covered(n), p)
  BY <1>1, <1>5, <1>6, <1>7 DEF Alone
<1>9. F \cap Covered(n) = {}
  BY <1>1, <1>6, <1>7
<1>10. Sound(v, gl, n)
  BY <1>1, <1>3, <1>4, <1>7, <1>8, <1>9 DEF Sound, F, p
<1> QED
  BY <1>5, <1>7, <1>10 DEF Releases, gl, n, M, U, o, p

-----------------------------------------------------------------------------
(* The state between the parts of size_journal.                            *)
Sizings == [v: Vols, file: Table, sts: Statuses]

(* It is sound.                                                            *)
Sizing(s, m) == s \in Sizings /\ Sound(s.v, s.file, m)

(* And from one to the next, files took free sectors.                      *)
Sizes(s, t, m) == t \in Sizings /\ Allots(s.v, s.file, t.v, t.file, m)

(* No change.                                                              *)
LEMMA SizesSame ==
  ASSUME NEW s, NEW m, Sizing(s, m) PROVE Sizes(s, s, m)
BY AllotsNone DEF Sizing, Sizes

(* A status is not part of the volume.                                     *)
LEMMA SizesStatus ==
  ASSUME NEW s, NEW m, Sizing(s, m), NEW status \in Statuses
  PROVE  Sizes(s, [s EXCEPT !.sts = status], m)
<1> DEFINE t == [s EXCEPT !.sts = status]
<1>1. t \in Sizings /\ t.v = s.v /\ t.file = s.file
  BY DEF Sizing, Sizings
<1> HIDE DEF t
<1>2. Allots(s.v, s.file, s.v, s.file, m)
  BY AllotsNone DEF Sizing
<1> QED
  BY <1>1, <1>2 DEF Sizes, t

(* One part after another.                                                 *)
LEMMA SizesTrans ==
  ASSUME NEW s, NEW t, NEW u, NEW m, Sizes(s, t, m), Sizes(t, u, m)
  PROVE  Sizes(s, u, m)
BY AllotsTrans, Zenon DEF Sizes

(* What a part leaves is sound.                                            *)
LEMMA SizesOn ==
  ASSUME NEW s, NEW t, NEW m, Sizes(s, t, m) PROVE Sizing(t, m)
BY DEF Sizes, Sizing, Allots

(* What the next part finds.                                               *)
LEMMA SizingIs ==
  ASSUME NEW s, NEW m, Sizing(s, m), NEW f \in System
  PROVE  /\ s.file \in Table /\ s.file[f] \in Heads0 /\ s.file[f].lba # <<>> /\ f \in Ids
         /\ s.file[f].clusters \in Nat /\ Sound(s.v, s.file, m) /\ s \in Sizings
         /\ Len(s.v.free) \in Nat
<1>1. Sound(s.v, s.file, m) /\ s \in Sizings /\ f \in Ids
  BY DEF Sizing, Ids
<1>2. s.file \in Table /\ s.file[f].lba # <<>> /\ VolOK(s.v)
  BY <1>1 DEF Sound
<1>3. s.file[f] \in Heads
  BY <1>1, <1>2 DEF Table
<1> QED
  BY <1>1, <1>2, <1>3, HeadIs, VolIs DEF Heads

(* One of the system files, extended, with whatever it counts.             *)
LEMMA SizeOne ==
  ASSUME NEW s, NEW m, Sizing(s, m), NEW f \in System, NEW n \in Nat, NEW c \in Nat, NEW alts
  PROVE  LET x == ExtendCopies(s.v, s.file[f].rps, alts, n)
             t == [v |-> x.v, sts |-> x.sts,
                   file |-> [s.file EXCEPT ![f] = Holding(@, x.rps, c)]]
         IN  Sizes(s, t, m) /\ x.done \in Nat /\ x.sts \in Statuses
<1> DEFINE x == ExtendCopies(s.v, s.file[f].rps, alts, n)
           gl == Reach(s.file, f, x.rps, c)
<1>1. Sound(s.v, s.file, m) /\ f \in Ids /\ s.file[f].lba # <<>> /\ s.file \in Table
  BY SizingIs
<1>2. Allots(s.v, s.file, x.v, gl, m) /\ x.done \in Nat /\ x.sts \in Statuses
  BY <1>1, ExtendIn
<1> HIDE DEF x
<1>3. gl = [s.file EXCEPT ![f] = Holding(@, x.rps, c)]
  BY DEF Reach
<1> HIDE DEF gl
<1>4. gl \in Table /\ x.v \in Vols
  BY <1>2 DEF Allots, Sound, VolOK, Vols
<1> DEFINE t == [v |-> x.v, sts |-> x.sts, file |-> gl]
<1>5. t \in Sizings /\ t.v = x.v /\ t.file = gl
  BY <1>2, <1>4 DEF Sizings
<1> HIDE DEF t
<1>6. Sizes(s, t, m)
  BY <1>2, <1>5 DEF Sizes
<1> QED
  BY <1>2, <1>3, <1>6 DEF t, x

(* The root directory gets more sectors.                                   *)
LEMMA SizeRootIs ==
  ASSUME NEW s, NEW m, Sizing(s, m), NEW def \in Nat
  PROVE  Sizes(s, SizeRoot(s, def), m)
<1> DEFINE alts == HasCopies(s.file["ROOT"].rps)
           x == ExtendCopies(s.v, s.file["ROOT"].rps, alts, def)
           c == s.file["ROOT"].clusters + x.done * def
           t == [v |-> x.v, sts |-> x.sts,
                 file |-> [s.file EXCEPT !["ROOT"] = Holding(@, x.rps, c)]]
<1>1. "ROOT" \in System
  BY DEF System
<1>2. s.file["ROOT"].clusters \in Nat
  BY <1>1, SizingIs
<1>3. x.done \in Nat
  <2>1. 0 \in Nat
    OBVIOUS
  <2> QED
    BY <1>1, <2>1, SizeOne
<1>4. c \in Nat
  BY <1>2, <1>3
<1>5. SizeRoot(s, def) = IF def = 0 THEN s
                         ELSE IF def * NAlts >= s.v.total THEN [s EXCEPT !.sts = "FULL"] ELSE t
  BY DEF SizeRoot
<1>6. Sizes(s, t, m)
  <2> HIDE DEF c, alts
  <2> QED
    BY <1>1, <1>4, SizeOne
<1> HIDE DEF t
<1>7. Sizes(s, s, m) /\ Sizes(s, [s EXCEPT !.sts = "FULL"], m)
  BY SizesSame, SizesStatus DEF Statuses
<1> QED
  BY <1>5, <1>6, <1>7

(* One of the other system files gets more sectors.                        *)
LEMMA SizeSystemIs ==
  ASSUME NEW s, NEW m, Sizing(s, m), NEW f \in System, NEW def \in Nat
  PROVE  Sizes(s, SizeSystem(s, f, def), m)
<1> DEFINE alts == HasCopies(s.file[f].rps)
           x == ExtendCopies(s.v, s.file[f].rps, alts, def)
           c == s.file[f].clusters + (IF x.sts = "OK" THEN def ELSE 0)
           t == [v |-> x.v, sts |-> x.sts,
                 file |-> [s.file EXCEPT ![f] = Holding(@, x.rps, c)]]
<1>1. s.file[f].clusters \in Nat
  BY SizingIs
<1>2. c \in Nat
  BY <1>1
<1>3. SizeSystem(s, f, def) = t
  BY DEF SizeSystem, Counted
<1>4. Sizes(s, t, m)
  <2> HIDE DEF c, alts
  <2> QED
    BY <1>2, SizeOne
<1> HIDE DEF t
<1> QED
  BY <1>3, <1>4

(* The free-list file gets room for the list.                              *)
LEMMA SizeFreeIs ==
  ASSUME NEW s, Sizing(s, limbo)
  PROVE  Sizes(s, SizeFree(s), limbo)
<1> DEFINE has == s.file["FREE"].clusters
           def == Max({DirExtend, FreeNeed(s.v) - has})
<1>1. "FREE" \in System
  BY DEF System
<1>2. has \in Nat /\ Len(s.v.free) \in Nat /\ Len(limbo) \in Nat
  <2>1. limbo \in Seq(Piece)
    BY DEF Sizing, Sound
  <2> QED
    BY <1>1, <2>1, SizingIs
<1>3. FreeNeed(s.v) \in Int
  BY <1>2, ChunkAssumption DEF FreeNeed, CeilDiv
<1> DEFINE more == FreeNeed(s.v) - has
<1>4. def \in Nat
  <2>1. more \in Int /\ DirExtend \in Nat
    BY <1>2, <1>3, SizesAssumption
  <2> HIDE DEF more
  <2>2. Max({DirExtend, more}) = IF DirExtend >= more THEN DirExtend ELSE more
    BY SMTT(60), <2>1, OfTwo
  <2>3. Max({DirExtend, more}) \in Nat
    BY <2>1, <2>2
  <2> QED
    BY <2>3 DEF more
<1>5. \/ SizeFree(s) = s \/ SizeFree(s) = [s EXCEPT !.sts = "FULL"]
      \/ SizeFree(s) = SizeSystem(s, "FREE", def)
  BY DEF SizeFree
<1> HIDE DEF def
<1>6. /\ Sizes(s, s, limbo) /\ Sizes(s, [s EXCEPT !.sts = "FULL"], limbo)
      /\ Sizes(s, SizeSystem(s, "FREE", def), limbo)
  BY <1>1, <1>4, SizesSame, SizesStatus, SizeSystemIs DEF Statuses
<1> QED
  BY <1>5, <1>6

(* The journal gets room for what will be journalled.                      *)
LEMMA SizeJournIs ==
  ASSUME NEW s, NEW m, Sizing(s, m), NEW def \in Nat
  PROVE  Sizes(s, SizeJourn(s, def), m)
<1> DEFINE t == SizeSystem(s, "JOURN", def)
<1>1. "JOURN" \in System /\ "FULL" \in Statuses
  BY DEF System, Statuses
<1>2. Sizes(s, t, m)
  BY <1>1, SizeSystemIs
<1>3. \/ SizeJourn(s, def) = s \/ SizeJourn(s, def) = [s EXCEPT !.sts = "FULL"]
      \/ SizeJourn(s, def) = t \/ SizeJourn(s, def) = [t EXCEPT !.sts = "FULL"]
  BY DEF SizeJourn
<1> HIDE DEF t
<1>4. Sizes(t, [t EXCEPT !.sts = "FULL"], m)
  BY <1>1, <1>2, SizesOn, SizesStatus
<1>5. Sizes(s, [t EXCEPT !.sts = "FULL"], m)
  BY <1>2, <1>4, SizesTrans
<1>6. Sizes(s, s, m) /\ Sizes(s, [s EXCEPT !.sts = "FULL"], m)
  BY <1>1, SizesSame, SizesStatus
<1> QED
  BY <1>2, <1>3, <1>5, <1>6

(* A sync makes its files larger before it journals anything.              *)
LEMMA SizeJournalIs ==
  ASSUME Sound(vol, file, limbo), NEW rdef \in Nat, NEW jdef \in Nat
  PROVE  LET t == SizeJournal(rdef, jdef)
         IN  /\ t \in Sizings /\ t.sts \in Statuses
             /\ Allots(vol, file, t.v, t.file, limbo)
<1> DEFINE s == [v |-> vol, file |-> file, sts |-> "OK"]
           a == SizeRoot(s, rdef)
           b == SizeFree(a)
           c == SizeJourn(b, jdef)
<1>1. Sizing(s, limbo) /\ s.v = vol /\ s.file = file
  <2>1. vol \in Vols /\ file \in Table
    BY DEF Sound, VolOK, Vols
  <2>2. s \in Sizings /\ s.v = vol /\ s.file = file
    BY <2>1 DEF Sizings, Statuses
  <2> HIDE DEF s
  <2> QED
    BY <2>2 DEF Sizing
<1>2. c = SizeJournal(rdef, jdef)
  BY DEF SizeJournal
<1> HIDE DEF s
<1>3. Sizes(s, a, limbo)
  BY <1>1, SizeRootIs
<1> HIDE DEF a
<1>4. Sizes(a, b, limbo)
  BY <1>3, SizesOn, SizeFreeIs
<1> HIDE DEF b
<1>5. Sizes(b, c, limbo)
  BY <1>4, SizesOn, SizeJournIs
<1> HIDE DEF c
<1>6. Sizes(s, c, limbo)
  BY <1>3, <1>4, <1>5, SizesTrans
<1> QED
  BY <1>1, <1>2, <1>6 DEF Sizes, Sizings

-----------------------------------------------------------------------------
(* The operations on files, on a sound volume.                             *)
Allocation == Allots(vol, file, vol', file', limbo) /\ UNCHANGED limbo

(* A file that was not made: its sectors went by limbo.                    *)
Abandoned ==
  /\ Sound(vol', file, limbo') /\ UNCHANGED file
  /\ Covered(vol'.free) \subseteq Covered(vol.free)
  /\ Covered(limbo') = Covered(limbo) \cup (Covered(vol.free) \ Covered(vol'.free))

(* A name without a file.                                                  *)
LEMMA NoneIs ==
  ASSUME Sound(vol, file, limbo), NEW f \in Files, ~ Exists(f)
  PROVE  f \in Ids /\ file \in Table /\ file[f].lba = <<>> /\ file[f] = NoFile
<1>1. f \in Ids /\ file \in Table /\ file[f].lba = <<>>
  BY DEF Ids, Exists, Sound
<1>2. file[f] \in Heads
  BY <1>1 DEF Table
<1> QED
  BY <1>1, <1>2 DEF Heads

(* The other files are as they were.                                       *)
Others(fl, gl, f) == \A g \in Ids : g # f => gl[g] = fl[g]

(* What left the list.                                                     *)
Differs(X, F, G) == \A s : s \in X <=> s \in F /\ s \notin G

(* The same, as a set.                                                     *)
LEMMA DiffersIs ==
  ASSUME NEW X, NEW F, NEW G, Differs(X, F, G)
  PROVE  X = F \ G
<1>1. \A s : s \in X <=> s \in F /\ s \notin G
  BY DEF Differs
<1> QED
  BY <1>1

(* What a file made from nothing has is what was taken.                    *)
LEMMA UsedNew ==
  ASSUME NEW fl, fl \in Table, NEW f, f \in Ids, fl[f] = NoFile,
         NEW gl, gl \in Table, Others(fl, gl, f),
         NEW F, NEW G, Alone(Owners, F, Uses(fl)),
         Takes(Owners, F, Uses(fl), G, Uses(gl))
  PROVE  Differs(Used(gl[f]), F, G)
<1> DEFINE h == gl[f]
           o == Uses(fl)
           p == Uses(gl)
<1>1. gl \in Table /\ gl[f] = h /\ \A g \in Ids : g # f => gl[g] = fl[g]
  BY DEF Others
<1>2. ASSUME NEW x \in Owners PROVE IF x[1] = f THEN o[x] = {} ELSE p[x] = o[x] /\ o[x] \cap F = {}
  <2>1. /\ x[1] \in Ids /\ x[3] \in Alts
        /\ o[x] = Owns(fl[x[1]], x[2], x[3]) /\ p[x] = Owns(gl[x[1]], x[2], x[3])
    BY UsesIs
  <2>2. o[x] \cap F = {}
    BY DEF Alone
  <2> HIDE DEF o, p
  <2> QED
    BY <1>1, <2>1, <2>2, NoFileIs
<1>3. \A s : s \in Used(h) <=> \E x \in Owners : x[1] = f /\ s \in p[x]
  BY <1>1, UsedIs
<1> HIDE DEF o, p
<1>4. /\ \A x \in Owners : p[x] \ o[x] \subseteq F \ G
      /\ \A s \in F \ G : \E x \in Owners : s \in p[x]
  BY DEF Takes, o, p
<1>5. ASSUME NEW s \in Used(h) PROVE s \in F \ G
  BY <1>2, <1>3, <1>4
<1>6. ASSUME NEW s \in F \ G PROVE s \in Used(h)
  <2>1. PICK x \in Owners : s \in p[x]
    BY <1>4
  <2>2. x[1] = f
    BY <1>2, <2>1
  <2> QED
    BY <1>3, <2>1, <2>2
<1> QED
  BY <1>5, <1>6 DEF Differs

(* fsys_create takes free sectors for the file, or, when it fails, passes  *)
(* all it took to limbo.                                                   *)
LEMMA CreateIs ==
  ASSUME Sound(vol, file, limbo), NEW f \in Files, NEW n \in Nat, NEW c, Create(f, n, c)
  PROVE  sts' \in Statuses /\ (Allocation \/ Abandoned)
<1> DEFINE hdrs == FoldLeft(HeaderStep, [v |-> vol, lba |-> <<>>], AllAlts)
           x == ExtendCopies(hdrs.v, NoFile.rps, 1..c, n)
           new == [lba |-> hdrs.lba, rps |-> x.rps, clusters |-> n]
           bare == [lba |-> hdrs.lba, rps |-> NoFile.rps, clusters |-> 0]
           fl == [file EXCEPT ![f] = bare]
           gl == [file EXCEPT ![f] = new]
<1>1. /\ vol.total >= NAlts + 1 /\ ~ Exists(f) /\ vol' = x.v /\ sts' = x.sts
      /\ IF x.sts = "OK"
         THEN file' = gl /\ UNCHANGED limbo
         ELSE limbo' = Freed(new) \o limbo /\ UNCHANGED file
  BY DEF Create
<1>2. /\ f \in Ids /\ file \in Table /\ file[f].lba = <<>> /\ file[f] = NoFile /\ VolOK(vol)
      /\ Alone(Owners, Covered(vol.free) \cup Covered(limbo), Uses(file))
      /\ \A o \in System : file[o].lba # <<>>
  BY <1>1, NoneIs DEF Sound
<1>3. Headed(vol, hdrs) /\ Len(hdrs.lba) = NAlts
  BY <1>1, <1>2, HeadersAre
<1> HIDE DEF hdrs
<1>4. Allots(vol, file, hdrs.v, fl, limbo)
  <2>1. 0 \in Nat
    OBVIOUS
  <2> QED
    BY <1>2, <1>3, <2>1, HeadersIn
<1>5. fl[f] = bare /\ fl \in Table /\ \A g \in Ids : g # f => fl[g] = file[g]
  <2>1. fl \in Table
    BY <1>4 DEF Allots, Sound
  <2> QED
    BY <1>2, <2>1 DEF Table
<1>6. fl[f].rps = NoFile.rps /\ fl[f].lba = hdrs.lba /\ fl[f].lba # <<>>
  <2>1. hdrs.lba # <<>>
    BY <1>3, AllAltsIs
  <2> QED
    BY <1>5, <2>1
<1> HIDE DEF fl
<1>7. Allots(hdrs.v, fl, x.v, Reach(fl, f, x.rps, n), limbo) /\ x.sts \in Statuses
  <2>1. Sound(hdrs.v, fl, limbo)
    BY <1>4 DEF Allots
  <2> DEFINE y == ExtendCopies(hdrs.v, fl[f].rps, 1..c, n)
  <2>2. Allots(hdrs.v, fl, y.v, Reach(fl, f, y.rps, n), limbo) /\ y.sts \in Statuses
    BY <1>2, <1>6, <2>1, ExtendIn
  <2>3. y = x
    BY <1>6
  <2> HIDE DEF y, x
  <2> QED
    BY <2>2, <2>3
<1> HIDE DEF x
<1>8. Reach(fl, f, x.rps, n) = gl
  <2>1. Reach(fl, f, x.rps, n) = [fl EXCEPT ![f] = Holding(fl[f], x.rps, n)]
    BY DEF Reach
  <2>2. fl[f] \in Heads0
    BY <1>2, <1>5 DEF Table, Heads
  <2>3. Holding(fl[f], x.rps, n) = new
    BY <1>6, <2>2, HoldingIs
  <2> HIDE DEF new
  <2> QED
    BY <1>2, <2>1, <2>3 DEF fl
<1> HIDE DEF gl
<1>9. Allots(vol, file, x.v, gl, limbo)
  BY <1>4, <1>7, <1>8, AllotsTrans
<1>10. CASE x.sts = "OK"
  BY <1>1, <1>7, <1>9, <1>10 DEF Allocation
<1>11. CASE x.sts # "OK"
  <2> DEFINE F == Covered(vol.free)
             G == Covered(x.v.free)
  <2>1. Sound(x.v, gl, limbo) /\ Takes(Owners, F, Uses(file), G, Uses(gl))
    BY <1>9 DEF Allots
  <2>2. gl \in Table /\ gl[f] = new /\ new \in Heads
    <3>1. gl \in Table
      BY <2>1 DEF Sound
    <3> QED
      BY <1>2, <3>1 DEF Table, gl
  <2> HIDE DEF new
  <2>3. Releases(x.v, gl, limbo, f, [gl EXCEPT ![f] = NoFile], Freed(gl[f]) \o limbo)
    BY <2>1, ReleaseIs
  <2>4. [gl EXCEPT ![f] = NoFile] = file
    BY <1>2 DEF gl, Table
  <2>5. Used(new) = F \ G
    <3>1. Others(file, gl, f)
      BY <1>2 DEF gl, Table, Others
    <3>2. Alone(Owners, F, Uses(file))
      BY <1>2 DEF Alone
    <3> HIDE DEF F, G
    <3>3. file \in Table /\ f \in Ids /\ file[f] = NoFile /\ gl \in Table
      BY <1>2, <2>2
    <3>4. Takes(Owners, F, Uses(file), G, Uses(gl))
      BY <2>1
    <3>5. Differs(Used(gl[f]), F, G)
      BY <3>1, <3>2, <3>3, <3>4, UsedNew
    <3>6. Used(gl[f]) = F \ G
      BY <3>5, DiffersIs
    <3> QED
      BY <2>2, <3>6
  <2>6. /\ Sound(x.v, file, Freed(new) \o limbo)
        /\ Covered(Freed(new) \o limbo) = Covered(limbo) \cup Used(new)
    BY <2>2, <2>3, <2>4 DEF Releases
  <2>7. G \subseteq F
    BY <2>1 DEF Takes
  <2> QED
    BY <1>1, <1>7, <1>11, <2>5, <2>6, <2>7 DEF Abandoned
<1> QED
  BY <1>10, <1>11

(* fsys_delete passes what the file had to limbo.                          *)
LEMMA DeleteIs ==
  ASSUME Sound(vol, file, limbo), NEW f \in Files, Delete(f)
  PROVE  Releases(vol, file, limbo, f, file', limbo') /\ UNCHANGED vol /\ sts' \in Statuses
<1>1. /\ file' = [file EXCEPT ![f] = NoFile] /\ limbo' = Freed(file[f]) \o limbo
      /\ UNCHANGED vol /\ sts' = "OK"
  BY DEF Delete
<1>2. Releases(vol, file, limbo, f, [file EXCEPT ![f] = NoFile], Freed(file[f]) \o limbo)
  BY ReleaseIs
<1> QED
  BY <1>1, <1>2 DEF Statuses

(* A file that is there.                                                   *)
LEMMA SomeIs ==
  ASSUME Sound(vol, file, limbo), NEW f \in Files, Exists(f)
  PROVE  f \in Ids /\ file \in Table /\ file[f].lba # <<>> /\ file[f] \in Heads0
         /\ file[f].clusters \in Nat
<1>1. f \in Ids /\ file \in Table /\ file[f].lba # <<>>
  BY DEF Ids, Exists, Sound
<1>2. file[f] \in Heads
  BY <1>1 DEF Table
<1> QED
  BY <1>1, <1>2, HeadIs DEF Heads

(* A call that fails at once takes nothing.                                *)
LEMMA SameIs ==
  ASSUME Sound(vol, file, limbo), UNCHANGED <<vol, file, limbo>>
  PROVE  Allocation
BY AllotsNone DEF Allocation

(* A write beyond the end takes free sectors for the file, or none.        *)
LEMMA GrowIs ==
  ASSUME Sound(vol, file, limbo), NEW f \in Files, NEW def \in Nat, Grow(f, def)
  PROVE  sts' \in Statuses /\ Allocation
<1> DEFINE alts == HasCopies(file[f].rps)
           x == ExtendCopies(vol, file[f].rps, alts, def)
           c == file[f].clusters + def
           gl == Reach(file, f, x.rps, c)
<1>1. /\ Exists(f)
      /\ \/ Refuse("FULL")
         \/ /\ vol' = x.v /\ sts' = x.sts
            /\ file' = [file EXCEPT ![f] = Holding(@, x.rps, @.clusters + def)]
            /\ UNCHANGED limbo
  BY DEF Grow
<1>2. f \in Ids /\ file[f].lba # <<>> /\ c \in Nat
  BY <1>1, SomeIs
<1>3. CASE Refuse("FULL")
  BY <1>3, SameIs DEF Refuse, Statuses
<1>4. CASE ~ Refuse("FULL")
  <2>1. file' = gl /\ vol' = x.v /\ sts' = x.sts /\ UNCHANGED limbo
    <3> HIDE DEF x
    <3> QED
      BY <1>1, <1>4 DEF Reach
  <2>2. Allots(vol, file, x.v, gl, limbo) /\ x.sts \in Statuses
    <3> HIDE DEF alts, c
    <3> QED
      BY <1>2, ExtendIn
  <2> HIDE DEF x, gl
  <2> QED
    BY <2>1, <2>2 DEF Allocation
<1> QED
  BY <1>3, <1>4

(* The extension by ioctl does too.                                        *)
LEMMA SetFHIs ==
  ASSUME Sound(vol, file, limbo), NEW f \in Files, NEW copies, NEW alloc \in Nat,
         SetFH(f, copies, alloc)
  PROVE  sts' \in Statuses /\ Allocation
<1> DEFINE had == Cardinality(HasCopies(file[f].rps))
           has == Max({had, copies})
           c == file[f].clusters
           def == alloc - c
           more == ExtendCopies(vol, file[f].rps, (had + 1)..copies, c)
           full == def * has >= more.v.total
           same == more.sts # "OK" \/ def <= 0 \/ full
           y == ExtendCopies(more.v, more.rps, 1..has, def)
           x == IF same THEN more ELSE y
           d == IF more.sts = "OK" /\ def > 0 /\ ~full THEN alloc ELSE c
           fl == Reach(file, f, more.rps, c)
           gl == Reach(file, f, x.rps, d)
<1>1. /\ Exists(f) /\ vol' = x.v
      /\ sts' = IF more.sts # "OK" THEN more.sts ELSE IF def > 0 /\ full THEN "FULL" ELSE "OK"
      /\ file' = [file EXCEPT
                    ![f] = Holding(@, x.rps, IF more.sts = "OK" /\ def > 0 /\ ~full
                                             THEN alloc ELSE @.clusters)]
      /\ UNCHANGED limbo
  BY DEF SetFH
<1>2. f \in Ids /\ file \in Table /\ file[f].lba # <<>> /\ c \in Nat /\ file[f] \in Heads0
  BY <1>1, SomeIs
<1>3. Allots(vol, file, more.v, fl, limbo) /\ more.sts \in Statuses
  <2> HIDE DEF had, c
  <2> QED
    BY <1>2, ExtendIn
<1> HIDE DEF had, has, more, full
<1>4. file' = gl
  <2> HIDE DEF x
  <2> QED
    BY <1>1 DEF Reach
<1>5. fl \in Table /\ fl[f].rps = more.rps /\ fl[f].lba # <<>> /\ Sound(more.v, fl, limbo)
  <2>1. Sound(more.v, fl, limbo)
    BY <1>3 DEF Allots
  <2>2. fl \in Table
    BY <2>1 DEF Sound
  <2>3. fl[f] = [lba |-> file[f].lba, rps |-> more.rps, clusters |-> c]
    BY <1>2, ReachIs
  <2> HIDE DEF fl
  <2> QED
    BY <1>2, <2>1, <2>2, <2>3
<1>6. d \in Nat
  BY <1>2
<1>7. CASE same
  <2>1. x = more /\ d = c
    <3>1. def <= 0 => ~ (def > 0)
      BY <1>2
    <3> HIDE DEF def
    <3> QED
      BY <1>7, <3>1
  <2>2. gl = fl
    BY <2>1
  <2> HIDE DEF x, fl, gl
  <2> QED
    BY <1>1, <1>3, <1>4, <2>1, <2>2 DEF Allocation, Statuses
<1>8. CASE ~same
  <2>1. def \in Nat /\ x = y
    BY <1>2, <1>8
  <2> DEFINE hl == Reach(fl, f, y.rps, d)
             z == ExtendCopies(more.v, fl[f].rps, 1..has, def)
  <2>2. Allots(more.v, fl, z.v, Reach(fl, f, z.rps, d), limbo)
    <3> HIDE DEF fl, d, def
    <3> QED
      BY <1>2, <1>5, <1>6, <2>1, ExtendIn
  <2>3. z = y
    BY <1>5
  <2>4. Allots(more.v, fl, y.v, hl, limbo)
    <3> HIDE DEF z, y
    <3> QED
      BY <2>2, <2>3
  <2> HIDE DEF y
  <2>5. hl = Reach(file, f, y.rps, d)
    <3>1. fl[f] \in Heads0 /\ fl[f].lba = file[f].lba
      <4>1. fl[f] = [lba |-> file[f].lba, rps |-> more.rps, clusters |-> c]
        BY <1>2, ReachIs
      <4>2. fl[f] \in Heads
        BY <1>2, <1>5 DEF Table
      <4> HIDE DEF fl
      <4> QED
        BY <4>1, <4>2 DEF Heads
    <3>2. Holding(fl[f], y.rps, d) = Holding(file[f], y.rps, d)
      <4> HIDE DEF fl, d
      <4> QED
        BY <1>2, <3>1, HoldingIs
    <3> DEFINE h == Holding(file[f], y.rps, d)
    <3>3. hl = [fl EXCEPT ![f] = h] /\ Reach(file, f, y.rps, d) = [file EXCEPT ![f] = h]
      <4> HIDE DEF fl
      <4> QED
        BY <3>2 DEF Reach
    <3>4. fl = [file EXCEPT ![f] = Holding(file[f], more.rps, c)]
      BY DEF Reach
    <3> HIDE DEF h, fl, hl
    <3> QED
      BY <1>2, <3>3, <3>4 DEF Table
  <2>6. gl = hl
    BY <2>1, <2>5
  <2> HIDE DEF fl, gl, hl, x
  <2>7. Allots(vol, file, x.v, gl, limbo)
    BY <1>3, <2>1, <2>4, <2>6, AllotsTrans
  <2> QED
    BY <1>1, <1>3, <1>4, <2>7 DEF Allocation, Statuses
<1> QED
  BY <1>7, <1>8

-----------------------------------------------------------------------------
(* Nothing in limbo.                                                       *)
LEMMA NoneCovered ==
  Covered(<<>>) = {} /\ <<>> \in Seq(Piece) /\ Scattered(<<>>)
<1>1. DOMAIN <<>> = {} /\ <<>> \in Seq(Piece)
  OBVIOUS
<1>2. Covered(<<>>) = {}
  BY <1>1 DEF Covered
<1> QED
  BY <1>1, <1>2 DEF Scattered

(* With nothing in limbo.                                                  *)
LEMMA SoundAlone ==
  ASSUME NEW v, VolOK(v), NEW fl \in Table, NEW F, Covered(v.free) \subseteq F,
         Alone(Owners, F, Uses(fl)), \A o \in System : fl[o].lba # <<>>
  PROVE  Sound(v, fl, <<>>)
<1>1. Covered(v.free) \cap Covered(<<>>) = {}
  BY NoneCovered
<1>2. Covered(v.free) \cup Covered(<<>>) \subseteq F
  BY NoneCovered
<1> DEFINE G == Covered(v.free) \cup Covered(<<>>)
           o == Uses(fl)
<1>3. G \subseteq F /\ Alone(Owners, F, o)
  BY <1>2
<1> HIDE DEF G, o
<1>4. Alone(Owners, G, o)
  BY <1>3 DEF Alone
<1>5. Alone(Owners, Covered(v.free) \cup Covered(<<>>), Uses(fl))
  BY <1>4 DEF G, o
<1> QED
  BY <1>1, <1>5, NoneCovered DEF Sound

(* A sound volume with nothing in limbo may be put on the disk.            *)
LEMMA KeptSound ==
  ASSUME NEW v, NEW fl, Sound(v, fl, <<>>)
  PROVE  Kept(v.free, fl)
<1>1. VolOK(v) /\ fl \in Table /\ Alone(Owners, Covered(v.free) \cup Covered(<<>>), Uses(fl))
      /\ \A o \in System : fl[o].lba # <<>>
  BY DEF Sound
<1>2. Covered(v.free) \cup Covered(<<>>) = Covered(v.free)
  BY NoneCovered
<1>3. Alone(Owners, Covered(v.free), Uses(fl))
  BY <1>1, <1>2
<1>4. v.free \in Seq(Entry) /\ Strict(v.free)
  BY <1>1, VolIs
<1> QED
  BY <1>1, <1>3, <1>4 DEF Kept

(* What a sync has after limbo went back on the list.                      *)
LEMMA FlushedIs ==
  ASSUME NEW s, Sizing(s, limbo)
  PROVE  LET x == Flush(s)
         IN  /\ Sound(x.v, s.file, <<>>) /\ x.torn \in BOOLEAN
             /\ Covered(x.v.free) = Covered(s.v.free) \cup Covered(limbo)
<1> DEFINE c == s.file["FREE"].clusters
           x == Flush(s)
           F == Covered(s.v.free) \cup Covered(limbo)
<1>1. /\ VolOK(s.v) /\ s.file \in Table /\ limbo \in Seq(Piece) /\ Scattered(limbo)
      /\ Covered(s.v.free) \cap Covered(limbo) = {} /\ Alone(Owners, F, Uses(s.file))
      /\ \A o \in System : s.file[o].lba # <<>>
  BY DEF Sizing, Sound
<1>2. VolOK(x.v) /\ x.torn \in BOOLEAN /\ Covered(x.v.free) = F
  <2>1. CASE limbo = <<>>
    <3>1. x = [v |-> s.v, clusters |-> c, torn |-> FALSE]
      BY <2>1 DEF Flush
    <3>2. x.v = s.v /\ x.torn = FALSE
      BY <3>1
    <3>3. FALSE \in BOOLEAN
      BY Zenon
    <3> HIDE DEF x
    <3> QED
      BY <1>1, <2>1, <3>2, <3>3, NoneCovered
  <2>2. CASE limbo # <<>>
    <3> DEFINE f == FoldLeft(FlushStep, [v |-> s.v, clusters |-> c, torn |-> FALSE], limbo)
    <3>1. x = [f EXCEPT !.v.free = CollapseFree(@)]
      BY <2>2 DEF Flush
    <3>2. Flushed(s.v, limbo, [f EXCEPT !.v.free = CollapseFree(@)])
      BY <1>1, <2>2, FlushIs
    <3> HIDE DEF x, f
    <3>3. Flushed(s.v, limbo, x)
      BY <3>1, <3>2
    <3> QED
      BY <3>3 DEF Flushed
  <2> QED
    BY <2>1, <2>2
<1> HIDE DEF x, F
<1>3. Sound(x.v, s.file, <<>>)
  <2>1. Covered(x.v.free) \subseteq F
    BY <1>2
  <2>2. /\ VolOK(x.v) /\ s.file \in Table /\ Alone(Owners, F, Uses(s.file))
        /\ \A o \in System : s.file[o].lba # <<>>
    BY <1>1, <1>2
  <2> QED
    BY <2>1, <2>2, SoundAlone
<1> QED
  BY <1>2, <1>3 DEF F, x

(* The first half of a sync keeps the invariant.                           *)
LEMMA SyncCommitIs ==
  ASSUME IInv, NEW rdef \in Nat, NEW jdef \in Nat, SyncCommit(rdef, jdef)
  PROVE  IInv'
<1> DEFINE t == SizeJournal(rdef, jdef)
           x == Flush(t)
<1>1. /\ phase = "idle" /\ file' = t.file /\ sts' = t.sts
      /\ IF t.sts # "OK"
         THEN vol' = t.v /\ UNCHANGED <<limbo, disk, phase, torn>>
         ELSE /\ vol' = x.v /\ limbo' = <<>> /\ phase' = "inplace" /\ torn' = (torn \/ x.torn)
              /\ disk' = [free |-> x.v.free, file |-> t.file]
  BY DEF SyncCommit, Sized, Journalled
<1>2. Sound(vol, file, limbo) /\ Saved /\ torn \in BOOLEAN
  BY DEF IInv, Modes
<1>3. t \in Sizings /\ t.sts \in Statuses /\ Sound(t.v, t.file, limbo)
  BY <1>2, SizeJournalIs DEF Allots
<1> HIDE DEF t
<1>4. CASE t.sts # "OK"
  <2>1. Sound(vol', file', limbo')
    BY <1>1, <1>3, <1>4
  <2>2. Saved' /\ Modes' /\ Committed'
    BY <1>1, <1>2, <1>3, <1>4 DEF Saved, Modes, Committed
  <2> QED
    BY <2>1, <2>2 DEF IInv
<1>5. CASE t.sts = "OK"
  <2>1. Sizing(t, limbo)
    BY <1>3 DEF Sizing
  <2>2. Sound(x.v, t.file, <<>>) /\ x.torn \in BOOLEAN
    BY <2>1, FlushedIs
  <2> HIDE DEF x
  <2>3. Kept(x.v.free, t.file)
    BY <2>2, KeptSound
  <2>4. Sound(vol', file', limbo')
    BY <1>1, <1>5, <2>2
  <2>5. disk'.free = x.v.free /\ disk'.file = t.file
    BY <1>1, <1>5
  <2>6. Saved'
    BY <1>1, <1>5, <2>3, <2>5 DEF Saved
  <2>7. Committed'
    BY <1>1, <1>5, <2>5 DEF Committed
  <2>8. Modes'
    BY <1>1, <1>2, <1>3, <1>5, <2>2 DEF Modes
  <2> QED
    BY <2>4, <2>6, <2>7, <2>8 DEF IInv
<1> QED
  BY <1>4, <1>5

(* The second half does, and moves no sector.                              *)
LEMMA SyncInPlaceIs ==
  ASSUME IInv, SyncInPlace
  PROVE  /\ IInv' /\ Covered(vol'.free) = Covered(vol.free) /\ Clean(disk'.free)
         /\ Covered(disk'.free) = Covered(disk.free)
<1> DEFINE c == CollapseFree(vol.free)
<1>1. /\ phase = "inplace" /\ phase' = "idle" /\ sts' = "OK" /\ UNCHANGED <<file, limbo, torn>>
      /\ vol' = [vol EXCEPT !.free = c] /\ disk' = [disk EXCEPT !.free = c]
  BY DEF SyncInPlace
<1>2. /\ Sound(vol, file, limbo) /\ Saved /\ torn \in BOOLEAN
      /\ limbo = <<>> /\ file = disk.file /\ Covered(vol.free) = Covered(disk.free)
  BY <1>1 DEF IInv, Modes, Committed
<1>3. VolOK(vol)
  BY <1>2 DEF Sound
<1>4. /\ vol = [free |-> vol.free, elems |-> vol.elems, total |-> vol.total]
      /\ vol.free \in Seq(Entry) /\ Weak(vol.free) /\ vol.elems \in Nat \ {0}
      /\ Len(vol.free) <= vol.elems /\ vol.total = Cardinality(Covered(vol.free))
  BY <1>3, VolIs
<1>5. /\ VolOK([free |-> c, elems |-> vol.elems, total |-> vol.total])
      /\ Covered(c) = Covered(vol.free) /\ Clean(c)
  BY <1>4, VolCollapsed
<1> HIDE DEF c
<1>6. vol' = [free |-> c, elems |-> vol.elems, total |-> vol.total]
  BY <1>1, <1>4
<1>7. disk' = [free |-> c, file |-> disk.file]
  BY <1>1, <1>2 DEF Saved
<1>8. VolOK(vol') /\ vol'.free = c /\ disk'.free = c /\ disk'.file = disk.file
  BY <1>5, <1>6, <1>7
<1>9. /\ file \in Table /\ Alone(Owners, Covered(vol.free), Uses(file))
      /\ \A o \in System : file[o].lba # <<>>
  BY <1>2, KeptSound DEF Kept
<1>10. Sound(vol', file', limbo')
  BY <1>1, <1>2, <1>5, <1>8, <1>9, SoundAlone
<1>11. Kept(disk'.free, disk'.file)
  <2>1. c \in Seq(Entry) /\ Strict(c)
    BY <1>8, VolIs
  <2>2. Alone(Owners, Covered(c), Uses(file))
    BY <1>5, <1>9
  <2> QED
    BY <1>2, <1>8, <1>9, <2>1, <2>2 DEF Kept
<1>12. Saved'
  BY <1>7, <1>8, <1>11 DEF Saved
<1>13. Committed' /\ Modes'
  BY <1>1, <1>2 DEF Committed, Modes, Statuses
<1> QED
  BY <1>2, <1>5, <1>8, <1>10, <1>12, <1>13 DEF IInv

(* A mount does, and finds no sector free that is not free on the disk.    *)
LEMMA MountIs ==
  ASSUME IInv, Mount
  PROVE  /\ IInv' /\ Covered(vol'.free) \subseteq Covered(disk.free)
         /\ Clean(disk.free) => Covered(vol'.free) = Covered(disk.free)
<1>1. /\ vol' = Mounted(disk.free) /\ file' = disk.file
      /\ limbo' = <<>> /\ phase' = "idle" /\ sts' = "OK" /\ UNCHANGED <<disk, torn>>
  BY DEF Mount
<1>2. Saved /\ torn \in BOOLEAN /\ Kept(disk.free, disk.file)
  BY DEF IInv, Modes, Saved
<1>3. /\ VolOK(Mounted(disk.free)) /\ Covered(Mounted(disk.free).free) \subseteq Covered(disk.free)
      /\ Clean(disk.free) => Covered(Mounted(disk.free).free) = Covered(disk.free)
  BY <1>2, MountedIs DEF Kept
<1>4. Sound(Mounted(disk.free), disk.file, <<>>)
  BY <1>2, <1>3, SoundAlone DEF Kept
<1>5. Sound(vol', file', limbo')
  BY <1>1, <1>4
<1>6. Saved' /\ Committed' /\ Modes'
  BY <1>1, <1>2 DEF Saved, Committed, Modes, Statuses
<1> QED
  BY <1>1, <1>3, <1>5, <1>6 DEF IInv

-----------------------------------------------------------------------------
(* A sector someone has.                                                   *)
LEMMA AllIn == \A o, s : s \in All(o) <=> \E x \in Owners : s \in o[x]
BY DEF All

(* Taking sectors loses none.                                              *)
LEMMA TakesAll ==
  ASSUME NEW F, NEW o, NEW G, NEW p, Takes(Owners, F, o, G, p)
  PROVE  All(p) = All(o) \cup (F \ G)
<1>1. /\ \A x \in Owners : o[x] \subseteq p[x] /\ p[x] \ o[x] \subseteq F \ G
      /\ \A s \in F \ G : \E x \in Owners : s \in p[x]
  BY DEF Takes
<1>2. ASSUME NEW s \in All(p) PROVE s \in All(o) \cup (F \ G)
  <2>1. PICK x \in Owners : s \in p[x]
    BY AllIn
  <2>2. s \in o[x] \/ s \in F \ G
    BY <1>1, <2>1
  <2> QED
    BY <2>2, AllIn
<1>3. ASSUME NEW s \in All(o) PROVE s \in All(p)
  <2>1. PICK x \in Owners : s \in o[x]
    BY AllIn
  <2>2. s \in p[x]
    BY <1>1, <2>1
  <2> QED
    BY <2>2, AllIn
<1>4. ASSUME NEW s \in F \ G PROVE s \in All(p)
  BY <1>1, AllIn
<1> QED
  BY <1>2, <1>3, <1>4

-----------------------------------------------------------------------------
(* Every entry ends before sector q.                                       *)
Under(l, q) == \A i \in DOMAIN l : End(l[i]) < q

(* mk_freelist frees what is between two home blocks.                      *)
LEMMA GapIs ==
  ASSUME NEW l \in Seq(Piece), Strict(l), NEW prev \in Nat \ {0}, Under(l, prev),
         NEW hb \in Nat, hb <= MaxLba, NEW q \in Nat, Under(l, q), hb < q
  PROVE  LET m == l \o Gap(prev, hb) IN m \in Seq(Piece) /\ Strict(m) /\ Under(m, q)
<1> DEFINE e == [start |-> prev, n |-> hb - prev]
           m == l \o Gap(prev, hb)
<1>1. CASE ~ (hb > prev)
  <2>1. Gap(prev, hb) = <<>>
    BY <1>1 DEF Gap
  <2>2. m = l
    BY <2>1
  <2> QED
    BY <2>2
<1>2. CASE hb > prev
  <2>1. m = Append(l, e)
    <3>1. m = l \o <<e>>
      BY <1>2 DEF Gap
    <3> QED
      BY <3>1
  <2>2. e \in Piece /\ e.start = prev /\ e.n = hb - prev
    BY <1>2, PieceMade
  <2>3. End(e) = hb
    BY <2>2 DEF End
  <2> HIDE DEF e
  <2>4. /\ m \in Seq(Piece) /\ Len(m) = Len(l) + 1 /\ m[Len(l) + 1] = e
        /\ \A i \in 1..Len(l) : m[i] = l[i]
    BY <2>1, <2>2, AppendProperties
  <2> HIDE DEF m
  <2>5. /\ Len(l) \in Nat /\ DOMAIN l = 1..Len(l) /\ DOMAIN m = 1..(Len(l) + 1)
        /\ \A i \in DOMAIN l : l[i].n > 0
    BY <2>4, PiecesOf
  <2>6. ASSUME NEW i \in DOMAIN m, NEW j \in DOMAIN m, i < j, m[i].n > 0, m[j].n > 0
        PROVE  End(m[i]) < m[j].start
    <3>1. i \in DOMAIN l /\ m[i] = l[i]
      BY <2>4, <2>5, <2>6
    <3>2. CASE j \in DOMAIN l
      <4>1. m[j] = l[j] /\ l[i].n > 0 /\ l[j].n > 0
        BY <2>4, <2>5, <2>6, <3>1, <3>2
      <4>2. End(l[i]) < l[j].start
        BY <2>6, <3>1, <3>2, <4>1 DEF Strict
      <4> QED
        BY <3>1, <4>1, <4>2
    <3>3. CASE j \notin DOMAIN l
      <4>1. m[j] = e
        BY <2>4, <2>5, <3>3
      <4> QED
        BY <2>2, <3>1, <4>1 DEF Under
    <3> QED
      BY <3>2, <3>3
  <2>7. Strict(m)
    BY <2>6 DEF Strict
  <2>8. Under(m, q)
    <3>1. ASSUME NEW i \in DOMAIN m PROVE End(m[i]) < q
      <4>1. CASE i \in DOMAIN l
        <5>1. m[i] = l[i]
          BY <2>4, <2>5, <4>1
        <5> QED
          BY <4>1, <5>1 DEF Under
      <4>2. CASE i \notin DOMAIN l
        <5>1. m[i] = e
          BY <2>4, <2>5, <4>2
        <5> QED
          BY <2>3, <5>1
      <4> QED
        BY <4>1, <4>2
    <3> QED
      BY <3>1 DEF Under
  <2> QED
    BY <2>4, <2>7, <2>8 DEF m
<1> QED
  BY <1>1, <1>2

(* The list of a new volume is in order.                                   *)
LEMMA MkFreelistIs == MkFreelist(MaxLba) \in Seq(Piece) /\ Strict(MkFreelist(MaxLba))
<1> DEFINE n == Len(Home)
           base == [list |-> <<>>, prev |-> 1]
           s == FoldLeft(SkipHome, base, Home)
           X == [list: Seq(Piece), prev: Nat \ {0}]
           Good(k) == {x \in X : /\ Strict(x.list) /\ Under(x.list, x.prev)
                                 /\ x.prev = IF k = 0 THEN 1 ELSE Home[k] + 1}
           T == [k \in 0..n |-> Good(k)]
<1>1. /\ n \in Nat /\ Home \in Seq(Nat \ {0}) /\ DOMAIN Home = 1..n /\ MaxLba \in Nat
      /\ \A i \in 1..n : Home[i] \in Nat \ {0} /\ Home[i] < MaxLba
      /\ \A i, j \in 1..n : i < j => Home[i] < Home[j]
  BY HomeAssumption, VolumeAssumption
<1> HIDE DEF n
<1>2. 0 \in 0..n /\ n \in 0..n /\ T[0] = Good(0) /\ T[n] = Good(n)
  BY <1>1
<1>3. base \in Good(0)
  <2>1. base \in X /\ base.list = <<>> /\ base.prev = 1
    OBVIOUS
  <2>2. Strict(<<>>) /\ Under(<<>>, 1)
    BY DEF Strict, Under
  <2> HIDE DEF base, X
  <2> QED
    BY <2>1, <2>2
<1>4. ASSUME NEW k \in 1..n, NEW x \in Good(k - 1)
      PROVE  SkipHome(x, Home[k]) \in Good(k)
  <2> DEFINE hb == Home[k]
             l == x.list
             m == l \o Gap(x.prev, hb)
  <2>1. /\ l \in Seq(Piece) /\ Strict(l) /\ x.prev \in Nat \ {0} /\ Under(l, x.prev)
        /\ x.prev = IF k - 1 = 0 THEN 1 ELSE Home[k - 1] + 1
    OBVIOUS
  <2>2. hb \in Nat /\ hb + 1 \in Nat \ {0} /\ hb <= MaxLba /\ hb < hb + 1 /\ x.prev <= hb + 1
    <3>1. hb \in Nat \ {0} /\ hb < MaxLba
      BY <1>1
    <3>2. CASE k = 1
      BY <1>1, <2>1, <3>1, <3>2
    <3>3. CASE k # 1
      <4>1. k - 1 \in 1..n /\ k - 1 < k /\ k - 1 # 0
        BY <1>1, <3>3
      <4>2. Home[k - 1] < hb /\ Home[k - 1] \in Nat
        BY <1>1, <4>1
      <4> HIDE DEF hb
      <4> QED
        BY <1>1, <2>1, <3>1, <4>1, <4>2
    <3> QED
      BY <3>2, <3>3
  <2> HIDE DEF hb
  <2>3. Under(l, hb + 1)
    <3>1. ASSUME NEW i \in DOMAIN l PROVE End(l[i]) < hb + 1
      <4>1. End(l[i]) < x.prev
        BY <2>1 DEF Under
      <4>2. End(l[i]) \in Nat
        BY <2>1, PiecesOf DEF Is
      <4> HIDE DEF l
      <4> QED
        BY <2>1, <2>2, <4>1, <4>2
    <3> QED
      BY <3>1 DEF Under
  <2> HIDE DEF l
  <2>4. m \in Seq(Piece) /\ Strict(m) /\ Under(m, hb + 1)
    BY <2>1, <2>2, <2>3, GapIs
  <2> HIDE DEF m
  <2>5. SkipHome(x, hb) = [list |-> m, prev |-> hb + 1]
    BY DEF SkipHome, m, l
  <2>6. [list |-> m, prev |-> hb + 1] \in X
    BY <2>2, <2>4
  <2>7. k # 0
    BY <1>1
  <2> QED
    BY <2>4, <2>5, <2>6, <2>7 DEF hb
<1>5. \A k \in 1..n : \A x \in T[k - 1] : SkipHome(x, Home[k]) \in T[k]
  <2>1. \A k \in 1..n : T[k] = Good(k) /\ T[k - 1] = Good(k - 1)
    BY <1>1
  <2> HIDE DEF T, Good
  <2> QED
    BY <1>4, <2>1
<1>6. s \in Good(n)
  <2>1. base \in T[0]
    BY <1>2, <1>3
  <2> HIDE DEF T, base, Good
  <2>2. \A k \in 1..Len(Home) : \A x \in T[k - 1] : SkipHome(x, Home[k]) \in T[k]
    BY <1>5 DEF n
  <2>3. s \in T[Len(Home)]
    BY <1>1, <2>1, <2>2, SkipFold
  <2> QED
    BY <1>2, <2>3 DEF n
<1> HIDE DEF s
<1>7. /\ s.list \in Seq(Piece) /\ Strict(s.list) /\ Under(s.list, s.prev)
      /\ s.prev \in Nat \ {0} /\ s.prev = IF n = 0 THEN 1 ELSE Home[n] + 1
  BY <1>6
<1> HIDE DEF T, Good
<1>8. Under(s.list, MaxLba + 1)
  <2>1. ASSUME NEW i \in DOMAIN s.list PROVE End(s.list[i]) < MaxLba + 1
    <3>1. s.list[i] \in Piece
      BY <1>7, PiecesOf
    <3>2. End(s.list[i]) \in Nat /\ End(s.list[i]) <= MaxLba
      BY <3>1, PieceIs
    <3> QED
      BY <1>1, <3>2
  <2> QED
    BY <2>1 DEF Under
<1> DEFINE m == s.list \o Gap(s.prev, MaxLba)
<1>9. m \in Seq(Piece) /\ Strict(m)
  <2>1. MaxLba <= MaxLba /\ MaxLba < MaxLba + 1 /\ MaxLba + 1 \in Nat
    BY <1>1
  <2> QED
    BY <1>1, <1>7, <1>8, <2>1, GapIs
<1>10. MkFreelist(MaxLba) = m
  BY DEF MkFreelist, s, base
<1> HIDE DEF m
<1> QED
  BY <1>9, <1>10

-----------------------------------------------------------------------------
(* init_file_system: the list is in order, and every sector is free or has *)
(* one owner.                                                              *)
Form(s) ==
  /\ s.free \in Seq(Entry) /\ Strict(s.free)
  /\ s.file \in Table /\ Alone(Owners, Covered(s.free), Uses(s.file))
  /\ All(Uses(s.file)) \cup Covered(s.free) = Space

(* File o has k headers, and copies in no later area.                      *)
UpTo(fl, o, k) ==
  Len(fl[o].lba) = k /\ \A b \in Alts : b > k => fl[o].rps[b] = <<>>

(* Owner d, a of file o took what left the list.                           *)
LEMMA FormMade ==
  ASSUME NEW s, Form(s), NEW o \in Ids, NEW h \in Heads, NEW d \in {"hdr", "data"}, NEW a \in Alts,
         NEW l \in Seq(Entry), Strict(l), Covered(l) \subseteq Covered(s.free),
         Owns(h, d, a) = Owns(s.file[o], d, a) \cup (Covered(s.free) \ Covered(l)),
         \A c \in {"hdr", "data"}, b \in Alts :
           <<c, b>> # <<d, a>> => Owns(h, c, b) = Owns(s.file[o], c, b),
         NEW t, t.free = l, t.file = [s.file EXCEPT ![o] = h]
  PROVE  Form(t)
<1> DEFINE u == Uses(s.file)
           w == Uses(t.file)
           F == Covered(s.free)
           G == Covered(l)
           x == <<o, d, a>>
<1>1. s.file \in Table /\ Alone(Owners, F, u) /\ All(u) \cup F = Space
  BY DEF Form
<1>2. t.file \in Table /\ t.file[o] = h /\ \A g \in Ids : g # o => t.file[g] = s.file[g]
  BY <1>1 DEF Table
<1>3. x \in Owners /\ u[x] = Owns(s.file[o], d, a) /\ w[x] = Owns(h, d, a)
  <2> DEFINE fl == s.file
             gl == t.file
  <2> HIDE DEF fl, gl
  <2>1. /\ <<o, d, a>> \in Owners /\ Uses(fl)[<<o, d, a>>] = Owns(fl[o], d, a)
        /\ Uses(gl)[<<o, d, a>>] = Owns(gl[o], d, a)
    <3>1. \A q : Uses(q)[<<o, d, a>>] = Owns(q[o], d, a)
      BY OwnerIs
    <3>2. <<o, d, a>> \in Owners
      BY OwnerIs
    <3> QED
      BY <3>1, <3>2
  <2> QED
    BY <1>2, <2>1 DEF fl, gl
<1>4. ASSUME NEW y \in Owners, y # x PROVE w[y] = u[y]
  <2>1. /\ y[1] \in Ids /\ y[2] \in {"hdr", "data"} /\ y[3] \in Alts /\ y = <<y[1], y[2], y[3]>>
        /\ u[y] = Owns(s.file[y[1]], y[2], y[3]) /\ w[y] = Owns(t.file[y[1]], y[2], y[3])
    BY UsesIs
  <2>2. CASE y[1] = o
    <3>1. <<y[2], y[3]>> # <<d, a>>
      BY <1>4, <2>1, <2>2
    <3> HIDE DEF u, w
    <3> QED
      BY <1>2, <2>1, <2>2, <3>1
  <2>3. CASE y[1] # o
    <3> HIDE DEF u, w
    <3> QED
      BY <1>2, <2>1, <2>3
  <2> QED
    BY <2>2, <2>3
<1> HIDE DEF u, w, F, G, x
<1>5. w[x] = u[x] \cup (F \ G) /\ G \subseteq F
  BY <1>3 DEF F, G
<1>6. Takes(Owners, F, u, G, w)
  BY <1>3, <1>4, <1>5, TakesOne
<1>7. Alone(Owners, G, w)
  BY <1>1, <1>6, TakesAlone
<1>8. All(w) \cup G = Space
  <2>1. All(w) = All(u) \cup (F \ G)
    BY <1>6, TakesAll
  <2> QED
    BY <1>1, <1>5, <2>1
<1> QED
  BY <1>2, <1>7, <1>8 DEF Form, G, w

(* What init_file_system takes was free.                                   *)
LEMMA TakeIs ==
  ASSUME NEW s, Form(s), NEW n \in Nat \ {0}, NEW a \in Alts, Take(s, n, a).ans # Null
  PROVE  Gives(s.free, Take(s, n, a), n)
<1> DEFINE g == Take(s, n, a)
<1>1. s.free \in Seq(Entry) /\ Strict(s.free) /\ MaxLba \in Nat /\ 0 \in Nat /\ Area[a] \in Nat
  BY AreaAssumption, VolumeAssumption DEF Form, Alts
<1>2. \/ FindFree(s.free, MaxLba, n, 0, Area[a]) = [free |-> s.free, ans |-> Null]
      \/ FindsIn(s.free, MaxLba, FindFree(s.free, MaxLba, n, 0, Area[a]), n)
  BY <1>1, FindFreeIs
<1>3. g = FindFree(s.free, MaxLba, n, 0, Area[a])
  BY DEF Take
<1> HIDE DEF g
<1>4. CASE g = [free |-> s.free, ans |-> Null]
  <2>1. g.ans = Null
    BY <1>4
  <2> QED
    BY <2>1 DEF g
<1>5. CASE FindsIn(s.free, MaxLba, g, n)
  BY <1>5 DEF FindsIn, g
<1> QED
  BY <1>2, <1>3, <1>4, <1>5

(* One file's step of init_file_system from s to t, which gives o its      *)
(* headers up to area to, if it had those up to area from.                 *)
Formed(s, t, o, from, to) ==
  t.ok => /\ s.ok
          /\ Form(s) /\ UpTo(s.file, o, from) =>
               /\ Form(t) /\ UpTo(t.file, o, to)
               /\ \A g \in Ids : g # o => t.file[g] = s.file[g]

(* The files and the list while a volume is formatted.                     *)
LEMMA TableIs ==
  ASSUME NEW s, Form(s), NEW o \in Ids
  PROVE  s.file \in Table /\ s.file[o] \in Heads /\ s.free \in Seq(Entry) /\ Strict(s.free)
BY DEF Form, Table

(* A file with other headers.                                              *)
LEMMA LbaSet ==
  ASSUME NEW h, h \in Heads0, NEW m
  PROVE  [h EXCEPT !.lba = m] = [lba |-> m, rps |-> h.rps, clusters |-> h.clusters]
BY DEF Heads0

(* A header, one sector near its area.                                     *)
LEMMA FormatHeaderIs ==
  ASSUME NEW s, NEW o \in Ids, NEW a \in Alts
  PROVE  Formed(s, FormatHeader(s, o, a), o, a - 1, a)
<1> DEFINE g == Take(s, 1, a)
           t == FormatHeader(s, o, a)
           old == s.file[o]
           z == g.ans.start
           h == [lba |-> Append(old.lba, z), rps |-> old.rps, clusters |-> old.clusters]
<1>1. t = [free |-> g.free, file |-> [s.file EXCEPT ![o].lba = Append(@, z)],
           ok |-> s.ok /\ g.ans # Null]
  BY DEF FormatHeader
<1> SUFFICES ASSUME t.ok
             PROVE  /\ s.ok
                    /\ Form(s) /\ UpTo(s.file, o, a - 1) =>
                         /\ Form(t) /\ UpTo(t.file, o, a)
                         /\ \A f \in Ids : f # o => t.file[f] = s.file[f]
  BY DEF Formed
<1>2. s.ok /\ g.ans # Null
  <2> DEFINE fine == s.ok /\ g.ans # Null
             fl == t.file
             free == g.free
  <2>1. t = [free |-> free, file |-> fl, ok |-> fine]
    BY <1>1
  <2> HIDE DEF t, fine, free, fl
  <2>2. t.ok = fine
    BY <2>1
  <2>3. fine
    BY <2>2
  <2> QED
    BY <2>3, Zenon DEF fine
<1> SUFFICES ASSUME Form(s), UpTo(s.file, o, a - 1)
             PROVE  /\ Form(t) /\ UpTo(t.file, o, a)
                    /\ \A f \in Ids : f # o => t.file[f] = s.file[f]
  BY <1>2
<1>3. s.file \in Table /\ old \in Heads /\ Len(old.lba) = a - 1 /\ a \in Nat \ {0} /\ a <= NAlts
  BY TableIs, AllAltsIs DEF UpTo
<1>4. /\ old.lba \in Seq(Lbas) /\ old.rps \in [Alts -> Seq(Piece)] /\ old.clusters \in Nat
      /\ old = [lba |-> old.lba, rps |-> old.rps, clusters |-> old.clusters]
      /\ \A b \in Alts : Scattered(old.rps[b])
  BY <1>3, HeadIs
<1>5. Gives(s.free, g, 1)
  BY <1>2, TakeIs
<1> HIDE DEF g
<1>6. g.free \in Seq(Entry) /\ Strict(g.free) /\ Covered(g.free) = Covered(s.free) \ {z}
      /\ z \in Covered(s.free) /\ z \in Lbas
  <2>1. g.ans \in Piece /\ g.ans.n <= 1
    BY <1>5 DEF Gives
  <2>2. SectorsOf(g.ans) = {z} /\ z \in Lbas
    BY <2>1, OneSector DEF Lbas
  <2> QED
    BY <1>5, <2>2 DEF Gives
<1> HIDE DEF z
<1> DEFINE m == Append(old.lba, z)
<1>7. /\ m \in Seq(Lbas) /\ Len(m) = a /\ m[a] = z /\ m # <<>> /\ DOMAIN m = 1..a
      /\ DOMAIN old.lba = 1..(a - 1) /\ \A i \in 1..(a - 1) : m[i] = old.lba[i]
  <2> DEFINE q == old.lba
  <2>1. q \in Seq(Lbas) /\ Len(q) = a - 1
    BY <1>3, <1>4
  <2> HIDE DEF q
  <2>2. /\ Append(q, z) \in Seq(Lbas) /\ Len(Append(q, z)) = Len(q) + 1
        /\ \A i \in 1..Len(q) : Append(q, z)[i] = q[i]
        /\ Append(q, z)[Len(q) + 1] = z
    BY <1>6, <2>1, AppendProperties
  <2>3. a - 1 + 1 = a
    BY <1>3
  <2>4. Append(q, z) # <<>>
    BY <1>3, <2>1, <2>2
  <2> QED
    BY <2>1, <2>2, <2>3, <2>4 DEF q
<1> HIDE DEF m
<1>8. h = [lba |-> m, rps |-> old.rps, clusters |-> old.clusters]
  BY DEF m
<1>9. h \in Heads
  BY <1>3, <1>4, <1>7, <1>8, HeadMade
<1>10. h.lba = m /\ h.rps = old.rps
  BY <1>8
<1>11. t.free = g.free /\ t.file = [s.file EXCEPT ![o] = h]
  <2>1. t.free = g.free /\ t.file = [s.file EXCEPT ![o].lba = Append(@, z)]
    BY <1>1
  <2>2. [old EXCEPT !.lba = m] = h
    <3>1. old \in Heads0
      BY <1>3 DEF Heads
    <3> QED
      BY <1>8, <3>1, LbaSet
  <2>3. [s.file EXCEPT ![o].lba = Append(@, z)] = [s.file EXCEPT ![o] = [old EXCEPT !.lba = m]]
    BY DEF m
  <2> QED
    BY <2>1, <2>2, <2>3
<1> HIDE DEF h, t
<1>12. /\ Owns(h, "hdr", a) = {z} /\ Owns(old, "hdr", a) = {}
       /\ \A b \in Alts : b # a => Owns(h, "hdr", b) = Owns(old, "hdr", b)
       /\ \A b \in Alts : Owns(h, "data", b) = Owns(old, "data", b)
  <2>1. a \in 1..a /\ a \notin 1..(a - 1)
    BY <1>3
  <2>2. \A b \in Alts : b # a => (b \in 1..a <=> b \in 1..(a - 1))
    BY <1>3, AllAltsIs
  <2> QED
    BY <1>7, <1>10, <2>1, <2>2 DEF Owns
<1>13. Form(t)
  <2>1. Covered(g.free) \subseteq Covered(s.free)
    BY <1>6
  <2>2. Owns(h, "hdr", a) = Owns(s.file[o], "hdr", a) \cup (Covered(s.free) \ Covered(g.free))
    BY <1>6, <1>12
  <2>3. \A c \in {"hdr", "data"}, b \in Alts :
          <<c, b>> # <<"hdr", a>> => Owns(h, c, b) = Owns(s.file[o], c, b)
    BY <1>12
  <2>4. "hdr" \in {"hdr", "data"}
    OBVIOUS
  <2> QED
    BY <1>6, <1>9, <1>11, <2>1, <2>2, <2>3, <2>4, FormMade
<1>14. t.file[o] = h /\ \A f \in Ids : f # o => t.file[f] = s.file[f]
  BY <1>3, <1>11 DEF Table
<1>15. UpTo(t.file, o, a)
  <2>1. \A b \in Alts : b > a => b > a - 1
    BY <1>3, AllAltsIs
  <2> QED
    BY <1>7, <1>10, <1>14, <2>1 DEF UpTo
<1> QED
  BY <1>13, <1>14, <1>15

(* The first extent of a copy.                                             *)
LEMMA FormatDataIs ==
  ASSUME NEW s, NEW o \in System, NEW a \in Alts
  PROVE  LET t == FormatData(s, o, a)
         IN  t.ok => /\ s.ok
                     /\ Form(s) /\ UpTo(s.file, o, a) /\ s.file[o].rps[a] = <<>> =>
                          /\ Form(t) /\ UpTo(t.file, o, a)
                          /\ \A g \in Ids : g # o => t.file[g] = s.file[g]
<1> DEFINE n == SysSize[o]
           g == Take(s, n, a)
           t == FormatData(s, o, a)
           old == s.file[o]
           r == [old.rps EXCEPT ![a] = <<g.ans>>]
           h == [lba |-> old.lba, rps |-> r, clusters |-> n]
<1>1. t = [free |-> g.free,
           file |-> [s.file EXCEPT ![o] = Holding(@, [@.rps EXCEPT ![a] = <<g.ans>>], n)],
           ok |-> s.ok /\ g.ans.n = n]
  BY DEF FormatData
<1> SUFFICES ASSUME t.ok
             PROVE  /\ s.ok
                    /\ Form(s) /\ UpTo(s.file, o, a) /\ s.file[o].rps[a] = <<>> =>
                         /\ Form(t) /\ UpTo(t.file, o, a)
                         /\ \A f \in Ids : f # o => t.file[f] = s.file[f]
  OBVIOUS
<1>2. s.ok /\ g.ans.n = n
  <2> DEFINE fine == s.ok /\ g.ans.n = n
             fl == t.file
             free == g.free
  <2>1. t = [free |-> free, file |-> fl, ok |-> fine]
    BY <1>1
  <2> HIDE DEF t, fine, free, fl
  <2>2. t.ok = fine
    BY <2>1
  <2>3. fine
    BY <2>2
  <2> QED
    BY <2>3, Zenon DEF fine
<1> SUFFICES ASSUME Form(s), UpTo(s.file, o, a), s.file[o].rps[a] = <<>>
             PROVE  /\ Form(t) /\ UpTo(t.file, o, a)
                    /\ \A f \in Ids : f # o => t.file[f] = s.file[f]
  BY <1>2
<1>3. n \in Nat \ {0} /\ o \in Ids
  BY VolumeAssumption DEF Ids
<1>4. s.file \in Table /\ old \in Heads /\ Len(old.lba) = a /\ a \in Nat \ {0}
  BY <1>3, TableIs, AllAltsIs DEF UpTo
<1>5. /\ old.lba \in Seq(Lbas) /\ old.rps \in [Alts -> Seq(Piece)] /\ old.clusters \in Nat
      /\ old = [lba |-> old.lba, rps |-> old.rps, clusters |-> old.clusters]
      /\ Len(old.lba) <= NAlts /\ \A b \in Alts : Scattered(old.rps[b])
  BY <1>4, HeadIs
<1>6. Gives(s.free, g, n)
  <2>1. g.ans # Null
    BY <1>2, <1>3 DEF Null
  <2> QED
    BY <1>3, <2>1, TakeIs
<1> HIDE DEF g, n
<1>7. /\ g.free \in Seq(Entry) /\ Strict(g.free) /\ g.ans \in Piece
      /\ SectorsOf(g.ans) \subseteq Covered(s.free)
      /\ Covered(g.free) = Covered(s.free) \ SectorsOf(g.ans)
  BY <1>6 DEF Gives
<1> DEFINE p == <<g.ans>>
<1>8. p \in Seq(Piece) /\ Scattered(p) /\ Covered(p) = SectorsOf(g.ans)
  <2>1. p \in Seq(Piece) /\ DOMAIN p = {1} /\ p[1] = g.ans
    BY <1>7
  <2> HIDE DEF p
  <2> QED
    BY <2>1 DEF Scattered, Covered
<1> HIDE DEF p
<1>9. r \in [Alts -> Seq(Piece)] /\ r[a] = p /\ \A b \in Alts : b # a => r[b] = old.rps[b]
  <2>1. r = [old.rps EXCEPT ![a] = p]
    BY DEF p
  <2> HIDE DEF r
  <2> QED
    BY <1>5, <1>8, <2>1
<1> HIDE DEF r
<1>10. h \in Heads
  <2>1. old.lba # <<>>
    BY <1>4
  <2>2. \A b \in Alts : Scattered(r[b])
    BY <1>5, <1>8, <1>9
  <2>3. n \in Nat
    BY <1>3
  <2> QED
    BY <1>5, <1>9, <2>1, <2>2, <2>3, HeadMade
<1>11. h.lba = old.lba /\ h.rps = r
  OBVIOUS
<1>12. t.free = g.free /\ t.file = [s.file EXCEPT ![o] = h]
  <2>1. t.free = g.free /\ t.file = [s.file EXCEPT ![o] = Holding(@, [@.rps EXCEPT ![a] = <<g.ans>>], n)]
    BY <1>1
  <2>2. Holding(old, r, n) = h
    <3>1. old \in Heads0
      BY <1>4 DEF Heads
    <3> QED
      BY <3>1, HoldingIs
  <2>3. t.file = [s.file EXCEPT ![o] = Holding(old, r, n)]
    BY <2>1 DEF r
  <2> QED
    BY <2>1, <2>2, <2>3
<1> HIDE DEF h, t
<1>13. /\ Owns(h, "data", a) = SectorsOf(g.ans) /\ Owns(old, "data", a) = {}
       /\ \A b \in Alts : b # a => Owns(h, "data", b) = Owns(old, "data", b)
       /\ \A b \in Alts : Owns(h, "hdr", b) = Owns(old, "hdr", b)
  <2>1. Covered(old.rps[a]) = {}
    BY NoneCovered
  <2> QED
    BY <1>8, <1>9, <1>11, <2>1 DEF Owns
<1>14. Form(t)
  <2>1. Covered(g.free) \subseteq Covered(s.free)
    BY <1>7
  <2>2. Owns(h, "data", a) = Owns(s.file[o], "data", a) \cup (Covered(s.free) \ Covered(g.free))
    BY <1>7, <1>13
  <2>3. \A c \in {"hdr", "data"}, b \in Alts :
          <<c, b>> # <<"data", a>> => Owns(h, c, b) = Owns(s.file[o], c, b)
    BY <1>13
  <2>4. "data" \in {"hdr", "data"}
    OBVIOUS
  <2> QED
    BY <1>3, <1>7, <1>10, <1>12, <2>1, <2>2, <2>3, <2>4, FormMade
<1>15. t.file[o] = h /\ \A f \in Ids : f # o => t.file[f] = s.file[f]
  BY <1>3, <1>4, <1>12 DEF Table
<1>16. UpTo(t.file, o, a)
  <2>1. \A b \in Alts : b > a => b # a
    BY <1>4
  <2> QED
    BY <1>4, <1>9, <1>11, <1>15, <2>1 DEF UpTo
<1> QED
  BY <1>14, <1>15, <1>16

-----------------------------------------------------------------------------
(* A header leaves the copies alone.                                       *)
LEMMA HeaderKeeps ==
  ASSUME NEW s, Form(s), NEW o \in Ids, NEW a \in Alts
  PROVE  FormatHeader(s, o, a).file[o].rps = s.file[o].rps
<1> DEFINE old == s.file[o]
           z == Take(s, 1, a).ans.start
           m == Append(old.lba, z)
           fl == FormatHeader(s, o, a).file
<1>1. fl = [s.file EXCEPT ![o].lba = Append(@, z)]
  BY DEF FormatHeader
<1>2. s.file \in Table /\ old \in Heads0
  BY TableIs DEF Heads
<1> HIDE DEF z, fl
<1>3. fl = [s.file EXCEPT ![o] = [old EXCEPT !.lba = m]]
  BY <1>1
<1> HIDE DEF m
<1>4. [old EXCEPT !.lba = m] = [lba |-> m, rps |-> old.rps, clusters |-> old.clusters]
  BY <1>2, LbaSet
<1>5. fl[o] = [lba |-> m, rps |-> old.rps, clusters |-> old.clusters]
  <2> DEFINE x == [old EXCEPT !.lba = m]
  <2>1. fl = [s.file EXCEPT ![o] = x]
    BY <1>3
  <2> HIDE DEF x
  <2>2. fl[o] = x
    BY <1>2, <2>1 DEF Table
  <2> QED
    BY <1>4, <2>2 DEF x
<1>6. fl[o].rps = old.rps
  BY <1>5
<1> QED
  BY <1>6 DEF fl

(* A file that is as it was has the headers it had.                        *)
LEMMA UpToSame ==
  ASSUME NEW fl, NEW gl, NEW o, NEW k, fl[o] = gl[o], UpTo(fl, o, k)
  PROVE  UpTo(gl, o, k)
BY DEF UpTo

(* A header, and a copy if the file has one in this area.                  *)
LEMMA FormatFileIs ==
  ASSUME NEW s, NEW o \in System, NEW a \in Alts
  PROVE  Formed(s, FormatFile(s, o, a), o, a - 1, a)
<1> DEFINE r == FormatHeader(s, o, a)
           t == FormatData(r, o, a)
<1>1. t = FormatFile(s, o, a) /\ o \in Ids
  BY DEF FormatFile, Ids
<1>2. Formed(s, r, o, a - 1, a)
  BY <1>1, FormatHeaderIs
<1>3. Form(s) /\ UpTo(s.file, o, a - 1) => r.file[o].rps[a] = <<>>
  <2>1. Form(s) => r.file[o].rps = s.file[o].rps
    BY <1>1, HeaderKeeps
  <2>2. a > a - 1
    BY AllAltsIs
  <2> HIDE DEF r
  <2> QED
    BY <2>1, <2>2 DEF UpTo
<1> HIDE DEF r
<1>4. t.ok => /\ r.ok
              /\ Form(r) /\ UpTo(r.file, o, a) /\ r.file[o].rps[a] = <<>> =>
                   /\ Form(t) /\ UpTo(t.file, o, a)
                   /\ \A g \in Ids : g # o => t.file[g] = r.file[g]
  BY FormatDataIs
<1> HIDE DEF t
<1>5. Formed(s, t, o, a - 1, a)
  BY <1>2, <1>3, <1>4 DEF Formed
<1> QED
  BY <1>1, <1>5

(* Every system file has its headers, and none has more, k areas on.       *)
Along(s, k) == Form(s) /\ \A o \in System : UpTo(s.file, o, k)

(* An area of the volume.                                                  *)
LEMMA FormatAreaIs ==
  ASSUME NEW s, NEW a \in Alts, FormatArea(s, a).ok
  PROVE  s.ok /\ (Along(s, a - 1) => Along(FormatArea(s, a), a))
<1> DEFINE p == FormatFile(s, "INDEX", a)
           q == FormatFile(p, "FREE", a)
           r == FormatFile(q, "ROOT", a)
           t == FormatArea(s, a)
<1>1. t = IF a = 1 THEN FormatFile(r, "JOURN", a) ELSE FormatHeader(r, "JOURN", a)
  BY DEF FormatArea
<1>2. /\ "INDEX" \in System /\ "FREE" \in System /\ "ROOT" \in System /\ "JOURN" \in System
      /\ System \subseteq Ids
  BY DEF System, Ids
<1> HIDE DEF t
<1>3. Formed(s, p, "INDEX", a - 1, a)
  BY <1>2, FormatFileIs
<1> HIDE DEF p
<1>4. Formed(p, q, "FREE", a - 1, a)
  BY <1>2, FormatFileIs
<1> HIDE DEF q
<1>5. Formed(q, r, "ROOT", a - 1, a)
  BY <1>2, FormatFileIs
<1> HIDE DEF r
<1>6. Formed(r, t, "JOURN", a - 1, a)
  <2>1. Formed(r, FormatFile(r, "JOURN", a), "JOURN", a - 1, a)
    BY <1>2, FormatFileIs
  <2>2. Formed(r, FormatHeader(r, "JOURN", a), "JOURN", a - 1, a)
    BY <1>2, FormatHeaderIs
  <2> QED
    BY <1>1, <2>1, <2>2
<1>7. t.ok
  BY DEF t
<1>8. r.ok /\ q.ok /\ p.ok /\ s.ok
  BY <1>3, <1>4, <1>5, <1>6, <1>7 DEF Formed
<1>9. ASSUME Along(s, a - 1) PROVE Along(t, a)
  <2>1. /\ Form(s) /\ UpTo(s.file, "INDEX", a - 1) /\ UpTo(s.file, "FREE", a - 1)
        /\ UpTo(s.file, "ROOT", a - 1) /\ UpTo(s.file, "JOURN", a - 1)
    BY <1>2, <1>9 DEF Along
  <2>2. /\ Form(p) /\ UpTo(p.file, "INDEX", a)
        /\ \A g \in Ids : g # "INDEX" => p.file[g] = s.file[g]
    BY <1>3, <1>8, <2>1 DEF Formed
  <2>3. UpTo(p.file, "FREE", a - 1) /\ UpTo(p.file, "ROOT", a - 1) /\ UpTo(p.file, "JOURN", a - 1)
    BY <1>2, <2>1, <2>2, UpToSame
  <2>4. /\ Form(q) /\ UpTo(q.file, "FREE", a)
        /\ \A g \in Ids : g # "FREE" => q.file[g] = p.file[g]
    BY <1>4, <1>8, <2>2, <2>3 DEF Formed
  <2>5. UpTo(q.file, "INDEX", a) /\ UpTo(q.file, "ROOT", a - 1) /\ UpTo(q.file, "JOURN", a - 1)
    BY <1>2, <2>2, <2>3, <2>4, UpToSame
  <2>6. /\ Form(r) /\ UpTo(r.file, "ROOT", a)
        /\ \A g \in Ids : g # "ROOT" => r.file[g] = q.file[g]
    BY <1>5, <1>8, <2>4, <2>5 DEF Formed
  <2>7. UpTo(r.file, "INDEX", a) /\ UpTo(r.file, "FREE", a) /\ UpTo(r.file, "JOURN", a - 1)
    BY <1>2, <2>4, <2>5, <2>6, UpToSame
  <2>8. /\ Form(t) /\ UpTo(t.file, "JOURN", a)
        /\ \A g \in Ids : g # "JOURN" => t.file[g] = r.file[g]
    BY <1>6, <1>7, <2>6, <2>7 DEF Formed
  <2>9. UpTo(t.file, "INDEX", a) /\ UpTo(t.file, "FREE", a) /\ UpTo(t.file, "ROOT", a)
    BY <1>2, <2>6, <2>7, <2>8, UpToSame
  <2> QED
    BY <2>8, <2>9 DEF Along, System
<1> QED
  BY <1>8, <1>9 DEF t

(* A formatted volume is one a sync could have left, and no sector is      *)
(* lost.                                                                   *)
LEMMA FormatIs ==
  /\ Kept(Format.free, Format.file)
  /\ All(Uses(Format.file)) \cup Covered(Format.free) = Space
<1> DEFINE base == [free |-> MkFreelist(MaxLba), file |-> [f \in Files \cup System |-> NoFile],
                    ok |-> TRUE]
           x == FoldLeft(FormatArea, base, AllAlts)
           n == NAlts
<1>1. AllAlts \in Seq(Alts) /\ Len(AllAlts) = n /\ n \in Nat \ {0} /\ Alts = 1..n
      /\ \A a \in Alts : AllAlts[a] = a
  BY AllAltsIs
<1>2. x = Formatted /\ Formatted.ok
  BY FormatAssumption DEF Formatted
<1>3. Along(base, 0)
  <2> DEFINE l == base.free
             fl == base.file
  <2>1. l = MkFreelist(MaxLba) /\ fl = [f \in Ids |-> NoFile]
    BY DEF Ids
  <2> HIDE DEF base, l, fl
  <2>2. l \in Seq(Entry) /\ Strict(l)
    BY <2>1, MkFreelistIs, PiecesOf
  <2>3. fl \in Table /\ \A f \in Ids : fl[f] = NoFile
    BY <2>1, NoFileIs DEF Table
  <2>4. \A o \in Owners : Uses(fl)[o] = {}
    <3>1. ASSUME NEW o \in Owners PROVE Uses(fl)[o] = {}
      <4>1. o[1] \in Ids /\ o[3] \in Alts /\ Uses(fl)[o] = Owns(fl[o[1]], o[2], o[3])
        BY UsesIs
      <4> QED
        BY <2>3, <4>1, NoFileIs
    <3> QED
      BY <3>1
  <2>5. Alone(Owners, Covered(l), Uses(fl))
    BY <2>4 DEF Alone
  <2>6. All(Uses(fl)) \cup Covered(l) = Space
    <3>1. All(Uses(fl)) = {}
      BY <2>4, AllIn
    <3> QED
      BY <2>1, <3>1 DEF Space
  <2>7. Form(base)
    BY <2>2, <2>3, <2>5, <2>6 DEF Form, l, fl
  <2>8. ASSUME NEW o \in System PROVE UpTo(fl, o, 0)
    <3>1. fl[o] = NoFile
      BY <2>3 DEF Ids
    <3>2. NoFile.lba = <<>> /\ \A b \in Alts : NoFile.rps[b] = <<>>
      BY DEF NoFile
    <3>3. Len(<<>>) = 0
      OBVIOUS
    <3> QED
      BY <3>1, <3>2, <3>3 DEF UpTo
  <2> QED
    BY <2>7, <2>8 DEF Along, fl
<1> HIDE DEF base, n
<1>4. PICK h : FormatSteps(h, base, AllAlts)
  BY <1>1, FormatChain
<1>5. /\ h[0] = base /\ \A k \in 1..Len(AllAlts) : h[k] = FormatArea(h[k - 1], AllAlts[k])
      /\ x = h[Len(AllAlts)]
  BY <1>4 DEF FormatSteps
<1> HIDE DEF x
<1>6. h[0] = base /\ x = h[n] /\ \A k \in 1..n : h[k] = FormatArea(h[k - 1], k)
  BY <1>1, <1>5
<1> DEFINE K == {k \in Nat : k <= n => (h[k].ok => Along(h[k], k))}
<1>7. 0 \in K
  BY <1>3, <1>6
<1>8. ASSUME NEW k \in Nat, k \in K PROVE k + 1 \in K
  <2>1. SUFFICES ASSUME k + 1 <= n, h[k + 1].ok PROVE Along(h[k + 1], k + 1)
    OBVIOUS
  <2>2. k + 1 \in 1..n /\ k + 1 - 1 = k /\ k <= n
    BY <1>1, <2>1
  <2>3. h[k + 1] = FormatArea(h[k], k + 1)
    BY <1>6, <2>2
  <2>4. h[k].ok => Along(h[k], k)
    BY <1>8, <2>2
  <2>5. h[k].ok /\ (Along(h[k], k + 1 - 1) => Along(h[k + 1], k + 1))
    <3>1. FormatArea(h[k], k + 1).ok /\ k + 1 \in Alts
      BY <1>1, <2>1, <2>2, <2>3
    <3> QED
      BY <2>3, <3>1, FormatAreaIs
  <2> QED
    BY <2>2, <2>4, <2>5
<1>9. Nat \subseteq K
  <2>1. \A k \in Nat : k \in K => k + 1 \in K
    BY <1>8
  <2> HIDE DEF K
  <2> QED
    BY <1>7, <2>1, SetInduction
<1>10. Along(x, n)
  <2>1. n \in K
    BY <1>1, <1>9
  <2>2. n <= n
    BY <1>1
  <2>3. h[n].ok
    BY <1>2, <1>6
  <2> QED
    BY <1>6, <2>1, <2>2, <2>3
<1>11. Format.free = x.free /\ Format.file = x.file
  BY <1>2 DEF Format
<1>12. \A o \in System : x.file[o].lba # <<>>
  <2>1. ASSUME NEW o \in System PROVE x.file[o].lba # <<>>
    <3>1. Len(x.file[o].lba) = n
      BY <1>10 DEF Along, UpTo
    <3> QED
      BY <1>1, <3>1
  <2> QED
    BY <2>1
<1> QED
  BY <1>10, <1>11, <1>12 DEF Along, Form, Kept

-----------------------------------------------------------------------------
(* The invariant holds of a formatted and mounted volume.                  *)
LEMMA InitIs == Init => IInv
<1> SUFFICES ASSUME Init PROVE IInv
  OBVIOUS
<1>1. /\ disk = Format /\ vol = Mounted(disk.free) /\ file = disk.file /\ limbo = <<>>
      /\ phase = "idle" /\ sts = "OK" /\ torn = FALSE
  BY DEF Init
<1>2. Kept(disk.free, disk.file)
  BY <1>1, FormatIs
<1>3. VolOK(Mounted(disk.free)) /\ Covered(Mounted(disk.free).free) \subseteq Covered(disk.free)
  BY <1>2, MountedIs DEF Kept
<1>4. Sound(Mounted(disk.free), disk.file, <<>>)
  BY <1>2, <1>3, SoundAlone DEF Kept
<1>5. Sound(vol, file, limbo)
  BY <1>1, <1>4
<1>6. disk = [free |-> disk.free, file |-> disk.file]
  BY <1>1 DEF Format
<1>7. Saved
  BY <1>2, <1>6 DEF Saved
<1>8. Committed /\ phase \in {"idle", "inplace"} /\ sts \in Statuses
  BY <1>1 DEF Committed, Statuses
<1>9. torn \in BOOLEAN
  BY <1>1, Zenon
<1> QED
  BY <1>5, <1>7, <1>8, <1>9 DEF IInv, Modes

(* An operation leaves the disk alone.                                     *)
LEMMA InMemory ==
  ASSUME IInv, Sound(vol', file', limbo'), sts' \in Statuses, phase = "idle",
         UNCHANGED <<disk, phase, torn>>
  PROVE  IInv'
<1>1. Saved /\ Modes
  BY DEF IInv
<1>2. Saved'
  BY <1>1 DEF Saved
<1>3. Modes' /\ Committed'
  BY <1>1 DEF Modes, Committed
<1> QED
  BY <1>2, <1>3 DEF IInv

(* An operation that takes sectors leaves a sound volume.                  *)
LEMMA AllocationSound ==
  ASSUME Allocation PROVE Sound(vol', file', limbo')
BY DEF Allocation, Allots

(* The sizes asked for are numbers.                                        *)
LEMMA SizesIs ==
  /\ \A n \in CreateSizes : n \in Nat
  /\ \A n \in GrowSizes : n \in Nat
  /\ \A n \in SetSizes : n \in Nat
  /\ \A n \in DirSizes : n \in Nat
  /\ \A n \in JournSizes : n \in Nat
BY SizesAssumption

(* Every action keeps the invariant.                                       *)
LEMMA NextIs ==
  ASSUME IInv, Next
  PROVE  IInv'
<1>1. Sound(vol, file, limbo)
  BY DEF IInv
<1>2. ASSUME NEW f \in Files, NEW n \in CreateSizes, NEW c \in Alts, Create(f, n, c) PROVE IInv'
  <2>1. sts' \in Statuses /\ (Allocation \/ Abandoned)
    BY <1>1, <1>2, SizesIs, CreateIs
  <2>2. Sound(vol', file', limbo')
    <3>1. Abandoned => Sound(vol', file', limbo')
      BY DEF Abandoned
    <3> QED
      BY <2>1, <3>1, AllocationSound
  <2>3. phase = "idle" /\ UNCHANGED <<disk, phase, torn>>
    BY <1>2 DEF Create
  <2> QED
    BY <2>1, <2>2, <2>3, InMemory
<1>3. ASSUME NEW f \in Files, Delete(f) PROVE IInv'
  <2>1. Releases(vol, file, limbo, f, file', limbo') /\ UNCHANGED vol /\ sts' \in Statuses
    BY <1>1, <1>3, DeleteIs
  <2>2. Sound(vol', file', limbo')
    BY <2>1 DEF Releases
  <2>3. phase = "idle" /\ UNCHANGED <<disk, phase, torn>>
    BY <1>3 DEF Delete
  <2> QED
    BY <2>1, <2>2, <2>3, InMemory
<1>4. ASSUME NEW f \in Files, NEW n \in GrowSizes, Grow(f, n) PROVE IInv'
  <2>1. sts' \in Statuses /\ Allocation
    BY <1>1, <1>4, SizesIs, GrowIs
  <2>2. phase = "idle" /\ UNCHANGED <<disk, phase, torn>>
    BY <1>4 DEF Grow, Refuse
  <2> QED
    BY <2>1, <2>2, AllocationSound, InMemory
<1>5. ASSUME NEW f \in Files, NEW c \in Alts, NEW n \in SetSizes, SetFH(f, c, n) PROVE IInv'
  <2>1. sts' \in Statuses /\ Allocation
    BY <1>1, <1>5, SizesIs, SetFHIs
  <2>2. phase = "idle" /\ UNCHANGED <<disk, phase, torn>>
    BY <1>5 DEF SetFH
  <2> QED
    BY <2>1, <2>2, AllocationSound, InMemory
<1>6. ASSUME NEW r \in DirSizes, NEW j \in JournSizes, SyncCommit(r, j) PROVE IInv'
  BY <1>6, SizesIs, SyncCommitIs
<1>7. CASE SyncInPlace
  BY <1>7, SyncInPlaceIs
<1>8. CASE Mount
  BY <1>8, MountIs
<1> QED
  BY <1>2, <1>3, <1>4, <1>5, <1>6, <1>7, <1>8 DEF Next

(* And so does none.                                                       *)
LEMMA StutterIs ==
  ASSUME IInv, UNCHANGED vars
  PROVE  IInv'
BY DEF IInv, Saved, Committed, Modes, vars

(* The inductive invariant.                                                *)
THEOREM SoundAlways == Spec => []IInv
<1>1. IInv /\ [Next]_vars => IInv'
  BY NextIs, StutterIs
<1> QED
  BY <1>1, InitIs, PTL DEF Spec

(* A list of a set is one of a larger set.                                 *)
LEMMA SeqIn ==
  ASSUME NEW S, NEW T, S \subseteq T, NEW l \in Seq(S)
  PROVE  l \in Seq(T)
OBVIOUS

(* The files have the types of FreeList.                                   *)
LEMMA TableTyped ==
  ASSUME NEW fl \in Table
  PROVE  fl \in [Files \cup System -> Header]
<1>1. ASSUME NEW f \in Ids PROVE fl[f] \in Header
  <2> DEFINE h == fl[f]
  <2>1. h \in Heads
    BY DEF Table
  <2> HIDE DEF h
  <2>2. /\ h.lba \in Seq(Lbas) /\ h.rps \in [Alts -> Seq(Piece)] /\ h.clusters \in Nat
        /\ h = [lba |-> h.lba, rps |-> h.rps, clusters |-> h.clusters]
    BY <2>1, HeadIs
  <2>3. Lbas \subseteq 1..MaxLba /\ Piece \subseteq Extent
    BY VolumeAssumption DEF Lbas, Piece
  <2>4. h.lba \in Seq(1..MaxLba)
    BY <2>2, <2>3, SeqIn
  <2>5. \A a \in Alts : h.rps[a] \in Seq(Extent)
    BY <2>2, <2>3, SeqIn
  <2>6. h.rps \in [Alts -> Seq(Extent)]
    BY <2>2, <2>5
  <2> QED
    BY <2>2, <2>4, <2>6 DEF Header, h
<1> QED
  BY <1>1 DEF Table, Ids

(* The types follow from the invariant.                                    *)
LEMMA TypedIs == IInv => TypeOK
<1> SUFFICES ASSUME IInv PROVE TypeOK
  OBVIOUS
<1>1. VolOK(vol) /\ file \in Table /\ limbo \in Seq(Piece) /\ Kept(disk.free, disk.file) /\ Modes
  BY DEF IInv, Sound, Saved
<1>2. Piece \subseteq Extent /\ Entry \subseteq Extent
  <2>1. Null \in Extent
    BY VolumeAssumption DEF Null, Extent
  <2> QED
    BY <2>1 DEF Entry, Piece
<1>3. vol.free \in Seq(Entry) /\ vol.elems \in Nat /\ vol.total \in 0..MaxLba
  BY <1>1, VolIs
<1>4. vol.free \in Seq(Extent) /\ limbo \in Seq(Extent) /\ disk.free \in Seq(Extent)
  BY <1>1, <1>2, <1>3, SeqIn DEF Kept
<1>5. file \in [Files \cup System -> Header] /\ disk.file \in [Files \cup System -> Header]
  BY <1>1, TableTyped DEF Kept
<1> QED
  BY <1>1, <1>3, <1>4, <1>5 DEF TypeOK, Modes, Statuses

(* TypeOK: the variables keep their types, whatever the constants are.     *)
THEOREM TypeCorrect == Spec => []TypeOK
BY SoundAlways, TypedIs, PTL

(* So do the order, the count and the room of the list.                    *)
LEMMA VolumeIs == IInv => Separated /\ TotalRight /\ RoomLeft
<1> SUFFICES ASSUME IInv PROVE Separated /\ TotalRight /\ RoomLeft
  OBVIOUS
<1>1. VolOK(vol)
  BY DEF IInv, Sound
<1>2. /\ vol.free \in Seq(Entry) /\ Strict(vol.free) /\ Weak(vol.free)
      /\ Len(vol.free) <= vol.elems /\ vol.total = Cardinality(Covered(vol.free))
  BY <1>1, VolIs
<1>3. Amount(vol.free) = Cardinality(Covered(vol.free))
  BY <1>2, AmountIs
<1> QED
  BY <1>2, <1>3 DEF Separated, Strict, TotalRight, RoomLeft

(* Separated: the entries of the free list in use are in order and no two  *)
(* touch, after every operation, failed or not.                            *)
THEOREM InOrder == Spec => []Separated
BY SoundAlways, VolumeIs, PTL

(* TotalRight: total_free_clusters is the number of free sectors.          *)
THEOREM CountKept == Spec => []TotalRight
BY SoundAlways, VolumeIs, PTL

(* RoomLeft: the list never outgrows the memory it has.                    *)
THEOREM RoomKept == Spec => []RoomLeft
BY SoundAlways, VolumeIs, PTL

-----------------------------------------------------------------------------
(* A new volume.                                                           *)
LEMMA InitHeld == Init => SavedHeld /\ DiskWhole
<1> SUFFICES ASSUME Init PROVE SavedHeld /\ DiskWhole
  OBVIOUS
<1>1. file = disk.file /\ disk = Format
  BY DEF Init
<1>2. SavedHeld
  BY <1>1 DEF SavedHeld
<1>3. DiskWhole
  BY <1>1, FormatIs DEF DiskWhole
<1> QED
  BY <1>2, <1>3

(* What files no longer use waits in limbo.                                *)
LEMMA HeldStep ==
  ASSUME SavedHeld, disk'.file = disk.file, Covered(limbo) \subseteq Covered(limbo'),
         \A x \in Owners : Uses(file)[x] \subseteq Uses(file')[x] \cup Covered(limbo')
  PROVE  SavedHeld'
<1> DEFINE a == Uses(disk.file)
           o == Uses(file)
           p == Uses(file')
           L == Covered(limbo)
           M == Covered(limbo')
<1>1. /\ \A x \in Owners : a[x] \subseteq o[x] \cup L
      /\ \A x \in Owners : o[x] \subseteq p[x] \cup M
      /\ L \subseteq M
  BY DEF SavedHeld
<1> HIDE DEF a, o, p, L, M
<1>2. \A x \in Owners : a[x] \subseteq p[x] \cup M
  BY <1>1
<1>3. \A x \in Owners : Uses(disk'.file)[x] \subseteq Uses(file')[x] \cup Covered(limbo')
  BY <1>2 DEF a, p, M
<1> QED
  BY <1>3, Zenon DEF SavedHeld

(* A commit and a mount leave nothing to wait for.                         *)
LEMMA HeldSame ==
  ASSUME Uses(disk'.file) = Uses(file') PROVE SavedHeld'
BY DEF SavedHeld

(* How each kind of step changes the map. Files take free sectors.         *)
Allocates ==
  /\ Takes(Owners, Covered(vol.free), Uses(file), Covered(vol'.free), Uses(file'))
  /\ Covered(limbo') = Covered(limbo) /\ disk' = disk

(* Sectors given up, or taken for nothing, wait in limbo.                  *)
Discards ==
  /\ Covered(vol'.free) \subseteq Covered(vol.free)
  /\ Covered(limbo') = Covered(limbo) \cup (All(Uses(file)) \ All(Uses(file')))
                         \cup (Covered(vol.free) \ Covered(vol'.free))
  /\ \A x \in Owners : Uses(file')[x] \in {Uses(file)[x], {}}
  /\ disk' = disk

(* A commit: files took sectors, limbo is free, and the disk has it all.   *)
Commits ==
  /\ \E G : /\ Takes(Owners, Covered(vol.free), Uses(file), G, Uses(file'))
            /\ Covered(vol'.free) = G \cup Covered(limbo)
  /\ Covered(limbo') = {} /\ disk'.file = file' /\ disk'.free = vol'.free

(* The same sectors in a shorter list.                                     *)
Tidies ==
  /\ Covered(vol'.free) = Covered(vol.free) /\ Covered(disk'.free) = Covered(disk.free)
  /\ UNCHANGED <<file, limbo>> /\ disk'.file = disk.file

(* A mount reads the disk again.                                           *)
Mounts ==
  /\ phase = "idle" \/ Crashes
  /\ file' = disk.file /\ Covered(limbo') = {} /\ disk' = disk
  /\ Clean(disk.free) => Covered(vol'.free) = Covered(disk.free)

(* No step.                                                                *)
Stays == UNCHANGED <<vol, file, limbo, disk>>

(* fsys_create is such a step.                                             *)
LEMMA CreateMaps ==
  ASSUME Sound(vol, file, limbo), NEW f \in Files, NEW n \in Nat, NEW c, Create(f, n, c)
  PROVE  Allocates \/ Discards
<1>1. (Allocation \/ Abandoned) /\ disk' = disk
  BY CreateIs DEF Create
<1>2. CASE Allocation
  BY <1>1, <1>2 DEF Allocation, Allots, Allocates
<1>3. CASE Abandoned
  BY <1>1, <1>3 DEF Abandoned, Discards
<1> QED
  BY <1>1, <1>2, <1>3

(* fsys_delete is one.                                                     *)
LEMMA DeleteMaps ==
  ASSUME Sound(vol, file, limbo), NEW f \in Files, Delete(f)
  PROVE  Discards
<1> DEFINE o == Uses(file)
           p == Uses(file')
           M == Covered(limbo')
           L == Covered(limbo)
           U == Used(file[f])
<1>1. disk' = disk /\ Releases(vol, file, limbo, f, file', limbo') /\ UNCHANGED vol
  BY DeleteIs DEF Delete
<1>2. M = L \cup U /\ \A x \in Owners : p[x] = IF x[1] = f THEN {} ELSE o[x]
  BY <1>1 DEF Releases
<1>3. \A s : s \in U <=> \E x \in Owners : x[1] = f /\ s \in o[x]
  <2>1. file \in Table /\ f \in Ids
    BY DEF Sound, Ids
  <2> QED
    BY <2>1, UsedIs
<1>4. \A x, y \in Owners : x # y => o[x] \cap o[y] = {}
  BY DEF Sound, Alone
<1> HIDE DEF o, p, M, L, U
<1>5. U = All(o) \ All(p)
  <2>1. ASSUME NEW s \in U PROVE s \in All(o) \ All(p)
    <3>1. PICK x \in Owners : x[1] = f /\ s \in o[x]
      BY <1>3
    <3>2. ASSUME NEW y \in Owners, s \in p[y] PROVE FALSE
      <4>1. y[1] # f /\ s \in o[y]
        BY <1>2, <3>2
      <4> QED
        BY <1>4, <3>1, <4>1
    <3> QED
      BY <3>1, <3>2, AllIn
  <2>2. ASSUME NEW s \in All(o) \ All(p) PROVE s \in U
    <3>1. PICK x \in Owners : s \in o[x]
      BY AllIn
    <3>2. s \notin p[x]
      BY AllIn
    <3> QED
      BY <1>2, <1>3, <3>1, <3>2
  <2> QED
    BY <2>1, <2>2
<1>6. M = L \cup (All(o) \ All(p)) \cup (Covered(vol.free) \ Covered(vol'.free))
  BY <1>1, <1>2, <1>5
<1>7. \A x \in Owners : p[x] \in {o[x], {}}
  BY <1>2
<1> QED
  BY <1>1, <1>6, <1>7 DEF Discards, o, p, M, L

(* A sync commits, or fails and has taken sectors.                         *)
LEMMA SyncMaps ==
  ASSUME IInv, NEW rdef \in Nat, NEW jdef \in Nat, SyncCommit(rdef, jdef)
  PROVE  Allocates \/ Commits
<1> DEFINE t == SizeJournal(rdef, jdef)
           x == Flush(t)
<1>1. /\ file' = t.file
      /\ IF t.sts # "OK"
         THEN vol' = t.v /\ UNCHANGED <<limbo, disk, phase, torn>>
         ELSE /\ vol' = x.v /\ limbo' = <<>>
              /\ disk' = [free |-> x.v.free, file |-> t.file]
  BY DEF SyncCommit, Sized, Journalled
<1>2. Sound(vol, file, limbo)
  BY DEF IInv
<1>3. t \in Sizings /\ Allots(vol, file, t.v, t.file, limbo)
  BY <1>2, SizeJournalIs
<1> HIDE DEF t
<1>4. /\ Sound(t.v, t.file, limbo)
      /\ Takes(Owners, Covered(vol.free), Uses(file), Covered(t.v.free), Uses(t.file))
  BY <1>3 DEF Allots
<1>5. CASE t.sts # "OK"
  BY <1>1, <1>4, <1>5 DEF Allocates
<1>6. CASE t.sts = "OK"
  <2>1. Sizing(t, limbo)
    BY <1>3, <1>4 DEF Sizing
  <2>2. Covered(x.v.free) = Covered(t.v.free) \cup Covered(limbo)
    BY <2>1, FlushedIs
  <2> HIDE DEF x
  <2>3. Covered(limbo') = {}
    BY <1>1, <1>6, NoneCovered
  <2>4. disk'.file = file' /\ disk'.free = vol'.free
    BY <1>1, <1>6
  <2>5. /\ Takes(Owners, Covered(vol.free), Uses(file), Covered(t.v.free), Uses(file'))
        /\ Covered(vol'.free) = Covered(t.v.free) \cup Covered(limbo)
    BY <1>1, <1>4, <1>6, <2>2
  <2> QED
    BY <2>3, <2>4, <2>5 DEF Commits
<1> QED
  BY <1>5, <1>6

(* Every action is one.                                                    *)
LEMMA StepMaps ==
  ASSUME IInv, [Next]_vars
  PROVE  Allocates \/ Discards \/ Commits \/ Tidies \/ Mounts \/ Stays
<1>1. Sound(vol, file, limbo)
  BY DEF IInv
<1>2. ASSUME NEW f \in Files, NEW n \in CreateSizes, NEW c \in Alts, Create(f, n, c)
      PROVE  Allocates \/ Discards
  BY <1>1, <1>2, SizesIs, CreateMaps
<1>3. ASSUME NEW f \in Files, Delete(f) PROVE Discards
  BY <1>1, <1>3, DeleteMaps
<1>4. ASSUME NEW f \in Files, NEW n \in GrowSizes, Grow(f, n) PROVE Allocates
  <2>1. Allocation /\ disk' = disk
    BY <1>1, <1>4, SizesIs, GrowIs DEF Grow, Refuse
  <2> QED
    BY <2>1 DEF Allocation, Allots, Allocates
<1>5. ASSUME NEW f \in Files, NEW c \in Alts, NEW n \in SetSizes, SetFH(f, c, n) PROVE Allocates
  <2>1. Allocation /\ disk' = disk
    BY <1>1, <1>5, SizesIs, SetFHIs DEF SetFH
  <2> QED
    BY <2>1 DEF Allocation, Allots, Allocates
<1>6. ASSUME NEW r \in DirSizes, NEW j \in JournSizes, SyncCommit(r, j) PROVE Allocates \/ Commits
  BY <1>6, SizesIs, SyncMaps
<1>7. CASE SyncInPlace
  <2>1. /\ Covered(vol'.free) = Covered(vol.free) /\ Covered(disk'.free) = Covered(disk.free)
        /\ UNCHANGED <<file, limbo>>
    BY <1>7, SyncInPlaceIs DEF SyncInPlace
  <2>2. disk'.file = disk.file
    BY <1>7 DEF IInv, Saved, SyncInPlace
  <2> QED
    BY <2>1, <2>2 DEF Tidies
<1>8. CASE Mount
  <2>1. /\ Covered(limbo') = {} /\ file' = disk.file /\ disk' = disk
        /\ phase = "idle" \/ Crashes
    BY <1>8, NoneCovered DEF Mount
  <2> QED
    BY <1>8, <2>1, MountIs DEF Mounts
<1>9. CASE UNCHANGED vars
  BY <1>9 DEF vars, Stays
<1> QED
  BY <1>2, <1>3, <1>4, <1>5, <1>6, <1>7, <1>8, <1>9 DEF Next

-----------------------------------------------------------------------------
(* No action gives away a sector the disk uses.                            *)
LEMMA HeldKept ==
  ASSUME IInv, SavedHeld, [Next]_vars
  PROVE  SavedHeld'
<1> DEFINE o == Uses(file)
           p == Uses(file')
           L == Covered(limbo)
           M == Covered(limbo')
<1>1. CASE Allocates
  <2>1. L \subseteq M /\ disk'.file = disk.file /\ \A x \in Owners : o[x] \subseteq p[x]
    BY <1>1 DEF Allocates, Takes
  <2> HIDE DEF o, p, L, M
  <2>2. \A x \in Owners : o[x] \subseteq p[x] \cup M
    BY <2>1
  <2> QED
    BY <2>1, <2>2, HeldStep DEF o, p, L, M
<1>2. CASE Discards
  <2> DEFINE X == Covered(vol.free) \ Covered(vol'.free)
  <2>1. /\ \A x \in Owners : p[x] \in {o[x], {}}
        /\ M = L \cup (All(o) \ All(p)) \cup X
    BY <1>2 DEF Discards
  <2>2. disk'.file = disk.file
    BY <1>2 DEF Discards
  <2> HIDE DEF X
  <2>3. \A x, y \in Owners : x # y => o[x] \cap o[y] = {}
    BY DEF IInv, Sound, Alone
  <2> HIDE DEF o, p, L, M
  <2>4. ASSUME NEW x \in Owners, NEW s \in o[x] PROVE s \in p[x] \cup M
    <3>1. CASE p[x] = o[x]
      BY <2>4, <3>1
    <3>2. CASE p[x] = {}
      <4>1. s \in All(o)
        BY <2>4, AllIn
      <4>2. ASSUME NEW y \in Owners, s \in p[y] PROVE FALSE
        <5>1. y # x /\ s \in o[y]
          BY <2>1, <3>2, <4>2
        <5> QED
          BY <2>3, <2>4, <5>1
      <4>3. s \notin All(p)
        BY <4>2, AllIn
      <4> QED
        BY <2>1, <4>1, <4>3
    <3> QED
      BY <2>1, <3>1, <3>2
  <2>5. \A x \in Owners : o[x] \subseteq p[x] \cup M
    BY <2>4
  <2>6. L \subseteq M
    BY <2>1
  <2> QED
    BY <2>5, <2>6, <2>2, HeldStep DEF o, p, L, M
<1>3. CASE Commits
  BY <1>3, HeldSame DEF Commits
<1>4. CASE Tidies
  <2>1. limbo' = limbo /\ file' = file /\ disk'.file = disk.file
    BY <1>4 DEF Tidies
  <2>2. L \subseteq M /\ \A x \in Owners : o[x] \subseteq p[x] \cup M
    BY <2>1
  <2> QED
    BY <2>1, <2>2, HeldStep
<1>5. CASE Mounts
  BY <1>5, HeldSame DEF Mounts
<1>6. CASE Stays
  BY <1>6 DEF Stays, SavedHeld
<1> QED
  BY <1>1, <1>2, <1>3, <1>4, <1>5, <1>6, StepMaps

(* Whatever happens, a crash in the middle of a sync included, no sector   *)
(* has two uses, and none that the volume on the disk uses is given away.  *)
THEOREM SharesNothing == Spec => []NeverShared
<1>1. IInv /\ SavedHeld /\ [Next]_vars => SavedHeld'
  BY HeldKept
<1>2. Init => SavedHeld
  BY InitHeld
<1>3. IInv /\ SavedHeld => NeverShared
  BY DEF IInv, Sound, Alone, NeverShared
<1> QED
  BY <1>1, <1>2, <1>3, SoundAlways, PTL DEF Spec

-----------------------------------------------------------------------------
(* A new volume is whole.                                                  *)
LEMMA InitWhole == Init /\ CommittedClean => Whole
<1> SUFFICES ASSUME Init, CommittedClean PROVE Whole
  OBVIOUS
<1>1. file = disk.file /\ vol = Mounted(disk.free) /\ limbo = <<>> /\ phase = "idle"
      /\ disk = Format
  BY DEF Init
<1>2. Kept(disk.free, disk.file)
  BY <1>1, FormatIs
<1>3. Covered(vol.free) = Covered(disk.free)
  BY <1>1, <1>2, MountedIs DEF Kept, CommittedClean
<1>4. DiskWhole
  BY InitHeld
<1> QED
  BY <1>1, <1>3, <1>4, NoneCovered DEF Whole, DiskWhole

(* Every action keeps it whole.                                            *)
LEMMA WholeKept ==
  ASSUME IInv, Whole, CommittedClean, [Next]_vars
  PROVE  Whole'
<1> DEFINE o == All(Uses(file))
           p == All(Uses(file'))
           F == Covered(vol.free)
           H == Covered(vol'.free)
           L == Covered(limbo)
           M == Covered(limbo')
           d == All(Uses(disk.file))
           D == Covered(disk.free)
           S == Space
<1>1. d \cup D = S /\ o \cup F \cup L = S
  BY DEF Whole, DiskWhole
<1>2. SUFFICES All(Uses(disk'.file)) \cup Covered(disk'.free) = S /\ p \cup H \cup M = S
  BY DEF Whole, DiskWhole
<1> HIDE DEF S
<1>3. CASE Allocates
  <2>1. p = o \cup (F \ H) /\ H \subseteq F /\ M = L /\ disk' = disk
    BY <1>3, TakesAll DEF Allocates, Takes
  <2> HIDE DEF o, p, F, H, L, M
  <2>2. p \cup H \cup M = S
    BY <1>1, <2>1
  <2> QED
    BY <1>1, <2>1, <2>2
<1>4. CASE Discards
  <2>1. H \subseteq F /\ M = L \cup (o \ p) \cup (F \ H) /\ disk' = disk
    BY <1>4 DEF Discards
  <2>2. p \subseteq o
    <3>1. ASSUME NEW s \in p PROVE s \in o
      <4>1. PICK x \in Owners : s \in Uses(file')[x]
        BY AllIn
      <4>2. Uses(file')[x] \in {Uses(file)[x], {}}
        BY <1>4 DEF Discards
      <4>3. s \in Uses(file)[x]
        BY <4>1, <4>2
      <4> QED
        BY <4>3, AllIn
    <3> QED
      BY <3>1
  <2> HIDE DEF o, p, F, H, L, M
  <2>3. p \cup H \cup M = S
    BY <1>1, <2>1, <2>2
  <2> QED
    BY <1>1, <2>1, <2>3
<1>5. CASE Commits
  <2>1. PICK G : Takes(Owners, F, Uses(file), G, Uses(file')) /\ H = G \cup L
    BY <1>5 DEF Commits
  <2>2. p = o \cup (F \ G) /\ G \subseteq F
    <3>1. p = o \cup (F \ G)
      BY <2>1, TakesAll
    <3>2. G \subseteq F
      BY <2>1 DEF Takes
    <3> QED
      BY <3>1, <3>2
  <2>3. M = {} /\ disk'.file = file' /\ Covered(disk'.free) = H
    BY <1>5 DEF Commits
  <2>4. p \cup H = S /\ p \cup H \cup M = S
    <3> HIDE DEF o, p, F, H, L, M
    <3> QED
      BY <1>1, <2>1, <2>2, <2>3
  <2> QED
    BY <2>3, <2>4
<1>6. CASE Tidies
  BY <1>1, <1>6 DEF Tidies
<1>7. CASE Mounts
  <2>1. /\ Clean(disk.free) => H = D
        /\ phase = "idle" \/ Crashes
        /\ file' = disk.file /\ M = {} /\ disk' = disk
    BY <1>7 DEF Mounts
  <2>2. H = D
    BY <2>1 DEF CommittedClean
  <2>3. p = d
    BY <2>1
  <2> HIDE DEF p, H, M, d, D
  <2>4. p \cup H \cup M = S
    BY <1>1, <2>1, <2>2, <2>3
  <2> QED
    BY <1>1, <2>1, <2>4 DEF d, D
<1>8. CASE Stays
  BY <1>1, <1>8 DEF Stays
<1> QED
  BY <1>3, <1>4, <1>5, <1>6, <1>7, <1>8, StepMaps

-----------------------------------------------------------------------------
(* The steps of the map.                                                   *)
LEMMA UsesTyped ==
  ASSUME NEW fl, All(Uses(fl)) \subseteq Space
  PROVE  Uses(fl) \in [Owners -> SUBSET Space]
<1> DEFINE u == Uses(fl)
<1>1. u = [o \in Owners |-> u[o]]
  BY DEF Uses
<1> HIDE DEF u
<1>2. ASSUME NEW o \in Owners, NEW s \in u[o] PROVE s \in Space
  <2>1. s \in All(u)
    BY AllIn
  <2> QED
    BY <2>1 DEF u
<1>3. \A o \in Owners : u[o] \in SUBSET Space
  BY <1>2
<1>4. u \in [Owners -> SUBSET Space]
  BY <1>1, <1>3
<1> QED
  BY <1>4 DEF u

(* What the map's owners have.                                             *)
LEMMA OwnedIs == \A o : Map!Owned(o) = All(o)
BY DEF Map!Owned, All

(* Uses are of the type of the map.                                        *)
LEMMA TypedNext ==
  ASSUME Whole' PROVE Uses(file') \in [Owners -> SUBSET Space]
<1>1. All(Uses(file')) \subseteq Space
  BY DEF Whole
<1> QED
  BY <1>1, UsesTyped

(* And nobody shares.                                                      *)
LEMMA DisjointNext ==
  ASSUME IInv' PROVE Map!Disjoint(Uses(file'))
BY DEF IInv, Sound, Alone, Map!Disjoint

(* Taking free sectors is the map's Allocate.                              *)
LEMMA AllocateStep ==
  ASSUME IInv', Whole', Allocates
  PROVE  Map!Allocate
<1>1. Uses(file') \in [Owners -> SUBSET Space] /\ Map!Disjoint(Uses(file'))
  BY TypedNext, DisjointNext
<1>2. Takes(Owners, Covered(vol.free), Uses(file), Covered(vol'.free), Uses(file'))
  BY DEF Allocates
<1>3. /\ \A x \in Owners : Uses(file)[x] \subseteq Uses(file')[x]
      /\ Covered(vol'.free) \subseteq Covered(vol.free)
  BY <1>2 DEF Takes
<1>4. Map!Owned(Uses(file'))
        = Map!Owned(Uses(file)) \cup (Covered(vol.free) \ Covered(vol'.free))
  BY <1>2, TakesAll, OwnedIs
<1>5. Covered(limbo') = Covered(limbo) /\ Uses(disk'.file) = Uses(disk.file)
  BY DEF Allocates
<1> QED
  BY <1>1, <1>3, <1>4, <1>5, Zenon DEF Map!Allocate

(* Giving sectors up is its Release.                                       *)
LEMMA ReleaseStep ==
  ASSUME Whole', Discards
  PROVE  Map!Release
<1>1. Uses(file') \in [Owners -> SUBSET Space]
  BY TypedNext
<1>2. Covered(vol'.free) \subseteq Covered(vol.free)
  BY DEF Discards
<1>3. \A x \in Owners : Uses(file')[x] \in {Uses(file)[x], {}}
  BY DEF Discards
<1>4. Covered(limbo') = Covered(limbo)
        \cup (Map!Owned(Uses(file)) \ Map!Owned(Uses(file')))
        \cup (Covered(vol.free) \ Covered(vol'.free))
  <2>1. Covered(limbo') = Covered(limbo) \cup (All(Uses(file)) \ All(Uses(file')))
          \cup (Covered(vol.free) \ Covered(vol'.free))
    BY DEF Discards
  <2> QED
    BY <2>1, OwnedIs
<1>5. Uses(disk'.file) = Uses(disk.file)
  BY DEF Discards
<1> QED
  BY <1>1, <1>2, <1>3, <1>4, <1>5, Zenon DEF Map!Release

(* A commit is its Commit.                                                 *)
LEMMA CommitStep ==
  ASSUME IInv, IInv', Whole', Commits
  PROVE  Map!Commit
<1> DEFINE o == Uses(file)
           p == Uses(file')
           F == Covered(vol.free)
           H == Covered(vol'.free)
           L == Covered(limbo)
<1>1. p \in [Owners -> SUBSET Space] /\ Map!Disjoint(p)
  BY TypedNext, DisjointNext
<1>2. PICK G : Takes(Owners, F, o, G, p) /\ H = G \cup L
  BY DEF Commits
<1>3. G \subseteq F /\ \A x \in Owners : o[x] \subseteq p[x]
  BY <1>2 DEF Takes
<1>4. All(p) = All(o) \cup (F \ G)
  BY <1>2, TakesAll
<1>5. Covered(limbo') = {} /\ Uses(disk'.file) = p
  BY DEF Commits
<1>6. All(o) \cap F = {} /\ All(o) \cap L = {} /\ F \cap L = {}
  <2>1. \A x \in Owners : o[x] \cap (F \cup L) = {}
    BY DEF IInv, Sound, Alone
  <2>2. F \cap L = {}
    BY DEF IInv, Sound
  <2> HIDE DEF o, F, L
  <2>3. All(o) \cap (F \cup L) = {}
    BY <2>1, AllIn
  <2> QED
    BY <2>2, <2>3
<1> HIDE DEF o, p, F, H, L
<1>7. All(p) \ All(o) \subseteq F
  BY <1>4
<1>8. H = (F \cup L) \ All(p)
  BY <1>2, <1>3, <1>4, <1>6
<1>9. /\ Map!Owned(p) \ Map!Owned(o) \subseteq F /\ H = (F \cup L) \ Map!Owned(p)
  BY <1>7, <1>8, OwnedIs
<1> QED
  BY <1>1, <1>3, <1>5, <1>9, Zenon DEF Map!Commit, o, p, F, H, L

(* A mount is its Revert.                                                  *)
LEMMA RevertStep ==
  ASSUME IInv, Whole, CommittedClean, Mounts
  PROVE  Map!Revert
<1> DEFINE d == Uses(disk.file)
           D == Covered(disk.free)
           H == Covered(vol'.free)
<1>1. Uses(file') = d /\ Covered(limbo') = {} /\ Uses(disk'.file) = d
  BY DEF Mounts
<1>2. H = D
  <2>1. (phase = "idle" \/ Crashes) /\ (Clean(disk.free) => H = D)
    BY DEF Mounts
  <2> QED
    BY <2>1 DEF CommittedClean
<1>3. All(d) \cup D = Space
  BY DEF Whole, DiskWhole
<1>4. All(d) \cap D = {}
  <2>1. \A x \in Owners : d[x] \cap D = {}
    BY DEF IInv, Saved, Kept, Alone
  <2> HIDE DEF d, D
  <2> QED
    BY <2>1, AllIn
<1> HIDE DEF d, D, H
<1>5. H = Space \ Map!Owned(d)
  BY <1>2, <1>3, <1>4, OwnedIs
<1> QED
  BY <1>1, <1>5, Zenon DEF Map!Revert, d, H

(* Every action is a step of the map or leaves it alone.                   *)
LEMMA MapStep ==
  ASSUME IInv, Whole, CommittedClean, IInv', Whole', [Next]_vars
  PROVE  [Map!Next]_(Map!vars)
<1>1. Tidies => UNCHANGED Map!vars
  <2>1. ASSUME Tidies
        PROVE  /\ Covered(vol'.free) = Covered(vol.free) /\ Covered(limbo') = Covered(limbo)
               /\ Uses(file') = Uses(file) /\ Uses(disk'.file) = Uses(disk.file)
    BY <2>1 DEF Tidies
  <2> QED
    BY <2>1 DEF Map!vars
<1>2. Stays => UNCHANGED Map!vars
  BY DEF Stays, Map!vars
<1> QED
  BY <1>1, <1>2, AllocateStep, ReleaseStep, CommitStep, RevertStep, StepMaps DEF Map!Next

(* A formatted volume is an initial map.                                   *)
LEMMA MapInit ==
  ASSUME Init, CommittedClean PROVE Map!Init
<1>1. IInv /\ Whole /\ limbo = <<>> /\ file = disk.file
  BY InitIs, InitWhole DEF Init
<1> DEFINE o == Uses(file)
           F == Covered(vol.free)
           L == Covered(limbo)
<1>2. L = {} /\ Uses(disk.file) = o
  BY <1>1, NoneCovered
<1>3. All(o) \cup F \cup L = Space
  BY <1>1 DEF Whole
<1>4. \A x, y \in Owners : x # y => o[x] \cap o[y] = {}
  BY <1>1 DEF IInv, Sound, Alone
<1>5. \A x \in Owners : o[x] \cap (F \cup L) = {}
  BY <1>1 DEF IInv, Sound, Alone
<1>6. o \in [Owners -> SUBSET Space]
  <2>1. All(o) \subseteq Space
    BY <1>3
  <2> QED
    BY <2>1, UsesTyped
<1> HIDE DEF o, F, L
<1>7. F \in SUBSET Space
  BY <1>3
<1>8. All(o) \cap (F \cup L) = {}
  BY <1>5, AllIn
<1>9. /\ Map!Disjoint(o) /\ F \cap L = {} /\ Map!Owned(o) \cap (F \cup L) = {}
      /\ Map!Owned(o) \cup F \cup L = Space
  BY <1>2, <1>3, <1>4, <1>8, OwnedIs DEF Map!Disjoint
<1> QED
  BY <1>2, <1>6, <1>7, <1>9 DEF Map!Init, Map!Partition, o, F, L

(* ConservesSpace: every operation, sync and mount is a step of the map of *)
(* the disk, if what a mount may read is collapsed.                        *)
THEOREM SpaceKept == Spec /\ []CommittedClean => ConservesSpace
<1>1. IInv /\ Whole /\ CommittedClean /\ [Next]_vars => Whole'
  BY WholeKept
<1>2. Init /\ CommittedClean => Whole
  BY InitWhole
<1>3. Init /\ CommittedClean => Map!Init
  BY MapInit
<1>4. IInv /\ Whole /\ CommittedClean /\ IInv' /\ Whole' /\ [Next]_vars => [Map!Next]_(Map!vars)
  BY MapStep
<1> QED
  BY <1>1, <1>2, <1>3, <1>4, SoundAlways, PTL DEF Spec, ConservesSpace, Map!Spec

(* Without a crash in the middle of a sync, what a mount may read stays    *)
(* collapsed.                                                              *)
LEMMA CleanKept ==
  ASSUME IInv, CommittedClean, ~Crashes, [Next]_vars
  PROVE  CommittedClean'
<1>1. CASE SyncInPlace
  BY <1>1, SyncInPlaceIs DEF CommittedClean
<1>2. ASSUME NEW r \in DirSizes, NEW j \in JournSizes, SyncCommit(r, j)
      PROVE  CommittedClean'
  BY <1>2 DEF SyncCommit, Sized, Journalled, CommittedClean
<1>3. CASE Mount
  BY <1>3 DEF Mount, CommittedClean
<1>4. ASSUME UNCHANGED <<disk, phase>> PROVE CommittedClean'
  BY <1>4 DEF CommittedClean
<1>5. ASSUME NEW f \in Files, NEW n, NEW c, Create(f, n, c) PROVE CommittedClean'
  BY <1>4, <1>5 DEF Create
<1>6. ASSUME NEW f \in Files, Delete(f) PROVE CommittedClean'
  BY <1>4, <1>6 DEF Delete
<1>7. ASSUME NEW f \in Files, NEW n, Grow(f, n) PROVE CommittedClean'
  BY <1>4, <1>7 DEF Grow, Refuse
<1>8. ASSUME NEW f \in Files, NEW c, NEW n, SetFH(f, c, n) PROVE CommittedClean'
  BY <1>4, <1>8 DEF SetFH
<1>9. CASE UNCHANGED vars
  BY <1>4, <1>9 DEF vars
<1> QED
  BY <1>1, <1>2, <1>3, <1>5, <1>6, <1>7, <1>8, <1>9 DEF Next

(* ConservesSpace, when no crash comes in the middle of a sync: every      *)
(* operation, sync and mount is a step of the map of the disk, from a      *)
(* format that left no empty entry.                                        *)
THEOREM SpaceKeptAtRest ==
  ASSUME ~Crashes, Clean(Format.free)
  PROVE  Spec => ConservesSpace
<1>1. Init => CommittedClean
  BY DEF Init, CommittedClean
<1>2. IInv /\ CommittedClean /\ [Next]_vars => CommittedClean'
  BY CleanKept
<1>3. Spec => []CommittedClean
  BY <1>1, <1>2, SoundAlways, PTL DEF Spec
<1> QED
  BY <1>3, SpaceKept, PTL
=============================================================================
