---------------------------- MODULE NamesProofs ----------------------------
(***************************************************************************)
(* Every operation, sync, crash and mount keeps the invariant of NamesInv, *)
(* whatever the number of files, names, descriptors and generations; the   *)
(* properties of Names follow from it, and Names implements AtomicVolume.  *)
(***************************************************************************)
EXTENDS NamesInv, FiniteSetTheorems, WellFoundedInduction, TLAPS

-----------------------------------------------------------------------------
(* The operators of the model.                                             *)

(* FIDs are numbers, and so are names. *)
LEMMA Constants ==
  /\ MaxFid \in Nat /\ MaxFid >= 1 /\ MaxGen \in Nat \ {0}
  /\ Fids = 1..MaxFid /\ Root = 1 /\ IndexFid = 0 /\ Root \in Fids /\ 0 \notin Fids
  /\ Names \subseteq Nat \ {0} /\ IsFiniteSet(Fids)
BY FidsAssumption, NamesAssumption, FS_Interval DEF Fids, Root, IndexFid

(* Any nonempty set of numbers has a least one. *)
LEMMA Least ==
  ASSUME NEW S \in SUBSET Nat, S # {}
  PROVE  \E x \in S : \A y \in S : x <= y
<1> DEFINE R == OpToRel(<, Nat)
<1>1. IsWellFoundedOn(R, Nat)
  BY NatLessThanWellFounded
<1>2. \A x, y \in Nat : x < y => <<x, y>> \in R
  BY DEF OpToRel
<1> HIDE DEF R
<1>3. PICK x \in S : \A y \in S : ~(<<y, x>> \in R)
  <2>1. S \subseteq Nat
    OBVIOUS
  <2> QED
    BY <1>1, <2>1, WFMin
<1>4. \A y \in S : x <= y
  <2>1. \A y \in S : y \in Nat /\ x \in Nat /\ ~(y < x)
    BY <1>2, <1>3
  <2> QED
    BY <2>1
<1> QED
  BY <1>3, <1>4

(* The least of a set of numbers is in it. *)
LEMMA MinIs ==
  ASSUME NEW S \in SUBSET Nat, S # {}
  PROVE  Min(S) \in S /\ \A y \in S : Min(S) <= y
BY Least DEF Min

(* The last of the FIDs counted up is the greatest. *)
LEMMA MaxIs ==
  ASSUME NEW n \in Nat \ {0}
  PROVE  Max(1..n) = n
<1>1. n \in 1..n /\ \A y \in 1..n : n >= y
  OBVIOUS
<1>2. \A x \in 1..n : (\A y \in 1..n : x >= y) => x = n
  BY <1>1
<1> QED
  BY <1>1, <1>2 DEF Max

(* A set of FIDs can be put in order. *)
Ordered(q) == \A i, j \in DOMAIN q : i < j => q[i] < q[j]

(* All sets of the first k FIDs can. *)
Orderable(k) == \A T \in SUBSET (1..k) : \E q \in [1..Cardinality(T) -> T] : Ordered(q)

(* A set of one FID more: the last one is put after the others. *)
LEMMA OrderedUpTo ==
  ASSUME NEW k \in Nat \ {0}, Orderable(k - 1), NEW T \in SUBSET (1..k)
  PROVE  \E q \in [1..Cardinality(T) -> T] : Ordered(q)
<1>1. T \subseteq Int /\ IsFiniteSet(T)
  <2>0. 1 \in Int /\ k \in Int
    OBVIOUS
  <2>1. IsFiniteSet(1..k)
    BY <2>0, FS_Interval
  <2>2. IsFiniteSet(T)
    BY <2>1, FS_Subset
  <2>3. 1..k \subseteq Int
    OBVIOUS
  <2> QED
    BY <2>2, <2>3
<1>2. CASE k \notin T
  <2>1. T \in SUBSET (1..(k - 1))
    BY <1>1, <1>2
  <2> QED
    BY <2>1 DEF Orderable
<1>3. CASE k \in T
  <2> DEFINE U == T \ {k}
  <2>1. U \in SUBSET (1..(k - 1))
    BY <1>1
  <2>2. PICK q \in [1..Cardinality(U) -> U] : Ordered(q)
    BY <2>1 DEF Orderable
  <2> DEFINE c == Cardinality(U)
  <2>3. IsFiniteSet(U) /\ Cardinality(U) = Cardinality(T) - 1
    BY <1>1, <1>3, FS_RemoveElement
  <2>4. c \in Nat /\ Cardinality(T) \in Nat
    BY <1>1, <2>3, FS_CardinalityType
  <2>5. Cardinality(T) = c + 1
    BY <2>3, <2>4
  <2> DEFINE p == [i \in 1..(c + 1) |-> IF i = c + 1 THEN k ELSE q[i]]
  <2>6. \A i \in 1..c : q[i] \in T /\ q[i] \in Int /\ q[i] < k
    <3> SUFFICES ASSUME NEW i \in 1..c PROVE q[i] \in T /\ q[i] \in Int /\ q[i] < k
      OBVIOUS
    <3>1. q[i] \in U
      BY <2>2
    <3>2. q[i] \in T /\ q[i] \in 1..(k - 1)
      BY <3>1, <2>1
    <3> QED
      BY <3>2
  <2> HIDE DEF c, U
  <2>7. p \in [1..(c + 1) -> T]
    <3> SUFFICES ASSUME NEW i \in 1..(c + 1) PROVE p[i] \in T
      OBVIOUS
    <3>1. i = c + 1 \/ i \in 1..c
      BY <2>4
    <3> QED
      BY <3>1, <1>3, <2>6
  <2>8. Ordered(p)
    <3> SUFFICES ASSUME NEW i \in 1..(c + 1), NEW j \in 1..(c + 1), i < j PROVE p[i] < p[j]
      BY DEF Ordered
    <3>1. i \in 1..c /\ i # c + 1
      BY <2>4
    <3>2. CASE j = c + 1
      BY <3>1, <3>2, <2>6
    <3>3. CASE j # c + 1
      <4>1. j \in 1..c /\ DOMAIN q = 1..c
        BY <3>3, <2>2, <2>4 DEF c
      <4> QED
        BY <4>1, <3>1, <3>3, <2>2 DEF Ordered
    <3> QED
      BY <3>2, <3>3
  <2> QED
    BY <2>5, <2>7, <2>8
<1> QED
  BY <1>2, <1>3

(* Every set of FIDs can be put in order. *)
LEMMA CanBeOrdered == \A n \in Nat : Orderable(n)
<1> DEFINE Bad == {k \in Nat : ~Orderable(k)}
<1> SUFFICES ASSUME Bad # {} PROVE FALSE
  OBVIOUS
<1>1. PICK k \in Bad : \A j \in Bad : k <= j
  BY Least
<1>2. k \in Nat /\ ~Orderable(k)
  OBVIOUS
<1>3. k # 0
  <2>1. Orderable(0)
    <3> SUFFICES ASSUME NEW T \in SUBSET (1..0)
                 PROVE  \E q \in [1..Cardinality(T) -> T] : Ordered(q)
      BY DEF Orderable
    <3>1. T = {}
      OBVIOUS
    <3>2. Cardinality(T) = 0
      BY <3>1, FS_EmptySet
    <3>3. 1..0 = {}
      OBVIOUS
    <3> DEFINE q == [i \in {} |-> 0]
    <3>4. q \in [1..Cardinality(T) -> T] /\ Ordered(q)
      BY <3>1, <3>2, <3>3 DEF Ordered
    <3> QED
      BY <3>4
  <2> QED
    BY <1>2, <2>1
<1>4. Orderable(k - 1)
  BY <1>1, <1>2, <1>3
<1>5. k \in Nat \ {0}
  BY <1>2, <1>3
<1>6. Orderable(k)
  BY <1>4, <1>5, OrderedUpTo DEF Orderable
<1> QED
  BY <1>2, <1>6

(* InOrder lists a set of FIDs, each once. *)
LEMMA InOrderIs ==
  ASSUME NEW S \in SUBSET Fids
  PROVE  /\ InOrder(S) \in Seq(Fids) /\ IsInjective(InOrder(S))
         /\ \A f : f \in S <=> \E i \in DOMAIN InOrder(S) : InOrder(S)[i] = f
<1>1. IsFiniteSet(S) /\ Cardinality(S) \in Nat
  BY Constants, FS_Subset, FS_CardinalityType
<1> DEFINE q == InOrder(S)
<1>2. q \in [1..Cardinality(S) -> S] /\ Ordered(q)
  <2>1. \E r \in [1..Cardinality(S) -> S] : Ordered(r)
    BY CanBeOrdered, Constants DEF Orderable
  <2> QED
    BY <2>1 DEF InOrder, Ordered
<1> HIDE DEF q
<1>3. \A i \in DOMAIN q : q[i] \in S /\ q[i] \in Int
  <2>1. \A f \in S : f \in Int
    BY Constants
  <2> QED
    BY <1>2, <2>1
<1>4. IsInjective(q)
  BY <1>1, <1>2, <1>3 DEF IsInjective, Ordered
<1>5. q \in Injection(1..Cardinality(S), S)
  BY <1>2, <1>4 DEF Injection, IsInjective
<1>6. Cardinality(1..Cardinality(S)) = Cardinality(S)
  BY <1>1, FS_Interval
<1>7. q \in Surjection(1..Cardinality(S), S)
  BY <1>1, <1>5, <1>6, FS_Injection
<1>8. \A f \in S : \E i \in DOMAIN q : q[i] = f
  BY <1>7 DEF Surjection
<1>9. q \in Seq(Fids)
  BY <1>1, <1>2
<1> QED
  BY <1>2, <1>4, <1>8, <1>9 DEF q

-----------------------------------------------------------------------------
(* Lookup.                                                                 *)

(* A path is looked up in a directory. *)
LEMMA OwnerIs ==
  ASSUME NEW v \in InMemory, NEW p \in Paths
  PROVE  /\ Owner(v, p) # 0 => Owner(v, p) \in Fids /\ v.rfh[Owner(v, p)].dir
         /\ Last(p) \in Names
<1>1. Owner(v, p) # 0 => Owner(v, p) \in Fids /\ v.rfh[Owner(v, p)].dir
  BY DEF Owner
<1>2. p \in Seq(Names) /\ p # <<>>
  BY PathsAssumption
<1>3. Len(p) \in 1..Len(p)
  BY <1>2
<1>4. Last(p) \in Names
  BY <1>2, <1>3 DEF Last
<1> QED
  BY <1>1, <1>4

(* What is found is the file of an entry of its owner. *)
LEMMA FoundIs ==
  ASSUME NEW v \in InMemory, MemSound(v), NEW p \in Paths
  PROVE  /\ Found(v, p) # 0 =>
              /\ Owner(v, p) # 0 /\ Found(v, p) \in There(v) \ {Root}
              /\ v.dirs[Owner(v, p)][Last(p)].fid = Found(v, p)
              /\ v.dirs[Owner(v, p)][Last(p)].gen = v.rfh[Found(v, p)].gen
         /\ Owner(v, p) # 0 => Owner(v, p) \in There(v)
         /\ Owner(v, p) # 0 /\ Found(v, p) = 0 => v.dirs[Owner(v, p)][Last(p)] = NoEnt
<1> DEFINE o == Owner(v, p)
           n == Last(p)
           e == v.dirs[o][n]
<1>1. n \in Names /\ (o # 0 => o \in Fids /\ v.rfh[o].dir)
  BY OwnerIs
<1>2. o # 0 => o \in There(v)
  BY <1>1 DEF MemSound, GoneAreGone, NoFile
<1>3. o # 0 => e \in Entry
  BY <1>1 DEF InMemory
<1>4. o # 0 /\ e # NoEnt => e.fid \in There(v) \ {Root} /\ Live(v, e)
  <2> SUFFICES ASSUME o # 0, e # NoEnt PROVE e.fid \in There(v) \ {Root} /\ Live(v, e)
    OBVIOUS
  <2>1. IsEnt(v, o, n)
    BY DEF IsEnt
  <2>2. e.fid \in There(v) \ {Root} /\ v.rfh[e.fid].gen = e.gen
    BY <1>1, <1>2, <2>1 DEF MemSound, Sound, EntriesLead
  <2> QED
    BY <2>2, Constants DEF Live, There
<1>5. NoEnt.fid = 0
  BY DEF NoEnt
<1>6. Found(v, p) = IF o # 0 /\ Live(v, e) THEN e.fid ELSE 0
  BY DEF Found
<1>7. Live(v, e) => e.fid # 0 /\ v.rfh[e.fid].gen = e.gen
  BY DEF Live
<1> HIDE DEF o, e
<1>8. Found(v, p) # 0 =>
        o # 0 /\ Found(v, p) \in There(v) \ {Root} /\ e.fid = Found(v, p) /\ e.gen = v.rfh[Found(v, p)].gen
  BY <1>4, <1>5, <1>6, <1>7
<1>9. o # 0 /\ Found(v, p) = 0 => e = NoEnt
  BY <1>4, <1>6, <1>7
<1> QED
  BY <1>2, <1>8, <1>9 DEF o, e

-----------------------------------------------------------------------------
(* FIDs given back.                                                        *)

(* A list has a FID. *)
Listed(q, f) == \E i \in DOMAIN q : q[i] = f

(* The list of unused FIDs gets each FID that it lacked, once. *)
LEMMA AddedToUnused ==
  ASSUME NEW q \in Seq(Fids), IsInjective(q), NEW S \in SUBSET Fids
  PROVE  /\ AddToUnused(q, S) \in Seq(Fids) /\ IsInjective(AddToUnused(q, S))
         /\ \A f \in Fids : Listed(AddToUnused(q, S), f) <=> Listed(q, f) \/ f \in S
<1> DEFINE T == {f \in S : \A i \in DOMAIN q : q[i] # f}
           r == InOrder(T)
<1>1. r \in Seq(Fids) /\ IsInjective(r) /\ \A f : f \in T <=> \E i \in DOMAIN r : r[i] = f
  BY InOrderIs
<1>2. AddToUnused(q, S) = q \o r
  BY DEF AddToUnused
<1> HIDE DEF r
<1>3. \A i \in DOMAIN q, j \in DOMAIN r : q[i] # r[j]
  BY <1>1
<1> DEFINE a == q \o r
<1>4. /\ a \in Seq(Fids) /\ Len(a) = Len(q) + Len(r) /\ Len(q) \in Nat /\ Len(r) \in Nat
      /\ DOMAIN a = 1..Len(a) /\ DOMAIN q = 1..Len(q) /\ DOMAIN r = 1..Len(r)
      /\ \A i \in 1..Len(a) : a[i] = IF i <= Len(q) THEN q[i] ELSE r[i - Len(q)]
  BY <1>1
<1> HIDE DEF a
<1>5. \A i \in 1..Len(a) : i <= Len(q) => i \in DOMAIN q /\ a[i] = q[i]
  BY <1>4
<1>6. \A i \in 1..Len(a) : ~(i <= Len(q)) => i - Len(q) \in DOMAIN r /\ a[i] = r[i - Len(q)]
  BY <1>4
<1>7. IsInjective(a)
  <2> SUFFICES ASSUME NEW i \in 1..Len(a), NEW j \in 1..Len(a), a[i] = a[j] PROVE i = j
    BY <1>4 DEF IsInjective
  <2>1. CASE i <= Len(q) /\ j <= Len(q)
    BY <2>1, <1>5 DEF IsInjective
  <2>2. CASE ~(i <= Len(q)) /\ ~(j <= Len(q))
    <3>1. i - Len(q) = j - Len(q)
      BY <2>2, <1>1, <1>6 DEF IsInjective
    <3> QED
      BY <3>1, <1>4
  <2>3. CASE i <= Len(q) /\ ~(j <= Len(q))
    BY <2>3, <1>3, <1>5, <1>6
  <2>4. CASE ~(i <= Len(q)) /\ j <= Len(q)
    BY <2>4, <1>3, <1>5, <1>6
  <2> QED
    BY <2>1, <2>2, <2>3, <2>4
<1>8. ASSUME NEW f \in Fids PROVE Listed(a, f) <=> Listed(q, f) \/ f \in S
  <2>1. Listed(a, f) => Listed(q, f) \/ f \in S
    <3> SUFFICES ASSUME NEW i \in 1..Len(a), a[i] = f PROVE Listed(q, f) \/ f \in S
      BY <1>4 DEF Listed
    <3> QED
      BY <1>1, <1>5, <1>6 DEF Listed
  <2>2. ASSUME NEW i \in DOMAIN q, q[i] = f PROVE Listed(a, f)
    <3>1. i \in 1..Len(a) /\ i <= Len(q)
      BY <1>4
    <3> QED
      BY <3>1, <2>2, <1>4 DEF Listed
  <2>3. ASSUME NEW j \in DOMAIN r, r[j] = f PROVE Listed(a, f)
    <3>1. j + Len(q) \in 1..Len(a) /\ ~(j + Len(q) <= Len(q)) /\ (j + Len(q)) - Len(q) = j
      BY <1>4
    <3> QED
      BY <3>1, <2>3, <1>4 DEF Listed
  <2>4. f \in S => Listed(q, f) \/ \E j \in DOMAIN r : r[j] = f
    BY <1>1 DEF Listed
  <2> QED
    BY <2>1, <2>2, <2>3, <2>4 DEF Listed
<1> QED
  BY <1>2, <1>4, <1>7, <1>8 DEF a

(* Blasting the FIDs of some files. *)
LEMMA Blasted ==
  ASSUME NEW v \in InMemory, NEW S \in SUBSET Fids, IsInjective(v.unused),
         NEW z, z = BlastFids(v, S)
  PROVE  /\ z \in InMemory
         /\ z.index = [f \in Fids |-> IF f \in S THEN Empty(v.rfh[f].gen) ELSE v.index[f]]
         /\ z.rfh = [f \in Fids |-> IF f \in S THEN NoFile ELSE v.rfh[f]]
         /\ z.dirs = [f \in Fids |-> IF f \in S THEN NoDir ELSE v.dirs[f]]
         /\ z.ffree = v.ffree /\ z.dirty = v.dirty /\ z.ibits = v.ibits \cup S
         /\ IsInjective(z.unused)
         /\ \A f \in Fids : Listed(z.unused, f) <=> Listed(v.unused, f) \/ f \in S
<1>1. v.unused \in Seq(Fids)
  BY DEF InMemory
<1>2. /\ AddToUnused(v.unused, S) \in Seq(Fids) /\ IsInjective(AddToUnused(v.unused, S))
      /\ \A f \in Fids : Listed(AddToUnused(v.unused, S), f) <=> Listed(v.unused, f) \/ f \in S
  BY <1>1, AddedToUnused
<1>3. /\ z.index = [f \in Fids |-> IF f \in S THEN Empty(v.rfh[f].gen) ELSE v.index[f]]
      /\ z.rfh = [f \in Fids |-> IF f \in S THEN NoFile ELSE v.rfh[f]]
      /\ z.dirs = [f \in Fids |-> IF f \in S THEN NoDir ELSE v.dirs[f]]
      /\ z.dots = [f \in Fids |-> IF f \in S THEN NoEnt ELSE v.dots[f]]
      /\ z.ffree = v.ffree /\ z.dirty = v.dirty /\ z.ibits = v.ibits \cup S
      /\ z.unused = AddToUnused(v.unused, S)
  BY DEF BlastFids, InMemory
<1>4. /\ NoFile \in Header /\ NoEnt \in Entry /\ NoDir \in [Names -> Entry]
      /\ \A f \in Fids : Empty(v.rfh[f].gen) \in Slot
  BY SMTT(60), Constants DEF NoFile, Header, NoDir, NoEnt, Entry, Empty, Slot, InMemory
<1>5. z \in InMemory
  <2>1. z = [rfh |-> z.rfh, dirs |-> z.dirs, dots |-> z.dots, index |-> z.index, unused |-> z.unused,
             ffree |-> z.ffree, dirty |-> z.dirty, ibits |-> z.ibits]
    BY DEF BlastFids, InMemory
  <2>2. /\ z.index \in [Fids -> Slot] /\ z.rfh \in [Fids -> Header] /\ z.dirs \in [Fids -> [Names -> Entry]]
        /\ z.dots \in [Fids -> Entry]
    BY <1>3, <1>4 DEF InMemory
  <2> QED
    BY <2>1, <2>2, <1>2, <1>3 DEF InMemory
<1> QED
  BY <1>2, <1>3, <1>5

-----------------------------------------------------------------------------
(* Removing a name and its file.                                           *)

(* The file that is removed has no entries of its own. *)
Removable(v, o, n, fid) ==
  /\ o \in Fids /\ n \in Names /\ fid \in Fids
  /\ v.dirs[o][n].fid = fid
  /\ ~v.rfh[fid].dir \/ v.dirs[fid] = NoDir

(* The FID is unused, its generation kept, and the name gone. *)
AfterZap(v, o, n, fid, z) ==
  /\ z \in InMemory
  /\ There(z) = There(v) \ {fid}
  /\ \A f \in Fids : f # fid => z.rfh[f] = v.rfh[f] /\ z.index[f] = v.index[f]
  /\ z.rfh[fid] = NoFile /\ z.index[fid] = Empty(v.rfh[fid].gen)
  /\ \A f \in Fids, k \in Names :
       z.dirs[f][k] = IF f = fid \/ (f = o /\ k = n) THEN NoEnt ELSE v.dirs[f][k]
  /\ z.dirs[fid] = NoDir /\ \A f \in Fids \ {fid, o} : z.dirs[f] = v.dirs[f]
  /\ z.ffree = v.ffree /\ v.dirty \cup {o} \subseteq z.dirty /\ z.ibits = v.ibits \cup {fid}
  /\ IsInjective(z.unused)
  /\ \A f \in Fids : Listed(z.unused, f) <=> Listed(v.unused, f) \/ f = fid

(* What zap_file leaves of the volume. *)
LEMMA Zapped ==
  ASSUME NEW v \in InMemory, NEW o \in Fids, NEW n \in Names, NEW fid \in Fids, IsInjective(v.unused)
  PROVE  AfterZap(v, o, n, fid, ZapFile(v, o, n, fid))
<1> DEFINE z == ZapFile(v, o, n, fid)
<1> DEFINE w == [v EXCEPT !.dirs[o][n] = NoEnt, !.dirty = @ \cup {o}]
<1>1. /\ w.rfh = v.rfh /\ w.index = v.index /\ w.unused = v.unused /\ w.ffree = v.ffree
      /\ w.ibits = v.ibits /\ w.dirty = v.dirty \cup {o}
      /\ w.dirs = [v.dirs EXCEPT ![o][n] = NoEnt]
  BY DEF InMemory
<1>2. NoEnt \in Entry
  BY Constants DEF NoEnt, Entry
<1>3. w \in InMemory
  <2>1. w.dirs \in [Fids -> [Names -> Entry]]
    BY <1>1, <1>2 DEF InMemory
  <2>2. w = [v EXCEPT !.dirs = w.dirs, !.dirty = w.dirty]
    BY <1>1
  <2>3. w.dirty \in SUBSET ({IndexFid} \cup Fids)
    BY <1>1 DEF InMemory
  <2> HIDE DEF w
  <2> QED
    BY <2>1, <2>2, <2>3 DEF InMemory
<1>4. z = BlastFids(w, {fid}) /\ {fid} \in SUBSET Fids /\ IsInjective(w.unused)
  BY <1>1 DEF ZapFile
<1> HIDE DEF w, z
<1>5. /\ z \in InMemory
      /\ z.index = [f \in Fids |-> IF f \in {fid} THEN Empty(w.rfh[f].gen) ELSE w.index[f]]
      /\ z.rfh = [f \in Fids |-> IF f \in {fid} THEN NoFile ELSE w.rfh[f]]
      /\ z.dirs = [f \in Fids |-> IF f \in {fid} THEN NoDir ELSE w.dirs[f]]
      /\ z.ffree = w.ffree /\ z.dirty = w.dirty /\ z.ibits = w.ibits \cup {fid}
      /\ IsInjective(z.unused)
      /\ \A f \in Fids : Listed(z.unused, f) <=> Listed(w.unused, f) \/ f \in {fid}
  BY <1>3, <1>4, Blasted
<1>6. There(z) = There(v) \ {fid}
  BY <1>1, <1>5 DEF There, Empty
<1>7. \A f \in Fids, k \in Names :
        w.dirs[f][k] = IF f = o /\ k = n THEN NoEnt ELSE v.dirs[f][k]
  BY <1>1 DEF InMemory
<1>8. \A f \in Fids \ {o} : w.dirs[f] = v.dirs[f]
  BY <1>1 DEF InMemory
<1>9. \A k \in Names : NoDir[k] = NoEnt
  BY DEF NoDir
<1> QED
  BY <1>1, <1>5, <1>6, <1>7, <1>8, <1>9 DEF AfterZap, z

(* What a step that gives no FID out leaves. *)
Steady(v, z, w) ==
  /\ z \in InMemory /\ MemSound(z) /\ Marked(z, w)
  /\ z.ffree = v.ffree /\ \A f \in Fids : LastGen(z, f) = LastGen(v, f)

(* A file that is removed with its name leaves the volume sound. *)
LEMMA ZapKeeps ==
  ASSUME NEW v \in InMemory, NEW w \in OnDisk, MemSound(v), Marked(v, w),
         NEW o, NEW n, NEW fid, Removable(v, o, n, fid),
         NEW z, AfterZap(v, o, n, fid, z)
  PROVE  Steady(v, z, w)
<1>1. /\ o \in Fids /\ n \in Names /\ fid \in Fids /\ v.dirs[o][n].fid = fid
      /\ ~v.rfh[fid].dir \/ v.dirs[fid] = NoDir
      /\ IsInjective(v.unused)
  BY DEF Removable, MemSound, UnusedSound
<1>2. /\ z \in InMemory
      /\ There(z) = There(v) \ {fid}
      /\ \A f \in Fids : f # fid => z.rfh[f] = v.rfh[f] /\ z.index[f] = v.index[f]
      /\ z.rfh[fid] = NoFile /\ z.index[fid] = Empty(v.rfh[fid].gen)
      /\ \A f \in Fids, k \in Names :
           z.dirs[f][k] = IF f = fid \/ (f = o /\ k = n) THEN NoEnt ELSE v.dirs[f][k]
      /\ z.dirs[fid] = NoDir /\ \A f \in Fids \ {fid, o} : z.dirs[f] = v.dirs[f]
      /\ z.ffree = v.ffree /\ v.dirty \cup {o} \subseteq z.dirty /\ z.ibits = v.ibits \cup {fid}
      /\ IsInjective(z.unused)
      /\ \A f \in Fids : Listed(z.unused, f) <=> Listed(v.unused, f) \/ f = fid
  BY DEF AfterZap
<1>3. /\ o \in There(v) /\ v.dirs[o][n] # NoEnt
      /\ fid \in There(v) \ {Root} /\ fid # 0
  <2>1. fid # 0 /\ v.dirs[o][n] # NoEnt
    BY <1>1, Constants DEF NoEnt
  <2>2. o \in There(v)
    BY <1>1, <2>1 DEF MemSound, GoneAreGone, NoDir
  <2> QED
    BY <1>1, <2>1, <2>2 DEF MemSound, Sound, EntriesLead, IsEnt
<1>4. \A f \in There(v), k \in Names : v.dirs[f][k].fid = fid => f = o /\ k = n
  BY <1>1, <1>3 DEF MemSound, Sound, OneName, IsEnt
<1>5. \A k \in Names : v.dirs[fid][k] = NoEnt
  <2>1. \A k \in Names : v.dirs[fid][k] # NoEnt => v.rfh[fid].dir
    BY <1>3 DEF MemSound, Sound, EntriesLead, IsEnt
  <2> QED
    BY <1>1, <2>1 DEF NoDir
<1>6. FilesSound(z)
  BY <1>2, <1>3 DEF MemSound, Sound, FilesSound, There
<1>7. EntriesLead(z)
  <2> SUFFICES ASSUME NEW f \in There(z), NEW k \in Names, z.dirs[f][k] # NoEnt
               PROVE  /\ z.rfh[f].dir
                      /\ z.dirs[f][k].fid \in There(z) \ {Root}
                      /\ z.rfh[z.dirs[f][k].fid].gen = z.dirs[f][k].gen
    BY DEF EntriesLead, IsEnt
  <2>1. f \in There(v) /\ f \in Fids /\ f # fid /\ z.dirs[f][k] = v.dirs[f][k] /\ ~(f = o /\ k = n)
    BY <1>2 DEF There
  <2>2. /\ v.rfh[f].dir /\ v.dirs[f][k].fid \in There(v) \ {Root}
        /\ v.rfh[v.dirs[f][k].fid].gen = v.dirs[f][k].gen
    BY <2>1 DEF MemSound, Sound, EntriesLead, IsEnt
  <2>3. v.dirs[f][k].fid # fid
    BY <2>1, <1>4
  <2>4. z.rfh[f] = v.rfh[f] /\ z.rfh[v.dirs[f][k].fid] = v.rfh[v.dirs[f][k].fid]
    BY <2>1, <2>2, <2>3, <1>2 DEF There
  <2>5. There(z) = There(v) \ {fid}
    BY <1>2
  <2> QED
    BY <2>1, <2>2, <2>3, <2>4, <2>5, Zenon
<1>8. OneName(z)
  <2> SUFFICES ASSUME NEW f \in There(z), NEW g \in There(z), NEW k \in Names, NEW j \in Names,
                      z.dirs[f][k] # NoEnt, z.dirs[f][k].fid = z.dirs[g][j].fid
               PROVE  f = g /\ k = j
    BY DEF OneName, IsEnt
  <2>1. z.dirs[f][k].fid \in There(z) \ {Root}
    BY <1>7 DEF EntriesLead, IsEnt
  <2>2. z.dirs[g][j] # NoEnt
    BY <2>1, Constants DEF NoEnt, There
  <2>3. /\ f \in There(v) /\ g \in There(v) /\ z.dirs[f][k] = v.dirs[f][k] /\ z.dirs[g][j] = v.dirs[g][j]
    BY <1>2, <2>2 DEF There
  <2> QED
    BY <2>3 DEF MemSound, Sound, OneName, IsEnt
<1>9. Named(z)
  <2> SUFFICES ASSUME NEW g \in There(z) \ {Root}
               PROVE  \E f \in There(z), k \in Names : z.dirs[f][k].fid = g
    BY DEF Named
  <2>1. g \in There(v) \ {Root} /\ g # fid /\ g \in Fids
    BY <1>2 DEF There
  <2>2. PICK f \in There(v), k \in Names : v.dirs[f][k].fid = g
    BY <2>1 DEF MemSound, Sound, Named
  <2>3. v.dirs[f][k] # NoEnt
    BY <2>1, <2>2, Constants DEF NoEnt
  <2>4. f # fid /\ ~(f = o /\ k = n)
    BY <2>1, <2>2, <2>3, <1>1, <1>5
  <2> QED
    BY <2>2, <2>4, <1>2 DEF There
<1>10. GoneAreGone(z)
  <2> SUFFICES ASSUME NEW f \in Fids
               PROVE  IF f \in There(z) THEN z.rfh[f].valid ELSE z.rfh[f] = NoFile /\ z.dirs[f] = NoDir
    BY DEF GoneAreGone
  <2>1. f \notin There(v) => f # o
    BY <1>3
  <2> QED
    BY <2>1, <1>2 DEF MemSound, GoneAreGone
<1>11. UnusedSound(z)
  <2>1. fid < v.ffree
    BY <1>3 DEF MemSound, Sound, FilesSound
  <2>2. \A f \in Fids : Listed(z.unused, f) <=> f < z.ffree /\ f \notin There(z)
    BY <2>1, <1>2, <1>3 DEF MemSound, UnusedSound, Listed
  <2>3. \A f \in Fids \ There(z) : f < z.ffree => z.index[f].use = "empty"
    BY <1>2 DEF MemSound, UnusedSound, Empty
  <2> QED
    BY <2>2, <2>3, <1>2 DEF UnusedSound, Listed
<1>12. Marked(z, w)
  <2>1. \A f \in There(z) \ z.dirty : Alike(z, w, f)
    <3> SUFFICES ASSUME NEW f \in There(z) \ z.dirty PROVE Alike(z, w, f)
      OBVIOUS
    <3>1. f \in There(v) \ v.dirty /\ f # o /\ f # fid /\ f \in Fids
      BY <1>2 DEF There
    <3>2. Alike(v, w, f)
      BY <3>1 DEF Marked
    <3> QED
      BY <3>1, <3>2, <1>2 DEF Alike
  <2>2. \A f \in Fids \ z.ibits : f \in There(z) <=> f \in There(w)
    BY <1>2 DEF Marked
  <2>3. IndexFid \notin z.dirty => w.ffree = z.ffree
    BY <1>2 DEF Marked
  <2> QED
    BY <2>1, <2>2, <2>3 DEF Marked
<1>13. \A f \in Fids : LastGen(z, f) = LastGen(v, f)
  BY <1>2, <1>3 DEF LastGen, Empty
<1> QED
  BY <1>2, <1>6, <1>7, <1>8, <1>9, <1>10, <1>11, <1>12, <1>13 DEF MemSound, Sound, Steady

-----------------------------------------------------------------------------
(* A FID for a new file.                                                   *)

(* The next generation is one more, or the first. *)
LEMMA NextGenIs ==
  ASSUME NEW g \in 0..MaxGen
  PROVE  /\ NextGen(g) \in 1..MaxGen
         /\ NextGen(g) = g + 1 \/ (g = MaxGen /\ NextGen(g) = 1)
BY Constants DEF NextGen

(* The FID is old, with its next generation, or the first that was never used. *)
AfterGet(v, fid, gen, g) ==
  /\ g \in InMemory /\ fid \notin There(v) /\ gen \in 1..MaxGen
  /\ g.rfh = [v.rfh EXCEPT ![fid] = [NoFile EXCEPT !.gen = gen]]
  /\ g.index = [v.index EXCEPT ![fid] = Empty(gen)]
  /\ g.dirs = v.dirs /\ g.ibits = v.ibits
  /\ v.dirty \subseteq g.dirty /\ fid < g.ffree
  /\ \/ g.ffree = v.ffree /\ fid < v.ffree /\ gen = NextGen(v.index[fid].gen)
     \/ g.ffree = v.ffree + 1 /\ fid = v.ffree /\ IndexFid \in g.dirty
  /\ IsInjective(g.unused)
  /\ \A f \in Fids : Listed(g.unused, f) <=> f < g.ffree /\ f \notin There(v) /\ f # fid

(* A header that has a generation alone is a header. *)
LEMMA NewHeader ==
  ASSUME NEW gen \in 1..MaxGen
  PROVE  [NoFile EXCEPT !.gen = gen] \in Header /\ Empty(gen) \in Slot
<1>1. gen \in 0..MaxGen
  BY Constants
<1> QED
  BY <1>1 DEF NoFile, Header, Empty, Slot

(* What get_fh leaves: its FID is neither unused nor a file's. *)
LEMMA Got ==
  ASSUME NEW v \in InMemory, MemSound(v), NewFid(v) \in Fids
  PROVE  AfterGet(v, NewFid(v), GetFh(v).rfh[NewFid(v)].gen, GetFh(v))
<1> DEFINE q == v.unused
           i == FreeFid(v)
           fid == NewFid(v)
           g == GetFh(v)
           gen == IF i = 0 THEN 1 ELSE NextGen(v.index[fid].gen)
<1>1. q \in Seq(Fids) /\ Len(q) \in Nat /\ DOMAIN q = 1..Len(q) /\ \A j \in 1..Len(q) : q[j] \in Fids
  BY DEF InMemory
<1>2. /\ IsInjective(q)
      /\ \A f \in Fids : Listed(q, f) <=> f < v.ffree /\ f \notin There(v)
      /\ \A f \in Fids \ There(v) : f < v.ffree => v.index[f].use = "empty"
  BY DEF MemSound, UnusedSound, Listed
<1>3. \A j \in DOMAIN q : q[j] < v.ffree /\ q[j] \notin There(v) /\ v.index[q[j]].use = "empty"
  <2> SUFFICES ASSUME NEW j \in DOMAIN q
               PROVE  q[j] < v.ffree /\ q[j] \notin There(v) /\ v.index[q[j]].use = "empty"
    OBVIOUS
  <2>1. q[j] \in Fids /\ Listed(q, q[j])
    BY <1>1 DEF Listed
  <2> QED
    BY <2>1, <1>2
<1>4. i = Len(q)
  <2> DEFINE free == {j \in DOMAIN q : v.index[q[j]].use = "empty"}
  <2>1. free = 1..Len(q)
    BY <1>1, <1>3
  <2>2. i = IF free = {} THEN 0 ELSE Max(free)
    BY DEF FreeFid
  <2>3. CASE Len(q) = 0
    <3>1. free = {}
      BY <2>1, <2>3
    <3> QED
      BY <3>1, <2>2, <2>3
  <2>4. CASE Len(q) # 0
    <3>1. Max(1..Len(q)) = Len(q) /\ 1 \in 1..Len(q)
      BY <1>1, <2>4, MaxIs
    <3>2. free # {} /\ Max(free) = Len(q)
      BY <2>1, <3>1
    <3> QED
      BY <2>2, <3>2
  <2> QED
    BY <2>3, <2>4
<1>5. fid = IF Len(q) = 0 THEN v.ffree ELSE q[Len(q)]
  BY <1>4 DEF NewFid
<1>6. fid \in Fids /\ v.ffree \in 2..(MaxFid + 1)
  BY DEF InMemory
<1>7. CASE Len(q) = 0
  <2>1. i = 0 /\ fid = v.ffree /\ gen = 1
    BY <1>4, <1>5, <1>7
  <2>2. /\ g.rfh = [v.rfh EXCEPT ![fid] = [NoFile EXCEPT !.gen = gen]]
        /\ g.index = [v.index EXCEPT ![fid] = Empty(gen)]
        /\ g.dirs = v.dirs /\ g.ibits = v.ibits /\ g.dirty = v.dirty \cup {IndexFid}
        /\ g.ffree = v.ffree + 1 /\ g.unused = SubSeq(q, 1, 0)
    BY <2>1, <1>6 DEF GetFh, InMemory
  <2>3. g.unused = <<>>
    BY <2>2, <1>1
  <2>4. v.rfh \in [Fids -> Header] /\ g.rfh[fid].gen = gen /\ gen \in 1..MaxGen
    BY <2>1, <2>2, <1>6, Constants DEF InMemory, NoFile
  <2>5. fid \notin There(v)
    BY <2>1, <1>6, Constants DEF MemSound, Sound, FilesSound, There
  <2>6. \A f \in Fids : Listed(g.unused, f) <=> f < g.ffree /\ f \notin There(v) /\ f # fid
    <3> SUFFICES ASSUME NEW f \in Fids PROVE ~(f < g.ffree /\ f \notin There(v) /\ f # fid)
      BY <2>3 DEF Listed
    <3>1. ~Listed(q, f)
      BY <1>1, <1>7 DEF Listed
    <3>2. ~(f < v.ffree /\ f \notin There(v))
      BY <3>1, <1>2
    <3> QED
      BY <3>2, <2>1, <2>2, <1>6, Constants
  <2>7. g \in InMemory
    <3>1. g = [v EXCEPT !.unused = g.unused, !.ffree = g.ffree, !.dirty = g.dirty,
                        !.index = g.index, !.rfh = g.rfh]
      BY <2>1, <1>6 DEF GetFh, InMemory
    <3>2. [NoFile EXCEPT !.gen = gen] \in Header /\ Empty(gen) \in Slot
      BY <2>4, NewHeader
    <3>3. g.rfh \in [Fids -> Header] /\ g.index \in [Fids -> Slot]
      BY <3>2, <2>2 DEF InMemory
    <3>4. /\ g.dirs \in [Fids -> [Names -> Entry]] /\ g.unused \in Seq(Fids) /\ g.ffree \in 2..(MaxFid + 1)
          /\ g.dirty \in SUBSET ({IndexFid} \cup Fids) /\ g.ibits \in SUBSET Fids
      BY <2>1, <2>2, <2>3, <1>6, Constants DEF InMemory
    <3> QED
      BY <3>1, <3>3, <3>4 DEF InMemory
  <2>8. IsInjective(g.unused)
    BY <2>3 DEF IsInjective
  <2>9. fid < g.ffree
    BY <2>1, <2>2, <1>6, Constants
  <2> HIDE DEF gen
  <2> QED
    BY <2>1, <2>2, <2>4, <2>5, <2>6, <2>7, <2>8, <2>9 DEF AfterGet
<1>8. CASE Len(q) # 0
  <2>1. i # 0 /\ fid = q[Len(q)] /\ Len(q) \in DOMAIN q /\ gen = NextGen(v.index[fid].gen)
    BY <1>1, <1>4, <1>5, <1>8
  <2>2. /\ g.rfh = [v.rfh EXCEPT ![fid] = [NoFile EXCEPT !.gen = gen]]
        /\ g.index = [v.index EXCEPT ![fid] = Empty(gen)]
        /\ g.dirs = v.dirs /\ g.ibits = v.ibits /\ g.dirty = v.dirty
        /\ g.ffree = v.ffree /\ g.unused = SubSeq(q, 1, Len(q) - 1)
    BY <2>1, <1>4, <1>6 DEF GetFh, InMemory
  <2>3. /\ g.unused \in Seq(Fids) /\ DOMAIN g.unused = 1..(Len(q) - 1)
        /\ \A j \in 1..(Len(q) - 1) : j \in DOMAIN q /\ j # Len(q) /\ g.unused[j] = q[j]
    BY <2>2, <1>1, <1>8
  <2>4. v.rfh \in [Fids -> Header] /\ g.rfh[fid].gen = gen /\ gen \in 1..MaxGen
    <3>1. v.index[fid].gen \in 0..MaxGen /\ v.rfh \in [Fids -> Header]
      BY <1>6 DEF InMemory, Slot
    <3>2. gen \in 1..MaxGen
      BY <3>1, <2>1, NextGenIs
    <3> QED
      BY <3>1, <3>2, <2>2, <1>6 DEF NoFile
  <2>5. fid \notin There(v) /\ fid < v.ffree
    BY <2>1, <1>3
  <2>6. \A f \in Fids : Listed(g.unused, f) <=> f < g.ffree /\ f \notin There(v) /\ f # fid
    <3> SUFFICES ASSUME NEW f \in Fids PROVE Listed(g.unused, f) <=> Listed(q, f) /\ f # fid
      BY <1>2, <2>2
    <3>1. Listed(g.unused, f) => Listed(q, f) /\ f # fid
      BY <2>1, <2>3, <1>2 DEF Listed, IsInjective
    <3>2. ASSUME NEW j \in DOMAIN q, q[j] = f, f # fid PROVE Listed(g.unused, f)
      <4>1. j \in 1..(Len(q) - 1)
        BY <3>2, <2>1, <1>1
      <4> QED
        BY <4>1, <3>2, <2>3 DEF Listed
    <3> QED
      BY <3>1, <3>2 DEF Listed
  <2>7. g \in InMemory
    <3>1. g = [v EXCEPT !.unused = g.unused, !.ffree = g.ffree, !.dirty = g.dirty,
                        !.index = g.index, !.rfh = g.rfh]
      BY <2>1, <1>6 DEF GetFh, InMemory
    <3>2. [NoFile EXCEPT !.gen = gen] \in Header /\ Empty(gen) \in Slot
      BY <2>4, NewHeader
    <3>3. g.rfh \in [Fids -> Header] /\ g.index \in [Fids -> Slot]
      BY <3>2, <2>2 DEF InMemory
    <3> QED
      BY <3>1, <3>3, <2>2, <2>3 DEF InMemory
  <2>8. IsInjective(g.unused)
    BY <2>3, <1>2 DEF IsInjective
  <2> QED
    BY <2>1, <2>2, <2>4, <2>5, <2>6, <2>7, <2>8 DEF AfterGet
<1> QED
  BY <1>1, <1>7, <1>8

-----------------------------------------------------------------------------
(* Creating a file.                                                        *)

(* The generation of one FID is the next one, those of the others stay. *)
GaveOut(v, z, fid) ==
  /\ v.ffree <= z.ffree /\ fid < z.ffree
  /\ \A f \in Fids \ {fid} : LastGen(z, f) = LastGen(v, f)
  /\ fid < v.ffree => LastGen(z, fid) = NextGen(LastGen(v, fid))

(* What a step that gives a FID out leaves. *)
Gave(v, z, w, fid) == z \in InMemory /\ MemSound(z) /\ Marked(z, w) /\ GaveOut(v, z, fid)

(* The header and the sector of a new file, which has no name yet. *)
Started(v, fid) ==
  [GetFh(v) EXCEPT !.index[fid] = Lba, !.ibits = @ \cup {fid},
                   !.rfh[fid] = [@ EXCEPT !.new = TRUE, !.upd = TRUE], !.dirty = @ \cup {fid}]

(* The file is in the index and marked, and no entry leads to it. *)
AfterStart(v, fid, gen, c) ==
  /\ c \in InMemory /\ fid \notin There(v) /\ gen \in 1..MaxGen
  /\ There(c) = There(v) \cup {fid}
  /\ \A f \in Fids \ {fid} : c.rfh[f] = v.rfh[f] /\ c.index[f] = v.index[f]
  /\ c.rfh[fid] = [NoFile EXCEPT !.gen = gen, !.new = TRUE, !.upd = TRUE]
  /\ c.dirs = v.dirs /\ c.ibits = v.ibits \cup {fid}
  /\ v.dirty \cup {fid} \subseteq c.dirty /\ fid < c.ffree
  /\ \/ c.ffree = v.ffree /\ fid < v.ffree /\ gen = NextGen(v.index[fid].gen)
     \/ c.ffree = v.ffree + 1 /\ fid = v.ffree /\ IndexFid \in c.dirty
  /\ IsInjective(c.unused)
  /\ \A f \in Fids : Listed(c.unused, f) <=> f < c.ffree /\ f \notin There(v) /\ f # fid

(* What a file is that has no name yet. *)
LEMMA StartedIs ==
  ASSUME NEW v \in InMemory, MemSound(v), NewFid(v) \in Fids
  PROVE  AfterStart(v, NewFid(v), GetFh(v).rfh[NewFid(v)].gen, Started(v, NewFid(v)))
<1> DEFINE fid == NewFid(v)
           g == GetFh(v)
           gen == g.rfh[fid].gen
           c == Started(v, fid)
<1>1. AfterGet(v, fid, gen, g)
  BY Got
<1>2. c = [g EXCEPT !.index[fid] = Lba, !.ibits = @ \cup {fid},
                    !.rfh[fid] = [@ EXCEPT !.new = TRUE, !.upd = TRUE], !.dirty = @ \cup {fid}]
  BY DEF Started
<1>3. fid \in Fids
  OBVIOUS
<1> HIDE DEF fid, g, gen, c
<1>4. g \in InMemory
  BY <1>1 DEF AfterGet
<1>5. /\ c.index = [g.index EXCEPT ![fid] = Lba] /\ c.dirs = g.dirs /\ c.unused = g.unused
      /\ c.rfh = [g.rfh EXCEPT ![fid] = [@ EXCEPT !.new = TRUE, !.upd = TRUE]]
      /\ c.ibits = g.ibits \cup {fid} /\ c.dirty = g.dirty \cup {fid} /\ c.ffree = g.ffree
  BY <1>2, <1>3, <1>4 DEF InMemory
<1>6. c = [g EXCEPT !.index = c.index, !.ibits = c.ibits, !.rfh = c.rfh, !.dirty = c.dirty]
  BY <1>2, <1>3, <1>4, <1>5 DEF InMemory
<1>7. gen \in 1..MaxGen /\ [NoFile EXCEPT !.gen = gen] \in Header
  BY <1>1, NewHeader DEF AfterGet
<1>8. g.rfh[fid] = [NoFile EXCEPT !.gen = gen] /\ g.rfh \in [Fids -> Header]
  BY <1>1, <1>3, <1>4 DEF AfterGet, InMemory
<1>9. c.rfh[fid] = [NoFile EXCEPT !.gen = gen, !.new = TRUE, !.upd = TRUE] /\ c.rfh[fid] \in Header
  <2>1. c.rfh[fid] = [[NoFile EXCEPT !.gen = gen] EXCEPT !.new = TRUE, !.upd = TRUE]
    BY <1>3, <1>5, <1>8
  <2>2. gen \in 0..MaxGen
    BY <1>7, Constants
  <2> QED
    BY <2>1, <2>2 DEF NoFile, Header
<1>10. Lba \in Slot
  BY Constants DEF Lba, Slot
<1>11. c \in InMemory
  <2>1. c.rfh \in [Fids -> Header] /\ c.index \in [Fids -> Slot]
    BY <1>3, <1>4, <1>5, <1>8, <1>9, <1>10 DEF InMemory
  <2>2. c.ibits \in SUBSET Fids /\ c.dirty \in SUBSET ({IndexFid} \cup Fids)
    BY <1>3, <1>4, <1>5 DEF InMemory
  <2> QED
    BY <2>1, <2>2, <1>4, <1>6 DEF InMemory
<1>12. \A f \in Fids \ {fid} : c.rfh[f] = v.rfh[f] /\ c.index[f] = v.index[f]
  BY <1>1, <1>3, <1>4, <1>5 DEF AfterGet, InMemory
<1>13. There(c) = There(v) \cup {fid}
  <2>1. c.index[fid] = Lba
    BY <1>3, <1>4, <1>5 DEF InMemory
  <2> QED
    BY <2>1, <1>3, <1>12 DEF There, Lba
<1> QED
  BY <1>1, <1>5, <1>7, <1>9, <1>11, <1>12, <1>13 DEF AfterStart, AfterGet, fid, g, gen, c

(* What get_fh gave out, on either path. *)
LEMMA GivenGen ==
  ASSUME NEW v \in InMemory, NEW fid \in Fids, NEW gen, NEW c, AfterStart(v, fid, gen, c),
         NEW z \in InMemory, z.ffree = c.ffree, LastGen(z, fid) = gen,
         \A f \in Fids \ {fid} : (f \in There(z) <=> f \in There(v)) /\
                                 z.rfh[f].gen = v.rfh[f].gen /\ z.index[f].gen = v.index[f].gen
  PROVE  GaveOut(v, z, fid)
<1>1. \A f \in Fids \ {fid} : LastGen(z, f) = LastGen(v, f)
  BY DEF LastGen
<1>2. v.ffree \in Nat
  BY Constants DEF InMemory
<1>3. fid \notin There(v) /\ LastGen(v, fid) = v.index[fid].gen
  BY DEF AfterStart, LastGen
<1>4. v.ffree <= z.ffree /\ fid < z.ffree /\ (fid < v.ffree => gen = NextGen(v.index[fid].gen))
  BY <1>2 DEF AfterStart
<1> QED
  BY <1>1, <1>3, <1>4 DEF GaveOut

(* A file that was begun and removed again leaves but its generation. *)
LEMMA CreateFailsKeeps ==
  ASSUME NEW v \in InMemory, NEW w \in OnDisk, MemSound(v), Marked(v, w),
         NewFid(v) \in Fids, NEW o \in There(v), NEW n \in Names, v.dirs[o][n] = NoEnt,
         NEW z, z = ZapFile(Started(v, NewFid(v)), o, n, NewFid(v))
  PROVE  Gave(v, z, w, NewFid(v))
<1> DEFINE fid == NewFid(v)
           c == Started(v, fid)
           gen == GetFh(v).rfh[fid].gen
<1>1. AfterStart(v, fid, gen, c) /\ fid \in Fids /\ o \in Fids
  BY StartedIs DEF There
<1>2. z = ZapFile(c, o, n, fid)
  OBVIOUS
<1> HIDE DEF fid, c, gen
<1>3. AfterZap(c, o, n, fid, z)
  BY <1>1, <1>2, Zapped DEF AfterStart
<1>4. fid \notin There(v) /\ fid # o /\ There(z) = There(v) /\ z \in InMemory
  BY <1>1, <1>3 DEF AfterStart, AfterZap
<1>5. \A f \in Fids \ {fid} : z.rfh[f] = v.rfh[f] /\ z.index[f] = v.index[f]
  BY <1>1, <1>3 DEF AfterStart, AfterZap
<1>6. z.rfh[fid] = NoFile /\ z.index[fid] = Empty(gen)
  BY <1>1, <1>3 DEF AfterStart, AfterZap
<1>7. v.dirs[fid] = NoDir /\ v.rfh[fid] = NoFile
  BY <1>1, <1>4 DEF MemSound, GoneAreGone
<1>8. \A f \in Fids : z.dirs[f] = v.dirs[f]
  <2> SUFFICES ASSUME NEW f \in Fids PROVE z.dirs[f] = v.dirs[f]
    OBVIOUS
  <2>1. z.dirs[f] \in [Names -> Entry] /\ v.dirs[f] \in [Names -> Entry]
    BY <1>4 DEF InMemory
  <2>2. \A k \in Names : z.dirs[f][k] = v.dirs[f][k]
    BY <1>1, <1>3, <1>7 DEF AfterStart, AfterZap, NoDir
  <2> QED
    BY <2>1, <2>2
<1>9. /\ z.ffree = c.ffree /\ v.ffree <= z.ffree /\ v.dirty \subseteq z.dirty /\ z.ibits = v.ibits \cup {fid}
      /\ z.ffree # v.ffree => IndexFid \in z.dirty
  BY SMTT(60), <1>1, <1>3, Constants DEF AfterStart, AfterZap, InMemory
<1>10. Sound(z)
  <2>1. FilesSound(z)
    <3>1. \A f \in There(v) : z.rfh[f] = v.rfh[f] /\ f \in Fids /\ f < v.ffree
      BY <1>4, <1>5 DEF MemSound, Sound, FilesSound, There
    <3>2. \A f \in There(v) : f < z.ffree
      BY <3>1, <1>4, <1>9, Constants DEF InMemory
    <3> QED
      BY <3>1, <3>2, <1>4 DEF MemSound, Sound, FilesSound
  <2>2. EntriesLead(z)
    <3>1. \A f \in There(v) : z.rfh[f] = v.rfh[f] /\ z.dirs[f] = v.dirs[f]
      BY <1>4, <1>5, <1>8 DEF There
    <3>2. EntriesLead(v)
      BY DEF MemSound, Sound
    <3> SUFFICES ASSUME NEW f \in There(v), NEW k \in Names, v.dirs[f][k] # NoEnt
                 PROVE  /\ v.rfh[f].dir
                        /\ v.dirs[f][k].fid \in There(v) \ {Root}
                        /\ z.rfh[v.dirs[f][k].fid].gen = v.dirs[f][k].gen
      BY SMTT(60), <3>1, <1>4 DEF EntriesLead, IsEnt
    <3>3. /\ v.rfh[f].dir /\ v.dirs[f][k].fid \in There(v) \ {Root}
          /\ v.rfh[v.dirs[f][k].fid].gen = v.dirs[f][k].gen
      BY <3>2 DEF EntriesLead, IsEnt
    <3> QED
      BY <3>1, <3>3
  <2>3. OneName(z)
    <3>1. \A f \in There(v) : z.dirs[f] = v.dirs[f]
      BY <1>8 DEF There
    <3> QED
      BY <3>1, <1>4 DEF MemSound, Sound, OneName, IsEnt
  <2>4. Named(z)
    <3>1. \A f \in There(v) : z.dirs[f] = v.dirs[f]
      BY <1>8 DEF There
    <3> QED
      BY <3>1, <1>4 DEF MemSound, Sound, Named
  <2> QED
    BY <2>1, <2>2, <2>3, <2>4 DEF Sound
<1>11. GoneAreGone(z)
  BY <1>4, <1>5, <1>6, <1>7, <1>8 DEF MemSound, GoneAreGone
<1>12. UnusedSound(z)
  <2>1. IsInjective(z.unused) /\ fid < z.ffree
    BY <1>1, <1>3, <1>9 DEF AfterZap, AfterStart
  <2>2. \A f \in Fids : Listed(z.unused, f) <=> f < z.ffree /\ f \notin There(z)
    BY <2>1, <1>1, <1>3, <1>4, <1>9 DEF AfterStart, AfterZap
  <2>3. \A f \in Fids \ There(z) : f < z.ffree => z.index[f].use = "empty"
    <3> SUFFICES ASSUME NEW f \in Fids \ There(v), f < z.ffree PROVE z.index[f].use = "empty"
      BY <1>4
    <3>1. CASE f = fid
      BY <3>1, <1>6 DEF Empty
    <3>2. CASE f # fid
      <4>1. f < v.ffree
        BY <3>2, <1>1, <1>9, Constants DEF AfterStart, InMemory
      <4> QED
        BY <4>1, <3>2, <1>5 DEF MemSound, UnusedSound
    <3> QED
      BY <3>1, <3>2
  <2> QED
    BY <2>1, <2>2, <2>3 DEF UnusedSound, Listed
<1>13. Marked(z, w)
  <2>1. \A f \in There(z) \ z.dirty : Alike(z, w, f)
    <3> SUFFICES ASSUME NEW f \in There(z) \ z.dirty PROVE Alike(z, w, f)
      OBVIOUS
    <3>1. f \in There(v) \ v.dirty /\ f \in Fids /\ f # fid
      BY <1>4, <1>9 DEF There
    <3>2. Alike(v, w, f)
      BY <3>1 DEF Marked
    <3> QED
      BY <3>1, <3>2, <1>5, <1>8 DEF Alike
  <2>2. \A f \in Fids \ z.ibits : f \in There(z) <=> f \in There(w)
    BY <1>4, <1>9 DEF Marked
  <2>3. IndexFid \notin z.dirty => w.ffree = z.ffree
    BY <1>9 DEF Marked
  <2> QED
    BY <2>1, <2>2, <2>3 DEF Marked
<1>14. GaveOut(v, z, fid)
  <2>1. LastGen(z, fid) = gen
    BY <1>4, <1>6 DEF LastGen, Empty
  <2> QED
    BY <2>1, <1>1, <1>4, <1>5, <1>9, GivenGen
<1> QED
  BY <1>4, <1>10, <1>11, <1>12, <1>13, <1>14 DEF MemSound, fid, Gave

(* The name, and the header as it is from now on. *)
Created(c, o, n, fid, gen, top, mkdir) ==
  [c EXCEPT !.dirs[o][n] = [fid |-> fid, gen |-> gen], !.dirty = @ \cup {o},
            !.dots[fid] = IF mkdir THEN [fid |-> o, gen |-> top] ELSE NoEnt,
            !.rfh[fid] = [@ EXCEPT !.valid = TRUE, !.dir = mkdir, !.new = ~mkdir, !.upd = ~mkdir]]

(* One entry and one header differ. *)
AfterCreate(c, o, n, fid, gen, z) ==
  /\ z \in InMemory /\ z.index = c.index /\ z.unused = c.unused /\ z.ffree = c.ffree
  /\ z.ibits = c.ibits /\ z.dirty = c.dirty \cup {o}
  /\ \A f \in Fids \ {fid} : z.rfh[f] = c.rfh[f]
  /\ z.rfh[fid].valid /\ z.rfh[fid].gen = c.rfh[fid].gen
  /\ z.rfh[fid].dir => ~z.rfh[fid].new
  /\ z.dirs[o][n] = [fid |-> fid, gen |-> gen]
  /\ \A f \in Fids, k \in Names : f # o \/ k # n => z.dirs[f][k] = c.dirs[f][k]
  /\ \A f \in Fids \ {o} : z.dirs[f] = c.dirs[f]

(* What the new name and the final header leave of the volume. *)
LEMMA CreatedIs ==
  ASSUME NEW c \in InMemory, NEW o \in Fids, NEW n \in Names, NEW fid \in Fids, NEW gen \in 1..MaxGen,
         NEW top \in 0..MaxGen, NEW mkdir \in BOOLEAN
  PROVE  AfterCreate(c, o, n, fid, gen, Created(c, o, n, fid, gen, top, mkdir))
<1> DEFINE z == Created(c, o, n, fid, gen, top, mkdir)
           u == IF mkdir THEN [fid |-> o, gen |-> top] ELSE NoEnt
           d == [c.rfh[fid] EXCEPT !.valid = TRUE, !.dir = mkdir, !.new = ~mkdir, !.upd = ~mkdir]
<1>0. c.rfh[fid] \in Header
  BY DEF InMemory
<1>00. d \in Header /\ d.valid /\ d.gen = c.rfh[fid].gen /\ (d.dir => ~d.new)
  BY <1>0 DEF Header
<1>1. /\ z.index = c.index /\ z.unused = c.unused /\ z.ffree = c.ffree
      /\ z.ibits = c.ibits /\ z.dirty = c.dirty \cup {o}
      /\ z.dirs = [c.dirs EXCEPT ![o][n] = [fid |-> fid, gen |-> gen]]
      /\ z.dots = [c.dots EXCEPT ![fid] = u] /\ z.rfh = [c.rfh EXCEPT ![fid] = d]
  BY DEF Created, InMemory
<1>2. z = [c EXCEPT !.dirs = z.dirs, !.dirty = z.dirty, !.dots = z.dots, !.rfh = z.rfh]
  BY <1>1 DEF Created, InMemory
<1>3. [fid |-> fid, gen |-> gen] \in Entry /\ u \in Entry
  BY Constants DEF Entry, NoEnt
<1> HIDE DEF z, d, u
<1>5. z.rfh[fid] = d
  BY <1>1 DEF InMemory
<1>6. \A f \in Fids \ {fid} : z.rfh[f] = c.rfh[f]
  BY <1>1 DEF InMemory
<1>7. /\ z.dirs[o][n] = [fid |-> fid, gen |-> gen]
      /\ \A f \in Fids, k \in Names : f # o \/ k # n => z.dirs[f][k] = c.dirs[f][k]
      /\ \A f \in Fids \ {o} : z.dirs[f] = c.dirs[f]
  BY <1>1 DEF InMemory
<1>8. z \in InMemory
  <2>1. z.rfh \in [Fids -> Header]
    BY <1>00, <1>1 DEF InMemory
  <2>2. z.dirs \in [Fids -> [Names -> Entry]] /\ z.dots \in [Fids -> Entry]
    BY <1>1, <1>3 DEF InMemory
  <2>3. z.dirty \in SUBSET ({IndexFid} \cup Fids)
    BY <1>1 DEF InMemory
  <2> QED
    BY <2>1, <2>2, <2>3, <1>2 DEF InMemory
<1> QED
  BY <1>00, <1>1, <1>5, <1>6, <1>7, <1>8 DEF AfterCreate, z

(* A new file with a name leaves the volume sound. *)
LEMMA CreateKeeps ==
  ASSUME NEW v \in InMemory, NEW w \in OnDisk, MemSound(v), Marked(v, w),
         NEW fid \in Fids, NEW gen, NEW c, AfterStart(v, fid, gen, c),
         NEW o \in There(v), v.rfh[o].dir, NEW n \in Names, v.dirs[o][n] = NoEnt,
         NEW z, AfterCreate(c, o, n, fid, gen, z)
  PROVE  Gave(v, z, w, fid) /\ z.rfh[fid].gen = gen /\ fid \in There(z)
<1>1. AfterStart(v, fid, gen, c) /\ o \in Fids
  BY DEF There
<1>3. c \in InMemory /\ gen \in 1..MaxGen
  BY <1>1 DEF AfterStart
<1>4. /\ z \in InMemory /\ z.index = c.index /\ z.unused = c.unused /\ z.ffree = c.ffree
      /\ z.ibits = c.ibits /\ z.dirty = c.dirty \cup {o}
      /\ \A f \in Fids \ {fid} : z.rfh[f] = c.rfh[f]
      /\ z.rfh[fid].valid /\ z.rfh[fid].gen = c.rfh[fid].gen
      /\ z.rfh[fid].dir => ~z.rfh[fid].new
      /\ z.dirs[o][n] = [fid |-> fid, gen |-> gen]
      /\ \A f \in Fids, k \in Names : f # o \/ k # n => z.dirs[f][k] = c.dirs[f][k]
      /\ \A f \in Fids \ {o} : z.dirs[f] = c.dirs[f]
  BY DEF AfterCreate
<1>5. fid \notin There(v) /\ fid # o /\ fid # Root /\ There(z) = There(v) \cup {fid}
  <2>1. fid \notin There(v) /\ There(z) = There(v) \cup {fid}
    BY <1>1, <1>4 DEF AfterStart, There
  <2> QED
    BY <2>1 DEF MemSound, Sound, FilesSound
<1>6. \A f \in Fids \ {fid} : z.rfh[f] = v.rfh[f] /\ z.index[f] = v.index[f]
  BY <1>1, <1>4 DEF AfterStart
<1>7. z.rfh[fid].gen = gen /\ gen # 0
  <2>1. c.rfh[fid].gen = gen
    BY <1>1 DEF AfterStart, NoFile
  <2> QED
    BY <2>1, <1>3, <1>4, Constants
<1>8. v.dirs[fid] = NoDir
  BY <1>1, <1>5 DEF MemSound, GoneAreGone
<1>9. /\ \A f \in Fids, k \in Names : f # o \/ k # n => z.dirs[f][k] = v.dirs[f][k]
      /\ \A f \in Fids \ {o} : z.dirs[f] = v.dirs[f]
  BY <1>1, <1>4 DEF AfterStart
<1>10. /\ z.ffree = c.ffree /\ v.ffree <= z.ffree /\ fid < z.ffree
       /\ v.dirty \cup {fid, o} \subseteq z.dirty /\ z.ibits = v.ibits \cup {fid}
       /\ z.ffree # v.ffree => IndexFid \in z.dirty
  <2>1. v.ffree \in Nat
    BY Constants DEF InMemory
  <2>2. v.dirty \cup {fid} \subseteq c.dirty /\ c.ibits = v.ibits \cup {fid} /\ fid < c.ffree
    BY DEF AfterStart
  <2>3. v.ffree <= c.ffree /\ (c.ffree # v.ffree => IndexFid \in c.dirty)
    BY <2>1 DEF AfterStart
  <2> QED
    BY <1>4, <2>2, <2>3
<1>11. \A f \in There(v) : z.rfh[f] = v.rfh[f] /\ f \in Fids /\ f # fid
  BY <1>5, <1>6 DEF There
(* Which entries there are. *)
<1>12. \A f \in There(z), k \in Names :
         z.dirs[f][k] # NoEnt =>
           \/ f = o /\ k = n /\ z.dirs[f][k] = [fid |-> fid, gen |-> gen]
           \/ /\ f \in There(v) /\ (f # o \/ k # n) /\ z.dirs[f][k] = v.dirs[f][k]
              /\ v.rfh[f].dir /\ v.dirs[f][k].fid \in There(v) \ {Root}
              /\ v.rfh[v.dirs[f][k].fid].gen = v.dirs[f][k].gen
  <2> SUFFICES ASSUME NEW f \in There(z), NEW k \in Names, z.dirs[f][k] # NoEnt, f # o \/ k # n
               PROVE  /\ f \in There(v) /\ z.dirs[f][k] = v.dirs[f][k]
                      /\ v.rfh[f].dir /\ v.dirs[f][k].fid \in There(v) \ {Root}
                      /\ v.rfh[v.dirs[f][k].fid].gen = v.dirs[f][k].gen
    BY SMTT(60), <1>4
  <2>1. f \in Fids /\ z.dirs[f][k] = v.dirs[f][k]
    BY <1>9 DEF There
  <2>2. f \in There(v)
    BY <2>1, <1>5, <1>8 DEF NoDir
  <2> QED
    BY <2>1, <2>2 DEF MemSound, Sound, EntriesLead, IsEnt
<1>13. Sound(z)
  <2>1. FilesSound(z)
    <3>1. Root \in There(z) /\ z.rfh[Root].dir
      BY <1>5, <1>11 DEF MemSound, Sound, FilesSound
    <3>2. ASSUME NEW f \in There(v)
          PROVE  f < z.ffree /\ z.rfh[f].gen # 0 /\ (z.rfh[f].dir => ~z.rfh[f].new)
      <4>1. f < v.ffree
        BY DEF MemSound, Sound, FilesSound
      <4>2. f < z.ffree
        BY <4>1, <1>4, <1>10, <1>11, Constants DEF InMemory
      <4> QED
        BY <4>2, <1>11 DEF MemSound, Sound, FilesSound
    <3>3. fid < z.ffree /\ z.rfh[fid].gen # 0 /\ (z.rfh[fid].dir => ~z.rfh[fid].new)
      BY <1>4, <1>7, <1>10
    <3> QED
      BY <3>1, <3>2, <3>3, <1>5 DEF FilesSound
  <2>2. EntriesLead(z)
    <3> SUFFICES ASSUME NEW f \in There(z), NEW k \in Names, z.dirs[f][k] # NoEnt
                 PROVE  /\ z.rfh[f].dir
                        /\ z.dirs[f][k].fid \in There(z) \ {Root}
                        /\ z.rfh[z.dirs[f][k].fid].gen = z.dirs[f][k].gen
      BY DEF EntriesLead, IsEnt
    <3>1. CASE f = o /\ k = n
      <4>1. z.rfh[o].dir
        BY <1>11
      <4>2. z.dirs[o][n].fid = fid /\ z.dirs[o][n].gen = gen
        BY <1>4
      <4> QED
        BY <3>1, <4>1, <4>2, <1>5, <1>7
    <3>2. CASE f # o \/ k # n
      <4>1. /\ f \in There(v) /\ z.dirs[f][k] = v.dirs[f][k] /\ v.rfh[f].dir
            /\ v.dirs[f][k].fid \in There(v) \ {Root} /\ v.rfh[v.dirs[f][k].fid].gen = v.dirs[f][k].gen
        BY SMTT(60), <3>2, <1>12
      <4>2. z.rfh[f] = v.rfh[f] /\ z.rfh[v.dirs[f][k].fid] = v.rfh[v.dirs[f][k].fid]
        BY <4>1, <1>11
      <4> QED
        BY <4>1, <4>2, <1>5
    <3> QED
      BY <3>1, <3>2
  <2>3. OneName(z)
    <3> SUFFICES ASSUME NEW f \in There(z), NEW g \in There(z), NEW k \in Names, NEW j \in Names,
                        z.dirs[f][k] # NoEnt, z.dirs[f][k].fid = z.dirs[g][j].fid
                 PROVE  f = g /\ k = j
      BY DEF OneName, IsEnt
    <3>1. z.dirs[g][j] # NoEnt
      <4>1. z.dirs[f][k].fid # 0
        BY SMTT(60), <2>2, Constants DEF EntriesLead, IsEnt, There
      <4> QED
        BY <4>1 DEF NoEnt
    <3>0. z.dirs[o][n].fid = fid
      BY <1>4
    <3>2. CASE f = o /\ k = n
      <4>1. z.dirs[g][j].fid \notin There(v)
        BY <3>0, <3>2, <1>5
      <4> QED
        BY <4>1, <3>1, <3>2, <1>12
    <3>3. CASE g = o /\ j = n
      BY SMTT(60), <3>0, <3>3, <1>5, <1>12
    <3>4. CASE (f # o \/ k # n) /\ (g # o \/ j # n)
      <4>1. /\ f \in There(v) /\ g \in There(v) /\ v.dirs[f][k] # NoEnt
            /\ v.dirs[f][k].fid = v.dirs[g][j].fid
        BY SMTT(60), <3>1, <3>4, <1>12
      <4> QED
        BY <4>1 DEF MemSound, Sound, OneName, IsEnt
    <3> QED
      BY <3>2, <3>3, <3>4
  <2>4. Named(z)
    <3> SUFFICES ASSUME NEW g \in There(z) \ {Root}
                 PROVE  \E f \in There(z), k \in Names : z.dirs[f][k].fid = g
      BY DEF Named
    <3>1. CASE g = fid
      BY <3>1, <1>4, <1>5
    <3>2. CASE g # fid
      <4>1. g \in There(v) \ {Root} /\ g # 0
        BY <3>2, <1>5, Constants DEF There
      <4>2. PICK f \in There(v), k \in Names : v.dirs[f][k].fid = g
        BY <4>1 DEF MemSound, Sound, Named
      <4>3. f # o \/ k # n
        BY <4>1, <4>2 DEF NoEnt
      <4> QED
        BY <4>2, <4>3, <1>5, <1>9 DEF There
    <3> QED
      BY <3>1, <3>2
  <2> QED
    BY <2>1, <2>2, <2>3, <2>4 DEF Sound
<1>14. GoneAreGone(z)
  <2> SUFFICES ASSUME NEW f \in Fids
               PROVE  IF f \in There(z) THEN z.rfh[f].valid ELSE z.rfh[f] = NoFile /\ z.dirs[f] = NoDir
    BY DEF GoneAreGone
  <2> QED
    BY <1>4, <1>5, <1>6, <1>9 DEF MemSound, GoneAreGone
<1>15. UnusedSound(z)
  <2>1. IsInjective(z.unused)
    BY <1>1, <1>4 DEF AfterStart
  <2>2. \A f \in Fids : Listed(z.unused, f) <=> f < z.ffree /\ f \notin There(z)
    BY <1>1, <1>4, <1>5 DEF AfterStart
  <2>3. \A f \in Fids \ There(z) : f < z.ffree => z.index[f].use = "empty"
    <3> SUFFICES ASSUME NEW f \in Fids \ There(z), f < z.ffree PROVE z.index[f].use = "empty"
      OBVIOUS
    <3>1. f # fid /\ f \notin There(v)
      BY <1>5
    <3>2. f < v.ffree
      <4>1. v.ffree \in Nat /\ f \in Nat
        BY Constants DEF InMemory
      <4>2. z.ffree = v.ffree \/ (z.ffree = v.ffree + 1 /\ fid = v.ffree)
        BY <1>10 DEF AfterStart
      <4> QED
        BY <3>1, <4>1, <4>2
    <3> QED
      BY <3>1, <3>2, <1>6 DEF MemSound, UnusedSound
  <2> QED
    BY <2>1, <2>2, <2>3 DEF UnusedSound, Listed
<1>16. Marked(z, w)
  <2>1. \A f \in There(z) \ z.dirty : Alike(z, w, f)
    <3> SUFFICES ASSUME NEW f \in There(z) \ z.dirty PROVE Alike(z, w, f)
      OBVIOUS
    <3>1. f \in There(v) \ v.dirty /\ f \in Fids /\ f # fid /\ f # o
      BY <1>5, <1>10 DEF There
    <3>2. Alike(v, w, f)
      BY <3>1 DEF Marked
    <3> QED
      BY <3>1, <3>2, <1>6, <1>9 DEF Alike
  <2>2. \A f \in Fids \ z.ibits : f \in There(z) <=> f \in There(w)
    BY <1>5, <1>10 DEF Marked
  <2>3. IndexFid \notin z.dirty => w.ffree = z.ffree
    BY <1>10 DEF Marked
  <2> QED
    BY <2>1, <2>2, <2>3 DEF Marked
<1>17. GaveOut(v, z, fid)
  <2>1. LastGen(z, fid) = gen
    BY <1>5, <1>7 DEF LastGen
  <2>2. \A f \in Fids \ {fid} : (f \in There(z) <=> f \in There(v))
    BY <1>5
  <2> QED
    BY <2>1, <2>2, <1>1, <1>4, <1>6, <1>10, GivenGen
<1> QED
  BY <1>4, <1>5, <1>7, <1>13, <1>14, <1>15, <1>16, <1>17 DEF MemSound, Gave

-----------------------------------------------------------------------------
(* Changing a header, and moving a name.                                   *)

(* A header that stays the same file's, and is put on the dirty list. *)
LEMMA HeaderKeeps ==
  ASSUME NEW v \in InMemory, NEW w \in OnDisk, MemSound(v), Marked(v, w),
         NEW fid \in There(v), NEW H \in Header, H.valid, H.gen = v.rfh[fid].gen,
         H.dir = v.rfh[fid].dir, H.dir => ~H.new,
         NEW z, z = [v EXCEPT !.rfh[fid] = H, !.dirty = @ \cup {fid}]
  PROVE  Steady(v, z, w) /\ z.dirs = v.dirs
<1>1. /\ z.index = v.index /\ z.unused = v.unused /\ z.ffree = v.ffree /\ z.dirs = v.dirs
      /\ z.ibits = v.ibits /\ z.dirty = v.dirty \cup {fid} /\ z.rfh = [v.rfh EXCEPT ![fid] = H]
  BY DEF InMemory
<1>2. fid \in Fids /\ There(z) = There(v)
  BY <1>1 DEF There
<1>3. z = [v EXCEPT !.rfh = z.rfh, !.dirty = z.dirty]
  BY <1>1
<1>4. z.rfh[fid] = H /\ \A f \in Fids \ {fid} : z.rfh[f] = v.rfh[f]
  BY <1>1, <1>2 DEF InMemory
<1>5. z \in InMemory
  <2>1. z.rfh \in [Fids -> Header] /\ z.dirty \in SUBSET ({IndexFid} \cup Fids)
    BY <1>1, <1>2 DEF InMemory
  <2> QED
    BY <2>1, <1>3 DEF InMemory
<1>6. \A f \in Fids : z.rfh[f].gen = v.rfh[f].gen /\ z.rfh[f].dir = v.rfh[f].dir
  BY <1>4
<1>7. Sound(z)
  <2>1. FilesSound(z)
    BY <1>1, <1>2, <1>4 DEF MemSound, Sound, FilesSound, There
  <2>2. EntriesLead(z)
    <3> SUFFICES ASSUME NEW f \in There(v), NEW n \in Names, v.dirs[f][n] # NoEnt
                 PROVE  /\ z.rfh[f].dir
                        /\ v.dirs[f][n].fid \in There(v) \ {Root}
                        /\ z.rfh[v.dirs[f][n].fid].gen = v.dirs[f][n].gen
      BY <1>1, <1>2 DEF EntriesLead, IsEnt
    <3>1. /\ v.rfh[f].dir /\ v.dirs[f][n].fid \in There(v) \ {Root}
          /\ v.rfh[v.dirs[f][n].fid].gen = v.dirs[f][n].gen
      BY DEF MemSound, Sound, EntriesLead, IsEnt
    <3> QED
      BY <3>1, <1>6 DEF There
  <2>3. OneName(z) /\ Named(z)
    BY <1>1, <1>2 DEF MemSound, Sound, OneName, Named, IsEnt
  <2> QED
    BY <2>1, <2>2, <2>3 DEF Sound
<1>8. GoneAreGone(z) /\ UnusedSound(z)
  BY <1>1, <1>2, <1>4 DEF MemSound, GoneAreGone, UnusedSound
<1>9. Marked(z, w)
  <2>1. \A f \in There(z) \ z.dirty : Alike(z, w, f)
    <3> SUFFICES ASSUME NEW f \in There(z) \ z.dirty PROVE Alike(z, w, f)
      OBVIOUS
    <3>1. f \in There(v) \ v.dirty /\ f \in Fids /\ f # fid
      BY <1>1, <1>2 DEF There
    <3>2. Alike(v, w, f)
      BY <3>1 DEF Marked
    <3> QED
      BY <3>1, <3>2, <1>1, <1>4 DEF Alike
  <2>2. \A f \in Fids \ z.ibits : f \in There(z) <=> f \in There(w)
    BY <1>1, <1>2 DEF Marked
  <2>3. IndexFid \notin z.dirty => w.ffree = z.ffree
    BY <1>1 DEF Marked
  <2> QED
    BY <2>1, <2>2, <2>3 DEF Marked
<1>10. \A f \in Fids : LastGen(z, f) = LastGen(v, f)
  BY <1>1, <1>2, <1>6 DEF LastGen
<1> QED
  BY <1>1, <1>5, <1>7, <1>8, <1>9, <1>10 DEF MemSound, Steady

(* A name that is moved takes its file along. *)
LEMMA MoveKeeps ==
  ASSUME NEW v \in InMemory, NEW w \in OnDisk, MemSound(v), Marked(v, w),
         NEW from \in There(v), NEW n \in Names, v.dirs[from][n] # NoEnt,
         NEW to \in There(v), v.rfh[to].dir, NEW k \in Names, v.dirs[to][k] = NoEnt,
         NEW z, z = Moved(v, from, n, to, k)
  PROVE  Steady(v, z, w)
<1> DEFINE e == v.dirs[from][n]
           out == [v.dirs EXCEPT ![from][n] = NoEnt]
<1>1. from \in Fids /\ to \in Fids /\ (from # to \/ n # k) /\ e \in Entry /\ NoEnt \in Entry
  <2>1. from \in Fids /\ to \in Fids /\ (from # to \/ n # k)
    BY DEF There
  <2>2. e \in Entry
    BY <2>1 DEF InMemory
  <2>3. NoEnt \in Entry
    BY Constants DEF NoEnt, Entry
  <2> QED
    BY <2>1, <2>2, <2>3
<1>2. out \in [Fids -> [Names -> Entry]]
  BY <1>1 DEF InMemory
<1>3. /\ z.index = v.index /\ z.unused = v.unused /\ z.ffree = v.ffree /\ z.rfh = v.rfh
      /\ z.ibits = v.ibits /\ z.dirty = v.dirty \cup {from, to}
      /\ z.dirs = [out EXCEPT ![to][k] = e]
  BY DEF Moved, InMemory
<1>4. z = [v EXCEPT !.dirs = z.dirs, !.dirty = z.dirty]
  BY <1>3 DEF Moved
<1>5. \A f \in Fids, j \in Names :
        z.dirs[f][j] = IF f = to /\ j = k THEN e ELSE IF f = from /\ j = n THEN NoEnt ELSE v.dirs[f][j]
  <2>1. \A f \in Fids, j \in Names :
          out[f][j] = IF f = from /\ j = n THEN NoEnt ELSE v.dirs[f][j]
    BY <1>1 DEF InMemory
  <2> HIDE DEF out
  <2> QED
    BY <2>1, <1>1, <1>2, <1>3
<1>6. \A f \in Fids \ {from, to} : z.dirs[f] = v.dirs[f]
  <2>1. \A f \in Fids \ {from} : out[f] = v.dirs[f]
    BY <1>1 DEF InMemory
  <2> HIDE DEF out
  <2> QED
    BY <2>1, <1>1, <1>2, <1>3
<1>7. z \in InMemory
  <2>1. z.dirs \in [Fids -> [Names -> Entry]]
    <3> HIDE DEF out, e
    <3> QED
      BY <1>1, <1>2, <1>3
  <2>2. z.dirty \in SUBSET ({IndexFid} \cup Fids)
    BY <1>1, <1>3 DEF InMemory
  <2> QED
    BY <2>1, <2>2, <1>4 DEF InMemory
<1>8. There(z) = There(v)
  BY <1>3 DEF There
<1> HIDE DEF out
<1>9. v.rfh[from].dir /\ e.fid \in There(v) \ {Root} /\ v.rfh[e.fid].gen = e.gen
  BY DEF MemSound, Sound, EntriesLead, IsEnt
<1> HIDE DEF e
<1>10. e = v.dirs[from][n] /\ e # NoEnt
  BY DEF e
<1>11. Sound(z)
  <2>1. FilesSound(z)
    BY <1>3, <1>8 DEF MemSound, Sound, FilesSound
  <2>2. EntriesLead(z)
    <3> SUFFICES ASSUME NEW f \in There(v), NEW j \in Names, z.dirs[f][j] # NoEnt
                 PROVE  /\ v.rfh[f].dir
                        /\ z.dirs[f][j].fid \in There(v) \ {Root}
                        /\ v.rfh[z.dirs[f][j].fid].gen = z.dirs[f][j].gen
      BY SMTT(60), <1>3, <1>8 DEF EntriesLead, IsEnt
    <3>1. f \in Fids
      BY DEF There
    <3>2. CASE f = to /\ j = k
      BY <3>1, <3>2, <1>5, <1>9
    <3>3. CASE ~(f = to /\ j = k)
      <4>1. z.dirs[f][j] = v.dirs[f][j]
        BY <3>1, <3>3, <1>5
      <4> QED
        BY <4>1 DEF MemSound, Sound, EntriesLead, IsEnt
    <3> QED
      BY <3>2, <3>3
  <2>3. OneName(z)
    <3> SUFFICES ASSUME NEW f \in There(v), NEW g \in There(v), NEW i \in Names, NEW j \in Names,
                        z.dirs[f][i] # NoEnt, z.dirs[f][i].fid = z.dirs[g][j].fid
                 PROVE  f = g /\ i = j
      BY <1>8 DEF OneName, IsEnt
    <3>1. z.dirs[f][i].fid # 0
      <4>1. z.dirs[f][i].fid \in There(v)
        BY <2>2, <1>8 DEF EntriesLead, IsEnt
      <4> QED
        BY <4>1, Constants DEF There
    <3>2. z.dirs[g][j] # NoEnt /\ f \in Fids /\ g \in Fids
      BY <3>1 DEF NoEnt, There
    <3>3. \A a \in There(v), x \in Names : v.dirs[a][x].fid = e.fid => a = from /\ x = n
      BY <1>10 DEF MemSound, Sound, OneName, IsEnt
    <3>4. CASE f = to /\ i = k
      <4>1. z.dirs[g][j].fid = e.fid
        BY <3>2, <3>4, <1>5
      <4> QED
        BY <4>1, <3>2, <3>3, <3>4, <1>5
    <3>5. CASE g = to /\ j = k
      <4>1. z.dirs[f][i].fid = e.fid
        BY <3>2, <3>5, <1>5
      <4> QED
        BY <4>1, <3>2, <3>3, <3>5, <1>5
    <3>6. CASE ~(f = to /\ i = k) /\ ~(g = to /\ j = k)
      <4>1. z.dirs[f][i] = v.dirs[f][i] /\ z.dirs[g][j] = v.dirs[g][j]
        BY <3>2, <3>6, <1>5
      <4> QED
        BY <4>1 DEF MemSound, Sound, OneName, IsEnt
    <3> QED
      BY <3>4, <3>5, <3>6
  <2>4. Named(z)
    <3> SUFFICES ASSUME NEW g \in There(v) \ {Root}
                 PROVE  \E f \in There(v), j \in Names : z.dirs[f][j].fid = g
      BY <1>8 DEF Named
    <3>1. PICK f \in There(v), j \in Names : v.dirs[f][j].fid = g
      BY DEF MemSound, Sound, Named
    <3>2. g # 0 /\ f \in Fids
      BY Constants DEF There
    <3>3. CASE f = from /\ j = n
      <4>1. z.dirs[to][k] = e
        BY <1>1, <1>5
      <4> QED
        BY <3>1, <3>3, <4>1, <1>10
    <3>4. CASE ~(f = from /\ j = n)
      <4>1. ~(f = to /\ j = k)
        BY <3>1, <3>2 DEF NoEnt
      <4> QED
        BY <3>1, <3>2, <3>4, <4>1, <1>5
    <3> QED
      BY <3>3, <3>4
  <2> QED
    BY <2>1, <2>2, <2>3, <2>4 DEF Sound
<1>12. GoneAreGone(z) /\ UnusedSound(z)
  BY <1>3, <1>6, <1>8 DEF MemSound, GoneAreGone, UnusedSound
<1>13. Marked(z, w)
  <2>1. \A f \in There(z) \ z.dirty : Alike(z, w, f)
    <3> SUFFICES ASSUME NEW f \in There(z) \ z.dirty PROVE Alike(z, w, f)
      OBVIOUS
    <3>1. f \in There(v) \ v.dirty /\ f \in Fids /\ f # from /\ f # to
      BY <1>3, <1>8 DEF There
    <3>2. Alike(v, w, f)
      BY <3>1 DEF Marked
    <3> QED
      BY <3>1, <3>2, <1>3, <1>6 DEF Alike
  <2>2. \A f \in Fids \ z.ibits : f \in There(z) <=> f \in There(w)
    BY <1>3, <1>8 DEF Marked
  <2>3. IndexFid \notin z.dirty => w.ffree = z.ffree
    BY <1>3 DEF Marked
  <2> QED
    BY <2>1, <2>2, <2>3 DEF Marked
<1>14. \A f \in Fids : LastGen(z, f) = LastGen(v, f)
  BY <1>3, <1>8 DEF LastGen
<1> QED
  BY <1>3, <1>7, <1>11, <1>12, <1>13, <1>14 DEF MemSound, Steady

-----------------------------------------------------------------------------
(* What an operation does to the volume.                                   *)

(* A file whose header was changed is removed like any other. *)
LEMMA ZapChanged ==
  ASSUME NEW v \in InMemory, NEW w \in OnDisk, MemSound(v), Marked(v, w),
         NEW o, NEW n, NEW fid, Removable(v, o, n, fid), NEW H \in Header, H.gen = v.rfh[fid].gen,
         NEW z, z = [v EXCEPT !.rfh[fid] = H, !.dirty = @ \cup {fid}]
  PROVE  Steady(v, ZapFile(z, o, n, fid), w)
<1>1. /\ z.index = v.index /\ z.unused = v.unused /\ z.ffree = v.ffree /\ z.dirs = v.dirs
      /\ z.ibits = v.ibits /\ z.dirty = v.dirty \cup {fid} /\ z.rfh = [v.rfh EXCEPT ![fid] = H]
  BY DEF InMemory
<1>2. z = [v EXCEPT !.rfh = z.rfh, !.dirty = z.dirty]
  BY <1>1 DEF InMemory
<1>3. fid \in Fids /\ o \in Fids /\ n \in Names
  BY DEF Removable
<1>4. z \in InMemory
  <2>1. z.rfh \in [Fids -> Header] /\ z.dirty \in SUBSET ({IndexFid} \cup Fids)
    BY <1>1, <1>3 DEF InMemory
  <2> QED
    BY <2>1, <1>2 DEF InMemory
<1>5. /\ There(z) = There(v) /\ z.rfh[fid].gen = v.rfh[fid].gen
      /\ \A f \in Fids \ {fid} : z.rfh[f] = v.rfh[f]
  BY <1>1, <1>3 DEF There, InMemory
<1>6. IsInjective(z.unused)
  BY <1>1 DEF MemSound, UnusedSound
<1> DEFINE y == ZapFile(z, o, n, fid)
<1>7. AfterZap(z, o, n, fid, y)
  BY <1>3, <1>4, <1>6, Zapped
<1> HIDE DEF y
<1>8. AfterZap(v, o, n, fid, y)
  BY <1>1, <1>5, <1>7 DEF AfterZap
<1>9. Steady(v, y, w)
  BY <1>8, ZapKeeps
<1> QED
  BY <1>9 DEF y

(* fcreate_q over an old file: the header is a new file's, of the same     *)
(* generation, or the file is removed.                                     *)
LEMMA TruncateKeeps ==
  ASSUME NEW v \in InMemory, NEW w \in OnDisk, MemSound(v), Marked(v, w),
         NEW p \in Paths, Found(v, p) # 0, ~v.rfh[Found(v, p)].dir,
         NEW H, NEW z, z = [v EXCEPT !.rfh[Found(v, p)] = H, !.dirty = @ \cup {Found(v, p)}]
  PROVE  /\ H = [NoFile EXCEPT !.gen = v.rfh[Found(v, p)].gen, !.new = TRUE, !.upd = TRUE, !.valid = FALSE]
              => Steady(v, ZapFile(z, Owner(v, p), Last(p), Found(v, p)), w)
         /\ H = [NoFile EXCEPT !.gen = v.rfh[Found(v, p)].gen, !.new = TRUE, !.upd = TRUE, !.valid = TRUE]
              => Steady(v, z, w)
<1> DEFINE fid == Found(v, p)
           o == Owner(v, p)
           n == Last(p)
<1>1. /\ fid \in There(v) \ {Root} /\ fid \in Fids /\ o \in Fids /\ n \in Names
      /\ v.dirs[o][n].fid = fid /\ ~v.rfh[fid].dir
  BY FoundIs, OwnerIs DEF There
<1>2. z = [v EXCEPT !.rfh[fid] = H, !.dirty = @ \cup {fid}]
  OBVIOUS
<1>3. v.rfh[fid].gen \in 0..MaxGen /\ v.rfh[fid].dir = FALSE
  BY <1>1 DEF InMemory, Header
<1>4. Removable(v, o, n, fid)
  BY <1>1 DEF Removable
<1> HIDE DEF fid, o, n
<1>5. ASSUME H = [NoFile EXCEPT !.gen = v.rfh[fid].gen, !.new = TRUE, !.upd = TRUE, !.valid = TRUE]
      PROVE  Steady(v, z, w)
  <2>1. H \in Header /\ H.gen = v.rfh[fid].gen /\ H.valid /\ H.dir = v.rfh[fid].dir /\ (H.dir => ~H.new)
    BY <1>3, <1>5 DEF NoFile, Header
  <2>2. fid \in There(v)
    BY <1>1
  <2> QED
    BY <1>2, <2>1, <2>2, HeaderKeeps
<1>6. ASSUME H = [NoFile EXCEPT !.gen = v.rfh[fid].gen, !.new = TRUE, !.upd = TRUE, !.valid = FALSE]
      PROVE  Steady(v, ZapFile(z, o, n, fid), w)
  <2>1. H \in Header /\ H.gen = v.rfh[fid].gen
    BY <1>3, <1>6 DEF NoFile, Header
  <2> QED
    BY <1>2, <1>4, <2>1, ZapChanged
<1> QED
  BY <1>5, <1>6 DEF fid, o, n

(* Delete and rmdir: a file, or a directory without entries. *)
LEMMA RemoveKeeps ==
  ASSUME NEW v \in InMemory, NEW w \in OnDisk, MemSound(v), Marked(v, w),
         NEW p \in Paths, Found(v, p) # 0,
         ~v.rfh[Found(v, p)].dir \/ v.dirs[Found(v, p)] = NoDir
  PROVE  Steady(v, ZapFile(v, Owner(v, p), Last(p), Found(v, p)), w)
<1> DEFINE fid == Found(v, p)
           o == Owner(v, p)
           n == Last(p)
           y == ZapFile(v, o, n, fid)
<1>1. fid \in Fids /\ o \in Fids /\ n \in Names /\ v.dirs[o][n].fid = fid
  BY FoundIs, OwnerIs DEF There
<1>2. Removable(v, o, n, fid)
  BY <1>1 DEF Removable
<1>3. IsInjective(v.unused)
  BY DEF MemSound, UnusedSound
<1> HIDE DEF fid, o, n
<1>4. AfterZap(v, o, n, fid, y)
  BY <1>1, <1>3, Zapped
<1> HIDE DEF y
<1>5. Steady(v, y, w)
  BY <1>2, <1>4, ZapKeeps
<1> QED
  BY <1>5 DEF y, fid, o, n

(* Rename: a name that is found goes to one that is not there. *)
LEMMA RenameKeeps ==
  ASSUME NEW v \in InMemory, NEW w \in OnDisk, MemSound(v), Marked(v, w),
         NEW p \in Paths, NEW r \in Paths, Found(v, p) # 0, Owner(v, r) # 0, Found(v, r) = 0
  PROVE  Steady(v, Moved(v, Owner(v, p), Last(p), Owner(v, r), Last(r)), w)
<1>1. /\ Owner(v, p) \in There(v) /\ Last(p) \in Names
      /\ v.dirs[Owner(v, p)][Last(p)].fid = Found(v, p)
      /\ Owner(v, r) \in There(v) /\ v.rfh[Owner(v, r)].dir /\ Last(r) \in Names
      /\ v.dirs[Owner(v, r)][Last(r)] = NoEnt
  BY FoundIs, OwnerIs
<1>2. v.dirs[Owner(v, p)][Last(p)] # NoEnt
  BY <1>1 DEF NoEnt
<1> QED
  BY <1>1, <1>2, MoveKeeps

(* fcreate_q of a new file or directory, with its name or not. *)
LEMMA CreateNewKeeps ==
  ASSUME NEW v \in InMemory, NEW w \in OnDisk, MemSound(v), Marked(v, w),
         NEW p \in Paths, Owner(v, p) # 0, Found(v, p) = 0, NewFid(v) \in Fids, NEW mkdir \in BOOLEAN,
         NEW fid, fid = NewFid(v), NEW gen, gen = GetFh(v).rfh[fid].gen
  PROVE  /\ Gave(v, ZapFile(Started(v, fid), Owner(v, p), Last(p), fid), w, fid)
         /\ Gave(v, Created(Started(v, fid), Owner(v, p), Last(p), fid, gen, v.rfh[Owner(v, p)].gen, mkdir), w, fid)
         /\ LET z == Created(Started(v, fid), Owner(v, p), Last(p), fid, gen, v.rfh[Owner(v, p)].gen, mkdir)
            IN  gen \in 1..MaxGen /\ LastGen(z, fid) = gen
<1> DEFINE o == Owner(v, p)
           n == Last(p)
           c == Started(v, fid)
           y == ZapFile(c, o, n, fid)
           z == Created(c, o, n, fid, gen, v.rfh[o].gen, mkdir)
<1>1. o \in There(v) /\ v.rfh[o].dir /\ n \in Names /\ v.dirs[o][n] = NoEnt /\ o \in Fids
  BY FoundIs, OwnerIs DEF There
<1>11. v.rfh[o].gen \in 0..MaxGen
  BY <1>1 DEF InMemory, Header
<1>2. AfterStart(v, fid, gen, c)
  BY StartedIs
<1>3. y = ZapFile(Started(v, NewFid(v)), o, n, NewFid(v))
  OBVIOUS
<1> HIDE DEF o, n, y
<1>4. Gave(v, y, w, fid)
  BY <1>1, <1>3, CreateFailsKeeps
<1> HIDE DEF c
<1>5. AfterCreate(c, o, n, fid, gen, z)
  BY <1>1, <1>11, <1>2, CreatedIs DEF AfterStart
<1> HIDE DEF z
<1>6. Gave(v, z, w, fid) /\ z.rfh[fid].gen = gen /\ fid \in There(z)
  BY <1>1, <1>2, <1>5, CreateKeeps
<1>7. Gave(v, z, w, fid) /\ gen \in 1..MaxGen /\ LastGen(z, fid) = gen
  BY <1>2, <1>6 DEF AfterStart, LastGen
<1> QED
  BY <1>4, <1>7 DEF o, n, c, y, z

-----------------------------------------------------------------------------
(* The operations on names.                                                *)

(* What holds of the volume while it is mounted. *)
Mounted == m \in InMemory /\ saved \in OnDisk /\ MemSound(m) /\ Marked(m, saved)

(* The table t, with perhaps one descriptor more, of a FID of the volume v *)
(* and the generation it has there, or none.                               *)
Opens(t, v) ==
  \/ h' = t
  \/ \E fid \in Fids, gen \in 0..MaxGen :
       Opened(t, fid, gen) /\ fid < v.ffree /\ (gen # 0 => gen = LastGen(v, fid))

(* The volume is as usable as it was. *)
AsBefore == up' = up /\ lost' = lost

(* What an operation on names does: nothing, or a change that gives out one FID or none. *)
Operated ==
  /\ AsBefore /\ saved' = saved /\ (ops' = ops \/ Counted)
  /\ \/ m' = m /\ s' = s /\ Opens(h, m)
     \/ Steady(m, m', saved) /\ Noticed(m') /\ Opens(h, m')
     \/ \E fid \in Fids : Gave(m, m', saved, fid) /\ Noticed(m') /\ Opens(GivenOut(fid), m')

(* An open of what there is leaves the volume as it is. *)
LEMMA OpenOldOperates ==
  ASSUME Mounted, AsBefore, saved' = saved, NEW p \in Paths, OpenOld(p)
  PROVE  Operated
<1> DEFINE fid == Found(m, p)
<1>1. fid \in There(m) /\ fid \in Fids
  BY FoundIs DEF Mounted, OpenOld, There
<1>2. m' = m /\ s' = s /\ Counted /\ Opened(h, fid, m.rfh[fid].gen)
  BY DEF OpenOld
<1> HIDE DEF fid
<1>3. fid < m.ffree /\ m.rfh[fid].gen \in 0..MaxGen /\ m.rfh[fid].gen = LastGen(m, fid)
  BY <1>1 DEF Mounted, MemSound, Sound, FilesSound, InMemory, Header, LastGen
<1>4. Opens(h, m)
  BY <1>1, <1>2, <1>3 DEF Opens
<1> QED
  BY <1>2, <1>4 DEF Operated

(* An open by FID, also of a file that is gone: nothing is reached then. *)
LEMMA OpenFidOperates ==
  ASSUME Mounted, NEW fid \in Fids, NEW gen \in 0..MaxGen, OpenFid(fid, gen)
  PROVE  Operated
<1>1. /\ m' = m /\ s' = s /\ AsBefore /\ saved' = saved /\ Counted /\ Opened(h, fid, gen)
      /\ fid < m.ffree /\ m.rfh[fid].gen = gen
  BY DEF OpenFid, AsBefore
<1>2. gen # 0 => fid \in There(m)
  BY <1>1 DEF Mounted, MemSound, GoneAreGone, NoFile
<1>3. gen # 0 => gen = LastGen(m, fid)
  BY <1>1, <1>2 DEF LastGen
<1>4. Opens(h, m)
  BY <1>1, <1>3 DEF Opens
<1> QED
  BY <1>1, <1>4 DEF Operated

(* A truncation keeps the generation that its descriptor is given. *)
LEMMA TruncateOperates ==
  ASSUME Mounted, AsBefore, saved' = saved, NEW p \in Paths, NEW fails \in BOOLEAN, Truncate(p, fails)
  PROVE  Operated
<1> DEFINE fid == Found(m, p)
           H == [NoFile EXCEPT !.gen = m.rfh[fid].gen, !.new = TRUE, !.upd = TRUE, !.valid = ~fails]
           z == [m EXCEPT !.rfh[fid] = H, !.dirty = @ \cup {fid}]
<1>1. /\ Counted /\ fid # 0 /\ ~m.rfh[fid].dir
      /\ \/ fails /\ Step(ZapFile(z, Owner(m, p), Last(p), fid)) /\ h' = h
         \/ ~fails /\ Step(z) /\ Opened(h, fid, m.rfh[fid].gen)
  BY DEF Truncate
<1>2. fails => H = [NoFile EXCEPT !.gen = m.rfh[fid].gen, !.new = TRUE, !.upd = TRUE, !.valid = FALSE]
  BY DEF NoFile
<1>3. ~fails => H = [NoFile EXCEPT !.gen = m.rfh[fid].gen, !.new = TRUE, !.upd = TRUE, !.valid = TRUE]
  BY DEF NoFile
<1> HIDE DEF H
<1>4. /\ fails => Steady(m, ZapFile(z, Owner(m, p), Last(p), fid), saved)
      /\ ~fails => Steady(m, z, saved)
  BY <1>1, <1>2, <1>3, TruncateKeeps DEF Mounted
<1>5. fid \in There(m) /\ fid \in Fids
  BY <1>1, FoundIs DEF Mounted, There
<1> HIDE DEF z, fid
<1>6. Steady(m, m', saved) /\ Noticed(m')
  BY <1>1, <1>4 DEF Step
<1>7. Opens(h, m')
  <2>1. CASE h' = h
    BY <2>1 DEF Opens
  <2>2. CASE Opened(h, fid, m.rfh[fid].gen)
    <3>1. m.rfh[fid].gen = LastGen(m, fid) /\ fid < m.ffree /\ m.rfh[fid].gen \in 0..MaxGen
      BY <1>5 DEF Mounted, MemSound, Sound, FilesSound, InMemory, Header, LastGen
    <3>2. LastGen(m', fid) = LastGen(m, fid) /\ m'.ffree = m.ffree
      BY <1>5, <1>6 DEF Steady
    <3> QED
      BY <1>5, <2>2, <3>1, <3>2 DEF Opens
  <2> QED
    BY <1>1, <2>1, <2>2
<1> QED
  BY <1>1, <1>6, <1>7 DEF Operated

(* A new file gives out one FID, and its descriptor has its generation. *)
LEMMA CreateNewOperates ==
  ASSUME Mounted, AsBefore, saved' = saved, NEW p \in Paths, NEW mkdir \in BOOLEAN, NEW fails \in BOOLEAN,
         CreateNew(p, mkdir, fails)
  PROVE  Operated
<1> DEFINE fid == NewFid(m)
           gen == GetFh(m).rfh[fid].gen
           v == Started(m, fid)
           y == ZapFile(v, Owner(m, p), Last(p), fid)
           z == Created(v, Owner(m, p), Last(p), fid, gen, m.rfh[Owner(m, p)].gen, mkdir)
<1>1. /\ Counted /\ fid \in Fids /\ Owner(m, p) # 0 /\ Found(m, p) = 0
      /\ \/ fails /\ Step(y) /\ h' = GivenOut(fid)
         \/ ~fails /\ mkdir /\ Step(z) /\ h' = GivenOut(fid)
         \/ ~fails /\ ~mkdir /\ Step(z) /\ Opened(GivenOut(fid), fid, gen)
  BY DEF CreateNew, Started, Created
<1>2. /\ Gave(m, y, saved, fid) /\ Gave(m, z, saved, fid)
      /\ gen \in 1..MaxGen /\ LastGen(z, fid) = gen
  BY <1>1, CreateNewKeeps DEF Mounted
<1> HIDE DEF fid, gen, v, y, z
<1>3. Gave(m, m', saved, fid) /\ Noticed(m')
  BY <1>1, <1>2 DEF Step
<1>4. Opens(GivenOut(fid), m')
  <2>1. CASE h' = GivenOut(fid)
    BY <2>1 DEF Opens
  <2>2. CASE Step(z) /\ Opened(GivenOut(fid), fid, gen)
    <3>1. LastGen(m', fid) = gen
      BY <1>2, <2>2 DEF Step
    <3>2. fid < m'.ffree
      BY <1>3 DEF Gave, GaveOut
    <3>3. gen \in 0..MaxGen
      BY <1>2, Constants
    <3> QED
      BY <1>1, <2>2, <3>1, <3>2, <3>3 DEF Opens
  <2> QED
    BY <1>1, <2>1, <2>2
<1> QED
  BY <1>1, <1>3, <1>4 DEF Operated

(* Every operation on names leaves the volume sound. *)
LEMMA NameOperates ==
  ASSUME Mounted, NextName
  PROVE  Operated
<1>1. ASSUME NEW f \in Fids, NEW gen \in 0..MaxGen, OpenFid(f, gen) PROVE Operated
  BY <1>1, OpenFidOperates
<1>2. ASSUME NEW p \in Paths, Open(p) PROVE Operated
  <2>1. AsBefore /\ saved' = saved
    BY <1>2 DEF Open, AsBefore
  <2>2. CASE OpenOld(p)
    BY <2>1, <2>2, OpenOldOperates
  <2>3. ASSUME NEW fails \in BOOLEAN, Truncate(p, fails) PROVE Operated
    BY <2>1, <2>3, TruncateOperates
  <2>4. ASSUME NEW fails \in BOOLEAN, CreateNew(p, FALSE, fails) PROVE Operated
    <3>1. FALSE \in BOOLEAN
      OBVIOUS
    <3> QED
      BY <2>1, <2>4, <3>1, CreateNewOperates
  <2> QED
    BY <1>2, <2>2, <2>3, <2>4 DEF Open
<1>3. ASSUME NEW p \in Paths, Mkdir(p) PROVE Operated
  <2>1. AsBefore /\ saved' = saved
    BY <1>3 DEF Mkdir, AsBefore
  <2>2. CASE OpenOld(p)
    BY <2>1, <2>2, OpenOldOperates
  <2>3. ASSUME NEW fails \in BOOLEAN, CreateNew(p, TRUE, fails) PROVE Operated
    <3>1. TRUE \in BOOLEAN
      OBVIOUS
    <3> QED
      BY <2>1, <2>3, <3>1, CreateNewOperates
  <2> QED
    BY <1>3, <2>2, <2>3 DEF Mkdir
<1>4. ASSUME NEW p \in Paths, Delete(p) \/ Rmdir(p) PROVE Operated
  <2>1. /\ Found(m, p) # 0 /\ (~m.rfh[Found(m, p)].dir \/ m.dirs[Found(m, p)] = NoDir)
        /\ m' = ZapFile(m, Owner(m, p), Last(p), Found(m, p)) /\ Noticed(m')
        /\ AsBefore /\ saved' = saved /\ h' = h /\ ops' = ops
    BY <1>4 DEF Delete, Rmdir, Step, AsBefore
  <2>2. Steady(m, m', saved)
    BY <2>1, RemoveKeeps DEF Mounted
  <2> QED
    BY <2>1, <2>2 DEF Operated, Opens
<1>5. ASSUME NEW p \in Paths, NEW r \in Paths, Rename(p, r) PROVE Operated
  <2>1. /\ Found(m, p) # 0 /\ Owner(m, r) # 0 /\ Found(m, r) = 0
        /\ m' = Moved(m, Owner(m, p), Last(p), Owner(m, r), Last(r)) /\ Noticed(m')
        /\ AsBefore /\ saved' = saved /\ h' = h /\ Counted
    BY <1>5 DEF Rename, Step, AsBefore
  <2>2. Steady(m, m', saved)
    BY <2>1, RenameKeeps DEF Mounted
  <2> QED
    BY <2>1, <2>2 DEF Operated, Opens
<1> QED
  BY <1>1, <1>2, <1>3, <1>4, <1>5 DEF NextName

-----------------------------------------------------------------------------
(* The descriptors.                                                        *)

(* The descriptors of a table fit a volume. *)
TableOK(t, v) == t \in [Handles -> Descriptor] /\ \A x \in Handles : Traced(t[x], v)

(* A FID that is given out again has its next generation. *)
LEMMA OnceMore ==
  ASSUME NEW g \in 0..MaxGen, NEW last \in 0..MaxGen, NEW again \in Nat, NEW k \in Nat,
         g + again = last + k * MaxGen
  PROVE  \E j \in Nat : g + (again + 1) = NextGen(last) + j * MaxGen
<1>1. NextGen(last) \in 1..MaxGen /\ (NextGen(last) = last + 1 \/ (last = MaxGen /\ NextGen(last) = 1))
  BY NextGenIs
<1>2. MaxGen \in Nat
  BY Constants
<1>3. k * MaxGen \in Nat /\ (k + 1) * MaxGen = k * MaxGen + MaxGen
  BY <1>2
<1>4. CASE NextGen(last) = last + 1
  <2>1. g + (again + 1) = NextGen(last) + k * MaxGen
    <3> HIDE DEF NextGen
    <3> DEFINE p == k * MaxGen
    <3>1. p \in Nat /\ g + again = last + p
      BY <1>3
    <3> HIDE DEF p
    <3>2. g \in Nat /\ last \in Nat
      BY <1>2
    <3>3. g + (again + 1) = NextGen(last) + p
      BY <3>1, <3>2, <1>4
    <3> QED
      BY <3>3 DEF p
  <2> QED
    BY <2>1
<1>5. CASE last = MaxGen /\ NextGen(last) = 1
  <2>1. g + (again + 1) = 1 + (k + 1) * MaxGen
    <3> DEFINE p == k * MaxGen
               r == (k + 1) * MaxGen
    <3>1. p \in Nat /\ g + again = MaxGen + p /\ r = p + MaxGen
      BY <1>3, <1>5
    <3> HIDE DEF p, r
    <3>2. g \in Nat
      BY <1>2
    <3>3. g + (again + 1) = 1 + r
      BY <3>1, <3>2, <1>2
    <3> QED
      BY <3>3 DEF r
  <2>2. k + 1 \in Nat
    OBVIOUS
  <2> QED
    BY <2>1, <2>2, <1>5
<1> QED
  BY <1>1, <1>4, <1>5

(* Generations are in range. *)
LEMMA LastGenIs ==
  ASSUME NEW v \in InMemory, NEW f \in Fids
  PROVE  LastGen(v, f) \in 0..MaxGen
BY DEF LastGen, InMemory, Header, Slot

(* Descriptors are right when no generation changes. *)
LEMMA TableSteady ==
  ASSUME NEW v, NEW z, NEW t, TableOK(t, v), z.ffree = v.ffree, \A f \in Fids : LastGen(z, f) = LastGen(v, f)
  PROVE  TableOK(t, z)
BY DEF TableOK, Traced

(* Those of a FID that was given out count it. *)
LEMMA TableGave ==
  ASSUME NEW z \in InMemory, NEW fid \in Fids, m \in InMemory, TableOK(h, m), GaveOut(m, z, fid)
  PROVE  TableOK(GivenOut(fid), z)
<1> DEFINE t == GivenOut(fid)
<1>1. m.ffree \in Nat /\ z.ffree \in Nat /\ m.ffree <= z.ffree /\ Fids \subseteq Nat
  BY Constants DEF InMemory, GaveOut
<1> SUFFICES ASSUME NEW x \in Handles PROVE t[x] \in Descriptor /\ Traced(t[x], z)
  BY DEF TableOK, GivenOut
<1>2. h[x] \in Descriptor /\ Traced(h[x], m)
  BY DEF TableOK
<1>3. CASE h[x].open /\ h[x].fid = fid
  <2>1. t[x] = [h[x] EXCEPT !.again = @ + 1]
    BY <1>3 DEF GivenOut
  <2>2. /\ t[x].open /\ t[x].fid = fid /\ t[x].gen = h[x].gen /\ t[x].again = h[x].again + 1
        /\ t[x] \in Descriptor
    BY <2>1, <1>2, <1>3 DEF Descriptor
  <2>3. h[x].gen \in 0..MaxGen /\ h[x].again \in Nat
    BY <1>2 DEF Descriptor
  <2>4. fid < m.ffree /\ (h[x].gen # 0 => \E k \in Nat : h[x].gen + h[x].again = LastGen(m, fid) + k * MaxGen)
    BY <1>2, <1>3 DEF Traced
  <2>5. LastGen(z, fid) = NextGen(LastGen(m, fid)) /\ fid < z.ffree
    BY <2>4 DEF GaveOut
  <2>6. LastGen(m, fid) \in 0..MaxGen
    BY LastGenIs
  <2>7. h[x].gen # 0 => \E k \in Nat : h[x].gen + (h[x].again + 1) = LastGen(z, fid) + k * MaxGen
    BY <2>3, <2>4, <2>5, <2>6, OnceMore
  <2> QED
    BY <2>2, <2>5, <2>7 DEF Traced
<1>4. CASE ~(h[x].open /\ h[x].fid = fid)
  <2>1. t[x] = h[x]
    BY <1>4 DEF GivenOut
  <2>2. h[x].open => LastGen(z, h[x].fid) = LastGen(m, h[x].fid) /\ h[x].fid < z.ffree
    BY <1>1, <1>2, <1>4 DEF Traced, GaveOut
  <2> QED
    BY <2>1, <2>2, <1>2 DEF Traced
<1> QED
  BY <1>3, <1>4

(* A new descriptor has the generation that its FID has. *)
LEMMA TableOpens ==
  ASSUME NEW v \in InMemory, NEW t, TableOK(t, v), Opens(t, v)
  PROVE  TableOK(h', v)
<1>1. CASE h' = t
  BY <1>1
<1>2. ASSUME NEW fid \in Fids, NEW gen \in 0..MaxGen, NEW x \in Handles,
             h' = [t EXCEPT ![x] = [Free EXCEPT !.open = TRUE, !.fid = fid, !.gen = gen]],
             fid < v.ffree, gen # 0 => gen = LastGen(v, fid)
      PROVE  TableOK(h', v)
  <2> DEFINE d == [Free EXCEPT !.open = TRUE, !.fid = fid, !.gen = gen]
  <2>1. d \in Descriptor /\ d.open /\ ~d.closing /\ d.fid = fid /\ d.gen = gen /\ d.again = 0
    BY DEF Free, Descriptor
  <2> HIDE DEF d
  <2>2. gen # 0 => gen + 0 = LastGen(v, fid) + 0 * MaxGen
    <3>1. LastGen(v, fid) \in Nat /\ gen \in Nat /\ MaxGen \in Nat
      BY Constants, LastGenIs
    <3>2. 0 * MaxGen = 0
      BY <3>1
    <3> QED
      BY <3>1, <3>2, <1>2
  <2>3. gen # 0 => \E k \in Nat : gen + 0 = LastGen(v, fid) + k * MaxGen
    BY <2>2
  <2>4. Traced(d, v)
    BY <2>1, <2>3, <1>2 DEF Traced
  <2>5. h' = [t EXCEPT ![x] = d]
    BY <1>2 DEF d
  <2> QED
    BY <2>1, <2>4, <2>5 DEF TableOK
<1> QED
  BY <1>1, <1>2 DEF Opens, Opened

-----------------------------------------------------------------------------
(* The stream.                                                             *)

(* A stream that is told of a change keeps what is not changed. *)
LEMMA NoticedKeeps ==
  ASSUME s \in Stream, StreamInv, Usable, AsBefore, Noticed(m')
  PROVE  s' \in Stream /\ StreamInv'
<1> DEFINE gone == {n \in Names : s.open /\ m'.dirs[s.dir][n] # m.dirs[s.dir][n]}
<1>1. CASE ~s.open
  BY <1>1 DEF Noticed, StreamInv
<1>2. CASE s.open
  <2>1. s' = [s EXCEPT !.steady = @ \ gone, !.cut = @ \/ s.cur \in gone, !.cuts = @ \/ s.cur \in gone]
    BY <1>2 DEF Noticed
  <2>2. gone \subseteq Names
    OBVIOUS
  <2>3. \A n \in Names \ gone : m'.dirs[s.dir][n] = m.dirs[s.dir][n]
    BY <1>2
  <2> HIDE DEF gone
  <2>4. /\ s'.open = s.open /\ s'.dir = s.dir /\ s'.entry = s.entry /\ s'.cur = s.cur /\ s'.seen = s.seen
        /\ s'.steady = s.steady \ gone
        /\ s'.cut = (s.cut \/ s.cur \in gone) /\ s'.cuts = (s.cuts \/ s.cur \in gone)
    BY <2>1 DEF Stream
  <2>5. s' \in Stream
    BY <2>1 DEF Stream
  <2>6. /\ s.dir \in Fids /\ (s.cut => s.cuts) /\ (s.cur # 0 => HashOf[s.cur] = s.entry - 1)
        /\ \A n \in s.steady :
             /\ m.dirs[s.dir][n] # NoEnt
             /\ HashOf[n] < s.entry /\ ~s.cuts =>
                  n \in s.seen \/ (s.cur # 0 /\ HashOf[n] = HashOf[s.cur] /\ n > s.cur)
    BY <1>2 DEF StreamInv
  <2>7. s.steady \subseteq Names
    BY DEF Stream
  <2>8. StreamInv'
    BY ZenonT(60), <2>3, <2>4, <2>6, <2>7 DEF StreamInv, AsBefore, Usable
  <2> QED
    BY <2>5, <2>8
<1> QED
  BY <1>1, <1>2

-----------------------------------------------------------------------------
(* The invariant holds after every step.                                   *)

(* The parts of the invariant, while the volume is mounted. *)
LEMMA Parts ==
  ASSUME IInv, Usable
  PROVE  /\ Mounted /\ Sound(saved) /\ TableOK(h, m) /\ StreamInv /\ s \in Stream /\ ops \in 0..MaxOps
         /\ m \in InMemory /\ saved \in OnDisk /\ up = TRUE /\ lost = FALSE
BY DEF IInv, TypeOK, MemoryInv, DirtyInv, HandlesInv, Mounted, TableOK, Usable

(* And together again. *)
LEMMA Together ==
  ASSUME m' \in InMemory, saved' \in OnDisk, up' = TRUE, lost' = FALSE, MemSound(m'), Marked(m', saved'), Sound(saved'),
         TableOK(h', m'), s' \in Stream, StreamInv', ops' \in 0..MaxOps
  PROVE  IInv'
<1>1. TypeOK' /\ MemoryInv' /\ DirtyInv'
  BY DEF TypeOK, MemoryInv, DirtyInv, TableOK, Usable
<1>2. HandlesInv'
  BY DEF HandlesInv, TableOK, Usable
<1> QED
  BY <1>1, <1>2 DEF IInv

(* What is counted stays within its bound. *)
LEMMA CountedStays ==
  ASSUME ops \in 0..MaxOps, ops' = ops \/ Counted
  PROVE  ops' \in 0..MaxOps
BY OpsAssumption DEF Counted

(* A stream that is not told of anything has lost nothing. *)
LEMMA StreamStays ==
  ASSUME s \in Stream, StreamInv, s' = s, AsBefore, m'.dirs = m.dirs
  PROVE  s' \in Stream /\ StreamInv'
BY DEF StreamInv, AsBefore, Usable

(* Every operation on names keeps the invariant. *)
LEMMA OperatedKeeps ==
  ASSUME IInv, Usable, Operated
  PROVE  IInv'
<1>1. /\ Mounted /\ Sound(saved) /\ TableOK(h, m) /\ StreamInv /\ s \in Stream /\ ops \in 0..MaxOps
      /\ m \in InMemory /\ saved \in OnDisk /\ up = TRUE /\ lost = FALSE
  BY Parts
<1>2. AsBefore /\ saved' = saved /\ ops' \in 0..MaxOps
  BY <1>1, CountedStays DEF Operated
<1>3. CASE m' = m /\ s' = s /\ Opens(h, m)
  <2>1. TableOK(h', m')
    BY <1>1, <1>3, TableOpens
  <2>2. s' \in Stream /\ StreamInv'
    BY <1>1, <1>2, <1>3, StreamStays
  <2> QED
    BY <1>1, <1>2, <1>3, <2>1, <2>2, Together DEF Mounted, AsBefore
<1>4. CASE Steady(m, m', saved) /\ Noticed(m') /\ Opens(h, m')
  <2>1. m' \in InMemory /\ MemSound(m') /\ Marked(m', saved)
    BY <1>4 DEF Steady
  <2>2. TableOK(h, m')
    BY <1>1, <1>4, TableSteady DEF Steady
  <2>3. TableOK(h', m')
    BY <2>1, <2>2, <1>4, TableOpens
  <2>4. s' \in Stream /\ StreamInv'
    BY <1>1, <1>2, <1>4, NoticedKeeps
  <2> QED
    BY <1>1, <1>2, <2>1, <2>3, <2>4, Together DEF AsBefore
<1>5. ASSUME NEW fid \in Fids, Gave(m, m', saved, fid), Noticed(m'), Opens(GivenOut(fid), m')
      PROVE  IInv'
  <2>1. m' \in InMemory /\ MemSound(m') /\ Marked(m', saved) /\ GaveOut(m, m', fid)
    BY <1>5 DEF Gave
  <2>2. TableOK(GivenOut(fid), m')
    BY <1>1, <2>1, TableGave
  <2>3. TableOK(h', m')
    BY <2>1, <2>2, <1>5, TableOpens
  <2>4. s' \in Stream /\ StreamInv'
    BY <1>1, <1>2, <1>5, NoticedKeeps
  <2> QED
    BY <1>1, <1>2, <2>1, <2>3, <2>4, Together DEF AsBefore
<1> QED
  BY <1>3, <1>4, <1>5 DEF Operated

(* The check of a close changes nothing but its mark. *)
LEMMA CloseCalledKeeps ==
  ASSUME IInv, NEW x \in Handles, CloseCalled(x)
  PROVE  IInv'
<1>1. /\ Usable /\ h[x].open /\ h' = [h EXCEPT ![x].closing = TRUE]
      /\ m' = m /\ saved' = saved /\ AsBefore /\ s' = s /\ ops' = ops
  BY DEF CloseCalled, Reaches, AsBefore
<1>2. /\ Mounted /\ Sound(saved) /\ TableOK(h, m) /\ StreamInv /\ s \in Stream /\ ops \in 0..MaxOps
      /\ m \in InMemory /\ saved \in OnDisk /\ up = TRUE /\ lost = FALSE
  BY <1>1, Parts
<1>3. TableOK(h', m')
  <2> DEFINE d == [h[x] EXCEPT !.closing = TRUE]
  <2>1. h[x] \in Descriptor /\ Traced(h[x], m)
    BY <1>2 DEF TableOK
  <2>2. /\ d \in Descriptor /\ d.open = h[x].open /\ d.fid = h[x].fid /\ d.gen = h[x].gen
        /\ d.again = h[x].again
    BY <2>1 DEF Descriptor
  <2>3. h' = [h EXCEPT ![x] = d]
    BY <1>1
  <2> HIDE DEF d
  <2>4. Traced(d, m)
    BY <2>1, <2>2, <1>1 DEF Traced
  <2> QED
    BY <2>2, <2>3, <2>4, <1>1, <1>2 DEF TableOK
<1>4. s' \in Stream /\ StreamInv'
  BY <1>1, <1>2, StreamStays
<1> QED
  BY <1>1, <1>2, <1>3, <1>4, Together DEF Mounted, AsBefore

(* A header that is there stays sound without its flags. *)
LEMMA ClosedKeeps ==
  ASSUME NEW v \in InMemory, NEW w \in OnDisk, MemSound(v), Marked(v, w), NEW fid \in There(v),
         NEW z, z = [v EXCEPT !.rfh[fid] = [v.rfh[fid] EXCEPT !.upd = FALSE, !.new = FALSE],
                              !.dirty = @ \cup {fid}]
  PROVE  Steady(v, z, w) /\ z.dirs = v.dirs
<1> DEFINE H == [v.rfh[fid] EXCEPT !.upd = FALSE, !.new = FALSE]
<1>1. v.rfh[fid].valid /\ v.rfh[fid] \in Header
  BY DEF MemSound, GoneAreGone, InMemory, There
<1>2. H \in Header /\ H.valid /\ H.gen = v.rfh[fid].gen /\ H.dir = v.rfh[fid].dir /\ ~H.new
  BY <1>1 DEF Header
<1>3. z = [v EXCEPT !.rfh[fid] = H, !.dirty = @ \cup {fid}]
  OBVIOUS
<1>4. H.dir => ~H.new
  BY <1>2
<1> HIDE DEF H
<1>5. Steady(v, z, w)
  BY <1>2, <1>3, <1>4, HeaderKeeps
<1>6. z.dirs = v.dirs
  BY DEF InMemory
<1> QED
  BY <1>5, <1>6

(* The work of a close touches the header of a file that is there. *)
LEMMA CloseUpdKeeps ==
  ASSUME IInv, NEW x \in Handles, CloseUpd(x)
  PROVE  IInv'
<1> DEFINE fid == h[x].fid
           H == [m.rfh[fid] EXCEPT !.upd = FALSE, !.new = FALSE]
<1>1. /\ Usable /\ h[x].closing /\ h' = [h EXCEPT ![x] = Free]
      /\ m' = IF m.rfh[fid].upd THEN [m EXCEPT !.rfh[fid] = H, !.dirty = @ \cup {fid}] ELSE m
      /\ saved' = saved /\ AsBefore /\ s' = s /\ ops' = ops
  BY DEF CloseUpd, AsBefore
<1>2. /\ Mounted /\ Sound(saved) /\ TableOK(h, m) /\ StreamInv /\ s \in Stream /\ ops \in 0..MaxOps
      /\ m \in InMemory /\ saved \in OnDisk /\ up = TRUE /\ lost = FALSE
  BY <1>1, Parts
<1>3. fid \in Fids
  BY <1>1, <1>2 DEF TableOK, Traced
<1>4. Steady(m, m', saved) /\ m'.dirs = m.dirs
  <2>1. CASE ~m.rfh[fid].upd
    <3>1. m' = m
      BY <1>1, <2>1
    <3> QED
      BY <3>1, <1>2 DEF Steady, Mounted
  <2>2. CASE m.rfh[fid].upd
    <3>1. fid \in There(m)
      BY <1>2, <1>3, <2>2 DEF Mounted, MemSound, GoneAreGone, NoFile
    <3>2. m' = [m EXCEPT !.rfh[fid] = H, !.dirty = @ \cup {fid}]
      BY <1>1, <2>2
    <3> HIDE DEF fid
    <3> QED
      BY <3>1, <3>2, <1>2, ClosedKeeps DEF Mounted
  <2> QED
    BY <2>1, <2>2
<1>5. m' \in InMemory /\ MemSound(m') /\ Marked(m', saved)
  BY <1>4 DEF Steady
<1>6. TableOK(h', m')
  <2>1. TableOK(h, m')
    BY <1>2, <1>4, TableSteady DEF Steady
  <2>2. Free \in Descriptor /\ Traced(Free, m')
    BY Constants DEF Free, Descriptor, Traced
  <2> QED
    BY <2>1, <2>2, <1>1 DEF TableOK
<1>7. s' \in Stream /\ StreamInv'
  BY <1>1, <1>2, <1>4, StreamStays
<1> QED
  BY <1>1, <1>2, <1>5, <1>6, <1>7, Together DEF AsBefore

(* Names are in chains. *)
LEMMA HashIs ==
  /\ \A n \in Names : HashOf[n] \in 1..Buckets /\ n \in Nat /\ n # 0
  /\ Buckets \in Nat \ {0}
BY NamesAssumption

(* Reading changes the stream alone. *)
LEMMA ReadKeeps ==
  ASSUME IInv, Usable, m' = m, saved' = saved, AsBefore, h' = h, ops' = ops \/ Counted,
         s' \in Stream, StreamInv'
  PROVE  IInv'
<1>1. /\ Mounted /\ Sound(saved) /\ TableOK(h, m) /\ StreamInv /\ s \in Stream /\ ops \in 0..MaxOps
      /\ m \in InMemory /\ saved \in OnDisk /\ up = TRUE /\ lost = FALSE
  BY Parts
<1>2. ops' \in 0..MaxOps
  BY <1>1, CountedStays
<1> QED
  BY <1>1, <1>2, Together DEF Mounted, AsBefore

(* A stream begins before the first chain. *)
LEMMA BeginKeeps ==
  ASSUME Usable, m' = m, AsBefore, NEW f \in Fids, s' = StreamAt(f)
  PROVE  s' \in Stream /\ StreamInv'
<1>1. /\ s'.open = TRUE /\ s'.dir = f /\ s'.entry = 1 /\ s'.cur = 0 /\ s'.cut = FALSE /\ s'.seen = {}
      /\ s'.steady = {n \in Names : m.dirs[f][n] # NoEnt} /\ s'.cuts = FALSE
      /\ s' \in Stream
  <2>1. 1 \in 1..(Buckets + 1) /\ {n \in Names : m.dirs[f][n] # NoEnt} \in SUBSET Names
    BY HashIs
  <2> QED
    BY <2>1 DEF StreamAt, NoStream, Stream
<1>2. StreamInv'
  <2>1. \A n \in s'.steady : m'.dirs[s'.dir][n] # NoEnt /\ ~(HashOf[n] < s'.entry)
    BY <1>1, HashIs
  <2> QED
    BY <1>1, <2>1 DEF StreamInv, AsBefore, Usable
<1> QED
  BY <1>1, <1>2

(* Readdir goes to the next entry of the chain, and to the next chain only *)
(* when the chain has no more.                                             *)
LEMMA ReaddirKeeps ==
  ASSUME s \in Stream, StreamInv, Usable, m' = m, AsBefore, Readdir
  PROVE  s' \in Stream /\ StreamInv'
<1> DEFINE rest == IF s.cur = 0 \/ s.cut THEN {} ELSE NextInChain(HashOf[s.cur])
           more == {b \in s.entry..Buckets : Chain(m, s.dir, b) # {}}
<1>1. /\ s.open
      /\ \/ /\ rest # {}
            /\ s' = [s EXCEPT !.cur = Min(rest), !.seen = @ \cup {Min(rest)}]
         \/ /\ rest = {} /\ more # {}
            /\ s' = [s EXCEPT !.entry = Min(more) + 1, !.cur = Min(Chain(m, s.dir, Min(more))),
                              !.cut = FALSE, !.seen = @ \cup {Min(Chain(m, s.dir, Min(more)))}]
         \/ /\ rest = {} /\ more = {}
            /\ s' = [s EXCEPT !.entry = Buckets + 1, !.cur = 0, !.cut = FALSE]
  BY DEF Readdir
<1>2. /\ s.dir \in Fids /\ (s.cut => s.cuts) /\ (s.cur # 0 => HashOf[s.cur] = s.entry - 1)
      /\ \A n \in s.steady :
           /\ m.dirs[s.dir][n] # NoEnt
           /\ HashOf[n] < s.entry /\ ~s.cuts =>
                n \in s.seen \/ (s.cur # 0 /\ HashOf[n] = HashOf[s.cur] /\ n > s.cur)
  BY <1>1 DEF StreamInv
<1>3. /\ s.steady \subseteq Names /\ s.cur \in {0} \cup Names /\ s.entry \in 1..(Buckets + 1)
      /\ s.seen \subseteq Names
  BY DEF Stream
<1>4. rest \subseteq Names /\ rest \subseteq Nat
  BY HashIs DEF NextInChain, Chain
<1>5. \A n \in rest : s.cur # 0 /\ ~s.cut /\ HashOf[n] = HashOf[s.cur] /\ n > s.cur
  BY DEF NextInChain, Chain
<1>6. \A n \in s.steady : ~s.cuts /\ s.cur # 0 /\ HashOf[n] = HashOf[s.cur] /\ n > s.cur => n \in rest
  BY <1>2, <1>3 DEF NextInChain, Chain
<1>7. more \subseteq s.entry..Buckets /\ more \subseteq Nat
  BY <1>3
<1>8. \A n \in s.steady : HashOf[n] >= s.entry => HashOf[n] \in more
  <2> SUFFICES ASSUME NEW n \in s.steady, HashOf[n] >= s.entry PROVE HashOf[n] \in more
    OBVIOUS
  <2>1. n \in Names /\ HashOf[n] \in s.entry..Buckets
    BY <1>3, HashIs
  <2>2. n \in Chain(m, s.dir, HashOf[n])
    BY <2>1, <1>2 DEF Chain
  <2> QED
    BY <2>1, <2>2
<1>9. \A b : Chain(m, s.dir, b) \subseteq Names /\ \A n \in Chain(m, s.dir, b) : HashOf[n] = b
  BY DEF Chain
<1>10. \A b : \A n \in s.steady : HashOf[n] = b => n \in Chain(m, s.dir, b)
  BY <1>2, <1>3 DEF Chain
<1>11. \A b \in more : Chain(m, s.dir, b) # {}
  OBVIOUS
<1> HIDE DEF rest, more
<1>12. CASE /\ rest # {}
            /\ s' = [s EXCEPT !.cur = Min(rest), !.seen = @ \cup {Min(rest)}]
  <2> DEFINE k == Min(rest)
  <2>1. k \in rest /\ \A n \in rest : k <= n
    BY <1>4, <1>12, MinIs
  <2> HIDE DEF k
  <2>2. s' = [s EXCEPT !.cur = k, !.seen = @ \cup {k}]
    BY <1>12 DEF k
  <2>3. k \in Names /\ k # 0 /\ HashOf[k] = s.entry - 1 /\ HashOf[k] = HashOf[s.cur]
    BY <1>2, <1>4, <1>5, <2>1, HashIs
  <2>4. /\ s'.open = s.open /\ s'.dir = s.dir /\ s'.entry = s.entry /\ s'.cur = k /\ s'.cut = s.cut
        /\ s'.seen = s.seen \cup {k} /\ s'.steady = s.steady /\ s'.cuts = s.cuts
        /\ s' \in Stream
    BY <2>2, <2>3 DEF Stream
  <2>5. \A n \in s.steady : HashOf[n] < s.entry /\ ~s.cuts =>
          n \in s.seen \cup {k} \/ (k # 0 /\ HashOf[n] = HashOf[k] /\ n > k)
    <3> SUFFICES ASSUME NEW n \in s.steady, HashOf[n] < s.entry, ~s.cuts, n \notin s.seen, n # k
                 PROVE  HashOf[n] = HashOf[k] /\ n > k
      BY <2>3
    <3>1. n \in rest /\ HashOf[n] = HashOf[s.cur]
      BY <1>2, <1>6
    <3>2. n \in Nat /\ k \in Nat /\ k <= n
      BY <1>4, <2>1, <3>1
    <3> QED
      BY <2>3, <3>1, <3>2
  <2>6. StreamInv'
    BY <1>2, <2>3, <2>4, <2>5 DEF StreamInv, AsBefore, Usable
  <2> QED
    BY <2>4, <2>6
<1>13. rest = {} => \A n \in s.steady : HashOf[n] < s.entry /\ ~s.cuts => n \in s.seen
  BY <1>2, <1>6
<1>14. CASE /\ rest = {} /\ more # {}
            /\ s' = [s EXCEPT !.entry = Min(more) + 1, !.cur = Min(Chain(m, s.dir, Min(more))),
                              !.cut = FALSE, !.seen = @ \cup {Min(Chain(m, s.dir, Min(more)))}]
  <2> DEFINE b == Min(more)
             k == Min(Chain(m, s.dir, b))
  <2>1. b \in more /\ \A c \in more : b <= c
    BY <1>7, <1>14, MinIs
  <2>2. Chain(m, s.dir, b) # {} /\ Chain(m, s.dir, b) \subseteq Nat
    BY <1>9, <1>11, <2>1, HashIs
  <2>3. k \in Chain(m, s.dir, b) /\ \A n \in Chain(m, s.dir, b) : k <= n
    BY <2>2, MinIs
  <2> HIDE DEF b, k
  <2>4. s' = [s EXCEPT !.entry = b + 1, !.cur = k, !.cut = FALSE, !.seen = @ \cup {k}]
    BY <1>14 DEF b, k
  <2>5. k \in Names /\ k # 0 /\ HashOf[k] = b /\ b \in Nat /\ b + 1 \in 1..(Buckets + 1) /\ b >= s.entry
    BY <1>3, <1>7, <1>9, <2>1, <2>3, HashIs
  <2>6. /\ s'.open = s.open /\ s'.dir = s.dir /\ s'.entry = b + 1 /\ s'.cur = k /\ s'.cut = FALSE
        /\ s'.seen = s.seen \cup {k} /\ s'.steady = s.steady /\ s'.cuts = s.cuts
        /\ s' \in Stream
    BY <2>4, <2>5 DEF Stream
  <2>7. \A n \in s.steady : HashOf[n] < b + 1 /\ ~s.cuts =>
          n \in s.seen \cup {k} \/ (k # 0 /\ HashOf[n] = HashOf[k] /\ n > k)
    <3> SUFFICES ASSUME NEW n \in s.steady, HashOf[n] < b + 1, ~s.cuts, n \notin s.seen, n # k
                 PROVE  HashOf[n] = b /\ n > k
      BY <2>5
    <3>1. HashOf[n] \in Nat /\ s.entry \in Nat /\ n \in Nat /\ k \in Nat
      BY <1>3, <2>5, HashIs
    <3>2. HashOf[n] >= s.entry
      BY <1>13, <1>14, <3>1
    <3>3. HashOf[n] = b
      BY <1>8, <2>1, <2>5, <3>1, <3>2
    <3>4. k <= n
      BY <1>10, <2>3, <3>3
    <3> QED
      BY <3>1, <3>3, <3>4
  <2>8. k # 0 /\ HashOf[k] = (b + 1) - 1
    BY <2>5
  <2>9. StreamInv'
    BY <1>2, <2>6, <2>7, <2>8 DEF StreamInv, AsBefore, Usable
  <2> QED
    BY <2>6, <2>9
<1>15. CASE /\ rest = {} /\ more = {}
            /\ s' = [s EXCEPT !.entry = Buckets + 1, !.cur = 0, !.cut = FALSE]
  <2>1. Buckets + 1 \in 1..(Buckets + 1)
    BY HashIs
  <2>2. /\ s'.open = s.open /\ s'.dir = s.dir /\ s'.entry = Buckets + 1 /\ s'.cur = 0 /\ s'.cut = FALSE
        /\ s'.seen = s.seen /\ s'.steady = s.steady /\ s'.cuts = s.cuts
        /\ s' \in Stream
    BY <1>15, <2>1 DEF Stream
  <2>3. \A n \in s.steady : ~s.cuts => n \in s.seen
    <3> SUFFICES ASSUME NEW n \in s.steady, ~s.cuts PROVE n \in s.seen
      OBVIOUS
    <3>1. HashOf[n] \in Nat /\ s.entry \in Nat
      BY <1>3, HashIs
    <3>2. ~(HashOf[n] >= s.entry)
      BY <1>8, <1>15
    <3> QED
      BY <1>13, <1>15, <3>1, <3>2
  <2>4. StreamInv'
    BY <1>2, <2>2, <2>3 DEF StreamInv, AsBefore, Usable
  <2> QED
    BY <2>2, <2>4
<1> QED
  BY <1>1, <1>12, <1>14, <1>15

(* Closing descriptors, and the operations of a stream. *)
LEMMA FileKeeps ==
  ASSUME IInv, NextFile
  PROVE  IInv'
<1>1. ASSUME NEW x \in Handles, CloseCalled(x) \/ CloseUpd(x) PROVE IInv'
  BY <1>1, CloseCalledKeeps, CloseUpdKeeps
<1>2. ASSUME NEW f \in Fids, Opendir(f) PROVE IInv'
  <2>1. Usable /\ s' = StreamAt(f) /\ Counted /\ m' = m /\ saved' = saved /\ AsBefore /\ h' = h
    BY <1>2 DEF Opendir, AsBefore
  <2> QED
    BY <2>1, BeginKeeps, ReadKeeps
<1>3. CASE Readdir
  <2>1. Usable /\ m' = m /\ saved' = saved /\ AsBefore /\ h' = h /\ ops' = ops
    BY <1>3 DEF Readdir, AsBefore
  <2>2. s' \in Stream /\ StreamInv'
    BY <2>1, <1>3, Parts, ReaddirKeeps
  <2> QED
    BY <2>1, <2>2, ReadKeeps
<1>4. CASE Rewdir
  <2>1. /\ Usable /\ s.open /\ s' = StreamAt(s.dir) /\ Counted
        /\ m' = m /\ saved' = saved /\ AsBefore /\ h' = h
    BY <1>4 DEF Rewdir, AsBefore
  <2>2. s.dir \in Fids
    BY <2>1 DEF IInv, StreamInv
  <2> QED
    BY <2>1, <2>2, BeginKeeps, ReadKeeps
<1>5. CASE Closedir
  <2>1. Usable /\ s' = NoStream /\ m' = m /\ saved' = saved /\ AsBefore /\ h' = h /\ ops' = ops
    BY <1>5 DEF Closedir, AsBefore
  <2>2. s' \in Stream /\ ~s'.open
    BY <2>1, HashIs DEF NoStream, Stream
  <2>3. StreamInv'
    BY <2>2 DEF StreamInv
  <2> QED
    BY <2>1, <2>2, <2>3, ReadKeeps
<1> QED
  BY <1>1, <1>2, <1>3, <1>4, <1>5 DEF NextFile

-----------------------------------------------------------------------------
(* Sync and crash.                                                         *)

(* The same files. *)
Same(v, w) == There(w) = There(v) /\ w.ffree = v.ffree /\ \A f \in There(v) : Alike(v, w, f)

(* What has the same files is as sound. *)
LEMMA SameSound ==
  ASSUME NEW v, NEW w, Sound(v), Same(v, w)
  PROVE  Sound(w)
<1>1. /\ There(w) = There(v) /\ w.ffree = v.ffree
      /\ \A f \in There(v) : /\ w.rfh[f].gen = v.rfh[f].gen /\ w.rfh[f].dir = v.rfh[f].dir
                             /\ w.rfh[f].new = v.rfh[f].new /\ w.dirs[f] = v.dirs[f]
  BY DEF Same, Alike
<1>2. FilesSound(w)
  BY <1>1 DEF Sound, FilesSound
<1>3. EntriesLead(w)
  <2> SUFFICES ASSUME NEW f \in There(v), NEW n \in Names, v.dirs[f][n] # NoEnt
               PROVE  /\ w.rfh[f].dir /\ v.dirs[f][n].fid \in There(v) \ {Root}
                      /\ w.rfh[v.dirs[f][n].fid].gen = v.dirs[f][n].gen
    BY <1>1 DEF EntriesLead, IsEnt
  <2>1. /\ v.rfh[f].dir /\ v.dirs[f][n].fid \in There(v) \ {Root}
        /\ v.rfh[v.dirs[f][n].fid].gen = v.dirs[f][n].gen
    BY DEF Sound, EntriesLead, IsEnt
  <2> QED
    BY <1>1, <2>1
<1>4. OneName(w) /\ Named(w)
  BY <1>1 DEF Sound, OneName, Named, IsEnt
<1> QED
  BY <1>2, <1>3, <1>4 DEF Sound

(* A directory whose entries lead to files that are there is written as it is. *)
LEMMA SyncDirectoryIs ==
  ASSUME Mounted, NEW f \in There(m)
  PROVE  SyncDirectory(f) = m.dirs[f]
<1>1. f \in Fids /\ m.dirs[f] \in [Names -> Entry]
  BY DEF Mounted, InMemory, There
<1>2. ASSUME NEW n \in Names PROVE WrittenEnt(m.dirs[f][n]) = m.dirs[f][n]
  <2> DEFINE e == m.dirs[f][n]
  <2>1. e \in Entry
    BY <1>1
  <2>2. e # NoEnt => e.fid \in There(m) /\ m.rfh[e.fid].gen = e.gen
    BY DEF Mounted, MemSound, Sound, EntriesLead, IsEnt
  <2>3. e # NoEnt => e.fid # 0 /\ e.fid < m.ffree /\ m.rfh[e.fid].valid
    BY <2>2, Constants DEF Mounted, MemSound, Sound, FilesSound, GoneAreGone, There
  <2>4. e = [fid |-> e.fid, gen |-> e.gen]
    BY <2>1 DEF Entry
  <2> HIDE DEF e
  <2>5. WrittenEnt(e) = e
    <3>1. CASE e = NoEnt
      BY <3>1 DEF WrittenEnt, NoEnt
    <3>2. CASE e # NoEnt
      BY <2>2, <2>3, <2>4, <3>2 DEF WrittenEnt
    <3> QED
      BY <3>1, <3>2
  <2> QED
    BY <2>5 DEF e
<1> QED
  BY <1>1, <1>2 DEF SyncDirectory

(* Whatever is written of an entry is an entry. *)
LEMMA WrittenIs ==
  ASSUME m \in InMemory, NEW e \in Entry
  PROVE  WrittenEnt(e) \in Entry
<1>1. NoEnt \in Entry
  BY Constants DEF NoEnt, Entry
<1>2. e.fid # 0 => [fid |-> e.fid, gen |-> m.rfh[e.fid].gen] \in Entry
  <2> SUFFICES ASSUME e.fid # 0 PROVE [fid |-> e.fid, gen |-> m.rfh[e.fid].gen] \in Entry
    OBVIOUS
  <2>1. e.fid \in Fids
    BY DEF Entry
  <2>2. m.rfh[e.fid] \in Header
    BY <2>1 DEF InMemory
  <2> QED
    BY <2>1, <2>2 DEF Header, Entry
<1> QED
  BY <1>1, <1>2 DEF WrittenEnt

(* A sync leaves on disk what is in memory. *)
LEMMA SyncSame ==
  ASSUME Mounted, Sync
  PROVE  saved' \in OnDisk /\ Same(m, saved')
<1>1. saved' = [rfh   |-> [f \in Fids |-> IF f \in Written THEN m.rfh[f] ELSE saved.rfh[f]],
                dirs  |-> [f \in Fids |-> IF f \in Written THEN SyncDirectory(f) ELSE saved.dirs[f]],
                dots  |-> [f \in Fids |-> IF f \in Written THEN WrittenEnt(m.dots[f]) ELSE saved.dots[f]],
                index |-> [f \in Fids |-> IF f \in PartsOfIndex THEN m.index[f] ELSE saved.index[f]],
                ffree |-> IF IndexFid \in m.dirty THEN m.ffree ELSE saved.ffree]
  BY DEF Sync, UnpackRfh
<1>2. /\ m \in InMemory /\ saved \in OnDisk
      /\ \A f \in There(m) \ m.dirty : Alike(m, saved, f)
      /\ \A f \in Fids \ m.ibits : f \in There(m) <=> f \in There(saved)
      /\ IndexFid \notin m.dirty => saved.ffree = m.ffree
  BY DEF Mounted, Marked
<1>3. Written \subseteq Fids /\ \A f \in Written : f \in There(m)
  <2>1. \A f \in Fids : m.rfh[f].valid => f \in There(m)
    BY DEF Mounted, MemSound, GoneAreGone, NoFile
  <2>2. Root \in There(m)
    BY DEF Mounted, MemSound, Sound, FilesSound
  <2> QED
    BY <2>1, <2>2 DEF Written
<1>4. \A f \in There(m) : f \in Fids /\ (f \in m.dirty => f \in Written)
  BY DEF Mounted, MemSound, GoneAreGone, Written, There
<1>5. m.ibits \subseteq PartsOfIndex
  BY <1>2 DEF InMemory, PartsOfIndex
<1>6. \A f \in There(m) : SyncDirectory(f) = m.dirs[f]
  BY SyncDirectoryIs
<1>7. /\ \A f \in Fids : /\ saved'.rfh[f] = IF f \in Written THEN m.rfh[f] ELSE saved.rfh[f]
                         /\ saved'.dirs[f] = IF f \in Written THEN m.dirs[f] ELSE saved.dirs[f]
                         /\ saved'.index[f] = IF f \in PartsOfIndex THEN m.index[f] ELSE saved.index[f]
      /\ saved'.ffree = m.ffree
  BY <1>1, <1>2, <1>3, <1>6
<1>8. saved' \in OnDisk
  <2> DEFINE r == [f \in Fids |-> IF f \in Written THEN m.rfh[f] ELSE saved.rfh[f]]
             d == [f \in Fids |-> IF f \in Written THEN SyncDirectory(f) ELSE saved.dirs[f]]
             t == [f \in Fids |-> IF f \in Written THEN WrittenEnt(m.dots[f]) ELSE saved.dots[f]]
             x == [f \in Fids |-> IF f \in PartsOfIndex THEN m.index[f] ELSE saved.index[f]]
             k == IF IndexFid \in m.dirty THEN m.ffree ELSE saved.ffree
  <2>1. r \in [Fids -> Header] /\ x \in [Fids -> Slot] /\ k \in 2..(MaxFid + 1)
    BY <1>2 DEF InMemory, OnDisk
  <2>2. d \in [Fids -> [Names -> Entry]]
    BY <1>2, <1>3, <1>6 DEF InMemory, OnDisk
  <2>3. t \in [Fids -> Entry]
    BY <1>2, WrittenIs DEF InMemory, OnDisk
  <2>4. saved' = [rfh |-> r, dirs |-> d, dots |-> t, index |-> x, ffree |-> k]
    BY <1>1
  <2> HIDE DEF r, d, t, x, k
  <2> QED
    BY <2>1, <2>2, <2>3, <2>4 DEF OnDisk
<1>9. There(saved') = There(m)
  <2>1. \A f \in Fids : f \in There(saved') <=> f \in There(m)
    BY <1>2, <1>5, <1>7 DEF There
  <2> QED
    BY <2>1 DEF There
<1>10. \A f \in There(m) : Alike(m, saved', f)
  <2> SUFFICES ASSUME NEW f \in There(m) PROVE Alike(m, saved', f)
    OBVIOUS
  <2>1. CASE f \in Written
    BY <1>4, <1>7, <2>1 DEF Alike
  <2>2. CASE f \notin Written
    <3>1. Alike(m, saved, f)
      BY <1>2, <1>4, <2>2
    <3> QED
      BY <1>4, <1>7, <2>2, <3>1 DEF Alike
  <2> QED
    BY <2>1, <2>2
<1> QED
  BY <1>7, <1>8, <1>9, <1>10 DEF Same

(* So does a sync, which leaves nothing to write. *)
LEMMA SyncKeeps ==
  ASSUME IInv, Sync
  PROVE  IInv'
<1>1. /\ Usable /\ m' = [m EXCEPT !.dirty = {}, !.ibits = {}] /\ Counted
      /\ AsBefore /\ h' = h /\ s' = s
  BY DEF Sync, AsBefore
<1>2. /\ Mounted /\ Sound(saved) /\ TableOK(h, m) /\ StreamInv /\ s \in Stream /\ ops \in 0..MaxOps
      /\ m \in InMemory /\ saved \in OnDisk /\ up = TRUE /\ lost = FALSE
  BY <1>1, Parts
<1>3. saved' \in OnDisk /\ Same(m, saved')
  BY <1>2, SyncSame
<1>4. /\ m'.rfh = m.rfh /\ m'.dirs = m.dirs /\ m'.index = m.index /\ m'.unused = m.unused
      /\ m'.ffree = m.ffree /\ m'.dirty = {} /\ m'.ibits = {} /\ m' \in InMemory
  BY <1>1, <1>2 DEF InMemory
<1>5. There(m') = There(m) /\ \A f \in Fids : LastGen(m', f) = LastGen(m, f)
  BY <1>4 DEF There, LastGen
<1>6. MemSound(m')
  <2>1. FilesSound(m) /\ EntriesLead(m) /\ OneName(m) /\ Named(m) /\ GoneAreGone(m) /\ UnusedSound(m)
    BY <1>2, Zenon DEF Mounted, MemSound, Sound
  <2>2. FilesSound(m') /\ Named(m')
    BY <1>4, <1>5, <2>1 DEF FilesSound, Named
  <2>3. EntriesLead(m') /\ OneName(m')
    BY <1>4, <1>5, <2>1 DEF EntriesLead, OneName, IsEnt
  <2>4. GoneAreGone(m') /\ UnusedSound(m')
    BY <1>4, <1>5, <2>1 DEF GoneAreGone, UnusedSound
  <2> QED
    BY <2>1, <2>2, <2>3, <2>4, Zenon DEF MemSound, Sound
<1>7. Marked(m', saved')
  BY <1>3, <1>4, <1>5 DEF Marked, Same, Alike
<1>8. Sound(saved')
  BY <1>2, <1>3, SameSound DEF Mounted, MemSound
<1>9. TableOK(h', m')
  BY <1>1, <1>2, <1>4, <1>5, TableSteady
<1>10. s' \in Stream /\ StreamInv'
  BY <1>1, <1>2, <1>4, StreamStays
<1>11. ops' \in 0..MaxOps
  BY <1>1, <1>2, CountedStays
<1> QED
  <2>1. up' = TRUE /\ lost' = FALSE
    BY <1>1, <1>2 DEF AsBefore
  <2> QED
    BY <1>3, <1>4, <1>6, <1>7, <1>8, <1>9, <1>10, <1>11, <2>1, Together

(* A crash leaves no descriptor and no stream. *)
LEMMA CrashKeeps ==
  ASSUME IInv, Crash
  PROVE  IInv'
<1>1. /\ up' = FALSE /\ lost' = lost /\ h' = [x \in Handles |-> Free] /\ s' = NoStream
      /\ m' = m /\ saved' = saved /\ ops' = ops
  BY DEF Crash
<1>2. Free \in Descriptor /\ ~Free.open /\ ~Free.closing
  BY Constants DEF Free, Descriptor
<1>3. h' \in [Handles -> Descriptor] /\ \A x \in Handles : ~h'[x].open /\ ~h'[x].closing
  BY <1>1, <1>2
<1>4. s' \in Stream /\ ~s'.open
  BY <1>1, HashIs DEF NoStream, Stream
<1>5. TypeOK'
  BY <1>1, <1>3, <1>4 DEF IInv, TypeOK
<1>6. HandlesInv' /\ StreamInv'
  BY <1>3, <1>4 DEF HandlesInv, Traced, StreamInv
<1> QED
  BY <1>1, <1>5, <1>6 DEF IInv, MemoryInv, DirtyInv, Usable

-----------------------------------------------------------------------------
(* Mount.                                                                  *)

(* A volume that was read is what was saved. *)
IsLoaded(v) == v \in InMemory /\ MemSound(v) /\ Same(saved, v) /\ v.dirty = {} /\ v.ibits = {}

(* What a mount reads is what was saved, and the FIDs without a file are unused. *)
LEMMA MountLoads ==
  ASSUME saved \in OnDisk, Sound(saved)
  PROVE  IsLoaded(Loaded)
<1> DEFINE there(f) == saved.index[f].use = "lba"
           dir(f) == there(f) /\ saved.rfh[f].dir
           unused == InOrder({f \in Fids : f < saved.ffree /\ ~there(f)})
           rfh == [f \in Fids |-> IF there(f) THEN MkRamfh(f) ELSE NoFile]
           dirs == [f \in Fids |-> IF dir(f) THEN MkRamdir(f) ELSE NoDir]
           dots == [f \in Fids |-> IF dir(f) THEN ReadEnt(saved.dots[f]) ELSE NoEnt]
           index == [f \in Fids |-> IF saved.index[f].use = "zero" THEN Empty(1) ELSE saved.index[f]]
           v == [rfh |-> rfh, dirs |-> dirs, dots |-> dots, index |-> index,
                 unused |-> unused, ffree |-> saved.ffree, dirty |-> {}, ibits |-> {}]
<1>1. v = Loaded
  BY DEF Loaded
<1>2. /\ saved.rfh \in [Fids -> Header] /\ saved.dirs \in [Fids -> [Names -> Entry]]
      /\ saved.dots \in [Fids -> Entry] /\ saved.index \in [Fids -> Slot] /\ saved.ffree \in 2..(MaxFid + 1)
  BY DEF OnDisk
<1>3. \A f \in Fids : there(f) <=> f \in There(saved)
  BY DEF There
<1> HIDE DEF there
<1>4. /\ NoEnt \in Entry /\ NoFile \in Header /\ Empty(1) \in Slot
      /\ NoDir \in [Names -> Entry] /\ \A n \in Names : NoDir[n] = NoEnt
  <2>1. NoEnt \in Entry /\ NoFile \in Header /\ 1 \in 1..MaxGen
    BY Constants DEF NoEnt, Entry, NoFile, Header
  <2> QED
    BY <2>1, NewHeader DEF NoDir
<1>5. rfh \in [Fids -> Header]
  <2> SUFFICES ASSUME NEW f \in Fids PROVE MkRamfh(f) \in Header
    BY <1>4
  <2>1. saved.rfh[f] \in Header
    BY <1>2
  <2> QED
    BY <2>1 DEF MkRamfh, Header
<1>6. \A f \in Fids : MkRamdir(f) \in [Names -> Entry]
  BY <1>2, <1>4 DEF MkRamdir, ReadEnt
<1>61. \A f \in Fids : ReadEnt(saved.dots[f]) \in Entry
  BY <1>2, <1>4 DEF ReadEnt
<1>7. dirs \in [Fids -> [Names -> Entry]] /\ index \in [Fids -> Slot] /\ dots \in [Fids -> Entry]
  BY <1>2, <1>4, <1>6, <1>61
<1>8. /\ unused \in Seq(Fids) /\ IsInjective(unused)
      /\ \A f : (f \in Fids /\ f < saved.ffree /\ f \notin There(saved)) <=> \E i \in DOMAIN unused : unused[i] = f
  <2> DEFINE T == {f \in Fids : f < saved.ffree /\ ~there(f)}
  <2>1. T \in SUBSET Fids
    OBVIOUS
  <2>2. \A f : f \in T <=> f \in Fids /\ f < saved.ffree /\ f \notin There(saved)
    BY <1>3
  <2>3. unused = InOrder(T)
    OBVIOUS
  <2> HIDE DEF T, unused
  <2> QED
    BY <2>1, <2>2, <2>3, InOrderIs
<1>9. \A f \in There(saved) : MkRamdir(f) = saved.dirs[f] /\ (~saved.rfh[f].dir => saved.dirs[f] = NoDir)
  <2> SUFFICES ASSUME NEW f \in There(saved)
               PROVE  MkRamdir(f) = saved.dirs[f] /\ (~saved.rfh[f].dir => saved.dirs[f] = NoDir)
    OBVIOUS
  <2>1. f \in Fids /\ saved.dirs[f] \in [Names -> Entry]
    BY <1>2 DEF There
  <2>2. \A n \in Names : saved.dirs[f][n] # NoEnt =>
          saved.rfh[f].dir /\ saved.dirs[f][n].gen # 0 /\ saved.dirs[f][n].fid < saved.ffree
    BY DEF Sound, EntriesLead, FilesSound, IsEnt
  <2>3. \A n \in Names : ReadEnt(saved.dirs[f][n]) = saved.dirs[f][n]
    BY <2>2 DEF ReadEnt
  <2>4. MkRamdir(f) = saved.dirs[f]
    BY <2>1, <2>3 DEF MkRamdir
  <2> QED
    BY <2>1, <2>2, <2>4 DEF NoDir
<1>10. \A f \in There(saved) : MkRamfh(f).valid /\ MkRamfh(f).gen = saved.rfh[f].gen
                               /\ MkRamfh(f).dir = saved.rfh[f].dir /\ MkRamfh(f).new = saved.rfh[f].new
  <2> SUFFICES ASSUME NEW f \in There(saved)
               PROVE  MkRamfh(f).valid /\ MkRamfh(f).gen = saved.rfh[f].gen
                      /\ MkRamfh(f).dir = saved.rfh[f].dir /\ MkRamfh(f).new = saved.rfh[f].new
    OBVIOUS
  <2>1. saved.rfh[f] \in Header
    BY <1>2 DEF There
  <2> QED
    BY <2>1 DEF MkRamfh, Header
<1>11. \A f \in Fids : /\ f \in There(saved) => rfh[f] = MkRamfh(f) /\ dirs[f] = saved.dirs[f]
                       /\ f \notin There(saved) => rfh[f] = NoFile /\ dirs[f] = NoDir
                       /\ index[f].use = IF saved.index[f].use = "zero" THEN "empty" ELSE saved.index[f].use
  BY <1>3, <1>9 DEF Empty
<1> HIDE DEF rfh, dirs, dots, index, unused
<1>12. v \in InMemory
  BY <1>2, <1>5, <1>7, <1>8 DEF InMemory
<1>13. /\ v.rfh = rfh /\ v.dirs = dirs /\ v.index = index /\ v.unused = unused /\ v.ffree = saved.ffree
       /\ v.dirty = {} /\ v.ibits = {}
  OBVIOUS
<1> HIDE DEF v
<1>14. There(v) = There(saved)
  BY <1>11, <1>13 DEF There
<1>15. Same(saved, v)
  <2> SUFFICES ASSUME NEW f \in There(saved) PROVE Alike(saved, v, f)
    BY <1>13, <1>14 DEF Same
  <2>1. f \in Fids
    BY DEF There
  <2> QED
    BY <2>1, <1>10, <1>11, <1>13 DEF Alike
<1>16. Sound(v)
  BY <1>15, SameSound
<1>17. GoneAreGone(v)
  BY <1>10, <1>11, <1>13, <1>14 DEF GoneAreGone
<1>18. UnusedSound(v)
  <2>1. \A f \in Fids \ There(v) : v.index[f].use = "empty"
    <3> SUFFICES ASSUME NEW f \in Fids \ There(v) PROVE index[f].use = "empty"
      BY <1>13
    <3>1. saved.index[f].use \in {"lba", "empty", "zero"} /\ saved.index[f].use # "lba"
      BY <1>2, <1>14 DEF Slot, There
    <3> QED
      BY <3>1, <1>11
  <2> QED
    BY <2>1, <1>8, <1>13, <1>14 DEF UnusedSound
<1> QED
  BY <1>1, <1>12, <1>13, <1>15, <1>16, <1>17, <1>18 DEF IsLoaded, MemSound

(* The entries that are taken out, and a directory without them. *)
Out(v, first) == {first[g] : g \in Stubs(v)}

Without(v, first, f) == [n \in Names |-> IF <<f, n>> \in Out(v, first) THEN NoEnt ELSE v.dirs[f][n]]

(* The stubs are gone, each with one entry, and their FIDs are unused. *)
AfterStubs(v, first, z) ==
  /\ z \in InMemory /\ There(z) = There(v) \ Stubs(v)
  /\ \A f \in Fids : /\ f \in Stubs(v) => z.rfh[f] = NoFile /\ z.dirs[f] = NoDir /\ z.index[f].use = "empty"
                     /\ f \notin Stubs(v) =>
                          /\ z.rfh[f].valid = v.rfh[f].valid /\ z.rfh[f].gen = v.rfh[f].gen
                          /\ z.rfh[f].dir = v.rfh[f].dir /\ z.rfh[f].new = v.rfh[f].new
                          /\ v.rfh[f] = NoFile => z.rfh[f] = NoFile
                          /\ z.dirs[f] = Without(v, first, f) /\ z.index[f] = v.index[f]
  /\ z.ffree = v.ffree /\ z.ibits = v.ibits \cup Stubs(v)
  /\ z.dirty = v.dirty \cup {x[1] : x \in Out(v, first)}
  /\ IsInjective(z.unused)
  /\ \A f \in Fids : Listed(z.unused, f) <=> Listed(v.unused, f) \/ f \in Stubs(v)

(* A stub is a file with an entry in a directory that is reached. *)
LEMMA StubsAre ==
  ASSUME NEW v \in InMemory, MemSound(v)
  PROVE  /\ Stubs(v) \subseteq There(v) \ {Root}
         /\ \A g \in Stubs(v) : v.rfh[g].new /\ ~v.rfh[g].dir
         /\ \A f \in Reached(v), n \in Names : IsStub(v, v.dirs[f][n]) => v.dirs[f][n].fid \in Stubs(v)
         /\ Reached(v) \subseteq There(v)
<1>1. Reached(v) \subseteq There(v) /\ Reached(v) \subseteq Fids
  <2>1. \A f \in Fids : v.rfh[f].dir => f \in There(v)
    BY DEF MemSound, GoneAreGone, NoFile
  <2> QED
    BY <2>1 DEF Reached
<1>2. \A x \in InTree(v) : Ent(v, x) \in Entry
  <2>1. \A f \in Fids, n \in Names : v.dirs[f][n] \in Entry /\ v.dots[f] \in Entry
    BY DEF InMemory
  <2> SUFFICES ASSUME NEW x \in InTree(v) PROVE Ent(v, x) \in Entry
    OBVIOUS
  <2>2. x[1] \in Fids /\ (x[2] = Dots \/ x[2] \in Names)
    BY <1>1 DEF InTree
  <2>3. CASE x[2] = Dots
    <3>1. v.dots[x[1]] \in Entry
      BY <2>2 DEF InMemory
    <3> QED
      BY <2>3, <3>1 DEF Ent
  <2>4. CASE x[2] # Dots
    BY <2>1, <2>2, <2>4 DEF Ent
  <2> QED
    BY <2>3, <2>4
<1>3. ASSUME NEW g \in Stubs(v)
      PROVE  g \in There(v) \ {Root} /\ v.rfh[g].new /\ ~v.rfh[g].dir
  <2>1. PICK x \in InTree(v) : IsStub(v, Ent(v, x)) /\ Ent(v, x).fid = g
    BY DEF Stubs, StubEnts
  <2>2. Ent(v, x) \in Entry
    BY <1>2
  <2>3. g \in Fids /\ v.rfh[g].valid /\ v.rfh[g].new
    BY <2>1, <2>2 DEF IsStub, Entry
  <2>4. g \in There(v)
    BY <2>3 DEF MemSound, GoneAreGone, NoFile
  <2> QED
    BY <2>3, <2>4 DEF MemSound, Sound, FilesSound
<1>4. ASSUME NEW f \in Reached(v), NEW n \in Names, IsStub(v, v.dirs[f][n])
      PROVE  v.dirs[f][n].fid \in Stubs(v)
  <2>1. <<f, n>> \in InTree(v) /\ n # Dots
    BY Constants DEF InTree, Dots
  <2>2. Ent(v, <<f, n>>) = v.dirs[f][n]
    BY <2>1 DEF Ent
  <2>3. <<f, n>> \in StubEnts(v)
    BY <1>4, <2>1, <2>2 DEF StubEnts
  <2> QED
    BY <2>2, <2>3 DEF Stubs
<1> QED
  BY <1>1, <1>3, <1>4

(* An entry that is taken out leads to a stub. *)
LEMMA OutLeads ==
  ASSUME NEW v \in InMemory, MemSound(v), NEW first \in Walks(v), NEW f, NEW n \in Names, <<f, n>> \in Out(v, first)
  PROVE  f \in Reached(v) /\ v.dirs[f][n].fid \in Stubs(v) /\ <<f, n>> = first[v.dirs[f][n].fid]
<1>1. PICK g \in Stubs(v) : first[g] = <<f, n>>
  BY DEF Out
<1>2. first[g] \in InTree(v) /\ Ent(v, first[g]).fid = g
  BY DEF Walks, StubEnts
<1>3. f \in Reached(v) /\ n # Dots
  BY <1>1, <1>2, Constants DEF InTree, Dots
<1>4. Ent(v, <<f, n>>) = v.dirs[f][n]
  BY <1>3 DEF Ent
<1> QED
  BY <1>1, <1>2, <1>3, <1>4

(* The directories whose entries are taken out are reached. *)
LEMMA OutReached ==
  ASSUME NEW v, NEW first \in Walks(v)
  PROVE  {x[1] : x \in Out(v, first)} \subseteq Reached(v) /\ Reached(v) \subseteq Fids
<1>1. \A g \in Stubs(v) : first[g] \in InTree(v)
  BY DEF Walks, StubEnts
<1> QED
  BY <1>1 DEF Out, InTree, Reached

(* What zap_stub_files leaves of the volume. *)
LEMMA StubsZapped ==
  ASSUME NEW v \in InMemory, MemSound(v), NEW first \in Walks(v)
  PROVE  AfterStubs(v, first, ZapStubs(v, first))
<1> DEFINE out == Out(v, first)
           kept == {Ent(v, x).fid : x \in InTree(v) \ out}
           w == [v EXCEPT !.dirs = [f \in Fids |-> [n \in Names |-> IF <<f, n>> \in out THEN NoEnt ELSE @[f][n]]],
                          !.dots = [f \in Fids |-> IF <<f, Dots>> \in out THEN NoEnt ELSE @[f]],
                          !.dirty = @ \cup {x[1] : x \in out}]
           y == BlastFids(w, Stubs(v))
           rfh == [f \in Fids |-> [y.rfh[f] EXCEPT !.upd = @ /\ f \notin kept]]
           z == [y EXCEPT !.rfh = rfh]
<1>1. z = ZapStubs(v, first)
  BY DEF ZapStubs, Out
<1>2. Stubs(v) \in SUBSET Fids /\ {x[1] : x \in out} \subseteq Fids
  BY StubsAre, OutReached DEF There
<1> HIDE DEF out, kept
<1>4. /\ w.rfh = v.rfh /\ w.index = v.index /\ w.unused = v.unused /\ w.ffree = v.ffree
      /\ w.ibits = v.ibits /\ w.dirty = v.dirty \cup {x[1] : x \in out}
      /\ w.dirs = [f \in Fids |-> Without(v, first, f)]
      /\ w.dots = [f \in Fids |-> IF <<f, Dots>> \in out THEN NoEnt ELSE v.dots[f]]
  BY DEF InMemory, Without, out
<1>3. (\A f \in Fids : Without(v, first, f) \in [Names -> Entry]) /\ w.dots \in [Fids -> Entry]
  <2>1. NoEnt \in Entry /\ v.dirs \in [Fids -> [Names -> Entry]] /\ v.dots \in [Fids -> Entry]
    BY Constants DEF NoEnt, Entry, InMemory
  <2>2. \A f \in Fids : Without(v, first, f) \in [Names -> Entry]
    BY <2>1 DEF Without
  <2>3. w.dots \in [Fids -> Entry]
    BY <2>1, <1>4
  <2> QED
    BY <2>2, <2>3
<1>5. w \in InMemory
  <2>1. w.dirs \in [Fids -> [Names -> Entry]] /\ w.dirty \in SUBSET ({IndexFid} \cup Fids)
    BY <1>2, <1>3, <1>4 DEF InMemory
  <2>2. w = [v EXCEPT !.dirs = w.dirs, !.dots = w.dots, !.dirty = w.dirty]
    BY <1>4
  <2> HIDE DEF w
  <2> QED
    BY <2>1, <2>2, <1>3 DEF InMemory
<1> HIDE DEF w
<1>51. IsInjective(w.unused)
  BY <1>4 DEF MemSound, UnusedSound
<1>6. /\ y \in InMemory
      /\ y.index = [f \in Fids |-> IF f \in Stubs(v) THEN Empty(w.rfh[f].gen) ELSE w.index[f]]
      /\ y.rfh = [f \in Fids |-> IF f \in Stubs(v) THEN NoFile ELSE w.rfh[f]]
      /\ y.dirs = [f \in Fids |-> IF f \in Stubs(v) THEN NoDir ELSE w.dirs[f]]
      /\ y.ffree = w.ffree /\ y.dirty = w.dirty /\ y.ibits = w.ibits \cup Stubs(v)
      /\ IsInjective(y.unused)
      /\ \A f \in Fids : Listed(y.unused, f) <=> Listed(w.unused, f) \/ f \in Stubs(v)
  BY <1>2, <1>5, <1>51, Blasted
<1> HIDE DEF y
<1>7. /\ z.index = y.index /\ z.dirs = y.dirs /\ z.unused = y.unused /\ z.ffree = y.ffree
      /\ z.ibits = y.ibits /\ z.dirty = y.dirty
      /\ z.rfh = [f \in Fids |-> [y.rfh[f] EXCEPT !.upd = @ /\ f \notin kept]]
  <2>1. /\ z.index = y.index /\ z.dirs = y.dirs /\ z.unused = y.unused /\ z.ffree = y.ffree
        /\ z.ibits = y.ibits /\ z.dirty = y.dirty /\ z.rfh = rfh
    <3> HIDE DEF rfh
    <3> QED
      BY <1>6 DEF InMemory
  <2> QED
    BY <2>1
<1>8. ASSUME NEW f \in Fids
      PROVE  /\ z.rfh[f] \in Header /\ z.rfh[f].valid = y.rfh[f].valid /\ z.rfh[f].gen = y.rfh[f].gen
             /\ z.rfh[f].dir = y.rfh[f].dir /\ z.rfh[f].new = y.rfh[f].new
             /\ y.rfh[f] = NoFile => z.rfh[f] = NoFile
  <2>1. z.rfh[f] = [y.rfh[f] EXCEPT !.upd = @ /\ f \notin kept]
    BY <1>7
  <2>2. y.rfh[f] \in Header
    BY <1>6 DEF InMemory
  <2>3. PICK u \in BOOLEAN : z.rfh[f] = [y.rfh[f] EXCEPT !.upd = u] /\ (~y.rfh[f].upd => u = FALSE)
    <3>1. (y.rfh[f].upd /\ f \notin kept) \in BOOLEAN
      OBVIOUS
    <3> QED
      BY <2>1, <3>1
  <2>4. /\ z.rfh[f] \in Header /\ z.rfh[f].valid = y.rfh[f].valid /\ z.rfh[f].gen = y.rfh[f].gen
        /\ z.rfh[f].dir = y.rfh[f].dir /\ z.rfh[f].new = y.rfh[f].new
    BY <2>2, <2>3 DEF Header
  <2>5. y.rfh[f] = NoFile => z.rfh[f] = NoFile
    <3> SUFFICES ASSUME y.rfh[f] = NoFile PROVE z.rfh[f] = NoFile
      OBVIOUS
    <3>1. ~y.rfh[f].upd
      BY DEF NoFile
    <3>2. z.rfh[f] = [NoFile EXCEPT !.upd = FALSE]
      BY <2>3, <3>1
    <3> QED
      BY <3>2 DEF NoFile
  <2> QED
    BY <2>4, <2>5
<1>9. z = [y EXCEPT !.rfh = z.rfh]
  <2> HIDE DEF rfh
  <2> QED
    BY <1>6 DEF InMemory
<1> HIDE DEF z
<1>10. z \in InMemory
  <2>1. z.rfh \in [Fids -> Header]
    BY <1>7, <1>8
  <2> QED
    BY <2>1, <1>6, <1>9 DEF InMemory
<1>11. There(z) = There(v) \ Stubs(v)
  BY <1>2, <1>4, <1>6, <1>7 DEF There, Empty
<1>12. \A f \in Fids : /\ f \in Stubs(v) => z.rfh[f] = NoFile /\ z.dirs[f] = NoDir /\ z.index[f].use = "empty"
                       /\ f \notin Stubs(v) =>
                            /\ z.rfh[f].valid = v.rfh[f].valid /\ z.rfh[f].gen = v.rfh[f].gen
                            /\ z.rfh[f].dir = v.rfh[f].dir /\ z.rfh[f].new = v.rfh[f].new
                            /\ v.rfh[f] = NoFile => z.rfh[f] = NoFile
                            /\ z.dirs[f] = Without(v, first, f) /\ z.index[f] = v.index[f]
  BY SMTT(60), <1>4, <1>6, <1>7, <1>8 DEF Empty
<1>13. AfterStubs(v, first, z)
  BY <1>4, <1>6, <1>7, <1>10, <1>11, <1>12 DEF AfterStubs, out
<1> QED
  BY <1>1, <1>13

(* No stub is met by a "..". *)
Clean(v, first) == \A g \in Stubs(v) : first[g][2] # Dots

(* Then a stub leaves with its own entry, as it has no other. *)
LEMMA CleanOut ==
  ASSUME NEW v \in InMemory, MemSound(v), NEW first \in Walks(v), Clean(v, first), NEW f \in There(v), NEW n \in Names
  PROVE  Without(v, first, f)[n] = IF v.dirs[f][n].fid \in Stubs(v) THEN NoEnt ELSE v.dirs[f][n]
<1>1. v.dirs[f][n].fid \in Stubs(v) => <<f, n>> \in Out(v, first)
  <2> SUFFICES ASSUME v.dirs[f][n].fid \in Stubs(v) PROVE <<f, n>> \in Out(v, first)
    OBVIOUS
  <2> DEFINE g == v.dirs[f][n].fid
             x == first[g]
  <2>1. x \in InTree(v) /\ Ent(v, x).fid = g /\ x[2] # Dots
    BY DEF Walks, StubEnts, Clean
  <2> HIDE DEF x
  <2>2. x[1] \in There(v) /\ x[2] \in Names /\ v.dirs[x[1]][x[2]].fid = g /\ x = <<x[1], x[2]>>
    <3>1. Reached(v) \subseteq There(v)
      BY StubsAre
    <3>2. x[1] \in Reached(v) /\ x[2] \in Names \cup {Dots} /\ x = <<x[1], x[2]>>
      BY <2>1 DEF InTree
    <3> QED
      BY <2>1, <3>1, <3>2 DEF Ent
  <2>3. g # 0 /\ v.dirs[f][n] # NoEnt
    BY StubsAre, Constants DEF There, NoEnt
  <2>4. f = x[1] /\ n = x[2]
    BY <2>2, <2>3 DEF MemSound, Sound, OneName, IsEnt
  <2> QED
    BY <2>2, <2>4 DEF Out, x
<1>2. <<f, n>> \in Out(v, first) => v.dirs[f][n].fid \in Stubs(v)
  BY OutLeads
<1> QED
  BY <1>1, <1>2 DEF Without

(* The stubs are removed with their names, and nothing else is. *)
LEMMA StubsKeep ==
  ASSUME saved \in OnDisk, NEW v, IsLoaded(v), NEW first \in Walks(v), Clean(v, first),
         NEW z, AfterStubs(v, first, z)
  PROVE  z \in InMemory /\ MemSound(z) /\ Marked(z, saved)
<1> DEFINE S == Stubs(v)
<1>1. v \in InMemory /\ MemSound(v) /\ Same(saved, v) /\ v.dirty = {} /\ v.ibits = {}
  BY DEF IsLoaded
<1>2. S \subseteq There(v) \ {Root} /\ \A g \in S : v.rfh[g].new /\ ~v.rfh[g].dir
  BY <1>1, StubsAre
<1>3. /\ z \in InMemory /\ There(z) = There(v) \ S
      /\ \A f \in Fids : /\ f \in S => z.rfh[f] = NoFile /\ z.dirs[f] = NoDir /\ z.index[f].use = "empty"
                         /\ f \notin S => /\ z.rfh[f].valid = v.rfh[f].valid /\ z.rfh[f].gen = v.rfh[f].gen
                                          /\ z.rfh[f].dir = v.rfh[f].dir /\ z.rfh[f].new = v.rfh[f].new
                                          /\ v.rfh[f] = NoFile => z.rfh[f] = NoFile
                                          /\ z.dirs[f] = Without(v, first, f) /\ z.index[f] = v.index[f]
      /\ z.ffree = v.ffree /\ z.ibits = v.ibits \cup S
      /\ z.dirty = v.dirty \cup {x[1] : x \in Out(v, first)}
      /\ IsInjective(z.unused)
      /\ \A f \in Fids : Listed(z.unused, f) <=> Listed(v.unused, f) \/ f \in S
  BY DEF AfterStubs
<1>4. \A f \in There(v) : f \in Fids
  BY DEF There
<1>5. \A f \in There(v), n \in Names :
        Without(v, first, f)[n] = IF v.dirs[f][n].fid \in S THEN NoEnt ELSE v.dirs[f][n]
  BY <1>1, CleanOut
<1> HIDE DEF S
<1>6. Sound(z)
  <2>1. FilesSound(z)
    BY <1>1, <1>2, <1>3, <1>4 DEF MemSound, Sound, FilesSound
  <2>2. EntriesLead(z)
    <3> SUFFICES ASSUME NEW f \in There(z), NEW n \in Names, z.dirs[f][n] # NoEnt
                 PROVE  /\ z.rfh[f].dir /\ z.dirs[f][n].fid \in There(z) \ {Root}
                        /\ z.rfh[z.dirs[f][n].fid].gen = z.dirs[f][n].gen
      BY DEF EntriesLead, IsEnt
    <3>1. f \in There(v) /\ f \notin S /\ f \in Fids
      BY <1>3, <1>4
    <3>2. z.dirs[f][n] = v.dirs[f][n] /\ v.dirs[f][n].fid \notin S
      BY <3>1, <1>3, <1>5
    <3>3. /\ v.rfh[f].dir /\ v.dirs[f][n].fid \in There(v) \ {Root}
          /\ v.rfh[v.dirs[f][n].fid].gen = v.dirs[f][n].gen
      BY <1>1, <3>1, <3>2 DEF MemSound, Sound, EntriesLead, IsEnt
    <3> QED
      BY <1>3, <1>4, <3>1, <3>2, <3>3
  <2>3. OneName(z)
    <3> SUFFICES ASSUME NEW f \in There(z), NEW g \in There(z), NEW i \in Names, NEW j \in Names,
                        z.dirs[f][i] # NoEnt, z.dirs[f][i].fid = z.dirs[g][j].fid
                 PROVE  f = g /\ i = j
      BY DEF OneName, IsEnt
    <3>1. f \in There(v) /\ g \in There(v) /\ f \notin S /\ g \notin S /\ f \in Fids /\ g \in Fids
      BY <1>3, <1>4
    <3>2. z.dirs[f][i] = v.dirs[f][i]
      BY <3>1, <1>3, <1>5
    <3>3. z.dirs[f][i].fid \in There(v)
      BY <3>1, <3>2, <1>1 DEF MemSound, Sound, EntriesLead, IsEnt
    <3>4. z.dirs[g][j] # NoEnt
      BY <3>3, <1>4, Constants DEF NoEnt
    <3>5. z.dirs[g][j] = v.dirs[g][j]
      BY <3>1, <3>4, <1>3, <1>5
    <3> QED
      BY <3>1, <3>2, <3>5, <1>1 DEF MemSound, Sound, OneName, IsEnt
  <2>4. Named(z)
    <3> SUFFICES ASSUME NEW g \in There(z) \ {Root}
                 PROVE  \E f \in There(z), n \in Names : z.dirs[f][n].fid = g
      BY DEF Named
    <3>1. g \in There(v) \ {Root} /\ g \notin S /\ g \in Fids
      BY <1>3, <1>4
    <3>2. PICK f \in There(v), n \in Names : v.dirs[f][n].fid = g
      BY <1>1, <3>1 DEF MemSound, Sound, Named
    <3>3. v.dirs[f][n] # NoEnt
      BY <3>1, <3>2, Constants DEF NoEnt
    <3>4. v.rfh[f].dir
      BY <3>2, <3>3, <1>1 DEF MemSound, Sound, EntriesLead, IsEnt
    <3>5. f \notin S /\ f \in Fids
      BY <3>4, <1>2, <1>4
    <3>6. z.dirs[f][n] = v.dirs[f][n]
      BY <3>1, <3>2, <3>5, <1>3, <1>5
    <3> QED
      BY <3>2, <3>5, <3>6, <1>3
  <2> QED
    BY <2>1, <2>2, <2>3, <2>4 DEF Sound
<1>7. GoneAreGone(z)
  <2> SUFFICES ASSUME NEW f \in Fids
               PROVE  IF f \in There(z) THEN z.rfh[f].valid ELSE z.rfh[f] = NoFile /\ z.dirs[f] = NoDir
    BY DEF GoneAreGone
  <2>1. CASE f \in There(z)
    BY <2>1, <1>1, <1>3 DEF MemSound, GoneAreGone
  <2>2. CASE f \in S
    BY <2>2, <1>3
  <2>3. CASE f \notin There(v)
    <3>1. f \notin S /\ v.rfh[f] = NoFile /\ v.dirs[f] = NoDir
      BY <2>3, <1>1, <1>2 DEF MemSound, GoneAreGone
    <3>2. Without(v, first, f) = NoDir
      BY <3>1 DEF Without, NoDir
    <3> QED
      BY <2>3, <3>1, <3>2, <1>3
  <2> QED
    BY <2>1, <2>2, <2>3, <1>3
<1>8. UnusedSound(z)
  <2>1. \A f \in Fids : Listed(v.unused, f) <=> f < v.ffree /\ f \notin There(v)
    BY <1>1 DEF MemSound, UnusedSound, Listed
  <2>2. \A f \in There(v) : f < v.ffree
    BY <1>1 DEF MemSound, Sound, FilesSound
  <2>3. \A f \in Fids : Listed(z.unused, f) <=> f < z.ffree /\ f \notin There(z)
    BY <2>1, <2>2, <1>2, <1>3
  <2>4. \A f \in Fids \ There(z) : f < z.ffree => z.index[f].use = "empty"
    BY <1>1, <1>3 DEF MemSound, UnusedSound
  <2> QED
    BY <2>3, <2>4, <1>3 DEF UnusedSound, Listed
<1>9. Marked(z, saved)
  <2>1. /\ There(v) = There(saved) /\ v.ffree = saved.ffree
        /\ \A f \in There(v) : Alike(saved, v, f)
    BY <1>1 DEF Same
  <2>2. \A f \in There(z) \ z.dirty : Alike(z, saved, f)
    <3> SUFFICES ASSUME NEW f \in There(z) \ z.dirty PROVE Alike(z, saved, f)
      OBVIOUS
    <3>1. f \in There(v) /\ f \notin S /\ f \in Fids
      BY <1>3, <1>4
    <3>2. v.dirs[f] = Without(v, first, f)
      <4>1. v.dirs[f] \in [Names -> Entry]
        BY <1>1, <3>1 DEF InMemory
      <4>2. \A n \in Names : <<f, n>> \notin Out(v, first)
        <5> SUFFICES ASSUME NEW n \in Names, <<f, n>> \in Out(v, first) PROVE FALSE
          OBVIOUS
        <5>1. <<f, n>>[1] = f
          OBVIOUS
        <5>2. f \in {x[1] : x \in Out(v, first)}
          BY <5>1
        <5> QED
          BY <5>2, <1>3
      <4> QED
        BY <4>1, <4>2 DEF Without
    <3>3. Alike(saved, v, f)
      BY <2>1, <3>1
    <3> QED
      BY <3>1, <3>2, <3>3, <1>3 DEF Alike
  <2>3. \A f \in Fids \ z.ibits : f \in There(z) <=> f \in There(saved)
    BY <1>3, <2>1
  <2>4. IndexFid \notin z.dirty => saved.ffree = z.ffree
    BY <1>3, <2>1
  <2> QED
    BY <2>2, <2>3, <2>4 DEF Marked
<1> QED
  BY <1>3, <1>6, <1>7, <1>8, <1>9 DEF MemSound

(* A mount gives a sound volume, and marks what the stubs leave to write;  *)
(* or it is the last step.                                                 *)
LEMMA MountKeeps ==
  ASSUME IInv, Mount
  PROVE  IInv'
<1>1. ~up /\ up' = TRUE /\ saved' = saved /\ h' = h /\ s' = s /\ ops' = ops
  BY DEF Mount
<1>2. saved \in OnDisk /\ Sound(saved) /\ h \in [Handles -> Descriptor] /\ s \in Stream /\ ops \in 0..MaxOps
  BY DEF IInv, TypeOK
<1>3. PICK first \in Walks(Loaded) :
        m' = ZapStubs(Loaded, first) /\ lost' = \E g \in Stubs(Loaded) : first[g][2] = Dots
  BY DEF Mount
<1>4. IsLoaded(Loaded)
  BY <1>2, MountLoads
<1>5. AfterStubs(Loaded, first, m')
  BY <1>3, <1>4, StubsZapped DEF IsLoaded
<1>6. \A x \in Handles : ~h[x].open /\ ~h[x].closing
  BY <1>1 DEF IInv, HandlesInv, Traced, Usable
<1>7. TableOK(h', m')
  BY <1>1, <1>2, <1>6 DEF TableOK, Traced
<1>8. ~s.open /\ s' \in Stream /\ StreamInv'
  BY <1>1, <1>2 DEF IInv, StreamInv, Usable
<1>9. m' \in InMemory /\ lost' \in BOOLEAN /\ (lost' = FALSE <=> Clean(Loaded, first))
  BY <1>3, <1>5 DEF AfterStubs, Clean
<1>10. CASE lost' = FALSE
  <2>1. m' \in InMemory /\ MemSound(m') /\ Marked(m', saved)
    BY <1>2, <1>4, <1>5, <1>9, <1>10, StubsKeep
  <2> QED
    BY <1>1, <1>2, <1>7, <1>8, <1>10, <2>1, Together
<1>11. CASE lost' = TRUE
  <2>1. MemoryInv' /\ DirtyInv'
    BY <1>11 DEF MemoryInv, DirtyInv, Usable
  <2>2. TypeOK'
    BY <1>1, <1>2, <1>8, <1>9 DEF TypeOK
  <2>3. HandlesInv'
    BY <1>1, <1>6, <1>7 DEF HandlesInv, TableOK
  <2> QED
    BY <1>1, <1>2, <1>8, <2>1, <2>2, <2>3 DEF IInv
<1> QED
  BY <1>9, <1>10, <1>11

-----------------------------------------------------------------------------
(* The invariant, and the properties that follow from it.                  *)

(* A volume that was just formatted has the root alone. *)
LEMMA InitKeeps ==
  ASSUME Init
  PROVE  IInv
<1> DEFINE H == [NoFile EXCEPT !.valid = TRUE, !.gen = 1, !.dir = TRUE]
           Z == [use |-> "zero", gen |-> 0]
<1>1. /\ H \in Header /\ H.valid /\ H.gen = 1 /\ H.dir /\ ~H.new /\ NoFile \in Header /\ NoFile.dir = FALSE
      /\ Lba \in Slot /\ Lba.use = "lba" /\ Z \in Slot /\ Z.use # "lba" /\ NoEnt \in Entry /\ NoEnt.fid = 0
  <2>1. 0 \in 0..MaxGen /\ 1 \in 0..MaxGen
    BY Constants
  <2>2. H \in Header /\ H.valid /\ H.gen = 1 /\ H.dir /\ ~H.new /\ NoFile \in Header /\ NoFile.dir = FALSE
    BY <2>1 DEF NoFile, Header
  <2>3. Lba \in Slot /\ Lba.use = "lba" /\ Z \in Slot /\ Z.use # "lba"
    BY <2>1 DEF Lba, Slot
  <2>4. NoEnt \in Entry /\ NoEnt.fid = 0
    BY <2>1 DEF NoEnt, Entry
  <2> QED
    BY <2>2, <2>3, <2>4
<1>2. NoDir \in [Names -> Entry] /\ \A n \in Names : NoDir[n] = NoEnt
  BY <1>1 DEF NoDir
<1>3. /\ m = [rfh |-> [f \in Fids |-> IF f = Root THEN H ELSE NoFile],
              dirs |-> [f \in Fids |-> NoDir], dots |-> [f \in Fids |-> NoEnt],
              index |-> [f \in Fids |-> IF f = Root THEN Lba ELSE Z],
              unused |-> <<>>, ffree |-> Root + 1, dirty |-> {}, ibits |-> {}]
      /\ saved = [rfh |-> m.rfh, dirs |-> m.dirs, dots |-> m.dots, index |-> m.index, ffree |-> m.ffree]
      /\ up = TRUE /\ lost = FALSE /\ h = [x \in Handles |-> Free] /\ s = NoStream /\ ops = 0
  BY DEF Init
<1> HIDE DEF H, Z
<1>4. /\ m.rfh \in [Fids -> Header] /\ m.dirs \in [Fids -> [Names -> Entry]] /\ m.index \in [Fids -> Slot]
      /\ m.dots \in [Fids -> Entry]
      /\ m.unused = <<>> /\ m.ffree = 2 /\ m.ffree \in 2..(MaxFid + 1) /\ m.dirty = {} /\ m.ibits = {}
      /\ \A f \in Fids : /\ m.rfh[f] = IF f = Root THEN H ELSE NoFile
                         /\ m.dirs[f] = NoDir
                         /\ m.index[f] = IF f = Root THEN Lba ELSE Z
  BY <1>1, <1>2, <1>3, Constants
<1>5. m \in InMemory /\ saved \in OnDisk
  BY <1>3, <1>4 DEF InMemory, OnDisk
<1>6. There(m) = {Root} /\ There(saved) = {Root}
  BY <1>1, <1>3, <1>4, Constants DEF There
<1>7. \A f \in Fids, n \in Names : m.dirs[f][n] = NoEnt
  BY <1>2, <1>4
<1>8. FilesSound(m)
  BY <1>1, <1>4, <1>6, Constants DEF FilesSound
<1>9. EntriesLead(m) /\ OneName(m) /\ Named(m)
  BY <1>6, <1>7, Constants DEF EntriesLead, OneName, Named, IsEnt
<1>10. Sound(m)
  BY <1>8, <1>9 DEF Sound
<1>11. Same(m, saved)
  BY <1>3, <1>6 DEF Same, Alike
<1>12. Sound(saved)
  BY <1>10, <1>11, SameSound
<1>13. GoneAreGone(m)
  BY <1>1, <1>4, <1>6 DEF GoneAreGone
<1>14. UnusedSound(m)
  <2>1. \A f \in Fids : f < m.ffree => f = Root
    BY <1>4, Constants
  <2>2. DOMAIN m.unused = {} /\ IsInjective(m.unused)
    BY <1>4 DEF IsInjective
  <2> QED
    BY <2>1, <2>2, <1>6 DEF UnusedSound
<1>15. Marked(m, saved)
  BY <1>3, <1>6 DEF Marked, Alike
<1>16. Free \in Descriptor /\ ~Free.open /\ ~Free.closing
  BY Constants DEF Free, Descriptor
<1>17. NoStream \in Stream /\ ~NoStream.open
  BY HashIs DEF NoStream, Stream
<1>18. TypeOK
  <2>1. h \in [Handles -> Descriptor] /\ s \in Stream
    BY <1>3, <1>16, <1>17
  <2>2. up \in BOOLEAN /\ lost \in BOOLEAN
    BY <1>3, Zenon
  <2>3. ops \in 0..MaxOps
    BY <1>3, OpsAssumption
  <2> QED
    BY <1>5, <2>1, <2>2, <2>3, Zenon DEF TypeOK
<1>19. HandlesInv /\ StreamInv
  BY <1>3, <1>16, <1>17 DEF HandlesInv, Traced, StreamInv
<1> QED
  BY <1>10, <1>12, <1>13, <1>14, <1>15, <1>18, <1>19 DEF IInv, MemoryInv, DirtyInv, MemSound

(* Names are looked up in a volume that is mounted. *)
LEMMA NameIsUsable ==
  ASSUME NextName
  PROVE  Usable
BY DEF NextName, OpenFid, Open, Mkdir, Delete, Rmdir, Rename, CanGetFile

(* Every step keeps the invariant. *)
LEMMA NextKeeps ==
  ASSUME IInv, [Next]_vars
  PROVE  IInv'
<1>1. CASE NextName
  BY <1>1, NameIsUsable, Parts, NameOperates, OperatedKeeps
<1>2. CASE NextFile
  BY <1>2, FileKeeps
<1>3. CASE Sync
  BY <1>3, SyncKeeps
<1>4. CASE Crash
  BY <1>4, CrashKeeps
<1>5. CASE Mount
  BY <1>5, MountKeeps
<1>6. CASE UNCHANGED vars
  BY <1>6 DEF vars, IInv, TypeOK, MemoryInv, DirtyInv, HandlesInv, StreamInv, Usable
<1> QED
  BY <1>1, <1>2, <1>3, <1>4, <1>5, <1>6 DEF Next

(* The invariant holds always: on the disk every file has one name, and so *)
(* it has in memory, with what the disk lacks on the dirty list, until a   *)
(* mount finds a stub by the ".." of a directory that was moved.           *)
THEOREM Inductive == Spec => []IInv
<1>1. Init => IInv
  BY InitKeeps
<1>2. IInv /\ [Next]_vars => IInv'
  BY NextKeeps
<1> QED
  BY <1>1, <1>2, PTL DEF Spec

(* Every variable has its type. *)
THEOREM TypeCorrect == Spec => []TypeOK
<1>1. IInv => TypeOK
  BY DEF IInv
<1> QED
  BY <1>1, Inductive, PTL

(* Every file but the root has one name, and every other FID none. *)
LEMMA OneEntry ==
  ASSUME NEW v \in InMemory, MemSound(v), NEW f \in Fids \ {Root},
         NEW E, E = {x \in Fids \X Names : v.dirs[x[1]][x[2]] # NoEnt /\ v.dirs[x[1]][x[2]].fid = f}
  PROVE  Cardinality(E) = IF v.rfh[f].valid THEN 1 ELSE 0
<1>1. v.rfh[f].valid <=> f \in There(v)
  BY DEF MemSound, GoneAreGone, NoFile
<1>2. \A a \in Fids, n \in Names : v.dirs[a][n] # NoEnt => a \in There(v)
  BY DEF MemSound, GoneAreGone, NoDir
<1>3. CASE f \in There(v)
  <2>1. PICK a \in There(v), n \in Names : v.dirs[a][n].fid = f
    BY <1>3 DEF MemSound, Sound, Named
  <2>2. v.dirs[a][n] # NoEnt /\ a \in Fids
    BY <2>1, Constants DEF NoEnt, There
  <2>3. <<a, n>> \in E
    BY <2>1, <2>2
  <2>4. \A x \in E : x = <<a, n>>
    <3> SUFFICES ASSUME NEW x \in E PROVE x = <<a, n>>
      OBVIOUS
    <3>1. x \in Fids \X Names /\ v.dirs[x[1]][x[2]] # NoEnt /\ v.dirs[x[1]][x[2]].fid = f
      OBVIOUS
    <3>2. x[1] \in There(v) /\ x[2] \in Names
      BY <3>1, <1>2
    <3>3. x[1] = a /\ x[2] = n
      BY <2>1, <3>1, <3>2 DEF MemSound, Sound, OneName, IsEnt
    <3> QED
      BY <3>1, <3>3
  <2>5. E = {<<a, n>>}
    BY <2>3, <2>4
  <2>6. Cardinality(E) = 1
    BY <2>5, FS_Singleton
  <2> QED
    BY <1>1, <1>3, <2>6
<1>4. CASE f \notin There(v)
  <2>1. \A a \in Fids, n \in Names : v.dirs[a][n] # NoEnt => v.dirs[a][n].fid # f
    BY <1>2, <1>4 DEF MemSound, Sound, EntriesLead, IsEnt
  <2>2. E = {}
    BY <2>1
  <2>3. Cardinality(E) = 0
    BY <2>2, FS_EmptySet
  <2> QED
    BY <1>1, <1>4, <2>3
<1> QED
  BY <1>3, <1>4

(* Every entry leads to a file of its generation, every file has one name, *)
(* and a FID is unused, once, when no file has it; until a mount finds a   *)
(* stub by the ".." of a directory that was moved.                         *)
THEOREM NamesSafe == Spec => []NamesSound
<1>1. IInv => NamesSound
  <2> SUFFICES ASSUME IInv, Usable
               PROVE  Whole
    BY DEF NamesSound
  <2> DEFINE ents == {x \in Fids \X Names : m.dirs[x[1]][x[2]] # NoEnt}
             names(f) == {x \in ents : m.dirs[x[1]][x[2]].fid = f}
             free == {m.unused[i] : i \in DOMAIN m.unused}
  <2>1. m \in InMemory /\ MemSound(m)
    BY DEF IInv, TypeOK, MemoryInv
  <2>2. ASSUME NEW x \in ents
        PROVE  /\ m.rfh[x[1]].valid /\ m.rfh[x[1]].dir
               /\ m.rfh[m.dirs[x[1]][x[2]].fid].valid /\ Live(m, m.dirs[x[1]][x[2]])
    <3>1. x[1] \in Fids /\ x[2] \in Names /\ m.dirs[x[1]][x[2]] # NoEnt
      OBVIOUS
    <3>2. x[1] \in There(m)
      BY <2>1, <3>1 DEF MemSound, GoneAreGone, NoDir
    <3>3. /\ m.rfh[x[1]].dir /\ m.dirs[x[1]][x[2]].fid \in There(m) \ {Root}
          /\ m.rfh[m.dirs[x[1]][x[2]].fid].gen = m.dirs[x[1]][x[2]].gen
      BY <2>1, <3>1, <3>2 DEF MemSound, Sound, EntriesLead, IsEnt
    <3>4. \A f \in There(m) : f # 0 /\ m.rfh[f].valid
      BY <2>1, Constants DEF MemSound, GoneAreGone, There
    <3> QED
      BY <3>2, <3>3, <3>4 DEF Live
  <2>3. ASSUME NEW f \in Fids \ {Root}
        PROVE  Cardinality(names(f)) = IF m.rfh[f].valid THEN 1 ELSE 0
    <3>1. names(f) = {x \in Fids \X Names : m.dirs[x[1]][x[2]] # NoEnt /\ m.dirs[x[1]][x[2]].fid = f}
      OBVIOUS
    <3> HIDE DEF names
    <3> QED
      BY <2>1, <3>1, OneEntry
  <2>4. \A f \in Fids : m.rfh[f].valid <=> m.index[f].use = "lba"
    BY <2>1 DEF MemSound, GoneAreGone, NoFile, There
  <2>5. \A f \in Fids : f \in free <=> f < m.ffree /\ ~m.rfh[f].valid
    BY <2>1, <2>4 DEF MemSound, UnusedSound, There
  <2>6. IsInjective(m.unused)
    BY <2>1 DEF MemSound, UnusedSound
  <2> HIDE DEF ents, names, free
  <2>7. /\ \A x \in ents : /\ m.rfh[x[1]].valid /\ m.rfh[x[1]].dir
                           /\ m.rfh[m.dirs[x[1]][x[2]].fid].valid /\ Live(m, m.dirs[x[1]][x[2]])
        /\ \A f \in Fids \ {Root} : Cardinality(names(f)) = IF m.rfh[f].valid THEN 1 ELSE 0
        /\ IsInjective(m.unused)
        /\ \A f \in Fids : m.rfh[f].valid <=> m.index[f].use = "lba"
        /\ \A f \in Fids : f \in free <=> f < m.ffree /\ ~m.rfh[f].valid
    BY <2>2, <2>3, <2>4, <2>5, <2>6
  <2> QED
    BY <2>7 DEF Whole, ents, names, free
<1> QED
  BY <1>1, Inductive, PTL

(* A multiple leaves no rest. *)
LEMMA NoRest ==
  ASSUME NEW n \in Nat \ {0}, NEW k \in Nat
  PROVE  (k * n) % n = 0
OBVIOUS

(* What is reached through a descriptor is the file it was opened on, or   *)
(* one whose FID was given out a multiple of MaxGen times since.           *)
THEOREM HandlesSafe == Spec => []HandlesSound
<1>1. IInv => HandlesSound
  <2> SUFFICES ASSUME IInv, NEW x \in Handles, Reaches(x)
               PROVE  h[x].again % MaxGen = 0
    BY DEF HandlesSound
  <2>1. h[x].open /\ m.rfh[h[x].fid].valid /\ m.rfh[h[x].fid].gen = h[x].gen
    BY DEF Reaches
  <2>2. Usable /\ h[x].fid \in Fids /\ h[x] \in Descriptor /\ MemSound(m)
    BY <2>1 DEF IInv, HandlesInv, Traced, TypeOK, MemoryInv
  <2>3. h[x].fid \in There(m)
    BY <2>1, <2>2 DEF MemSound, GoneAreGone, NoFile
  <2>4. h[x].gen # 0 /\ LastGen(m, h[x].fid) = h[x].gen
    BY <2>1, <2>2, <2>3 DEF MemSound, Sound, FilesSound, LastGen
  <2>5. PICK k \in Nat : h[x].gen + h[x].again = h[x].gen + k * MaxGen
    BY <2>1, <2>4 DEF IInv, HandlesInv, Traced
  <2>6. h[x].gen \in Nat /\ h[x].again \in Nat /\ MaxGen \in Nat \ {0} /\ k * MaxGen \in Nat
    BY <2>2, Constants DEF Descriptor
  <2>7. h[x].again = k * MaxGen
    BY <2>5, <2>6
  <2>8. (k * MaxGen) % MaxGen = 0
    BY <2>6, NoRest
  <2> QED
    BY <2>7, <2>8
<1> QED
  BY <1>1, Inductive, PTL

(* A scan that came to its end has returned every entry that was there all *)
(* the time.                                                               *)
THEOREM ScansSafe == Spec => []ScansComplete
<1>1. IInv => ScansComplete
  <2> SUFFICES ASSUME IInv, s.open, s.entry = Buckets + 1, s.cur = 0, ~s.cuts, NEW n \in s.steady
               PROVE  n \in s.seen
    BY DEF ScansComplete
  <2>1. n \in Names
    BY DEF IInv, TypeOK, Stream
  <2>2. HashOf[n] < s.entry
    BY <2>1, HashIs
  <2> QED
    BY <2>2 DEF IInv, StreamInv
<1> QED
  BY <1>1, Inductive, PTL

-----------------------------------------------------------------------------
(* Names implements AtomicVolume.                                          *)

(* The directories that are reached are closed under the entries. *)
Tops(v) == {f \in Fids : v.rfh[f].dir}

(* A set of directories that has the root and leads nowhere else. *)
Closed(v, all) ==
  /\ all \in SUBSET Tops(v) /\ Root \in all
  /\ \A f \in all, n \in Names : v.dirs[f][n].fid \in Tops(v) => v.dirs[f][n].fid \in all

(* What is reached is in every set that is closed under the entries. *)
LEMMA ReachedIs ==
  ASSUME NEW v
  PROVE  \A g : g \in Reached(v) <=> g \in Tops(v) /\ \A all : Closed(v, all) => g \in all
BY DEF Reached, Tops, Closed

(* The same files are reached in volumes that are the same. *)
LEMMA ReachedWithin ==
  ASSUME NEW v, NEW w, Sound(v), Same(v, w)
  PROVE  Reached(v) \subseteq There(v) /\ Reached(v) \subseteq Reached(w)
<1>1. /\ There(w) = There(v)
      /\ \A f \in There(v) : w.rfh[f].dir = v.rfh[f].dir /\ w.dirs[f] = v.dirs[f]
  BY DEF Same, Alike
<1>2. \A f \in There(v), n \in Names : v.dirs[f][n].fid \in Fids => v.dirs[f][n].fid \in There(v)
  <2>1. \A e : e.fid \in Fids => e # NoEnt
    BY Constants DEF NoEnt
  <2> QED
    BY <2>1 DEF Sound, EntriesLead, IsEnt
<1>3. Root \in There(v) /\ v.rfh[Root].dir /\ \A f \in There(v) : f \in Fids
  BY DEF Sound, FilesSound, There
<1>4. ASSUME NEW all, Closed(w, all)
      PROVE  Closed(v, all \cap There(v))
  <2>1. /\ all \in SUBSET Tops(w) /\ Root \in all
        /\ \A f \in all, n \in Names : w.dirs[f][n].fid \in Tops(w) => w.dirs[f][n].fid \in all
    BY <1>4 DEF Closed
  <2>2. \A f \in There(v) : f \in Tops(w) <=> f \in Tops(v)
    BY <1>1 DEF Tops
  <2>3. all \cap There(v) \in SUBSET Tops(v)
    BY <2>1, <2>2
  <2>4. ASSUME NEW f \in all \cap There(v), NEW n \in Names, v.dirs[f][n].fid \in Tops(v)
        PROVE  v.dirs[f][n].fid \in all \cap There(v)
    <3>1. v.dirs[f][n].fid \in Fids
      BY <2>4 DEF Tops
    <3>2. v.dirs[f][n].fid \in There(v)
      BY <1>2, <3>1
    <3> QED
      BY <1>1, <2>1, <2>2, <2>4, <3>2
  <2> QED
    BY <1>3, <2>1, <2>3, <2>4 DEF Closed
<1>5. Closed(v, Tops(v) \cap There(v))
  <2>1. ASSUME NEW f \in Tops(v) \cap There(v), NEW n \in Names, v.dirs[f][n].fid \in Tops(v)
        PROVE  v.dirs[f][n].fid \in Tops(v) \cap There(v)
    BY <1>2, <2>1 DEF Tops
  <2> QED
    BY <1>3, <2>1 DEF Closed, Tops
<1>6. Reached(v) \subseteq There(v)
  BY <1>5, ReachedIs
<1>7. ASSUME NEW g \in Reached(v) PROVE g \in Reached(w)
  <2>1. g \in Tops(v) /\ g \in There(v) /\ \A all : Closed(v, all) => g \in all
    BY <1>6, ReachedIs
  <2>2. g \in Tops(w)
    BY <1>1, <2>1 DEF Tops
  <2>3. \A all : Closed(w, all) => g \in all
    BY <1>4, <2>1
  <2> QED
    BY <2>2, <2>3, ReachedIs
<1> QED
  BY <1>6, <1>7

(* Being the same goes both ways. *)
LEMMA SameBack ==
  ASSUME NEW v, NEW w, Same(v, w)
  PROVE  Same(w, v)
BY DEF Same, Alike

(* The same directories are reached, and all are there. *)
LEMMA ReachedSame ==
  ASSUME NEW v, NEW w, Sound(v), Same(v, w)
  PROVE  Reached(w) = Reached(v) /\ Reached(v) \subseteq There(v)
<1>1. Sound(w) /\ Same(w, v)
  BY SameSound, SameBack
<1> QED
  BY <1>1, ReachedWithin

(* A user sees the same in volumes that are the same. *)
LEMMA ListingSame ==
  ASSUME NEW v, NEW w, Sound(v), Same(v, w)
  PROVE  Listing(w) = Listing(v)
<1> DEFINE ents(u) == {x \in Reached(u) \X Names : Live(u, u.dirs[x[1]][x[2]])}
           row(u, x) == LET e == u.dirs[x[1]][x[2]]
                        IN  [fid |-> e.fid, gen |-> e.gen, dir |-> u.rfh[e.fid].dir, stub |-> u.rfh[e.fid].new]
<1>1. Reached(w) = Reached(v) /\ Reached(v) \subseteq There(v)
  BY ReachedSame
<1>2. /\ There(w) = There(v)
      /\ \A f \in There(v) : /\ w.rfh[f].dir = v.rfh[f].dir /\ w.rfh[f].new = v.rfh[f].new
                             /\ w.rfh[f].gen = v.rfh[f].gen /\ w.dirs[f] = v.dirs[f]
  BY DEF Same, Alike
<1>3. \A x \in Reached(v) \X Names : w.dirs[x[1]][x[2]] = v.dirs[x[1]][x[2]]
  BY <1>1, <1>2
<1>4. ASSUME NEW x \in Reached(v) \X Names
      PROVE  /\ Live(w, w.dirs[x[1]][x[2]]) <=> Live(v, v.dirs[x[1]][x[2]])
             /\ Live(v, v.dirs[x[1]][x[2]]) => row(w, x) = row(v, x)
  <2> DEFINE e == v.dirs[x[1]][x[2]]
  <2>1. x[1] \in There(v) /\ x[2] \in Names /\ w.dirs[x[1]][x[2]] = e
    BY <1>1, <1>3
  <2>2. e # NoEnt => e.fid \in There(v)
    BY <2>1 DEF Sound, EntriesLead, IsEnt
  <2>3. e.fid # 0 => e.fid \in There(v)
    BY <2>2 DEF NoEnt
  <2>4. Live(w, e) <=> Live(v, e)
    BY <1>2, <2>3 DEF Live
  <2>5. e.fid # 0 => w.rfh[e.fid].dir = v.rfh[e.fid].dir /\ w.rfh[e.fid].new = v.rfh[e.fid].new
    BY <1>2, <2>3
  <2> QED
    BY <2>1, <2>4, <2>5 DEF Live
<1>5. ents(w) = ents(v) /\ \A x \in ents(v) : row(w, x) = row(v, x)
  <2> HIDE DEF row
  <2> QED
    BY <1>1, <1>4
<1>6. Listing(w) = [x \in ents(w) |-> row(w, x)] /\ Listing(v) = [x \in ents(v) |-> row(v, x)]
  BY DEF Listing
<1> HIDE DEF ents, row
<1> QED
  BY <1>5, <1>6

(* What is left of a listing when the stubs are removed. *)
LEMMA ListingStubs ==
  ASSUME NEW v \in InMemory, MemSound(v), NEW first \in Walks(v), NEW z, AfterStubs(v, first, z)
  PROVE  Listing(z) = [x \in {y \in DOMAIN Listing(v) : ~Listing(v)[y].stub} |-> Listing(v)[x]]
<1> DEFINE ents(u) == {x \in Reached(u) \X Names : Live(u, u.dirs[x[1]][x[2]])}
           row(u, x) == LET e == u.dirs[x[1]][x[2]]
                        IN  [fid |-> e.fid, gen |-> e.gen, dir |-> u.rfh[e.fid].dir, stub |-> u.rfh[e.fid].new]
           S == Stubs(v)
<1>1. /\ S \subseteq There(v) \ {Root}
      /\ \A g \in S : v.rfh[g].new /\ ~v.rfh[g].dir
      /\ \A f \in Reached(v), n \in Names : IsStub(v, v.dirs[f][n]) => v.dirs[f][n].fid \in S
      /\ Reached(v) \subseteq There(v)
  BY StubsAre
<1>2. \A f \in Fids : /\ f \in S => z.rfh[f] = NoFile /\ z.dirs[f] = NoDir
                      /\ f \notin S => /\ z.rfh[f].dir = v.rfh[f].dir /\ z.rfh[f].new = v.rfh[f].new
                                       /\ z.rfh[f].gen = v.rfh[f].gen /\ z.dirs[f] = Without(v, first, f)
  BY DEF AfterStubs
<1>3. \A f \in There(v) : f \in Fids
  BY DEF There
<1>4. \A f \in Tops(v) : f \in There(v) /\ f \notin S
  BY <1>1 DEF Tops, MemSound, GoneAreGone, NoFile
<1>5. \A f, n : n \in Names /\ <<f, n>> \in Out(v, first) => v.dirs[f][n].fid \in S
  BY OutLeads
<1> HIDE DEF S
<1>6. Tops(z) = Tops(v)
  <2>1. \A f \in Fids : z.rfh[f].dir <=> v.rfh[f].dir
    BY <1>1, <1>2 DEF NoFile
  <2> QED
    BY <2>1 DEF Tops
<1>7. \A f \in Tops(v), n \in Names :
        z.dirs[f][n] = v.dirs[f][n] \/ (z.dirs[f][n] = NoEnt /\ v.dirs[f][n].fid \in S)
  <2> SUFFICES ASSUME NEW f \in Tops(v), NEW n \in Names
               PROVE  z.dirs[f][n] = v.dirs[f][n] \/ (z.dirs[f][n] = NoEnt /\ v.dirs[f][n].fid \in S)
    OBVIOUS
  <2>1. z.dirs[f] = Without(v, first, f)
    BY <1>2, <1>3, <1>4
  <2>2. Without(v, first, f)[n] = IF <<f, n>> \in Out(v, first) THEN NoEnt ELSE v.dirs[f][n]
    BY DEF Without
  <2> QED
    BY <1>5, <2>1, <2>2
<1>8. \A all : Closed(z, all) <=> Closed(v, all)
  <2>1. \A f \in Tops(v), n \in Names :
          /\ z.dirs[f][n].fid \in Tops(v) <=> v.dirs[f][n].fid \in Tops(v)
          /\ v.dirs[f][n].fid \in Tops(v) => z.dirs[f][n] = v.dirs[f][n]
    <3>1. NoEnt.fid \notin Tops(v)
      BY Constants DEF NoEnt, Tops
    <3> QED
      BY <1>4, <1>7, <3>1
  <2> QED
    BY <1>6, <2>1 DEF Closed
<1>9. Reached(z) = Reached(v)
  BY <1>6, <1>8, ReachedIs
<1>10. Reached(v) \subseteq Tops(v)
  BY ReachedIs
<1>11. ASSUME NEW x \in Reached(v) \X Names, v.dirs[x[1]][x[2]].fid # 0
       PROVE  /\ v.dirs[x[1]][x[2]].fid \in There(v) /\ v.rfh[v.dirs[x[1]][x[2]].fid].valid
              /\ v.rfh[v.dirs[x[1]][x[2]].fid].gen = v.dirs[x[1]][x[2]].gen /\ v.dirs[x[1]][x[2]].gen # 0
  <2>1. x[1] \in There(v) /\ x[2] \in Names /\ v.dirs[x[1]][x[2]] # NoEnt
    BY <1>1, <1>11 DEF NoEnt
  <2>2. v.dirs[x[1]][x[2]].fid \in There(v) /\ v.rfh[v.dirs[x[1]][x[2]].fid].gen = v.dirs[x[1]][x[2]].gen
    BY <2>1 DEF MemSound, Sound, EntriesLead, IsEnt
  <2> QED
    BY <2>2, <1>3 DEF MemSound, Sound, FilesSound, GoneAreGone
<1>12. ASSUME NEW x \in Reached(v) \X Names
       PROVE  /\ Live(z, z.dirs[x[1]][x[2]]) <=> Live(v, v.dirs[x[1]][x[2]]) /\ v.dirs[x[1]][x[2]].fid \notin S
              /\ Live(v, v.dirs[x[1]][x[2]]) => (row(v, x).stub <=> v.dirs[x[1]][x[2]].fid \in S)
              /\ Live(z, z.dirs[x[1]][x[2]]) => row(z, x) = row(v, x)
  <2> DEFINE e == v.dirs[x[1]][x[2]]
             d == z.dirs[x[1]][x[2]]
  <2>1. d = e \/ (d = NoEnt /\ e.fid \in S)
    BY <1>7, <1>10
  <2>2. e.fid # 0 => e.fid \in Fids /\ v.rfh[e.fid].valid /\ v.rfh[e.fid].gen = e.gen /\ e.gen # 0
    BY <1>3, <1>11
  <2>3. IsStub(v, e) => e.fid \in S
    BY <1>1
  <2>4. /\ e.fid \in S => e.fid # 0 /\ z.rfh[e.fid].gen = 0 /\ v.rfh[e.fid].new
        /\ e.fid # 0 /\ e.fid \notin S =>
             /\ z.rfh[e.fid].dir = v.rfh[e.fid].dir /\ z.rfh[e.fid].new = v.rfh[e.fid].new
             /\ z.rfh[e.fid].gen = v.rfh[e.fid].gen
    <3>1. \A g \in S : g \in Fids /\ g # 0 /\ z.rfh[g].gen = 0 /\ v.rfh[g].new
      BY <1>1, <1>2, <1>3, Constants DEF NoFile
    <3> QED
      BY <1>2, <2>2, <3>1
  <2> HIDE DEF e, d
  <2>5. Live(z, d) <=> Live(v, e) /\ e.fid \notin S
    <3>1. CASE e.fid \in S
      <4>1. ~Live(z, e) /\ ~Live(z, NoEnt)
        BY <2>2, <2>4, <3>1 DEF Live, NoEnt
      <4> QED
        BY <2>1, <3>1, <4>1
    <3>2. CASE e.fid \notin S
      BY <2>1, <2>4, <3>2 DEF Live
    <3> QED
      BY <3>1, <3>2
  <2>6. Live(v, e) => (v.rfh[e.fid].new <=> e.fid \in S)
    BY <2>2, <2>3, <2>4 DEF Live, IsStub
  <2>7. Live(z, d) => d = e /\ z.rfh[e.fid].dir = v.rfh[e.fid].dir /\ z.rfh[e.fid].new = v.rfh[e.fid].new
    BY <2>1, <2>4, <2>5 DEF Live
  <2> QED
    BY <2>5, <2>6, <2>7 DEF e, d
<1>13. ents(z) = {x \in ents(v) : ~row(v, x).stub}
  <2> HIDE DEF row
  <2> QED
    BY <1>9, <1>12
<1>14. \A x \in ents(z) : row(z, x) = row(v, x)
  <2> HIDE DEF row
  <2> QED
    BY <1>9, <1>12
<1>15. Listing(z) = [x \in ents(z) |-> row(z, x)] /\ Listing(v) = [x \in ents(v) |-> row(v, x)]
  BY DEF Listing
<1> HIDE DEF ents, row
<1>16. /\ DOMAIN Listing(v) = ents(v) /\ \A x \in ents(v) : Listing(v)[x] = row(v, x)
  BY <1>15
<1>17. {y \in DOMAIN Listing(v) : ~Listing(v)[y].stub} = ents(z)
  BY <1>13, <1>16
<1>18. \A x \in ents(z) : x \in ents(v) /\ Listing(v)[x] = row(z, x)
  BY <1>13, <1>14, <1>16
<1> QED
  BY <1>15, <1>17, <1>18

(* The directory structure that a user has, and the one that is saved. *)
View == IF up THEN Listing(m) ELSE Nothing

(* What an operation does is seen at once, and is not saved. *)
LEMMA OperateRefines ==
  ASSUME Usable, AsBefore, saved' = saved
  PROVE  Volume!Next
BY DEF Volume!Next, Volume!Operate, Usable, AsBefore

(* A sync saves the listing as it is. *)
LEMMA SyncRefines ==
  ASSUME IInv, Sync
  PROVE  Volume!Next
<1>1. Usable /\ AsBefore /\ m' = [m EXCEPT !.dirty = {}, !.ibits = {}]
  BY DEF Sync, AsBefore
<1>2. Mounted /\ m \in InMemory
  BY <1>1, Parts
<1>3. Same(m, saved') /\ Sound(m)
  BY <1>2, SyncSame DEF Mounted, MemSound
<1>4. Listing(saved') = Listing(m)
  BY <1>3, ListingSame
<1>5. Same(m, m')
  BY <1>1, <1>2 DEF Same, Alike, There, InMemory
<1>6. Listing(m') = Listing(m)
  BY <1>3, <1>5, ListingSame
<1>7. Volume!Commit
  BY <1>1, <1>4, <1>6 DEF Volume!Commit, AsBefore, Usable
<1> QED
  BY <1>7 DEF Volume!Next

(* A crash leaves no listing. *)
LEMMA CrashRefines ==
  ASSUME Crash
  PROVE  Volume!Next
BY DEF Crash, Volume!Next, Volume!Crash, Volume!Empty, Nothing

(* A mount gives back the listing that was saved, without the stubs: the   *)
(* name of one that was met by a ".." leads nowhere.                       *)
LEMMA MountRefines ==
  ASSUME IInv, Mount
  PROVE  Volume!Next
<1>1. ~up /\ up' = TRUE /\ saved' = saved
  BY DEF Mount
<1>2. saved \in OnDisk /\ Sound(saved)
  BY DEF IInv, TypeOK
<1>3. PICK first \in Walks(Loaded) : m' = ZapStubs(Loaded, first)
  BY DEF Mount
<1>4. Loaded \in InMemory /\ MemSound(Loaded) /\ Same(saved, Loaded)
  BY <1>2, MountLoads DEF IsLoaded
<1>5. AfterStubs(Loaded, first, m')
  BY <1>3, <1>4, StubsZapped
<1> DEFINE v == Loaded
<1>6. Listing(m') = [x \in {y \in DOMAIN Listing(v) : ~Listing(v)[y].stub} |-> Listing(v)[x]]
  BY <1>4, <1>5, ListingStubs
<1>7. Listing(v) = Listing(saved)
  BY <1>2, <1>4, ListingSame
<1> HIDE DEF v
<1>8. Volume!Recover
  BY <1>1, <1>6, <1>7 DEF Volume!Recover
<1> QED
  BY <1>8 DEF Volume!Next

(* Every step is a step of the abstract volume, or none that it sees. *)
LEMMA NextRefines ==
  ASSUME IInv, [Next]_vars
  PROVE  [Volume!Next]_<<View, Listing(saved), up>>
<1>1. CASE NextName
  <2>1. Usable
    BY <1>1, NameIsUsable
  <2>2. AsBefore /\ saved' = saved
    BY <1>1, <2>1, Parts, NameOperates DEF Operated
  <2> QED
    BY <2>1, <2>2, OperateRefines
<1>2. CASE NextFile
  <2>1. Usable /\ AsBefore /\ saved' = saved
    BY <1>2 DEF AsBefore, NextFile, CloseCalled, CloseUpd, Opendir, Readdir, Rewdir, Closedir
  <2> QED
    BY <2>1, OperateRefines
<1>3. CASE Sync
  BY <1>3, SyncRefines
<1>4. CASE Crash
  BY <1>4, CrashRefines
<1>5. CASE Mount
  BY <1>5, MountRefines
<1>6. CASE UNCHANGED vars
  BY <1>6 DEF vars, View
<1> QED
  BY <1>1, <1>2, <1>3, <1>4, <1>5, <1>6 DEF Next

(* A volume that was just formatted has no names. *)
LEMMA InitRefines ==
  ASSUME Init
  PROVE  Volume!Init
<1>1. /\ Usable /\ \A f \in Fids : m.dirs[f] = NoDir
      /\ saved = [rfh |-> m.rfh, dirs |-> m.dirs, dots |-> m.dots, index |-> m.index, ffree |-> m.ffree]
  BY DEF Init, Usable
<1>2. saved.dirs = m.dirs
  BY <1>1
<1>3. ASSUME NEW v, v.dirs = m.dirs PROVE Listing(v) = Nothing
  <2>1. Reached(v) \subseteq Fids
    BY DEF Reached
  <2>2. {x \in Reached(v) \X Names : Live(v, v.dirs[x[1]][x[2]])} = {}
    BY <1>1, <1>3, <2>1 DEF NoDir, NoEnt, Live
  <2> QED
    BY <2>2 DEF Listing, Nothing
<1>4. Listing(m) = Nothing /\ Listing(saved) = Nothing
  BY <1>2, <1>3
<1> QED
  BY <1>1, <1>4 DEF Volume!Init, Volume!Empty, Nothing, Init

(* Names implements AtomicVolume: what was done since the last sync is     *)
(* lost by a crash, and nothing else but the files nobody had closed.      *)
THEOREM NamesRefine == Spec => AtomicNames /\ Volume!Spec
<1>1. Init => Volume!Init
  BY InitRefines
<1>2. IInv /\ [Next]_vars => [Volume!Next]_<<View, Listing(saved), up>>
  BY NextRefines
<1>3. Spec => Volume!Init /\ [][Volume!Next]_<<View, Listing(saved), up>>
  BY <1>1, <1>2, Inductive, PTL DEF Spec
<1> QED
  BY <1>3 DEF AtomicNames, View, Volume!Spec, Volume!vars
=============================================================================
