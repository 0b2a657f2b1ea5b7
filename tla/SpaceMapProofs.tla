--------------------------- MODULE SpaceMapProofs ---------------------------
(***************************************************************************)
(* The map of the disk that FreeList implements never loses a sector and   *)
(* never gives one two uses, whatever the number of owners and sectors,    *)
(* and a crash finds every sector of the saved volume unused by others.    *)
(***************************************************************************)
EXTENDS SpaceMap, TLAPS

Types ==
  /\ own \in [Owners -> SUBSET Space] /\ saved \in [Owners -> SUBSET Space]
  /\ free \in SUBSET Space /\ limbo \in SUBSET Space

(* The saved volume is one a mount may go back to.                         *)
MapInv == Types /\ Partition /\ SavedKept /\ Disjoint(saved)

-----------------------------------------------------------------------------
(* The initial map, made by the format, is consistent.                     *)
LEMMA InitInv == Init => MapInv
BY DEF Init, MapInv, Types, Partition, SavedKept, Disjoint, Owned

(* An allocation takes free sectors only, and nobody loses one.            *)
LEMMA AllocateInv == MapInv /\ Allocate => MapInv'
<1> SUFFICES ASSUME MapInv, Allocate PROVE MapInv'
  OBVIOUS
<1>1. Types'
  BY DEF MapInv, Types, Allocate
<1>2. Partition'
  <2>1. Disjoint(own)'
    BY DEF Allocate, Disjoint
  <2>2. (free \cap limbo = {})'
    BY DEF MapInv, Partition, Allocate
  <2>3. Owned(own)' = Owned(own) \cup (free \ free') /\ free' \subseteq free
    BY DEF Allocate, Owned
  <2>4. (Owned(own) \cap (free \cup limbo) = {})'
    BY <2>3 DEF MapInv, Partition, Allocate
  <2>5. (Owned(own) \cup free \cup limbo = Space)'
    BY <2>3 DEF MapInv, Partition, Allocate
  <2> QED
    BY <2>1, <2>2, <2>4, <2>5 DEF Partition
<1>3. SavedKept' /\ Disjoint(saved)'
  BY DEF MapInv, SavedKept, Disjoint, Allocate
<1> QED
  BY <1>1, <1>2, <1>3 DEF MapInv

(* What is given up waits in limbo for the commit.                         *)
LEMMA ReleaseInv == MapInv /\ Release => MapInv'
<1> SUFFICES ASSUME MapInv, Release PROVE MapInv'
  OBVIOUS
<1>1. Types'
  BY DEF MapInv, Types, Release, Owned
<1>2. \A x \in Owners : own'[x] \in {own[x], {}}
  BY DEF Release
<1>3. Owned(own)' \subseteq Owned(own)
  BY <1>2 DEF Owned
<1>4. free' \subseteq free /\ limbo' = limbo \cup (Owned(own) \ Owned(own)') \cup (free \ free')
  BY DEF Release, Owned
<1>5. Partition'
  <2>1. Disjoint(own)'
    BY <1>2 DEF MapInv, Partition, Disjoint
  <2> QED
    BY <1>3, <1>4, <2>1 DEF MapInv, Partition
<1>6. SavedKept'
  <2> SUFFICES ASSUME NEW x \in Owners, NEW s \in saved[x]
               PROVE s \in own'[x] \cup limbo'
    BY DEF SavedKept, Release
  <2>1. CASE s \in limbo
    BY <2>1, <1>4
  <2>2. CASE s \in own[x] /\ own'[x] = own[x]
    BY <2>2
  <2>3. CASE s \in own[x] /\ own'[x] = {}
    <3>1. \A y \in Owners : s \notin own'[y]
      BY <2>3, <1>2 DEF MapInv, Partition, Disjoint
    <3> QED
      BY <3>1, <2>3, <1>4 DEF Owned
  <2> QED
    BY <2>1, <2>2, <2>3, <1>2 DEF MapInv, SavedKept
<1> QED
  BY <1>1, <1>5, <1>6 DEF MapInv, Disjoint, Release

(* After a commit limbo is empty, and the saved volume is the one in use.  *)
LEMMA CommitInv == MapInv /\ Commit => MapInv'
<1> SUFFICES ASSUME MapInv, Commit PROVE MapInv'
  OBVIOUS
<1>1. Types'
  BY DEF MapInv, Types, Commit
<1>2. Owned(own) \subseteq Owned(own)'
  BY DEF Commit, Owned
<1>3. Owned(own)' \ Owned(own) \subseteq free
  BY DEF Commit, Owned
<1>4. free' = (free \cup limbo) \ Owned(own)' /\ limbo' = {} /\ Disjoint(own)'
  BY DEF Commit, Owned, Disjoint
<1>5. Partition'
  BY <1>2, <1>3, <1>4 DEF MapInv, Partition
<1>6. SavedKept' /\ Disjoint(saved)'
  BY DEF Commit, SavedKept, Disjoint
<1> QED
  BY <1>1, <1>5, <1>6 DEF MapInv

(* A mount goes back to a map without overlaps.                            *)
LEMMA RevertInv == MapInv /\ Revert => MapInv'
BY DEF MapInv, Types, Partition, SavedKept, Disjoint, Owned, Revert

(* MapInv is inductive.                                                    *)
LEMMA Inductive == MapInv /\ [Next]_vars => MapInv'
<1> SUFFICES ASSUME MapInv, [Next]_vars PROVE MapInv'
  OBVIOUS
<1>1. CASE UNCHANGED vars
  BY <1>1 DEF vars, MapInv, Types, Partition, SavedKept, Disjoint, Owned
<1> QED
  BY <1>1, AllocateInv, ReleaseInv, CommitInv, RevertInv DEF Next

(* Every sector of the volume is free, in limbo or one owner's, and only   *)
(* one of these: fsys_findfree and back_to_free neither lose nor share.    *)
THEOREM SpaceConserved == Spec => []Partition
<1>1. MapInv => Partition
  BY DEF MapInv
<1> QED
  BY <1>1, InitInv, Inductive, PTL DEF Spec

(* What the volume on the disk owns is never given to another file before  *)
(* the commit ("hold all sectors in limbo until 'sync'").                  *)
THEOREM SavedSpaceKept == Spec => []SavedKept
<1>1. MapInv => SavedKept
  BY DEF MapInv
<1> QED
  BY <1>1, InitInv, Inductive, PTL DEF Spec
=============================================================================
