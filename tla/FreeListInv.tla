---------------------------- MODULE FreeListInv ----------------------------
(***************************************************************************)
(* What holds of FreeList in every state: the inductive invariant its      *)
(* types and its safety follow from, and what a sync and a crash keep of   *)
(* the sectors.                                                            *)
(***************************************************************************)
EXTENDS FreeList

(* An extent in use, on the volume and off its first sector.               *)
Piece == {e \in Extent : e.start > 0 /\ e.n > 0 /\ End(e) <= MaxLba}

(* An entry of the free list: an extent in use, or an empty one.           *)
Entry == Piece \cup {Null}

(* The entries in use are in order and no two of them touch.               *)
Strict(l) ==
  \A i, j \in DOMAIN l : i < j /\ l[i].n > 0 /\ l[j].n > 0 => End(l[i]) < l[j].start

(* A collapsed list: one empty entry, or none.                             *)
Clean(l) == l = <<Null>> \/ \A j \in DOMAIN l : l[j].n > 0

(* A list of extents that share no sector, in any order.                   *)
Scattered(l) ==
  \A i, j \in DOMAIN l : i # j => SectorsOf(l[i]) \cap SectorsOf(l[j]) = {}

(* A volume in use: its list is in order, counted and within its memory.   *)
VolOK(v) ==
  /\ v \in [free: Seq(Entry), elems: Nat \ {0}, total: Nat]
  /\ Strict(v.free) /\ Len(v.free) <= v.elems
  /\ v.total = Cardinality(Covered(v.free))

-----------------------------------------------------------------------------
(* Sectors of the volume.                                                  *)
Lbas == 1..(MaxLba - 1)

(* The files, the system's among them.                                     *)
Ids == Files \cup System

(* What is known of a file in memory.                                      *)
Heads0 == [lba: Seq(Lbas), rps: [Alts -> Seq(Piece)], clusters: Nat]

(* Those whose copies have no sector twice; a file without headers has     *)
(* nothing.                                                                *)
Heads ==
  {h \in Heads0 : /\ Len(h.lba) <= NAlts /\ \A a \in Alts : Scattered(h.rps[a])
                  /\ h.lba = <<>> => h = NoFile}

(* The files by their identifiers.                                         *)
Table == [Ids -> Heads]

(* The sectors that anyone has.                                            *)
All(o) == UNION {o[x] : x \in Owners}

(* Nobody has a sector twice, or one that is free.                         *)
Alone(D, F, o) ==
  /\ \A x, y \in D : x # y => o[x] \cap o[y] = {}
  /\ \A x \in D : o[x] \cap F = {}

-----------------------------------------------------------------------------
(* A volume: a free list, the files, and what waits in limbo.              *)
Sound(v, fl, m) ==
  /\ VolOK(v) /\ fl \in Table /\ m \in Seq(Piece) /\ Scattered(m)
  /\ Covered(v.free) \cap Covered(m) = {}
  /\ Alone(Owners, Covered(v.free) \cup Covered(m), Uses(fl))
  /\ \A o \in System : fl[o].lba # <<>>

(* The volume on the disk: its list is in order, and no sector has two     *)
(* uses.                                                                   *)
Kept(list, fl) ==
  /\ list \in Seq(Entry) /\ Strict(list)
  /\ fl \in Table /\ Alone(Owners, Covered(list), Uses(fl))
  /\ \A o \in System : fl[o].lba # <<>>

(* The statuses the operations give.                                       *)
Statuses == {"OK", "FULL", "2MNYRP"}

(* The record of the disk has what a commit writes.                        *)
Saved == disk = [free |-> disk.free, file |-> disk.file] /\ Kept(disk.free, disk.file)

(* Between the commit and the end of a sync, memory and disk agree.        *)
Committed ==
  phase = "inplace" =>
    limbo = <<>> /\ file = disk.file /\ Covered(vol.free) = Covered(disk.free)

(* The rest of the state.                                                  *)
Modes == phase \in {"idle", "inplace"} /\ sts \in Statuses /\ torn \in BOOLEAN

(* The inductive invariant: the volume in memory is sound, and so is the   *)
(* one on the disk, which is the same between a commit and the end of a    *)
(* sync.                                                                   *)
IInv == Sound(vol, file, limbo) /\ Saved /\ Committed /\ Modes

-----------------------------------------------------------------------------
(* What the volume on the disk uses is in use in memory or waits in limbo. *)
SavedHeld == \A x \in Owners : Uses(disk.file)[x] \subseteq Uses(file)[x] \cup Covered(limbo)

(* No sector has two uses, in files, in limbo or on the list; and until a  *)
(* commit, no sector that the disk still uses is given away.               *)
NeverShared ==
  /\ \A x, y \in Owners : x # y => Uses(file)[x] \cap Uses(file)[y] = {}
  /\ \A x \in Owners : Uses(file)[x] \cap (Covered(vol.free) \cup Covered(limbo)) = {}
  /\ Covered(vol.free) \cap Covered(limbo) = {}
  /\ SavedHeld

(* No sector is lost on the disk.                                          *)
DiskWhole == All(Uses(disk.file)) \cup Covered(disk.free) = Space

(* Whatever list a mount may read is collapsed: what compute_total_free    *)
(* finds after a gap is lost.                                              *)
CommittedClean == phase = "idle" \/ Crashes => Clean(disk.free)

(* No sector is lost on the disk or in memory.                             *)
Whole ==
  DiskWhole /\ All(Uses(file)) \cup Covered(vol.free) \cup Covered(limbo) = Space
=============================================================================
