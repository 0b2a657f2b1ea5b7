------------------------------ MODULE FreeList ------------------------------
(***************************************************************************)
(* Allocation on one mounted, journalled AGC volume (src/fsys.c): every    *)
(* operation that takes sectors from the free list or gives them back.     *)
(* Each holds the volume mutex from its first look at the list to its last *)
(* change, so each is one action.  A sync is two, on either side of its    *)
(* commit; a mount from what it committed may follow either.               *)
(*                                                                         *)
(* A file is created and closed in one step, so that no header on the disk *)
(* says FSYS_FH_FLAGS_NEW and the mount removes no stub (module            *)
(* JournalSync models those, and truncation).  The index file has room for *)
(* every FID.                                                              *)
(***************************************************************************)
EXTENDS Extents

CONSTANTS
  Files,        \* FIDs of ordinary files
  MaxLba,       \* sectors of the volume
  SysSize,      \* sectors init_file_system gives each system file
  DirExtend,    \* FSYS_DEFAULT_DIR_EXTEND: how the FREE file grows
  CreateSizes,  \* bound: sectors asked for by a create
  GrowSizes,    \* bound: sectors a file grows by (def in wr_ext_file)
  SetSizes,     \* bound: allocations asked for by ioctl_setfh
  MaxClusters,  \* bound: clusters of a file that still grows
  DirSizes,     \* bound: sectors ROOT grows by at a sync, 0 if it does not
  JournSizes,   \* bound: sectors the journal grows by at a sync, 0 likewise
  Crashes       \* whether the volume may go down in the middle of a sync

System == {"INDEX", "FREE", "ROOT", "JOURN"}
NAlts == Len(Area)

ASSUME FilesAssumption == Files \cap System = {}
ASSUME WordAssumption == 2 * MaxLba < Word - 2
ASSUME VolumeAssumption ==
  /\ MaxLba \in Nat /\ \A i \in DOMAIN Home : Home[i] < MaxLba
  /\ SysSize \in [System -> Nat \ {0}]
  /\ Crashes \in BOOLEAN
ASSUME SizesAssumption ==
  /\ DirExtend \in Nat /\ MaxClusters \in Nat
  /\ \A S \in {CreateSizes, GrowSizes, SetSizes, DirSizes, JournSizes} : S \subseteq Nat

VARIABLES
  vol,    \* vol->free, free_elems, total_free_clusters
  file,   \* file headers: the LBAs in the index, ramrp, clusters
  limbo,  \* vol->limbo, in the order a sync walks it
  disk,   \* the free list and the headers as last committed
  phase,  \* "idle", or "inplace" from the commit to the end of a sync
  sts,    \* status of the last operation
  torn    \* back_to_free had the FREE file extended under its feet

vars == <<vol, file, limbo, disk, phase, sts, torn>>

NoFile == [lba |-> <<>>, rps |-> [a \in Alts |-> <<>>], clusters |-> 0]
Exists(f) == file[f].lba # <<>>
HasCopies(rps) == {a \in Alts : rps[a] # <<>>}

(* A header whose copies are rps, of n clusters.                           *)
Holding(h, rps, n) == [h EXCEPT !.rps = rps, !.clusters = n]

(* Everything a file gives back: its pointers, copy by copy, and its       *)
(* headers (blast_fid_from_index).                                         *)
Sector(lba) == [start |-> lba, n |-> 1]
Concat(l, m) == l \o m
Pointers(h) == FoldLeft(Concat, <<>>, h.rps)
Freed(h) == Pointers(h) \o [a \in DOMAIN h.lba |-> Sector(h.lba[a])]

(***************************************************************************)
(* init_file_system and the first mount.                                   *)
(***************************************************************************)
Take(s, n, a) == FindFree(s.free, MaxLba, n, 0, Area[a])

FormatHeader(s, o, a) ==
  LET found == Take(s, 1, a)
  IN  [free |-> found.free,
       file |-> [s.file EXCEPT ![o].lba = Append(@, found.ans.start)],
       ok |-> s.ok /\ found.ans # Null]

(* fsys_mkalloc, for a volume with room for each file in one piece.        *)
FormatData(s, o, a) ==
  LET found == Take(s, SysSize[o], a)
  IN  [free |-> found.free,
       file |-> [s.file EXCEPT
                   ![o] = Holding(@, [@.rps EXCEPT ![a] = <<found.ans>>], SysSize[o])],
       ok |-> s.ok /\ found.ans.n = SysSize[o]]

FormatFile(s, o, a) == FormatData(FormatHeader(s, o, a), o, a)

(* The journal has a header in every area, and one copy.                   *)
FormatArea(s, a) ==
  LET three == FormatFile(FormatFile(FormatFile(s, "INDEX", a), "FREE", a), "ROOT", a)
  IN  IF a = 1 THEN FormatFile(three, "JOURN", a) ELSE FormatHeader(three, "JOURN", a)

Formatted ==
  FoldLeft(FormatArea,
           [free |-> MkFreelist(MaxLba), file |-> [f \in Files \cup System |-> NoFile],
            ok |-> TRUE],
           AllAlts)
Format == [free |-> Formatted.free, file |-> Formatted.file]

ASSUME FormatAssumption == Formatted.ok

Mounted(list) ==
  LET read == ReadFree(list)
  IN  [free |-> read, elems |-> Chunk * (CeilDiv(Len(list), Chunk) + 1),
       total |-> Amount(read)]

Init ==
  /\ disk = Format
  /\ vol = Mounted(Format.free) /\ file = Format.file
  /\ limbo = <<>> /\ phase = "idle" /\ sts = "OK" /\ torn = FALSE

(***************************************************************************)
(* fcreate_q, for a name that does not exist.  A list with free sectors    *)
(* always has one for a header when none of the areas has.                 *)
(***************************************************************************)
FindHeader(v, a) ==
  LET near == FindFree(v.free, v.elems, 1, 0, Area[a])
  IN  IF near.ans.start # 0 THEN near ELSE FindFree(v.free, v.elems, 1, 0, 0)

AddHeaderUncounted(s, found) ==   \* the header sectors are not counted
  [v |-> [s.v EXCEPT !.free = found.free], lba |-> Append(s.lba, found.ans.start)]

AddHeader(s, found) ==
  [v |-> [s.v EXCEPT !.free = found.free, !.total = @ - 1],
   lba |-> Append(s.lba, found.ans.start)]

HeaderStep(s, a) == AddHeader(s, FindHeader(s.v, a))

Create(f, n, copies) ==
  LET hdrs == FoldLeft(HeaderStep, [v |-> vol, lba |-> <<>>], AllAlts)
      x == ExtendCopies(hdrs.v, NoFile.rps, 1..copies, n)
      new == [lba |-> hdrs.lba, rps |-> x.rps, clusters |-> n]
  IN  /\ phase = "idle" /\ ~Exists(f)
      /\ vol.total >= NAlts + 1 /\ vol.total >= n * copies
      /\ vol' = x.v /\ sts' = x.sts
      /\ IF x.sts = "OK"
         THEN file' = [file EXCEPT ![f] = new] /\ UNCHANGED limbo
         ELSE limbo' = Freed(new) \o limbo /\ UNCHANGED file     \* zap_file
      /\ UNCHANGED <<disk, phase, torn>>

(* delete_q, zap_file, blast_fid_from_index, rps_to_limbo.                 *)
Delete(f) ==
  /\ phase = "idle" /\ Exists(f)
  /\ file' = [file EXCEPT ![f] = NoFile]
  /\ limbo' = Freed(file[f]) \o limbo
  /\ sts' = "OK"
  /\ UNCHANGED <<vol, disk, phase, torn>>

(* Nothing happens but the status.                                         *)
Refuse(status) == sts' = status /\ UNCHANGED <<vol, file, limbo, disk, phase, torn>>

(***************************************************************************)
(* wr_ext_file: a write past the end extends every copy the file has.      *)
(* clusters counts the extension even when a copy could not have it.       *)
(***************************************************************************)
Grow(f, def) ==
  LET alts == HasCopies(file[f].rps)
      x == ExtendCopies(vol, file[f].rps, alts, def)
  IN  /\ phase = "idle" /\ Exists(f) /\ file[f].clusters < MaxClusters
      /\ IF def * NAlts >= vol.total /\ def * Cardinality(alts) >= vol.total
         THEN Refuse("FULL")
         ELSE /\ vol' = x.v /\ sts' = x.sts
              /\ file' = [file EXCEPT ![f] = Holding(@, x.rps, @.clusters + def)]
              /\ UNCHANGED <<limbo, disk, phase, torn>>

(***************************************************************************)
(* ioctl_setfh, FSYS_FHFIELDS_COPIES and FSYS_FHFIELDS_ALLOC: more copies  *)
(* of the file, then a larger allocation for all of them.  The status of   *)
(* an extension that failed is overwritten by success.                     *)
(***************************************************************************)
SetFH(f, copies, alloc) ==
  LET had == Cardinality(HasCopies(file[f].rps))
      has == Max({had, copies})
      def == alloc - file[f].clusters
      more == ExtendCopies(vol, file[f].rps, (had + 1)..copies, file[f].clusters)
      full == def * has >= more.v.total
      x == IF more.sts # "OK" \/ def <= 0 \/ full THEN more
           ELSE ExtendCopies(more.v, more.rps, 1..has, def)
  IN  /\ phase = "idle" /\ Exists(f)
      /\ copies > had \/ def > 0
      /\ vol' = x.v
      /\ sts' = IF more.sts # "OK" THEN more.sts
                ELSE IF def > 0 /\ full THEN "FULL" ELSE "OK"
      /\ file' = [file EXCEPT
                    ![f] = Holding(@, x.rps, IF more.sts = "OK" /\ def > 0 /\ ~full
                                             THEN alloc ELSE @.clusters)]
      /\ UNCHANGED <<limbo, disk, phase, torn>>

(***************************************************************************)
(* size_journal, in its three parts: ROOT (adj_dir_size, which counts the  *)
(* extension once for each copy), the FREE file, made large enough for the *)
(* list with all of limbo in it, and the journal.                          *)
(***************************************************************************)
SizeRoot(s, def) ==
  LET x == ExtendCopies(s.v, s.file["ROOT"].rps, HasCopies(s.file["ROOT"].rps), def)
  IN  IF def = 0 THEN s
      ELSE IF def * NAlts >= s.v.total THEN [s EXCEPT !.sts = "FULL"]
      ELSE [v |-> x.v, sts |-> x.sts,
            file |-> [s.file EXCEPT
                        !["ROOT"] = Holding(@, x.rps, @.clusters + x.done * def)]]

(* Extend system file f by def, and count it only if every copy has it.    *)
Counted(s, f, def, x) ==
  [v |-> x.v, sts |-> x.sts,
   file |-> [s.file EXCEPT
               ![f] = Holding(@, x.rps, @.clusters + (IF x.sts = "OK" THEN def ELSE 0))]]
SizeSystem(s, f, def) ==
  Counted(s, f, def,
          ExtendCopies(s.v, s.file[f].rps, HasCopies(s.file[f].rps), def))

(* The free list, limbo, and the tag of the record, as long as one extent. *)
FreeNeedNow(v) == CeilDiv(Len(v.free) + 1, Chunk)      \* without limbo
FreeNeed(v) == CeilDiv(Len(v.free) + Len(limbo) + 1, Chunk)

SizeFree(s) ==
  LET has == s.file["FREE"].clusters
      def == Max({DirExtend, FreeNeed(s.v) - has})
  IN  IF s.sts # "OK" \/ FreeNeed(s.v) <= has THEN s
      ELSE IF def * NAlts >= s.v.total THEN [s EXCEPT !.sts = "FULL"]
      ELSE SizeSystem(s, "FREE", def)

(* The journal has one copy; "full" is what any failure is called.         *)
SizeJourn(s, def) ==
  LET orFull(x) == IF x.sts = "OK" THEN x ELSE [x EXCEPT !.sts = "FULL"]
  IN  IF s.sts # "OK" \/ def = 0 THEN s
      ELSE IF def >= s.v.total THEN [s EXCEPT !.sts = "FULL"]
      ELSE orFull(SizeSystem(s, "JOURN", def))

SizeJournal(rdef, jdef) ==
  SizeJourn(SizeFree(SizeRoot([v |-> vol, file |-> file, sts |-> "OK"], rdef)), jdef)

(* JSYNC_FREE_FH_TO_JOU: limbo back on the free list.                      *)
FlushStep(x, rp) ==
  LET put(b) == [x EXCEPT !.v = b.v, !.torn = @ \/ b.torn]
  IN  put(BackToFree(x.v, rp, x.clusters))

Flush(s) ==
  LET x == [v |-> s.v, clusters |-> s.file["FREE"].clusters, torn |-> FALSE]
      collapsed(y) == [y EXCEPT !.v.free = CollapseFree(@)]
  IN  IF limbo = <<>> THEN x ELSE collapsed(FoldLeft(FlushStep, x, limbo))

(* A sync up to the busy mark (fsys_jou_q): what is journalled is the      *)
(* volume.  When the files cannot be made large enough, the sync ends.     *)
Journalled(s, x) ==
  /\ vol' = x.v /\ limbo' = <<>> /\ phase' = "inplace"
  /\ torn' = (torn \/ x.torn)
  /\ disk' = [free |-> x.v.free, file |-> s.file]

Sized(s) ==
  /\ file' = s.file /\ sts' = s.sts
  /\ IF s.sts # "OK"
     THEN vol' = s.v /\ UNCHANGED <<limbo, disk, phase, torn>>
     ELSE Journalled(s, Flush(s))

SyncCommit(rdef, jdef) == phase = "idle" /\ Sized(SizeJournal(rdef, jdef))

(* fsys_sync_q: the list is collapsed again before it is written in place. *)
SyncInPlace ==
  /\ phase = "inplace" /\ phase' = "idle"
  /\ vol' = [vol EXCEPT !.free = CollapseFree(@)]
  /\ disk' = [disk EXCEPT !.free = CollapseFree(vol.free)]
  /\ sts' = "OK"
  /\ UNCHANGED <<file, limbo, torn>>

(* The volume goes down and is mounted again: by replay of the journal if  *)
(* phase is "inplace".                                                     *)
Mount ==
  /\ phase = "idle" \/ Crashes
  /\ vol' = Mounted(disk.free) /\ file' = disk.file
  /\ limbo' = <<>> /\ phase' = "idle" /\ sts' = "OK"
  /\ UNCHANGED <<disk, torn>>

Next ==
  \/ \E f \in Files :
       \/ \E n \in CreateSizes, c \in Alts : Create(f, n, c)
       \/ Delete(f)
       \/ \E n \in GrowSizes : Grow(f, n)
       \/ \E c \in Alts, n \in SetSizes : SetFH(f, c, n)
  \/ \E r \in DirSizes, j \in JournSizes : SyncCommit(r, j)
  \/ SyncInPlace
  \/ Mount

Spec == Init /\ [][Next]_vars
-----------------------------------------------------------------------------
(***************************************************************************)
(* Properties.                                                             *)
(***************************************************************************)
Extent == [start: 0..MaxLba, n: 0..MaxLba]
Header == [lba: Seq(1..MaxLba), rps: [Alts -> Seq(Extent)], clusters: Nat]

(* The variables keep their types.                                         *)
TypeOK ==
  /\ vol.free \in Seq(Extent) /\ vol.elems \in Nat /\ vol.total \in 0..MaxLba
  /\ file \in [Files \cup System -> Header]
  /\ limbo \in Seq(Extent)
  /\ disk.free \in Seq(Extent) /\ disk.file \in [Files \cup System -> Header]
  /\ phase \in {"idle", "inplace"} /\ sts \in {"OK", "FULL", "2MNYRP"}
  /\ torn \in BOOLEAN

(* The entries in use are in order and no two touch or overlap, whatever   *)
(* the last operation did (back_to_free: "insertions are maintained in a   *)
(* sorted list"): a search that stops at the first fit relies on it, and   *)
(* so does the mount.                                                      *)
Separated ==
  \A i, j \in DOMAIN vol.free :
    i < j /\ vol.free[i].n > 0 /\ vol.free[j].n > 0
      => End(vol.free[i]) < vol.free[j].start

(* total_free_clusters, which guards every allocation, is the number of    *)
(* sectors on the free list.                                               *)
TotalRight == vol.total = Amount(vol.free)

(* The list never outgrows the memory it has: fsys_findfree splits an      *)
(* entry without making room, and back_to_free makes it first.             *)
RoomLeft == Len(vol.free) <= vol.elems

(* The list as it was committed fits the FREE file of the same commit, in  *)
(* each copy, so that no mount loses the end of it.                        *)
FreeFileHolds ==
  \A a \in Alts : Len(disk.free) <= Chunk * Amount(disk.file["FREE"].rps[a])

(* size_journal makes the FREE file large enough before limbo goes back on *)
(* the list: back_to_free never has to extend that file, out of the list   *)
(* it is about to insert into.                                             *)
NeverTorn == ~torn

(* The sectors a volume uses, by their owner: each header and each copy of *)
(* each file.                                                              *)
Owners == (Files \cup System) \X {"hdr", "data"} \X Alts
Uses(h) == [o \in Owners |->
  IF o[2] = "data" THEN Covered(h[o[1]].rps[o[3]])
  ELSE IF o[3] \in DOMAIN h[o[1]].lba THEN {h[o[1]].lba[o[3]]} ELSE {}]
Space == Covered(MkFreelist(MaxLba))

Map == INSTANCE SpaceMap WITH
  free <- Covered(vol.free), limbo <- Covered(limbo),
  own <- Uses(file), saved <- Uses(disk.file)

(* Every operation, sync and mount is an allocation, a release, a commit   *)
(* or a revert of the map of the disk: no sector is lost or used twice,    *)
(* and none the volume on the disk still uses is given away.               *)
ConservesSpace == Map!Spec

(* Every copy of a file that became longer was given the sectors that      *)
(* clusters went up by, and a new copy all of clusters.                    *)
Grown ==
  \A f \in Files, a \in Alts :
    LET old == file[f].rps[a]  new == file'[f].rps[a]
    IN  /\ new # <<>> /\ new # old
        /\ file'[f] # disk.file[f]
        => Amount(new) - Amount(old)
             = file'[f].clusters - (IF old = <<>> THEN 0 ELSE file[f].clusters)

RaisesAlloc == \E f \in Files, c \in Alts, n \in SetSizes : n > file[f].clusters /\ SetFH(f, c, n)

=============================================================================
