---------------------------- MODULE JournalSyncInv ----------------------------
(***************************************************************************)
(* The inductive invariant behind the safety properties of JournalSync:    *)
(* what the RAM tables, the journal and the alternates owe each other in   *)
(* every state of a sync and of a mount.                                   *)
(***************************************************************************)
EXTENDS JournalSync

(* Two images agree on an item, sizes and stub marks apart. *)
Same(a, b, i) ==
  /\ i \in Files => a.hdr[i].own = b.hdr[i].own
  /\ i = "ROOT" => a.dir = b.dir
  /\ i = "INDEX" => a.idx = b.idx
  /\ i = "FREE" => a.free = b.free

SameTables(a, b) == a.idx = b.idx /\ a.dir = b.dir /\ a.free = b.free

(* No file of a has a sector that is free, or another file's, in b. *)
Apart(a, b) ==
  /\ \A f \in Files : Owned(a, f) \cap b.free = {}
  /\ \A f, g \in Files : f # g => Owned(a, f) \cap Owned(b, g) = {}

Sound(img) ==
  /\ img.dir = Used(img)
  /\ \A f \in Used(img) : img.idx[f] \cap img.hdr[f].own = {}

(* The alternates differ in headers only, and never over a sector. *)
SavedInv ==
  /\ \A c \in Copies : Sound(Saved(c))
  /\ \A c, d \in Copies : SameTables(Saved(c), Saved(d)) /\ Apart(Saved(c), Saved(d))

RamInv ==
  /\ Sound(ram) /\ Apart(ram, ram)
  /\ limbo \cap ram.free = {}
  /\ \A f \in Files : limbo \cap Owned(ram, f) = {}

(* The saved headers of f may stay as they are in the next commit. *)
Settled(f) ==
  \A c \in Copies :
    /\ Saved(c).idx[f] = ram.idx[f]
    /\ Owned(Saved(c), f) \cap (ram.free \cup limbo) = {}
    /\ \A g \in Files \ {f} : Owned(Saved(c), f) \cap Owned(ram, g) = {}

(* What the next commit has to bring is in the given items. *)
Covered(items) ==
  /\ \A f \in Used(ram) : f \in items \/ Settled(f)
  /\ "ROOT" \in items \/ \A c \in Copies : Saved(c).dir = ram.dir
  /\ "INDEX" \in items \/ \A c \in Copies : Saved(c).idx = ram.idx

NoSavedFree == \A c \in Copies, f \in Files : Owned(Saved(c), f) \cap ram.free = {}

Changed == dirty \cup (IF ibits THEN {"INDEX"} ELSE {})

IdleInv ==
  pc = "IDLE" => /\ ~jbusy
                 /\ wedged \/ (Covered(Changed) /\ NoSavedFree)

(* The journal's records are those of the RAM tables. *)
RecordsInv ==
  pc \in JournalPhases \cup SyncPhases =>
    /\ ~wedged
    /\ \A i \in jhas : Same(jrec, ram, i)
    /\ jhas \subseteq Changed \cup {"FREE"}
    /\ jhas \cap Files \subseteq Used(ram)

(* What is still to be journalled. *)
Pending ==
  CASE pc = "JSYNC_FH_TO_JOU" -> todo \cup (Changed \cap {"INDEX"})
    [] pc = "JSYNC_INDEX_TO_JOU" -> Changed \cap {"INDEX"}
    [] OTHER -> {}

JournalInv ==
  pc \in JournalPhases =>
    /\ ~jbusy
    /\ Covered(jhas \cup Pending)
    /\ pc = "JSYNC_FH_TO_JOU" => todo \subseteq dirty
    /\ IF pc = "JSYNC_MARK_BUSY" THEN "FREE" \in jhas /\ limbo = {}
                                 ELSE NoSavedFree

(* The items alternate c has already got in place. *)
Written(c) ==
  CASE pc = "SYNC_WALK_DIRTY" ->
         IF c < cp THEN Entries ELSE IF c = cp THEN Entries \ todo ELSE {}
    [] pc = "SYNC_UPD_INDEX" -> IF c < cp THEN Items ELSE Entries
    [] pc = "SYNC_UPD_FREE" ->
         IF c < cp THEN Items ELSE IF c = cp THEN Items \ {"FREE"} ELSE Entries
    [] pc = "SYNC_MARK_JCLEAN" -> Items
    [] OTHER -> {}

SyncInv ==
  pc \in SyncPhases =>
    /\ jbusy <=> pc # "SYNC_DONE"
    /\ limbo = {}
    /\ \A c \in Copies : SameTables(Saved(c), ram)
    /\ \A f \in Used(ram) : Settled(f)
    /\ \A c \in Copies : \A i \in jhas \cap Written(c) : Same(disk[c], ram, i)

MountInv ==
  pc \in MountPhases =>
    /\ ~wedged
    /\ pc = "DOWN" => cp = 1
    /\ pc = "MOUNT_RD_FH" => ~jbusy
    /\ pc = "JOU_RD_PROC_JOU" =>
         /\ jbusy /\ todo \subseteq jhas
         /\ cp > 1 => cur \in todo
         /\ \A c \in Copies, i \in jhas :
              i \notin todo \/ (i = cur /\ c < cp) => Same(disk[c], jrec, i)

(* A handle open for writing is on a file that exists. *)
OpenInv == /\ \A f \in Files : open[f] > 0 => f \in Used(ram)
           /\ ~Mounted => Used(ram) = {}

IInv == /\ TypeOK /\ RamInv /\ SavedInv
        /\ IdleInv /\ RecordsInv /\ JournalInv /\ SyncInv /\ MountInv
-----------------------------------------------------------------------------
(* Headers: stub marks, retrieval pointers and sizes.                      *)

(* The saved headers of f have its stub mark and, unless a write to it is  *)
(* still to be recorded, its sectors.                                      *)
HeaderSaved(f) ==
  /\ \A c \in Copies : Saved(c).hdr[f].new = ram.hdr[f].new
  /\ \/ f \in ext \cup upd \/ "write" \in Faults
     \/ \E c \in Copies : ram.hdr[f].own \subseteq Saved(c).hdr[f].own

HeadersCovered(items) == \A f \in Used(ram) \ items : HeaderSaved(f)

HeadersInv ==
  /\ pc = "IDLE" => wedged \/ HeadersCovered(dirty)
  /\ pc \in JournalPhases => HeadersCovered(jhas \cup Pending)
  /\ pc \in SyncPhases => HeadersCovered({})
  /\ pc \in JournalPhases \cup SyncPhases =>
       \A f \in jhas \cap Files : jrec.hdr[f].new = ram.hdr[f].new

(* The alternates of the saved volume agree on who is a stub. *)
StubsInv ==
  \A c \in Copies, f \in Used(Saved(1)) : Saved(c).hdr[f].new = Saved(1).hdr[f].new

(* What a pass has written is what RAM says, but for what writes that      *)
(* completed since have changed and marked.                                *)
InPlaceInv ==
  pc \in SyncPhases =>
    /\ pc = "SYNC_WALK_DIRTY" => todo \subseteq dirty
    /\ \A c \in Copies :
         \A f \in Used(ram) \cap (IF pc = "SYNC_DONE" THEN Items ELSE Written(c)) :
           /\ f \in jhas => disk[c].hdr[f].new = ram.hdr[f].new
           /\ f \in dirty \ upd => disk[c].hdr[f] = ram.hdr[f]

ReplayInv ==
  pc = "JOU_RD_PROC_JOU" =>
    \A c \in Copies, f \in jhas \cap Files :
      f \notin todo \/ (f = cur /\ c < cp) => disk[c].hdr[f] = jrec.hdr[f]

(* Until the first crash the alternates differ in files marked as changed. *)
AgreeInv ==
  crashes = 0 =>
    /\ Mounted
    /\ \A c \in Copies, f \in Used(Saved(1)) \ (upd \cup dirty) :
         ram.idx[f] = Saved(1).idx[f] => disk[1].hdr[f] = disk[c].hdr[f]

HdrInv == /\ HeadersInv /\ StubsInv /\ InPlaceInv /\ ReplayInv
          /\ AgreeInv /\ SizeNotLost
=============================================================================
