----------------------------- MODULE JournalSync -----------------------------
(***************************************************************************)
(* The journalled sync of one mounted AGC volume (src/fsys.c): operations  *)
(* change the RAM copy of the metadata under the volume mutex, fsys_jou_q  *)
(* writes the changed metadata to the journal and marks it busy,           *)
(* fsys_sync_q copies it in place to every alternate and marks the journal *)
(* clean, and the next mount replays a busy journal (proc_jou_file).       *)
(*                                                                         *)
(* The metadata is a set of items: the header of each file, the root       *)
(* directory (its header and contents), the index file and the free list.  *)
(* Sectors are opaque: a file owns the sectors its index entry names (its  *)
(* headers) and those its retrieval pointers name (its data).  Writes      *)
(* reach the disk in the order they were issued: a crash is the end of the *)
(* process, not of the power.                                              *)
(***************************************************************************)
EXTENDS Integers, FiniteSets

CONSTANTS
  Files,      \* FIDs of ordinary files
  Sectors,    \* sectors outside the system files
  NCopies,    \* FSYS_MAX_ALTS: alternates of every metadata item
  HdrSects,   \* sectors the headers of one file take
  MaxExtent,  \* bound: sectors one allocation takes
  MaxSize,    \* bound: file size, in writes that grew the file
  MaxHandles, \* bound: handles open for writing on one file
  MaxOps,     \* bound: operations in a behaviour
  MaxCrash,   \* bound: crashes in a behaviour
  Faults      \* failures the environment may inject

System == {"ROOT", "INDEX", "FREE"}
FaultKinds == {"extend", "truncate", "write", "journal"}

ASSUME FilesAssumption == Files \cap System = {}
ASSUME BoundsAssumption ==
  /\ NCopies \in Nat \ {0} /\ HdrSects \in Nat \ {0}
  /\ MaxExtent \in Nat /\ MaxSize \in Nat /\ MaxHandles \in Nat \ {0}
  /\ MaxOps \in Nat /\ MaxCrash \in Nat
ASSUME FaultsAssumption == Faults \subseteq FaultKinds

Copies == 1..NCopies
Items == Files \cup System
Entries == Files \cup {"ROOT"}       \* what the dirty list may name

(* A file header: its retrieval pointers, its size, FSYS_FH_FLAGS_NEW.     *)
Headers == [own: SUBSET Sectors, size: 0..MaxSize, new: BOOLEAN]
NoHeader == [own |-> {}, size |-> 0, new |-> FALSE]
NewHeader(S) == [own |-> S, size |-> 0, new |-> TRUE]

(* All the metadata of a volume.  idx[f] = {} is an EMPTY index entry.     *)
Images == [idx: [Files -> SUBSET Sectors], dir: SUBSET Files,
           hdr: [Files -> Headers], free: SUBSET Sectors]
NoImage == [idx |-> [f \in Files |-> {}], dir |-> {},
            hdr |-> [f \in Files |-> NoHeader], free |-> {}]
Fresh == [NoImage EXCEPT !.free = Sectors]

VARIABLES
  ram,     \* the RAM copy of the metadata (files, index, free, directory)
  limbo,   \* vol->limbo: sectors freed since the last commit
  dirty,   \* vol->dirty
  ibits,   \* some bit of vol->index_bits is set
  upd,     \* files with fh_upd set
  open,    \* how many handles each file has that are open for writing
  ext,     \* open files that a write has extended and is still running on
  late,    \* FIDs whose file was deleted under such a write
  disk,    \* each alternate of each item, in place
  jrec,    \* the journal's records
  jhas,    \* the items the journal holds a record of
  jbusy,   \* journal sector 0 is not zero
  pc,      \* state of the sync or of the mount
  cp,      \* syn->alts: the alternate being written
  todo,    \* what is left of the pass
  cur,     \* the item the replay is writing
  wedged,  \* a journal write failed: syn->state is stuck
  ops, crashes  \* how much of the bounds is used

mem     == <<ram, limbo, dirty, ibits, upd, open, ext, late>>
media   == <<disk, jrec, jhas, jbusy>>
control == <<pc, cp, todo, cur>>
counts  == <<ops, crashes>>
vars    == <<mem, media, control, wedged, counts>>

JournalPhases == {"JSYNC_FH_TO_JOU", "JSYNC_INDEX_TO_JOU",
                  "JSYNC_FREE_FH_TO_JOU", "JSYNC_MARK_BUSY"}
SyncPhases == {"JSYNC_DONE", "SYNC_WALK_DIRTY", "SYNC_UPD_INDEX",
               "SYNC_UPD_FREE", "SYNC_MARK_JCLEAN", "SYNC_DONE"}
MountPhases == {"DOWN", "JOU_RD_PROC_JOU", "JOU_WR_ZAP", "MOUNT_RD_FH"}
Phases == {"IDLE"} \cup JournalPhases \cup SyncPhases \cup MountPhases
Mounted == pc \notin MountPhases

-----------------------------------------------------------------------------
(* What an image says.                                                     *)

Used(img) == {f \in Files : img.idx[f] # {}}
Owned(img, f) == IF img.idx[f] = {} THEN {} ELSE img.idx[f] \cup img.hdr[f].own
AllOwned(img) == UNION {Owned(img, f) : f \in Files}

(* img with item i taken from src: one metadata write.                     *)
With(img, src, i) ==
  CASE i = "ROOT"  -> [img EXCEPT !.dir = src.dir]
    [] i = "INDEX" -> [img EXCEPT !.idx = src.idx]
    [] i = "FREE"  -> [img EXCEPT !.free = src.free]
    [] OTHER       -> [img EXCEPT !.hdr[i] = src.hdr[i]]

(* img with every item the journal holds taken from the journal.           *)
Replayed(img) ==
  [idx  |-> IF "INDEX" \in jhas THEN jrec.idx ELSE img.idx,
   dir  |-> IF "ROOT" \in jhas THEN jrec.dir ELSE img.dir,
   hdr  |-> [f \in Files |-> IF f \in jhas THEN jrec.hdr[f] ELSE img.hdr[f]],
   free |-> IF "FREE" \in jhas THEN jrec.free ELSE img.free]

(* The volume a mount would find in alternate c after a crash now.         *)
Saved(c) == IF jbusy THEN Replayed(disk[c]) ELSE disk[c]

-----------------------------------------------------------------------------
(* Definitions marked "mutant" are not part of the specification: each is  *)
(* a plausible bug in the definition after it, for the properties to find. *)

Init ==
  /\ ram = Fresh /\ limbo = {} /\ dirty = {} /\ ibits = FALSE
  /\ upd = {} /\ open = [f \in Files |-> 0] /\ ext = {} /\ late = {}
  /\ disk = [c \in Copies |-> Fresh]
  /\ jrec = NoImage /\ jhas = {} /\ jbusy = FALSE
  /\ pc = "IDLE" /\ cp = 1 /\ todo = {} /\ cur = "ROOT"
  /\ wedged = FALSE /\ ops = 0 /\ crashes = 0

(* An operation that needs the volume mutex: the sync does not hold it.    *)
Operation == /\ pc = "IDLE" /\ ops < MaxOps
             /\ ops' = ops + 1
             /\ UNCHANGED <<media, control, wedged, crashes>>

Blocks(n) == {S \in SUBSET ram.free : Cardinality(S) = n}
Extents == UNION {Blocks(n) : n \in 1..MaxExtent}

(* fcreate_q, no such file: get_fh, a sector for each header, one extent,  *)
(* and the name in its directory.                                          *)
Create(f, H, S) ==
  /\ Operation
  /\ f \notin Used(ram) /\ H \cap S = {}
  /\ ram' = [idx  |-> [ram.idx EXCEPT ![f] = H],
             dir  |-> ram.dir \cup {f},
             hdr  |-> [ram.hdr EXCEPT ![f] = NewHeader(S)],
             free |-> ram.free \ (H \cup S)]
  /\ dirty' = dirty \cup {f, "ROOT"} /\ ibits' = TRUE
  /\ upd' = upd \cup {f} /\ open' = [open EXCEPT ![f] = 1]
  /\ UNCHANGED <<limbo, ext, late>>

(* mutant: the header sectors are not given back *)
CreateFails_KeepsHeaders(f, H, S) ==
  /\ "extend" \in Faults
  /\ Operation
  /\ f \notin Used(ram) /\ H \cap S = {}
  /\ ram' = [idx  |-> ram.idx, dir |-> ram.dir,
             hdr  |-> [ram.hdr EXCEPT ![f] = NoHeader],
             free |-> ram.free \ (H \cup S)]
  /\ limbo' = limbo \cup S
  /\ dirty' = dirty \cup {f, "ROOT"} /\ ibits' = TRUE
  /\ upd' = upd \ {f}
  /\ UNCHANGED <<open, ext, late>>

(* The same when extend_file fails after taking S: zap_file.               *)
CreateFails(f, H, S) ==
  /\ "extend" \in Faults
  /\ Operation
  /\ f \notin Used(ram) /\ H \cap S = {}
  /\ ram' = [idx  |-> ram.idx, dir |-> ram.dir,
             hdr  |-> [ram.hdr EXCEPT ![f] = NoHeader],
             free |-> ram.free \ (H \cup S)]
  /\ limbo' = limbo \cup H \cup S
  /\ dirty' = dirty \cup {f, "ROOT"} /\ ibits' = TRUE
  /\ upd' = upd \ {f}
  /\ UNCHANGED <<open, ext, late>>

(* mutant: the old data goes straight back to the free list                *)
Truncate_FreesAtOnce(f, S) ==
  /\ Operation
  /\ f \in Used(ram) /\ open[f] < MaxHandles
  /\ ram' = [idx  |-> ram.idx, dir |-> ram.dir,
             hdr  |-> [ram.hdr EXCEPT ![f] = NewHeader(S)],
             free |-> (ram.free \cup ram.hdr[f].own) \ S]
  /\ dirty' = dirty \cup {f}
  /\ upd' = upd \cup {f} /\ open' = [open EXCEPT ![f] = @ + 1]
  /\ UNCHANGED <<limbo, ibits, ext, late>>

(* fcreate_q on an old file: its data goes to limbo, its header is reset.  *)
Truncate(f, S) ==
  /\ Operation
  /\ f \in Used(ram) /\ open[f] < MaxHandles
  /\ ram' = [idx  |-> ram.idx, dir |-> ram.dir,
             hdr  |-> [ram.hdr EXCEPT ![f] = NewHeader(S)],
             free |-> ram.free \ S]
  /\ limbo' = limbo \cup ram.hdr[f].own
  /\ dirty' = dirty \cup {f}
  /\ upd' = upd \cup {f} /\ open' = [open EXCEPT ![f] = @ + 1]
  /\ UNCHANGED <<ibits, ext, late>>

(* The same when extend_file fails: zap_file removes the file, and the old *)
(* sectors, held in fl, are forgotten ("nevermind about these").           *)
TruncateFails(f, S) ==
  /\ "truncate" \in Faults
  /\ Operation
  /\ f \in Used(ram)
  /\ ram' = [idx  |-> [ram.idx EXCEPT ![f] = {}],
             dir  |-> ram.dir \ {f},
             hdr  |-> [ram.hdr EXCEPT ![f] = NoHeader],
             free |-> ram.free \ S]
  /\ limbo' = limbo \cup ram.idx[f] \cup S
  /\ dirty' = dirty \cup {f, "ROOT"} /\ ibits' = TRUE
  /\ upd' = upd \ {f} /\ open' = [open EXCEPT ![f] = 0]
  /\ ext' = ext \ {f} /\ late' = late \cup (ext \cap {f})

(* delete_q: zap_file and blast_fid_from_index.                            *)
Delete(f) ==
  /\ Operation
  /\ f \in Used(ram)
  /\ ram' = [idx  |-> [ram.idx EXCEPT ![f] = {}],
             dir  |-> ram.dir \ {f},
             hdr  |-> [ram.hdr EXCEPT ![f] = NoHeader],
             free |-> ram.free]
  /\ limbo' = limbo \cup Owned(ram, f)
  /\ dirty' = dirty \cup {"ROOT"} /\ ibits' = TRUE
  /\ upd' = upd \ {f} /\ open' = [open EXCEPT ![f] = 0]
  /\ ext' = ext \ {f} /\ late' = late \cup (ext \cap {f})

(* fopen_q for writing.  Write-only without append moves the EOF mark.     *)
Open(f, size) ==
  /\ Operation
  /\ f \in Used(ram) /\ open[f] < MaxHandles
  /\ size \in {0, ram.hdr[f].size}
  /\ ram' = [ram EXCEPT !.hdr[f].size = size]
  /\ open' = [open EXCEPT ![f] = @ + 1]
  /\ UNCHANGED <<limbo, dirty, ibits, upd, ext, late>>

(* fsys_qwrite, state 3: the write runs off the mapped sectors, gets the   *)
(* volume mutex, extends the file and frees the mutex before the I/O.      *)
Extend(f, S) ==
  /\ Operation
  /\ open[f] > 0 /\ f \notin ext /\ ram.hdr[f].size < MaxSize
  /\ ram' = [idx  |-> ram.idx, dir |-> ram.dir,
             hdr  |-> [ram.hdr EXCEPT ![f].own = @ \cup S],
             free |-> ram.free \ S]
  /\ ext' = ext \cup {f}
  /\ UNCHANGED <<limbo, dirty, ibits, upd, open, late>>

(* add_to_dirty: an entry that is new goes to the end of the list, so the  *)
(* pass over the list that is running reaches it too.                      *)
AddToDirty(f) ==
  /\ dirty' = dirty \cup {f}
  /\ todo' = IF f \notin dirty /\ pc \in {"JSYNC_FH_TO_JOU", "SYNC_WALK_DIRTY"}
             THEN todo \cup {f} ELSE todo

(* fsys_write_done when the size grew.  It holds the file's mutex only, so *)
(* it runs between any two steps of a sync; it looks the header up by FID  *)
(* alone, so a write that outlived its file grows whatever is there.       *)
WriteDone(f) ==
  /\ Mounted /\ (open[f] > 0 \/ f \in late) /\ ram.hdr[f].size < MaxSize
  /\ ram' = [ram EXCEPT !.hdr[f].size = @ + 1]
  /\ upd' = upd \cup {f}
  /\ AddToDirty(f)
  /\ IF f \in late THEN late' = late \ {f} /\ ext' = ext
                   ELSE late' = late /\ ext' = ext \ {f}
  /\ UNCHANGED <<limbo, ibits, open, media, pc, cp, cur, wedged, counts>>

(* fsys_write_done when it did not grow: inside the file, or it failed.    *)
WriteFails(f) ==
  /\ "write" \in Faults
  /\ Mounted /\ f \in ext \cup late
  /\ ext' = ext \ {f} /\ late' = late \ {f}
  /\ UNCHANGED <<ram, limbo, dirty, ibits, upd, open, media, control, wedged,
                 counts>>

(* fsys_close_upd: behind the handle's own writes, under the volume mutex. *)
Close(f) ==
  /\ Operation
  /\ open[f] > (IF f \in ext THEN 1 ELSE 0)
  /\ open' = [open EXCEPT ![f] = @ - 1]
  /\ IF f \in upd
       THEN /\ dirty' = dirty \cup {f} /\ upd' = upd \ {f}
            /\ ram' = [ram EXCEPT !.hdr[f].new = FALSE]
       ELSE UNCHANGED <<dirty, upd, ram>>
  /\ UNCHANGED <<limbo, ibits, ext, late>>

-----------------------------------------------------------------------------
(* fsys_jou_q: the changed items go to the journal, then sector 0 is set.  *)

(* fsys_sync: nothing to do unless the dirty list has an entry.            *)
SyncStart ==
  /\ pc = "IDLE" /\ dirty # {} /\ ~wedged
  /\ pc' = "JSYNC_FH_TO_JOU" /\ todo' = dirty /\ cp' = 1
  /\ jhas' = {} /\ jrec' = NoImage
  /\ UNCHANGED <<mem, disk, jbusy, cur, wedged, counts>>

(* mutant: dirty index sectors are not journalled *)
Journal_NoIndex(i) ==
  IF i = "INDEX" THEN UNCHANGED <<jhas, jrec>>
                 ELSE jhas' = jhas \cup {i} /\ jrec' = With(jrec, ram, i)

Journal(i) == jhas' = jhas \cup {i} /\ jrec' = With(jrec, ram, i)

Skipped(i) == i \in Files /\ i \notin Used(ram)     \* "it isn't valid anymore"

(* jsyn_wr_fh and jsyn_wr_dir for one entry of the dirty list.             *)
JournalEntry(i) ==
  /\ pc = "JSYNC_FH_TO_JOU" /\ i \in todo
  /\ todo' = todo \ {i}
  /\ IF Skipped(i) THEN UNCHANGED <<jhas, jrec>> ELSE Journal(i)
  /\ UNCHANGED <<mem, disk, jbusy, pc, cp, cur, wedged, counts>>

JournalEntriesDone ==
  /\ pc = "JSYNC_FH_TO_JOU" /\ todo = {}
  /\ pc' = "JSYNC_INDEX_TO_JOU"
  /\ UNCHANGED <<mem, media, cp, todo, cur, wedged, counts>>

JournalIndex ==
  /\ pc = "JSYNC_INDEX_TO_JOU"
  /\ IF ibits THEN Journal("INDEX") ELSE UNCHANGED <<jhas, jrec>>
  /\ pc' = "JSYNC_FREE_FH_TO_JOU"
  /\ UNCHANGED <<mem, disk, jbusy, cp, todo, cur, wedged, counts>>

(* mutant: the list is journalled before limbo is put back on it *)
JournalFree_TooEarly ==
  /\ pc = "JSYNC_FREE_FH_TO_JOU"
  /\ ram' = [ram EXCEPT !.free = @ \cup limbo]
  /\ limbo' = {}
  /\ Journal("FREE")
  /\ pc' = "JSYNC_MARK_BUSY"
  /\ UNCHANGED <<dirty, ibits, upd, open, ext, late, disk, jbusy, cp, todo,
                 cur, wedged, counts>>

(* Limbo is put back on the free list, and the whole list is journalled.   *)
JournalFree ==
  /\ pc = "JSYNC_FREE_FH_TO_JOU"
  /\ ram' = [ram EXCEPT !.free = @ \cup limbo]
  /\ limbo' = {}
  /\ jhas' = jhas \cup {"FREE"} /\ jrec' = With(jrec, ram', "FREE")
  /\ pc' = "JSYNC_MARK_BUSY"
  /\ UNCHANGED <<dirty, ibits, upd, open, ext, late, disk, jbusy, cp, todo,
                 cur, wedged, counts>>

(* JSYNC_MARK_BUSY and JSYNC_MARK_BUSY_COMPL: the commit.                  *)
MarkBusy ==
  /\ pc = "JSYNC_MARK_BUSY"
  /\ jbusy' = TRUE
  /\ pc' = "JSYNC_DONE"
  /\ UNCHANGED <<mem, disk, jrec, jhas, cp, todo, cur, wedged, counts>>

(* A journal write fails: the mutex is freed, and syn->state is left at    *)
(* JSYNC_WR_COMPL with the error, where every later sync finds it.         *)
JournalError ==
  /\ "journal" \in Faults
  /\ pc \in JournalPhases
  /\ pc' = "IDLE" /\ todo' = {} /\ cp' = 1 /\ wedged' = TRUE
  /\ jhas' = {} /\ jrec' = NoImage
  /\ UNCHANGED <<mem, disk, jbusy, cur, counts>>

-----------------------------------------------------------------------------
(* fsys_sync_q: the same items in place, one alternate after the other.    *)

JournalDone ==                  \* the sync() of JSYNC_DONE, then SYNC_BEGIN
  /\ pc = "JSYNC_DONE"
  /\ pc' = "SYNC_WALK_DIRTY" /\ cp' = 1 /\ todo' = dirty
  /\ UNCHANGED <<mem, media, cur, wedged, counts>>

(* mutant: every pass writes the first alternate *)
InPlace_FirstCopy(i) == disk' = [disk EXCEPT ![1] = With(@, ram, i)]

InPlace(i) == disk' = [disk EXCEPT ![cp] = With(@, ram, i)]

WriteEntry(i) ==
  /\ pc = "SYNC_WALK_DIRTY" /\ i \in todo
  /\ todo' = todo \ {i}
  /\ IF Skipped(i) THEN UNCHANGED disk ELSE InPlace(i)
  /\ UNCHANGED <<mem, jrec, jhas, jbusy, pc, cp, cur, wedged, counts>>

(* mutant: one pass too many *)
WalkDone_OffByOne ==
  /\ pc = "SYNC_WALK_DIRTY" /\ todo = {}
  /\ IF cp <= NCopies
       THEN cp' = cp + 1 /\ todo' = dirty /\ pc' = pc
       ELSE cp' = 1 /\ todo' = {} /\ pc' = "SYNC_UPD_INDEX"
  /\ UNCHANGED <<mem, media, cur, wedged, counts>>

(* mutant: the alternate is not advanced *)
WalkDone_SameCopy ==
  /\ pc = "SYNC_WALK_DIRTY" /\ todo = {}
  /\ IF cp < NCopies
       THEN cp' = cp /\ todo' = dirty /\ pc' = pc
       ELSE cp' = 1 /\ todo' = {} /\ pc' = "SYNC_UPD_INDEX"
  /\ UNCHANGED <<mem, media, cur, wedged, counts>>

WalkDone ==
  /\ pc = "SYNC_WALK_DIRTY" /\ todo = {}
  /\ IF cp < NCopies
       THEN cp' = cp + 1 /\ todo' = dirty /\ pc' = pc
       ELSE cp' = 1 /\ todo' = {} /\ pc' = "SYNC_UPD_INDEX"
  /\ UNCHANGED <<mem, media, cur, wedged, counts>>

UpdateIndex ==
  /\ pc = "SYNC_UPD_INDEX"
  /\ IF ibits THEN InPlace("INDEX") ELSE UNCHANGED disk
  /\ pc' = "SYNC_UPD_FREE"
  /\ UNCHANGED <<mem, jrec, jhas, jbusy, cp, todo, cur, wedged, counts>>

UpdateFree ==
  /\ pc = "SYNC_UPD_FREE"
  /\ InPlace("FREE")
  /\ IF cp < NCopies THEN cp' = cp + 1 /\ pc' = "SYNC_UPD_INDEX"
                     ELSE cp' = 1 /\ pc' = "SYNC_MARK_JCLEAN"
  /\ UNCHANGED <<mem, jrec, jhas, jbusy, todo, cur, wedged, counts>>

MarkClean ==
  /\ pc = "SYNC_MARK_JCLEAN"
  /\ jbusy' = FALSE /\ jhas' = {} /\ jrec' = NoImage
  /\ pc' = "SYNC_DONE"
  /\ UNCHANGED <<mem, disk, cp, todo, cur, wedged, counts>>

(* mutant: the files' own mark is taken back with the dirty list *)
SyncDone_ClearsUpd ==
  /\ pc = "SYNC_DONE"
  /\ ibits' = FALSE /\ dirty' = {} /\ upd' = {}
  /\ pc' = "IDLE"
  /\ UNCHANGED <<ram, limbo, open, ext, late, media, cp, todo, cur, wedged,
                 counts>>

SyncDone ==
  /\ pc = "SYNC_DONE"
  /\ ibits' = FALSE /\ dirty' = {}
  /\ pc' = "IDLE"
  /\ UNCHANGED <<ram, limbo, upd, open, ext, late, media, cp, todo, cur, wedged,
                 counts>>

-----------------------------------------------------------------------------
(* The process ends, and the volume is mounted again.                      *)

Stop ==
  /\ crashes < MaxCrash /\ pc # "DOWN"
  /\ crashes' = crashes + 1
  /\ ram' = NoImage /\ limbo' = {} /\ dirty' = {} /\ ibits' = FALSE
  /\ upd' = {} /\ open' = [f \in Files |-> 0] /\ ext' = {} /\ late' = {} /\ wedged' = FALSE
  /\ pc' = "DOWN" /\ cp' = 1 /\ todo' = {} /\ cur' = "ROOT"
  /\ UNCHANGED <<disk, jbusy, ops>>

Crash ==
  /\ Stop
  /\ jhas' = (IF jbusy THEN jhas ELSE {})
  /\ jrec' = (IF jbusy THEN jrec ELSE NoImage)

(* JOU_RD_JOU_0: a journal whose sector 0 is zero is left alone.           *)
ReadJournal ==
  /\ pc = "DOWN"
  /\ IF jbusy THEN pc' = "JOU_RD_PROC_JOU" /\ todo' = jhas
              ELSE pc' = "MOUNT_RD_FH" /\ todo' = {}
  /\ UNCHANGED <<mem, media, cp, cur, wedged, counts>>

(* mutant: the record is never left *)
ReplayRecord_Again(i) ==
  /\ pc = "JOU_RD_PROC_JOU" /\ i \in todo
  /\ disk' = [disk EXCEPT ![cp] = With(@, jrec, i)]
  /\ cp' = 1 + (cp % NCopies)
  /\ UNCHANGED <<mem, jrec, jhas, jbusy, pc, todo, cur, wedged, counts>>

(* JOU_WR_FH, JOU_WR_DIR, JOU_WR_IDX and JOU_WR_FRE: one record, written   *)
(* to its alternates in turn.                                              *)
ReplayRecord(i) ==
  /\ pc = "JOU_RD_PROC_JOU" /\ i \in todo
  /\ cp > 1 => i = cur
  /\ disk' = [disk EXCEPT ![cp] = With(@, jrec, i)]
  /\ IF cp < NCopies THEN cp' = cp + 1 /\ cur' = i /\ todo' = todo
                     ELSE cp' = 1 /\ cur' = "ROOT" /\ todo' = todo \ {i}
  /\ UNCHANGED <<mem, jrec, jhas, jbusy, pc, wedged, counts>>

(* JSYNC_TYPE_EOF, then JOU_WR_ZAP: clear sector 0.                        *)
ReplayDone ==
  /\ pc = "JOU_RD_PROC_JOU" /\ todo = {}
  /\ jbusy' = FALSE /\ jhas' = {} /\ jrec' = NoImage
  /\ pc' = "MOUNT_RD_FH"
  /\ UNCHANGED <<mem, disk, cp, todo, cur, wedged, counts>>

(* The image a mount reads: each item from whichever alternate read well.  *)
Loaded(pick) ==
  [idx  |-> disk[pick["INDEX"]].idx,
   dir  |-> disk[pick["ROOT"]].dir,
   hdr  |-> [f \in Files |-> IF disk[pick["INDEX"]].idx[f] = {} THEN NoHeader
                             ELSE disk[pick[f]].hdr[f]],
   free |-> disk[pick["FREE"]].free]

(* mutant: FSYS_FH_FLAGS_NEW is not looked at *)
Stubs_None(img) == {}

(* zap_stub_files: a file whose creator never closed it is removed.        *)
Stubs(img) == {f \in img.dir : img.idx[f] # {} /\ img.hdr[f].new}
(* mutant: the index entry is kept *)
ZapStubs_KeepsIndex(img) ==
  [img EXCEPT !.dir = @ \ Stubs(img),
              !.hdr = [f \in Files |-> IF f \in Stubs(img) THEN NoHeader
                                       ELSE @[f]]]

ZapStubs(img) ==
  [idx  |-> [f \in Files |-> IF f \in Stubs(img) THEN {} ELSE img.idx[f]],
   dir  |-> img.dir \ Stubs(img),
   hdr  |-> [f \in Files |-> IF f \in Stubs(img) THEN NoHeader ELSE img.hdr[f]],
   free |-> img.free]

(* MOUNT_RD_FH to MOUNT_DEL_STUB.                                          *)
Mount(pick) ==
  /\ pc = "MOUNT_RD_FH"
  /\ LET img == Loaded(pick) IN
       /\ ram' = ZapStubs(img)
       /\ limbo' = UNION {Owned(img, f) : f \in Stubs(img)}
       /\ dirty' = (IF Stubs(img) = {} THEN {} ELSE {"ROOT"})
       /\ ibits' = (Stubs(img) # {})
  /\ pc' = "IDLE"
  /\ UNCHANGED <<upd, open, ext, late, media, cp, todo, cur, wedged, counts>>

-----------------------------------------------------------------------------
FileOperation ==
  \E f \in Files :
    \/ \E H \in Blocks(HdrSects), S \in Extents : Create(f, H, S)
    \/ \E H \in Blocks(HdrSects), S \in Extents \cup {{}} : CreateFails(f, H, S)
    \/ \E S \in Extents : Truncate(f, S)
    \/ \E S \in Extents \cup {{}} : TruncateFails(f, S)
    \/ Delete(f)
    \/ \E size \in 0..MaxSize : Open(f, size)
    \/ \E S \in Extents : Extend(f, S)
    \/ WriteDone(f)
    \/ WriteFails(f)
    \/ Close(f)

SyncStep ==
  \/ \E i \in Entries : JournalEntry(i)
  \/ JournalEntriesDone \/ JournalIndex \/ JournalFree \/ MarkBusy
  \/ JournalDone
  \/ \E i \in Entries : WriteEntry(i)
  \/ WalkDone \/ UpdateIndex \/ UpdateFree \/ MarkClean \/ SyncDone

MountStep ==
  \/ ReadJournal
  \/ \E i \in Items : ReplayRecord(i)
  \/ ReplayDone
  \/ \E pick \in [Items -> Copies] : Mount(pick)

Next == \/ FileOperation \/ SyncStart \/ SyncStep \/ JournalError
        \/ Crash \/ MountStep

Spec == Init /\ [][Next]_vars

(* The completion of every I/O a sync or a mount waits for is delivered    *)
(* (prc_q_ast), and each completion takes the next step.                   *)
FairSpec == Spec /\ WF_vars(SyncStep) /\ WF_vars(MountStep)

-----------------------------------------------------------------------------
(* Types.                                                                  *)
TypeOK ==
  /\ ram \in Images /\ limbo \subseteq Sectors
  /\ dirty \subseteq Entries /\ ibits \in BOOLEAN
  /\ upd \subseteq Files /\ open \in [Files -> 0..MaxHandles]
  /\ ext \subseteq Files /\ late \subseteq Files
  /\ disk \in [Copies -> Images]
  /\ jrec \in Images /\ jhas \subseteq Items /\ jbusy \in BOOLEAN
  /\ pc \in Phases /\ cp \in Copies /\ todo \subseteq Items /\ cur \in Items
  /\ wedged \in BOOLEAN /\ ops \in Nat /\ crashes \in Nat

(* Names, index and headers agree, no sector has two owners, and none that *)
(* is owned is free.                                                       *)
Consistent(img) ==
  /\ img.dir = Used(img)
  /\ \A f \in Used(img) : img.idx[f] \cap img.hdr[f].own = {}
  /\ \A f, g \in Used(img) : f # g => Owned(img, f) \cap Owned(img, g) = {}
  /\ img.free \cap AllOwned(img) = {}

(* Whenever the process ends, whichever alternate a mount reads after the  *)
(* replay is a consistent volume: fsys_jou_q and fsys_sync_q never leave   *)
(* the disk between two states.                                            *)
SavedConsistent == \A c \in Copies : Consistent(Saved(c))

(* The RAM tables stay consistent, also those built from any mix of        *)
(* alternates, and a sector in limbo is neither free nor owned.            *)
RamConsistent ==
  /\ Consistent(ram)
  /\ limbo \cap (ram.free \cup AllOwned(ram)) = {}

(* blast_fid_from_index: "hold all sectors in limbo until 'sync'".  While  *)
(* operations may allocate, nothing the saved volume owns is free.         *)
LimboHolds ==
  pc = "IDLE" => \A c \in Copies : AllOwned(Saved(c)) \cap ram.free = {}

(* The alternates of the saved volume agree on names, index, free list and *)
(* stubs; until the first crash they also agree on the header of every     *)
(* file still there but those a write has changed since.                   *)
CopiesAgree ==
  \A c \in Copies :
    LET a == Saved(1)
        b == Saved(c) IN
    /\ a.idx = b.idx /\ a.dir = b.dir /\ a.free = b.free
    /\ \A f \in Used(a) : a.hdr[f].new = b.hdr[f].new
    /\ (crashes = 0 /\ ~jbusy) =>
         \A f \in Used(a) \ (upd \cup dirty) :
           ram.idx[f] = a.idx[f] => a.hdr[f] = b.hdr[f]

(* fsys_write_done and fsys_close_upd: a size that grew is on the disk, on *)
(* the dirty list, or marked for the close, although SYNC_DONE empties the *)
(* list while writes complete.                                             *)
SizeNotLost ==
  Mounted => \A f \in Used(ram) \ (dirty \cup upd) :
               \E c \in Copies : Saved(c).hdr[f].size >= ram.hdr[f].size

(* No operation and no step of a sync makes the RAM tables forget a sector *)
(* they know: it is free, in limbo or owned before and after.              *)
Known == ram.free \cup limbo \cup AllOwned(ram)
KeepsKnown == [][Mounted /\ Mounted' => Known \subseteq Known']_vars

(* A commit accounts for every sector the RAM tables account for, but      *)
(* those given to a file by a write whose header is not yet recorded.      *)
CommitKeepsSectors ==
  [][~jbusy /\ jbusy' =>
       Sectors \ UNION {Saved(c)'.free \cup AllOwned(Saved(c)') : c \in Copies}
         \subseteq (Sectors \ Known) \cup UNION {ram.hdr[f].own : f \in ext \cup upd}]_vars

(* The directory structure as a whole: which file has each name, and which *)
(* names are stubs.                                                        *)
View(img) == [f \in img.dir |-> [hdr |-> img.idx[f], stub |-> img.hdr[f].new]]

Abstract == INSTANCE AtomicVolume
              WITH live <- View(ram), saved <- View(Saved(1)), up <- Mounted

(* "The journalling system only preserves the directory structure across a *)
(* system crash" (fsys.h): one commit per sync, and nothing else changes   *)
(* what a mount finds.                                                     *)
AtomicCommit == Abstract!Spec

(* A sync that has started ends, and a volume that went down comes up.     *)
SyncEnds == pc \in JournalPhases \cup SyncPhases ~> pc \in {"IDLE", "DOWN"}
MountEnds == pc = "DOWN" ~> pc = "IDLE"
=============================================================================
