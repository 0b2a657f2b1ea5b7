-------------------------- MODULE JournalSyncProofs --------------------------
(***************************************************************************)
(* The types and the safety of the journalled sync, for any files, sectors,*)
(* number of alternates, operations, crashes and faults; what the sync     *)
(* makes of file headers (stub marks, retrieval pointers and sizes, while  *)
(* writes complete between its steps); and what a commit is to the users   *)
(* of a volume: no sector is lost on the way to it or by it, and the       *)
(* journalled sync implements AtomicVolume.                                *)
(***************************************************************************)
EXTENDS JournalSyncInv, FiniteSetTheorems, TLAPS

-----------------------------------------------------------------------------
(* Images and bounds.                                                      *)

(* Writing one item of a well-formed image into another gives one.         *)
LEMMA WithType ==
  ASSUME NEW img \in Images, NEW src \in Images, NEW i \in Items
  PROVE  With(img, src, i) \in Images
<1>1. CASE i \in Files
  BY <1>1, FilesAssumption DEF With, Images, System
<1>2. CASE i \in System
  BY <1>2 DEF With, Images, System
<1> QED
  BY <1>1, <1>2 DEF Items

(* What the bounds are, as far as the types need it. *)
LEMMA BoundsType == /\ 0 \in 0..MaxSize /\ MaxSize \in Nat
                    /\ 0 \in 0..MaxHandles /\ 1 \in 0..MaxHandles
                    /\ MaxHandles \in Nat /\ 1 \in Copies /\ NCopies \in Nat
BY BoundsAssumption DEF BoundsAssumption, Copies

(* A freshly formatted volume and an unread one are images. *)
LEMMA FreshType ==
  /\ NoHeader \in Headers /\ NoImage \in Images /\ Fresh \in Images
  /\ \A S \in SUBSET Sectors : NewHeader(S) \in Headers
<1>1. NoHeader \in Headers
  BY BoundsType DEF NoHeader, Headers
<1>2. NoImage \in Images
  BY <1>1 DEF NoImage, Images
<1>3. Fresh \in Images
  BY <1>2 DEF Fresh, Images
<1>4. \A S \in SUBSET Sectors : NewHeader(S) \in Headers
  BY BoundsType DEF NewHeader, Headers
<1> QED
  BY <1>1, <1>2, <1>3, <1>4

(* What an operation takes from the free list. *)
LEMMA TakeType ==
  ASSUME TypeOK
  PROVE  /\ \A n : \A S \in Blocks(n) : S \subseteq ram.free
         /\ \A S \in Extents \cup {{}} : S \subseteq ram.free
         /\ ram.free \subseteq Sectors
BY DEF TypeOK, Blocks, Extents, Images

(* The variables start in their types. *)
LEMMA TypeInit == Init => TypeOK
<1> SUFFICES ASSUME Init PROVE TypeOK
  OBVIOUS
<1>1. ram \in Images /\ jrec \in Images /\ disk \in [Copies -> Images]
  BY FreshType DEF Init
<1>2. open \in [Files -> 0..MaxHandles]
  BY BoundsType DEF Init
<1>3. pc \in Phases /\ cp \in Copies /\ cur \in Items
  BY BoundsType DEF Init, Phases, Items, System
<1> QED
  BY <1>1, <1>2, <1>3 DEF Init, TypeOK

(* No file operation, write completion or sync start leaves the types. *)
LEMMA TypeOperation ==
  ASSUME TypeOK, FileOperation
  PROVE  TypeOK'
<1> PICK f \in Files :
      \/ \E H \in Blocks(HdrSects), S \in Extents : Create(f, H, S)
      \/ \E H \in Blocks(HdrSects), S \in Extents \cup {{}} : CreateFails(f, H, S)
      \/ \E S \in Extents : Truncate(f, S)
      \/ \E S \in Extents \cup {{}} : TruncateFails(f, S)
      \/ Delete(f)
      \/ \E size \in 0..MaxSize : Open(f, size)
      \/ \E S \in Extents : Extend(f, S)
      \/ WriteDone(f)
      \/ WriteFails(f)
      \/ Close(f)
  BY DEF FileOperation
<1> USE BoundsType, FreshType DEF TypeOK, mem, media, control, counts
<1>0. f \in Entries /\ "ROOT" \in Entries /\ f \in Items
  BY DEF Entries, Items
<1>1. ASSUME NEW H \in Blocks(HdrSects), NEW S \in Extents, Create(f, H, S)
      PROVE  TypeOK'
  <2>1. ram' \in Images
    BY <1>1, TakeType DEF Create, Images
  <2>2. open' \in [Files -> 0..MaxHandles]
    BY <1>1 DEF Create
  <2> QED
    BY <1>0, <1>1, <2>1, <2>2 DEF Create, Operation
<1>2. ASSUME NEW H \in Blocks(HdrSects), NEW S \in Extents \cup {{}},
             CreateFails(f, H, S)
      PROVE  TypeOK'
  <2>1. ram' \in Images /\ H \cup S \subseteq Sectors
    BY <1>2, TakeType DEF CreateFails, Images
  <2> QED
    BY <1>0, <1>2, <2>1 DEF CreateFails, Operation
<1>3. ASSUME NEW S \in Extents, Truncate(f, S)
      PROVE  TypeOK'
  <2>1. ram' \in Images /\ ram.hdr[f].own \subseteq Sectors
    BY <1>3, TakeType DEF Truncate, Images, Headers
  <2>2. open' \in [Files -> 0..MaxHandles]
    BY <1>3 DEF Truncate
  <2> QED
    BY <1>0, <1>3, <2>1, <2>2 DEF Truncate, Operation
<1>4. ASSUME NEW S \in Extents \cup {{}}, TruncateFails(f, S)
      PROVE  TypeOK'
  <2>1. ram' \in Images /\ ram.idx[f] \cup S \subseteq Sectors
    BY <1>4, TakeType DEF TruncateFails, Images
  <2>2. open' \in [Files -> 0..MaxHandles]
    BY <1>4 DEF TruncateFails
  <2> QED
    BY <1>0, <1>4, <2>1, <2>2 DEF TruncateFails, Operation
<1>5. ASSUME Delete(f) PROVE TypeOK'
  <2>1. ram' \in Images
    BY <1>5 DEF Delete, Images
  <2>2. Owned(ram, f) \subseteq Sectors
    BY DEF Owned, Images, Headers
  <2>3. open' \in [Files -> 0..MaxHandles]
    BY <1>5 DEF Delete
  <2> QED
    BY <1>0, <1>5, <2>1, <2>2, <2>3 DEF Delete, Operation
<1>6. ASSUME NEW size \in 0..MaxSize, Open(f, size) PROVE TypeOK'
  <2>1. ram' \in Images
    BY <1>6 DEF Open, Images, Headers
  <2>2. open' \in [Files -> 0..MaxHandles]
    BY <1>6 DEF Open
  <2> QED
    BY <1>6, <2>1, <2>2 DEF Open, Operation
<1>7. ASSUME NEW S \in Extents, Extend(f, S) PROVE TypeOK'
  <2>1. ram' \in Images
    BY ZenonT(60), <1>7, TakeType DEF Extend, Images, Headers
  <2> QED
    BY <1>7, <2>1 DEF Extend, Operation
<1>8. ASSUME WriteDone(f) PROVE TypeOK'
  <2>1. ram' \in Images
    <3>1. ram.hdr[f].size + 1 \in 0..MaxSize
      BY <1>8 DEF WriteDone, Images, Headers
    <3>2. ram' = [ram EXCEPT !.hdr[f].size = @ + 1]
      BY <1>8 DEF WriteDone
    <3> QED
      BY <3>1, <3>2 DEF Images, Headers
  <2>2. dirty' \subseteq Entries /\ todo' \subseteq Items
    BY <1>0, <1>8 DEF WriteDone, AddToDirty
  <2> QED
    BY <1>8, <2>1, <2>2 DEF WriteDone
<1>9. ASSUME WriteFails(f) PROVE TypeOK'
  BY <1>9 DEF WriteFails
<1>10. ASSUME Close(f) PROVE TypeOK'
  <2>1. ram' \in Images
    <3>1. CASE f \in upd
      <4>1. ram' = [ram EXCEPT !.hdr[f].new = FALSE]
        BY <1>10, <3>1 DEF Close
      <4> QED
        BY <4>1 DEF Images, Headers
    <3>2. CASE f \notin upd
      BY <1>10, <3>2 DEF Close
    <3> QED
      BY <3>1, <3>2
  <2>2. open' \in [Files -> 0..MaxHandles]
    BY <1>10 DEF Close
  <2> QED
    BY <1>0, <1>10, <2>1, <2>2 DEF Close, Operation
<1> QED
  BY <1>1, <1>2, <1>3, <1>4, <1>5, <1>6, <1>7, <1>8, <1>9, <1>10

(* No step of fsys_jou_q or fsys_sync_q leaves the types. *)
LEMMA TypeSync ==
  ASSUME TypeOK, SyncStart \/ SyncStep \/ JournalError
  PROVE  TypeOK'
<1> USE BoundsType, FreshType DEF TypeOK, mem, media, control, counts
<1>0. /\ Entries \subseteq Items /\ {"ROOT", "INDEX", "FREE"} \subseteq Items
      /\ {"IDLE", "JSYNC_FH_TO_JOU", "JSYNC_INDEX_TO_JOU",
          "JSYNC_FREE_FH_TO_JOU", "JSYNC_MARK_BUSY", "JSYNC_DONE",
          "SYNC_WALK_DIRTY", "SYNC_UPD_INDEX", "SYNC_UPD_FREE",
          "SYNC_MARK_JCLEAN", "SYNC_DONE"} \subseteq Phases
  BY DEF Entries, Items, System, Phases, JournalPhases, SyncPhases
<1>j. ASSUME NEW i \in Items, Journal(i)
      PROVE  jhas' \subseteq Items /\ jrec' \in Images
  BY <1>j, WithType DEF Journal
<1>p. ASSUME NEW i \in Items, InPlace(i)
      PROVE  disk' \in [Copies -> Images]
  <2>1. With(disk[cp], ram, i) \in Images
    BY WithType
  <2> QED
    BY <1>p, <2>1 DEF InPlace
<1>n. cp < NCopies => cp + 1 \in Copies
  BY DEF Copies
<1>1. ASSUME SyncStart PROVE TypeOK'
  BY <1>0, <1>1 DEF SyncStart
<1>2. ASSUME NEW i \in Entries, JournalEntry(i) PROVE TypeOK'
  <2>1. jhas' \subseteq Items /\ jrec' \in Images
    BY <1>0, <1>2, <1>j DEF JournalEntry
  <2> QED
    BY <1>2, <2>1 DEF JournalEntry
<1>3. ASSUME JournalEntriesDone PROVE TypeOK'
  BY <1>0, <1>3 DEF JournalEntriesDone
<1>4. ASSUME JournalIndex PROVE TypeOK'
  <2>1. jhas' \subseteq Items /\ jrec' \in Images
    BY <1>0, <1>4, <1>j DEF JournalIndex
  <2> QED
    BY <1>0, <1>4, <2>1 DEF JournalIndex
<1>5. ASSUME JournalFree PROVE TypeOK'
  <2>1. ram' \in Images
    BY <1>5 DEF JournalFree, Images
  <2>2. jrec' \in Images
    BY <1>0, <1>5, <2>1, WithType DEF JournalFree
  <2> QED
    BY <1>0, <1>5, <2>1, <2>2 DEF JournalFree
<1>6. ASSUME MarkBusy PROVE TypeOK'
  BY <1>0, <1>6 DEF MarkBusy
<1>7. ASSUME JournalError PROVE TypeOK'
  BY <1>0, <1>7 DEF JournalError
<1>8. ASSUME JournalDone PROVE TypeOK'
  BY <1>0, <1>8 DEF JournalDone
<1>9. ASSUME NEW i \in Entries, WriteEntry(i) PROVE TypeOK'
  <2>1. disk' \in [Copies -> Images]
    BY <1>0, <1>9, <1>p DEF WriteEntry
  <2> QED
    BY <1>9, <2>1 DEF WriteEntry
<1>10. ASSUME WalkDone PROVE TypeOK'
  BY <1>0, <1>10, <1>n DEF WalkDone
<1>11. ASSUME UpdateIndex PROVE TypeOK'
  <2>1. disk' \in [Copies -> Images]
    BY <1>0, <1>11, <1>p DEF UpdateIndex
  <2> QED
    BY <1>0, <1>11, <2>1 DEF UpdateIndex
<1>12. ASSUME UpdateFree PROVE TypeOK'
  <2>1. disk' \in [Copies -> Images]
    BY <1>0, <1>12, <1>p DEF UpdateFree
  <2> QED
    BY <1>0, <1>12, <1>n, <2>1 DEF UpdateFree
<1>13. ASSUME MarkClean PROVE TypeOK'
  BY <1>0, <1>13 DEF MarkClean
<1>14. ASSUME SyncDone PROVE TypeOK'
  BY <1>0, <1>14 DEF SyncDone
<1> QED
  BY <1>1, <1>2, <1>3, <1>4, <1>5, <1>6, <1>7, <1>8, <1>9, <1>10, <1>11,
     <1>12, <1>13, <1>14 DEF SyncStep

(* No crash and no step of a replay or a mount leaves the types. *)
LEMMA TypeMount ==
  ASSUME TypeOK, Crash \/ MountStep
  PROVE  TypeOK'
<1> USE BoundsType, FreshType DEF TypeOK, mem, media, control, counts
<1>0. /\ "ROOT" \in Items /\ "ROOT" \in Entries
      /\ {"IDLE", "DOWN", "JOU_RD_PROC_JOU", "MOUNT_RD_FH"} \subseteq Phases
  BY DEF Entries, Items, System, Phases, MountPhases
<1>1. ASSUME Crash PROVE TypeOK'
  <2>1. ram' \in Images /\ open' \in [Files -> 0..MaxHandles]
    BY <1>1 DEF Crash, Stop
  <2>2. jrec' \in Images /\ jhas' \subseteq Items
    BY <1>1 DEF Crash, Stop
  <2>3. disk' \in [Copies -> Images] /\ jbusy' \in BOOLEAN
    BY <1>1 DEF Crash, Stop
  <2>4. /\ limbo' = {} /\ dirty' = {} /\ ibits' = FALSE /\ upd' = {}
        /\ ext' = {} /\ late' = {} /\ wedged' = FALSE
    BY <1>1 DEF Crash, Stop
  <2>5. /\ pc' \in Phases /\ cp' \in Copies /\ todo' = {} /\ cur' \in Items
        /\ ops' \in Nat /\ crashes' \in Nat
    BY <1>0, <1>1 DEF Crash, Stop
  <2> QED
    BY <2>1, <2>2, <2>3, <2>4, <2>5
<1>2. ASSUME ReadJournal PROVE TypeOK'
  BY <1>0, <1>2 DEF ReadJournal
<1>3. ASSUME NEW i \in Items, ReplayRecord(i) PROVE TypeOK'
  <2>1. disk' \in [Copies -> Images]
    <3>1. With(disk[cp], jrec, i) \in Images
      BY WithType
    <3> QED
      BY <1>3, <3>1 DEF ReplayRecord
  <2>2. cp < NCopies => cp + 1 \in Copies
    BY DEF Copies
  <2> QED
    BY <1>0, <1>3, <2>1, <2>2 DEF ReplayRecord
<1>4. ASSUME ReplayDone PROVE TypeOK'
  BY <1>0, <1>4 DEF ReplayDone
<1>5. ASSUME NEW pick \in [Items -> Copies], Mount(pick) PROVE TypeOK'
  <2> DEFINE img == Loaded(pick)
  <2>1. img \in Images
    <3>1. \A i \in Items : disk[pick[i]] \in Images
      OBVIOUS
    <3>2. Files \subseteq Items /\ {"ROOT", "INDEX", "FREE"} \subseteq Items
      BY DEF Items, System
    <3> QED
      BY <3>1, <3>2 DEF Loaded, Images
  <2> HIDE DEF img
  <2>2. ZapStubs(img) \in Images
    BY <2>1 DEF ZapStubs, Images
  <2>3. UNION {Owned(img, f) : f \in Stubs(img)} \subseteq Sectors
    <3>1. \A f \in Stubs(img) : Owned(img, f) \subseteq Sectors
      BY <2>1 DEF Owned, Stubs, Images, Headers
    <3> QED
      BY <3>1
  <2> QED
    BY <1>0, <1>5, <2>2, <2>3 DEF Mount, img
<1> QED
  BY <1>1, <1>2, <1>3, <1>4, <1>5 DEF MountStep

(* No step leaves the types. *)
LEMMA TypeStep == TypeOK /\ [Next]_vars => TypeOK'
<1>1. ASSUME TypeOK, UNCHANGED vars PROVE TypeOK'
  BY <1>1 DEF TypeOK, vars, mem, media, control, counts
<1> QED
  BY <1>1, TypeOperation, TypeSync, TypeMount DEF Next

(* Every variable stays in its type: no sync or replay leaves the          *)
(* alternates it has, and no size or handle count leaves its bound.        *)
THEOREM TypeCorrect == Spec => []TypeOK
BY TypeInit, TypeStep, PTL DEF Spec

-----------------------------------------------------------------------------
(* Images and phases.                                                      *)

(* What a file owns depends on its index entry and pointers only. *)
LEMMA OwnedSame ==
  ASSUME NEW a, NEW b, NEW f, a.idx[f] = b.idx[f], a.hdr[f].own = b.hdr[f].own
  PROVE  Owned(a, f) = Owned(b, f)
BY DEF Owned

(* Which FIDs are in use depends on the index only. *)
LEMMA UsedSame ==
  ASSUME NEW a, NEW b, \A f \in Files : a.idx[f] = b.idx[f]
  PROVE  Used(a) = Used(b)
BY DEF Used

(* A state of the sync, the journal and the mount is in one phase. *)
LEMMA PhasesApart ==
  /\ "IDLE" \notin JournalPhases /\ "IDLE" \notin SyncPhases
  /\ "IDLE" \notin MountPhases
  /\ JournalPhases \cap SyncPhases = {} /\ JournalPhases \cap MountPhases = {}
  /\ SyncPhases \cap MountPhases = {}
BY DEF JournalPhases, SyncPhases, MountPhases

(* What a mount would find is an image. *)
LEMMA SavedType ==
  ASSUME TypeOK, NEW c \in Copies
  PROVE  Saved(c) \in Images
<1>1. disk[c] \in Images
  BY DEF TypeOK
<1>2. Replayed(disk[c]) \in Images
  BY <1>1 DEF Replayed, TypeOK, Images
<1> QED
  BY <1>1, <1>2 DEF Saved

(* A step that writes neither the alternates nor a busy journal keeps what *)
(* a mount would find.                                                     *)
LEMMA SavedStable ==
  ASSUME disk' = disk, jbusy' = jbusy, jbusy => jhas' = jhas /\ jrec' = jrec,
         NEW c \in Copies
  PROVE  Saved(c)' = Saved(c)
<1>1. CASE jbusy
  BY <1>1 DEF Saved, Replayed
<1>2. CASE ~jbusy
  BY <1>2 DEF Saved
<1> QED
  BY <1>1, <1>2

(* The saved volume stays sound while nothing in it changes. *)
LEMMA SavedInvStable ==
  ASSUME SavedInv, \A c \in Copies : Saved(c)' = Saved(c)
  PROVE  SavedInv'
BY DEF SavedInv, Sound, SameTables, Apart, Used, Owned

(* An allocation of at least one sector is not empty. *)
LEMMA EmptyBlock == \A H \in Blocks(HdrSects) : H # {}
BY BoundsAssumption, FS_EmptySet DEF BoundsAssumption, Blocks

-----------------------------------------------------------------------------
(* File operations.                                                        *)

(* An operation on f takes sectors from the free list only, gives them up  *)
(* to limbo only, and marks what it changed.                               *)
LEMMA OperationStep ==
  ASSUME IInv, TypeOK', pc = "IDLE", pc' = "IDLE", NEW f \in Files,
         UNCHANGED <<media, wedged>>,
         \A g \in Files \ {f} : ram'.idx[g] = ram.idx[g] /\ ram'.hdr[g].own = ram.hdr[g].own,
         ram'.free \subseteq ram.free,
         Owned(ram', f) \subseteq Owned(ram, f) \cup (ram.free \ ram'.free),
         limbo' \subseteq limbo \cup Owned(ram, f) \cup (ram.free \ ram'.free),
         limbo' \cap Owned(ram', f) = {},
         f \in Used(ram') => ram'.idx[f] \cap ram'.hdr[f].own = {},
         ram'.dir = Used(ram'),
         \/ f \in dirty' \/ f \notin Used(ram')
         \/ ram'.idx[f] = ram.idx[f] /\ limbo' = limbo,
         "ROOT" \in dirty' \/ ram'.dir = ram.dir,
         ibits' \/ ram'.idx = ram.idx,
         dirty \subseteq dirty', ibits => ibits'
  PROVE  IInv'
<1>1. \A c \in Copies : Saved(c)' = Saved(c)
  BY SavedStable DEF media
<1>2. SavedInv'
  BY <1>1, SavedInvStable DEF IInv
<1>3. \A g \in Files \ {f} : Owned(ram', g) = Owned(ram, g)
  BY OwnedSame
<1>4. \A g \in Files \ {f} : g \in Used(ram') <=> g \in Used(ram)
  BY DEF Used
<1>5. RamInv'
  <2>1. Sound(ram')
    BY <1>4 DEF IInv, RamInv, Sound, Used
  <2>2. \A g \in Files : Owned(ram', g) \cap ram'.free = {}
    BY <1>3 DEF IInv, RamInv, Apart
  <2>3. \A g, h \in Files : g # h => Owned(ram', g) \cap Owned(ram', h) = {}
    BY <1>3 DEF IInv, RamInv, Apart
  <2>4. limbo' \cap ram'.free = {}
    BY DEF IInv, RamInv, Apart
  <2>5. \A g \in Files : limbo' \cap Owned(ram', g) = {}
    BY <1>3 DEF IInv, RamInv, Apart
  <2> QED
    BY <2>1, <2>2, <2>3, <2>4, <2>5 DEF RamInv, Apart, Sound, Used, Owned
<1>6. ASSUME ~wedged PROVE Covered(Changed)' /\ NoSavedFree'
  <2>0. Covered(Changed) /\ NoSavedFree
    BY <1>6 DEF IInv, IdleInv
  <2>1. NoSavedFree'
    BY <1>1, <2>0 DEF NoSavedFree, Owned
  <2>2. ASSUME NEW g \in Used(ram') PROVE g \in dirty' \/ Settled(g)'
    <3>1. CASE g # f
      <4>1. g \in dirty \/ Settled(g)
        BY <1>4, <2>0, <2>2, <3>1, FilesAssumption DEF Covered, Changed, System, Used
      <4>2. ASSUME Settled(g) PROVE Settled(g)'
        BY <1>1, <1>3, <2>0, <2>2, <3>1, <4>2 DEF Settled, NoSavedFree, Used, Owned
      <4> QED
        BY <4>1, <4>2
    <3>2. CASE g = f
      <4>1. SUFFICES ASSUME f \notin dirty' PROVE Settled(f)'
        BY <3>2
      <4>2. f \in Used(ram) /\ ram'.idx[f] = ram.idx[f] /\ limbo' = limbo
        BY <2>2, <3>2, <4>1 DEF Used
      <4>3. Settled(f)
        BY <2>0, <4>1, <4>2, FilesAssumption DEF Covered, Changed, System
      <4> QED
        BY <1>1, <1>3, <4>2, <4>3 DEF Settled
    <3> QED
      BY <3>1, <3>2
  <2>3. \/ "ROOT" \in Changed' 
        \/ \A c \in Copies : Saved(c)'.dir = ram'.dir
    BY <1>1, <2>0 DEF Covered, Changed
  <2>4. \/ "INDEX" \in Changed'
        \/ \A c \in Copies : Saved(c)'.idx = ram'.idx
    BY <1>1, <2>0 DEF Covered, Changed, TypeOK, IInv
  <2> QED
    BY <2>1, <2>2, <2>3, <2>4 DEF Covered, Changed
<1>7. IdleInv'
  BY <1>6 DEF IdleInv, IInv, media
<1> QED
  BY <1>2, <1>5, <1>7, PhasesApart
     DEF IInv, RecordsInv, JournalInv, SyncInv, MountInv

(* An operation runs between two syncs and touches no medium. *)
LEMMA OperationFrame ==
  ASSUME Operation
  PROVE  pc = "IDLE" /\ pc' = "IDLE" /\ UNCHANGED <<media, wedged>>
BY DEF Operation, control

(* What the RAM tables say of one file. *)
LEMMA RamFile ==
  ASSUME IInv, NEW f \in Files
  PROVE  /\ ram.dir = Used(ram) /\ ram \in Images
         /\ Owned(ram, f) \cap ram.free = {}
         /\ limbo \cap Owned(ram, f) = {} /\ limbo \cap ram.free = {}
         /\ f \in Used(ram) =>
              /\ ram.idx[f] \cap ram.hdr[f].own = {}
              /\ Owned(ram, f) = ram.idx[f] \cup ram.hdr[f].own
         /\ f \notin Used(ram) => Owned(ram, f) = {} /\ ram.idx[f] = {}
BY DEF IInv, TypeOK, RamInv, Sound, Apart, Owned, Used

(* fcreate_q of a new file keeps the invariant. *)
LEMMA CreateStep ==
  ASSUME IInv, TypeOK', NEW f \in Files, NEW H \in Blocks(HdrSects),
         NEW S \in Extents, Create(f, H, S)
  PROVE  IInv'
<1>1. H \subseteq ram.free /\ S \subseteq ram.free
  BY TakeType DEF IInv
<1>2. ram' = [idx  |-> [ram.idx EXCEPT ![f] = H],
              dir  |-> ram.dir \cup {f},
              hdr  |-> [ram.hdr EXCEPT ![f] = NewHeader(S)],
              free |-> ram.free \ (H \cup S)]
  BY DEF Create
<1>3. ram'.idx[f] = H /\ ram'.hdr[f].own = S
  BY <1>2, RamFile DEF NewHeader, Images
<1>4. \A g \in Files \ {f} :
        ram'.idx[g] = ram.idx[g] /\ ram'.hdr[g].own = ram.hdr[g].own
  BY <1>2, RamFile DEF Images
<1>5. H # {}
  BY EmptyBlock
<1>6. ram'.dir = Used(ram')
  BY <1>2, <1>3, <1>4, <1>5, RamFile DEF Used
<1>7. Owned(ram', f) = H \cup S
  BY <1>3, <1>5 DEF Owned
<1>8. ram'.free = ram.free \ (H \cup S)
  BY <1>2
<1>9. /\ Operation /\ limbo' = limbo /\ ibits' = TRUE
      /\ dirty' = dirty \cup {f, "ROOT"}
  BY DEF Create
<1>10. limbo' \cap Owned(ram', f) = {} /\ H \cap S = {}
  BY <1>1, <1>7, <1>9, RamFile DEF Create
<1> QED
  BY <1>1, <1>3, <1>4, <1>6, <1>7, <1>8, <1>9, <1>10, OperationStep, OperationFrame

(* So does its failure, which gives all it took to limbo. *)
LEMMA CreateFailsStep ==
  ASSUME IInv, TypeOK', NEW f \in Files, NEW H \in Blocks(HdrSects),
         NEW S \in Extents \cup {{}}, CreateFails(f, H, S)
  PROVE  IInv'
<1>1. H \subseteq ram.free /\ S \subseteq ram.free
  BY TakeType DEF IInv
<1>2. ram' = [idx  |-> ram.idx, dir |-> ram.dir,
              hdr  |-> [ram.hdr EXCEPT ![f] = NoHeader],
              free |-> ram.free \ (H \cup S)]
  BY DEF CreateFails
<1>3. ram'.idx = ram.idx /\ ram'.dir = ram.dir
  BY <1>2
<1>4. \A g \in Files \ {f} :
        ram'.idx[g] = ram.idx[g] /\ ram'.hdr[g].own = ram.hdr[g].own
  BY <1>2, RamFile DEF Images
<1>5. f \notin Used(ram)
  BY DEF CreateFails
<1>6. ram'.dir = Used(ram') /\ f \notin Used(ram')
  BY <1>3, <1>5, RamFile DEF Used
<1>7. Owned(ram', f) = {} /\ Owned(ram, f) = {}
  BY <1>3, <1>5, RamFile DEF Owned
<1>8. ram'.free = ram.free \ (H \cup S)
  BY <1>2
<1>9. /\ Operation /\ limbo' = limbo \cup H \cup S /\ ibits' = TRUE
      /\ dirty' = dirty \cup {f, "ROOT"}
  BY DEF CreateFails
<1> QED
  BY <1>1, <1>3, <1>4, <1>6, <1>7, <1>8, <1>9, OperationStep, OperationFrame

(* fcreate_q of an old file keeps the invariant. *)
LEMMA TruncateStep ==
  ASSUME IInv, TypeOK', NEW f \in Files, NEW S \in Extents, Truncate(f, S)
  PROVE  IInv'
<1>1. S \subseteq ram.free
  BY TakeType DEF IInv
<1>2. ram' = [idx  |-> ram.idx, dir |-> ram.dir,
              hdr  |-> [ram.hdr EXCEPT ![f] = NewHeader(S)],
              free |-> ram.free \ S]
  BY DEF Truncate
<1>3. ram'.idx = ram.idx /\ ram'.dir = ram.dir /\ ram'.hdr[f].own = S
  BY <1>2, RamFile DEF NewHeader, Images
<1>4. \A g \in Files \ {f} :
        ram'.idx[g] = ram.idx[g] /\ ram'.hdr[g].own = ram.hdr[g].own
  BY <1>2, RamFile DEF Images
<1>5. f \in Used(ram)
  BY DEF Truncate
<1>6. ram'.dir = Used(ram')
  BY <1>3, RamFile DEF Used
<1>7. Owned(ram', f) = ram.idx[f] \cup S
  BY <1>3, <1>5 DEF Owned, Used
<1>8. ram'.free = ram.free \ S
  BY <1>2
<1>9. /\ Operation /\ limbo' = limbo \cup ram.hdr[f].own /\ ibits' = ibits
      /\ dirty' = dirty \cup {f}
  BY DEF Truncate
<1>10. limbo' \cap Owned(ram', f) = {} /\ ram'.idx[f] \cap ram'.hdr[f].own = {}
  BY <1>1, <1>3, <1>5, <1>7, <1>9, RamFile
<1>11. /\ Owned(ram', f) \subseteq Owned(ram, f) \cup S
       /\ limbo' \subseteq limbo \cup Owned(ram, f)
  BY <1>5, <1>7, <1>9, RamFile
<1> QED
  BY <1>1, <1>3, <1>4, <1>6, <1>8, <1>9, <1>10, <1>11, OperationStep,
     OperationFrame

(* So does its failure: sectors are lost, none is shared. *)
LEMMA TruncateFailsStep ==
  ASSUME IInv, TypeOK', NEW f \in Files, NEW S \in Extents \cup {{}},
         TruncateFails(f, S)
  PROVE  IInv'
<1>1. S \subseteq ram.free
  BY TakeType DEF IInv
<1>2. ram' = [idx  |-> [ram.idx EXCEPT ![f] = {}],
              dir  |-> ram.dir \ {f},
              hdr  |-> [ram.hdr EXCEPT ![f] = NoHeader],
              free |-> ram.free \ S]
  BY DEF TruncateFails
<1>3. ram'.idx[f] = {} /\ ram'.dir = ram.dir \ {f} /\ ram'.free = ram.free \ S
  BY <1>2, RamFile DEF Images
<1>4. \A g \in Files \ {f} :
        ram'.idx[g] = ram.idx[g] /\ ram'.hdr[g].own = ram.hdr[g].own
  BY <1>2, RamFile DEF Images
<1>5. f \in Used(ram)
  BY DEF TruncateFails
<1>6. ram'.dir = Used(ram') /\ f \notin Used(ram')
  BY <1>3, <1>4, RamFile DEF Used
<1>7. Owned(ram', f) = {}
  BY <1>3 DEF Owned
<1>8. /\ Operation /\ limbo' = limbo \cup ram.idx[f] \cup S /\ ibits' = TRUE
      /\ dirty' = dirty \cup {f, "ROOT"}
  BY DEF TruncateFails
<1>9. limbo' \subseteq limbo \cup Owned(ram, f) \cup S
  BY <1>5, <1>8, RamFile
<1> QED
  BY <1>1, <1>3, <1>4, <1>6, <1>7, <1>8, <1>9, OperationStep, OperationFrame

(* delete_q keeps the invariant: a deleted file's sectors are in limbo. *)
LEMMA DeleteStep ==
  ASSUME IInv, TypeOK', NEW f \in Files, Delete(f)
  PROVE  IInv'
<1>1. ram' = [idx  |-> [ram.idx EXCEPT ![f] = {}],
              dir  |-> ram.dir \ {f},
              hdr  |-> [ram.hdr EXCEPT ![f] = NoHeader],
              free |-> ram.free]
  BY DEF Delete
<1>2. ram'.idx[f] = {} /\ ram'.dir = ram.dir \ {f} /\ ram'.free = ram.free
  BY <1>1, RamFile DEF Images
<1>3. \A g \in Files \ {f} :
        ram'.idx[g] = ram.idx[g] /\ ram'.hdr[g].own = ram.hdr[g].own
  BY <1>1, RamFile DEF Images
<1>4. ram'.dir = Used(ram') /\ f \notin Used(ram')
  BY <1>2, <1>3, RamFile DEF Used
<1>5. Owned(ram', f) = {}
  BY <1>2 DEF Owned
<1>6. /\ Operation /\ limbo' = limbo \cup Owned(ram, f) /\ ibits' = TRUE
      /\ dirty' = dirty \cup {"ROOT"}
  BY DEF Delete
<1> QED
  BY <1>2, <1>3, <1>4, <1>5, <1>6, OperationStep, OperationFrame

(* Operations that leave every file the sectors it had. *)
LEMMA SizeStep ==
  ASSUME IInv, TypeOK', NEW f \in Files, Operation,
         ram'.idx = ram.idx, ram'.dir = ram.dir, ram'.free = ram.free,
         \A g \in Files : ram'.hdr[g].own = ram.hdr[g].own,
         limbo' = limbo, ibits' = ibits, dirty \subseteq dirty'
  PROVE  IInv'
<1>1. ram'.dir = Used(ram')
  BY RamFile DEF Used
<1>2. Owned(ram', f) = Owned(ram, f)
  BY OwnedSame
<1>3. f \in Used(ram') => ram'.idx[f] \cap ram'.hdr[f].own = {}
  BY RamFile DEF Used
<1> QED
  BY <1>1, <1>2, <1>3, RamFile, OperationStep, OperationFrame

(* fopen_q keeps the invariant. *)
LEMMA OpenStep ==
  ASSUME IInv, TypeOK', NEW f \in Files, NEW size \in 0..MaxSize, Open(f, size)
  PROVE  IInv'
<1>1. ram' = [ram EXCEPT !.hdr[f].size = size]
  BY DEF Open
<1>2. /\ ram'.idx = ram.idx /\ ram'.dir = ram.dir /\ ram'.free = ram.free
      /\ \A g \in Files : ram'.hdr[g].own = ram.hdr[g].own
  BY <1>1, RamFile DEF Images, Headers
<1>3. Operation /\ limbo' = limbo /\ ibits' = ibits /\ dirty' = dirty
  BY DEF Open
<1> QED
  BY <1>2, <1>3, SizeStep

(* fsys_close_upd keeps the invariant. *)
LEMMA CloseStep ==
  ASSUME IInv, TypeOK', NEW f \in Files, Close(f)
  PROVE  IInv'
<1>1. ram' = ram \/ ram' = [ram EXCEPT !.hdr[f].new = FALSE]
  BY DEF Close
<1>2. /\ ram'.idx = ram.idx /\ ram'.dir = ram.dir /\ ram'.free = ram.free
      /\ \A g \in Files : ram'.hdr[g].own = ram.hdr[g].own
  BY <1>1, RamFile DEF Images, Headers
<1>3. Operation /\ limbo' = limbo /\ ibits' = ibits /\ dirty \subseteq dirty'
  BY DEF Close
<1> QED
  BY <1>2, <1>3, SizeStep

(* fsys_qwrite keeps the invariant, though the header is not dirty yet. *)
LEMMA ExtendStep ==
  ASSUME IInv, TypeOK', NEW f \in Files, NEW S \in Extents, Extend(f, S),
         f \in Used(ram)
  PROVE  IInv'
<1>1. S \subseteq ram.free
  BY TakeType DEF IInv
<1>2. ram' = [idx  |-> ram.idx, dir |-> ram.dir,
              hdr  |-> [ram.hdr EXCEPT ![f].own = @ \cup S],
              free |-> ram.free \ S]
  BY DEF Extend
<1>3. /\ ram'.idx = ram.idx /\ ram'.dir = ram.dir /\ ram'.free = ram.free \ S
      /\ ram'.hdr[f].own = ram.hdr[f].own \cup S
  BY <1>2, RamFile DEF Images, Headers
<1>4. \A g \in Files \ {f} :
        ram'.idx[g] = ram.idx[g] /\ ram'.hdr[g].own = ram.hdr[g].own
  BY <1>2, RamFile DEF Images
<1>5. ram'.dir = Used(ram')
  BY <1>3, RamFile DEF Used
<1>6. Owned(ram', f) = Owned(ram, f) \cup S
  BY <1>3 DEF Owned, Used
<1>7. Operation /\ limbo' = limbo /\ ibits' = ibits /\ dirty' = dirty
  BY DEF Extend
<1>8. limbo' \cap Owned(ram', f) = {} /\ ram'.idx[f] \cap ram'.hdr[f].own = {}
  BY <1>1, <1>3, <1>6, <1>7, RamFile
<1> QED
  BY <1>1, <1>3, <1>4, <1>5, <1>6, <1>7, <1>8, OperationStep, OperationFrame

-----------------------------------------------------------------------------
(* Steps that leave the RAM tables and the saved volume as they are.       *)

(* With tables, media and phase as they were, the invariant stays. *)
LEMMA RamSame ==
  ASSUME ram'.idx = ram.idx, ram'.dir = ram.dir, ram'.free = ram.free,
         \A f \in Files : ram'.hdr[f].own = ram.hdr[f].own,
         limbo' = limbo, \A c \in Copies : Saved(c)' = Saved(c)
  PROVE  /\ Used(ram') = Used(ram)
         /\ RamInv => RamInv'
         /\ \A f \in Files : Settled(f) => Settled(f)'
         /\ \A items : Covered(items) => Covered(items)'
         /\ NoSavedFree => NoSavedFree'
<1>1. Used(ram') = Used(ram)
  BY DEF Used
<1>2. \A f \in Files : Owned(ram', f) = Owned(ram, f)
  BY OwnedSame
<1>3. RamInv => RamInv'
  BY <1>1, <1>2 DEF RamInv, Sound, Apart, Used, Owned
<1>4. \A f \in Files : Settled(f) => Settled(f)'
  BY <1>2 DEF Settled
<1>5. NoSavedFree => NoSavedFree'
  BY DEF NoSavedFree
<1>6. ASSUME NEW items, Covered(items) PROVE Covered(items)'
  BY <1>1, <1>4, <1>6 DEF Covered, Used
<1> QED
  BY <1>1, <1>3, <1>4, <1>5, <1>6

(* A write that completes, in whatever phase: sizes only, and one more     *)
(* entry of the dirty list and of the pass over it.                        *)
LEMMA WriteDoneStep ==
  ASSUME IInv, TypeOK', NEW f \in Files, WriteDone(f) \/ WriteFails(f)
  PROVE  IInv'
<1>1. /\ UNCHANGED <<limbo, ibits, media, pc, cp, wedged>>
      /\ dirty \subseteq dirty' /\ todo \subseteq todo' /\ Mounted
      /\ todo' \subseteq todo \cup (dirty' \ dirty)
  BY DEF WriteDone, WriteFails, AddToDirty, control
<1>2. /\ ram'.idx = ram.idx /\ ram'.dir = ram.dir /\ ram'.free = ram.free
      /\ \A g \in Files : ram'.hdr[g].own = ram.hdr[g].own
  <2>1. ram' = ram \/ ram' = [ram EXCEPT !.hdr[f].size = @ + 1]
    BY DEF WriteDone, WriteFails
  <2> QED
    BY <2>1, RamFile DEF Images, Headers
<1>3. \A c \in Copies : Saved(c)' = Saved(c)
  BY <1>1, SavedStable DEF media
<1>4. /\ RamInv' /\ SavedInv' /\ Used(ram') = Used(ram)
      /\ \A g \in Files : Settled(g) => Settled(g)'
      /\ \A items : Covered(items) => Covered(items)'
      /\ NoSavedFree => NoSavedFree'
  BY <1>1, <1>2, <1>3, RamSame, SavedInvStable DEF IInv
<1>5. Changed \subseteq Changed' /\ Pending \subseteq Pending'
  BY <1>1 DEF Changed, Pending
<1>6. \A a, i : Same(a, ram, i) => Same(a, ram', i)
  BY <1>2 DEF Same
<1>7. \A S, T : S \subseteq T /\ Covered(S)' => Covered(T)'
  BY DEF Covered
<1>8. IdleInv'
  BY <1>1, <1>4, <1>5, <1>7 DEF IInv, IdleInv, media
<1>9. RecordsInv'
  BY <1>1, <1>4, <1>5, <1>6 DEF IInv, RecordsInv, media
<1>10. JournalInv'
  <2>1. jhas \cup Pending \subseteq (jhas \cup Pending)'
    BY <1>1, <1>5 DEF media
  <2> QED
    BY <1>1, <1>4, <1>7, <2>1 DEF IInv, JournalInv, media
<1>11. SyncInv'
  <2>1. \A c : Written(c)' \subseteq Written(c)
    BY <1>1 DEF Written
  <2>2. \A a : SameTables(a, ram) => SameTables(a, ram')
    BY <1>2 DEF SameTables
  <2> QED
    BY <1>1, <1>3, <1>4, <1>6, <2>1, <2>2 DEF IInv, SyncInv, media, Used
<1>12. MountInv'
  BY <1>1 DEF MountInv, Mounted
<1> QED
  BY <1>4, <1>8, <1>9, <1>10, <1>11, <1>12 DEF IInv

(* A sync starts with every change on its list. *)
LEMMA SyncStartStep ==
  ASSUME IInv, TypeOK', SyncStart
  PROVE  IInv'
<1>1. /\ pc = "IDLE" /\ ~wedged /\ ~jbusy /\ Covered(Changed) /\ NoSavedFree
  BY DEF SyncStart, IInv, IdleInv
<1>2. /\ pc' = "JSYNC_FH_TO_JOU" /\ todo' = dirty /\ jhas' = {}
      /\ UNCHANGED <<ram, limbo, dirty, ibits, disk, jbusy, wedged>>
  BY DEF SyncStart, mem
<1>3. \A c \in Copies : Saved(c)' = Saved(c)
  BY <1>1, <1>2, SavedStable
<1>4. /\ RamInv' /\ SavedInv' /\ Covered(Changed)' /\ NoSavedFree'
  <2>1. Changed' = Changed
    BY <1>2 DEF Changed
  <2> QED
    BY <1>1, <1>2, <1>3, <2>1, RamSame, SavedInvStable DEF IInv
<1>5. Changed' \subseteq (jhas \cup Pending)'
  BY <1>2 DEF Changed, Pending
<1>6. Covered(jhas \cup Pending)'
  BY <1>4, <1>5 DEF Covered
<1>7. pc' \in JournalPhases
  BY <1>2 DEF JournalPhases
<1>8. JournalInv'
  BY <1>1, <1>2, <1>4, <1>6 DEF JournalInv
<1>9. RecordsInv'
  BY <1>1, <1>2 DEF RecordsInv
<1> QED
  BY <1>4, <1>7, <1>8, <1>9, PhasesApart DEF IInv, IdleInv, SyncInv, MountInv

(* Writing an item makes it agree with its source. *)
LEMMA WithSame ==
  ASSUME NEW img \in Images, NEW src \in Images, NEW i \in Items, NEW j \in Items
  PROVE  Same(With(img, src, i), IF j = i THEN src ELSE img, j)
<1>1. CASE i \in Files
  BY <1>1, FilesAssumption DEF With, Same, Images, System
<1>2. CASE i \in System
  BY <1>2, FilesAssumption DEF With, Same, Images, System
<1> QED
  BY <1>1, <1>2 DEF Items

-----------------------------------------------------------------------------
(* The journal.                                                            *)

(* Writing a record of a journal that is not busy. *)
LEMMA JournalRecord ==
  ASSUME IInv, NEW i \in Items, Journal(i), i \in Changed \cup {"FREE"},
         i \in Files => i \in Used(ram), UNCHANGED <<ram, dirty, ibits>>,
         pc \in JournalPhases
  PROVE  /\ \A j \in jhas' : Same(jrec', ram', j)
         /\ jhas' \subseteq Changed' \cup {"FREE"}
         /\ jhas' \cap Files \subseteq Used(ram')
<1>1. jhas \subseteq Items /\ jrec \in Images /\ ram \in Images
  BY DEF IInv, TypeOK
<1>2. /\ \A j \in jhas : Same(jrec, ram, j)
      /\ jhas \subseteq Changed \cup {"FREE"} /\ jhas \cap Files \subseteq Used(ram)
  BY DEF IInv, RecordsInv
<1>3. jhas' = jhas \cup {i} /\ jrec' = With(jrec, ram, i)
  BY DEF Journal
<1>4. ASSUME NEW j \in jhas' PROVE Same(jrec', ram, j)
  <2>1. j \in Items
    BY <1>1, <1>3
  <2>2. Same(jrec', IF j = i THEN ram ELSE jrec, j)
    BY <1>1, <1>3, <2>1, WithSame
  <2>3. CASE j = i
    BY <2>2, <2>3
  <2>4. CASE j # i
    <3>1. Same(jrec', jrec, j) /\ Same(jrec, ram, j)
      BY <1>2, <1>3, <2>2, <2>4
    <3> QED
      BY <3>1 DEF Same
  <2> QED
    BY <2>3, <2>4
<1>5. Changed' = Changed
  BY DEF Changed
<1> QED
  BY <1>2, <1>3, <1>4, <1>5

(* One entry of the dirty list is journalled, or is no longer in use. *)
LEMMA JournalEntryStep ==
  ASSUME IInv, TypeOK', NEW i \in Entries, JournalEntry(i)
  PROVE  IInv'
<1>1. /\ pc = "JSYNC_FH_TO_JOU" /\ pc' = pc /\ i \in todo /\ todo' = todo \ {i}
      /\ UNCHANGED <<ram, limbo, dirty, ibits, disk, jbusy, wedged>>
  BY DEF JournalEntry, mem
<1>2. pc \in JournalPhases
  BY <1>1 DEF JournalPhases
<1>3. /\ ~jbusy /\ ~wedged /\ Covered(jhas \cup Pending) /\ todo \subseteq dirty
      /\ NoSavedFree
  BY <1>1, <1>2 DEF IInv, JournalInv, RecordsInv
<1>4. \A c \in Copies : Saved(c)' = Saved(c)
  BY <1>1, <1>3, SavedStable
<1>5. /\ RamInv' /\ SavedInv' /\ NoSavedFree' /\ Used(ram') = Used(ram)
      /\ \A items : Covered(items) => Covered(items)'
  BY <1>1, <1>3, <1>4, RamSame, SavedInvStable DEF IInv
<1>6. i \in Items /\ i \in Changed /\ i # "INDEX"
  BY <1>1, <1>3, FilesAssumption DEF Entries, Items, System, Changed
<1>7. RecordsInv'
  <2>1. CASE Skipped(i)
    <3>1. jhas' = jhas /\ jrec' = jrec /\ Changed' = Changed
      BY <1>1, <2>1 DEF JournalEntry, Changed
    <3> QED
      BY <1>1, <3>1 DEF IInv, RecordsInv
  <2>2. CASE ~Skipped(i)
    <3>1. Journal(i) /\ (i \in Files => i \in Used(ram))
      BY <2>2 DEF JournalEntry, Skipped
    <3> QED
      BY <1>1, <1>2, <1>3, <1>6, <3>1, JournalRecord DEF RecordsInv
  <2> QED
    BY <2>1, <2>2
<1>8. Pending \ {i} \subseteq Pending'
  BY <1>1, <1>6 DEF Pending, Changed
<1>9. Covered(jhas \cup Pending)'
  <2>1. CASE Skipped(i)
    <3>1. i \in Files /\ i \notin Used(ram)
      BY <2>1 DEF Skipped
    <3>2. jhas' = jhas /\ i # "ROOT"
      BY <2>1, <3>1, FilesAssumption DEF JournalEntry, System
    <3>3. Covered(jhas \cup (Pending \ {i}))
      BY <1>3, <1>6, <3>1, <3>2 DEF Covered
    <3>4. Covered(jhas' \cup Pending')
      BY <1>8, <3>2, <3>3 DEF Covered
    <3> QED
      BY <1>1, <1>4, <3>4 DEF Covered, Settled
  <2>2. CASE ~Skipped(i)
    <3>1. jhas' = jhas \cup {i}
      BY <2>2 DEF JournalEntry, Journal
    <3>2. jhas \cup Pending \subseteq jhas' \cup Pending'
      BY <1>8, <3>1
    <3>3. Covered(jhas' \cup Pending')
      BY <1>3, <3>2 DEF Covered
    <3> QED
      BY <1>1, <1>4, <3>3 DEF Covered, Settled
  <2> QED
    BY <2>1, <2>2
<1>10. JournalInv'
  BY <1>1, <1>3, <1>5, <1>9 DEF JournalInv
<1> QED
  BY <1>1, <1>2, <1>5, <1>7, <1>10, PhasesApart
     DEF IInv, IdleInv, SyncInv, MountInv

(* The pass over the dirty list leaves the index and the free list. *)
LEMMA JournalEntriesDoneStep ==
  ASSUME IInv, TypeOK', JournalEntriesDone
  PROVE  IInv'
<1>1. /\ pc = "JSYNC_FH_TO_JOU" /\ pc' = "JSYNC_INDEX_TO_JOU" /\ todo = {}
      /\ UNCHANGED <<ram, limbo, dirty, ibits, jhas, jrec, disk, jbusy, wedged>>
  BY DEF JournalEntriesDone, mem, media
<1>2. pc \in JournalPhases /\ pc' \in JournalPhases
  BY <1>1 DEF JournalPhases
<1>3. /\ ~jbusy /\ ~wedged /\ Covered(jhas \cup Pending) /\ NoSavedFree
  BY <1>1, <1>2 DEF IInv, JournalInv, RecordsInv
<1>4. \A c \in Copies : Saved(c)' = Saved(c)
  BY <1>1, SavedStable
<1>5. /\ RamInv' /\ SavedInv' /\ NoSavedFree'
      /\ \A items : Covered(items) => Covered(items)'
  BY <1>1, <1>3, <1>4, RamSame, SavedInvStable DEF IInv
<1>6. Pending' = Pending /\ Changed' = Changed
  BY <1>1 DEF Pending, Changed
<1>7. Covered(jhas \cup Pending)'
  BY <1>1, <1>3, <1>4, <1>6 DEF Covered, Settled
<1>8. JournalInv'
  BY <1>1, <1>3, <1>5, <1>7 DEF JournalInv
<1>9. RecordsInv'
  BY <1>1, <1>2, <1>6 DEF IInv, RecordsInv
<1> QED
  BY <1>2, <1>5, <1>8, <1>9, PhasesApart DEF IInv, IdleInv, SyncInv, MountInv

(* The index joins the journal if it changed. *)
LEMMA JournalIndexStep ==
  ASSUME IInv, TypeOK', JournalIndex
  PROVE  IInv'
<1>1. /\ pc = "JSYNC_INDEX_TO_JOU" /\ pc' = "JSYNC_FREE_FH_TO_JOU"
      /\ UNCHANGED <<ram, limbo, dirty, ibits, disk, jbusy, wedged>>
  BY DEF JournalIndex, mem
<1>2. pc \in JournalPhases /\ pc' \in JournalPhases
  BY <1>1 DEF JournalPhases
<1>3. /\ ~jbusy /\ ~wedged /\ Covered(jhas \cup Pending) /\ NoSavedFree
  BY <1>1, <1>2 DEF IInv, JournalInv, RecordsInv
<1>4. \A c \in Copies : Saved(c)' = Saved(c)
  BY <1>1, <1>3, SavedStable
<1>5. RamInv' /\ SavedInv' /\ NoSavedFree'
  BY <1>1, <1>3, <1>4, RamSame, SavedInvStable DEF IInv
<1>6. Pending \subseteq {"INDEX"} /\ (ibits \/ Pending = {}) /\ Pending' = {}
  <2>1. "INDEX" \notin dirty
    BY FilesAssumption DEF IInv, TypeOK, Entries, System
  <2> QED
    BY <1>1, <2>1 DEF Pending, Changed
<1>7. RecordsInv' /\ jhas \cup Pending \subseteq jhas'
  <2>1. CASE ibits
    <3>1. Journal("INDEX") /\ "INDEX" \in Changed /\ "INDEX" \in Items
          /\ "INDEX" \notin Files
      BY <2>1, FilesAssumption DEF JournalIndex, Changed, Items, System
    <3>2. jhas \cup Pending \subseteq jhas'
      BY <1>6, <3>1 DEF Journal
    <3> QED
      BY <1>1, <1>2, <1>3, <3>1, <3>2, JournalRecord DEF RecordsInv
  <2>2. CASE ~ibits
    <3>1. jhas' = jhas /\ jrec' = jrec /\ Changed' = Changed /\ Pending = {}
      BY <1>1, <1>6, <2>2 DEF JournalIndex, Changed
    <3> QED
      BY <1>1, <1>2, <3>1 DEF IInv, RecordsInv
  <2> QED
    BY <2>1, <2>2
<1>8. Covered(jhas')
  BY <1>3, <1>7 DEF Covered
<1>9. Covered(jhas \cup Pending)'
  BY <1>1, <1>4, <1>6, <1>8 DEF Covered, Settled
<1>10. JournalInv'
  BY <1>1, <1>3, <1>5, <1>9 DEF JournalInv
<1> QED
  BY <1>2, <1>5, <1>7, <1>10, PhasesApart DEF IInv, IdleInv, SyncInv, MountInv

(* Limbo goes back to the free list: no settled file has a sector there.   *)
LEMMA JournalFreeStep ==
  ASSUME IInv, TypeOK', JournalFree
  PROVE  IInv'
<1>1. /\ pc = "JSYNC_FREE_FH_TO_JOU" /\ pc' = "JSYNC_MARK_BUSY"
      /\ limbo' = {} /\ jhas' = jhas \cup {"FREE"}
      /\ jrec' = With(jrec, ram', "FREE")
      /\ UNCHANGED <<dirty, ibits, disk, jbusy, wedged>>
  BY DEF JournalFree
<1>2. pc \in JournalPhases /\ pc' \in JournalPhases
  BY <1>1 DEF JournalPhases
<1>3. /\ ~jbusy /\ ~wedged /\ Covered(jhas \cup Pending)
  BY <1>1, <1>2 DEF IInv, JournalInv, RecordsInv
<1>4. \A c \in Copies : Saved(c)' = Saved(c)
  BY <1>1, <1>3, SavedStable
<1>5. /\ ram'.idx = ram.idx /\ ram'.dir = ram.dir /\ ram'.hdr = ram.hdr
      /\ ram'.free = ram.free \cup limbo /\ ram \in Images /\ ram' \in Images
  <2>1. ram' = [ram EXCEPT !.free = @ \cup limbo]
    BY DEF JournalFree
  <2> QED
    BY <2>1 DEF IInv, TypeOK, Images
<1>6. Used(ram') = Used(ram) /\ \A f : Owned(ram', f) = Owned(ram, f)
  BY <1>5 DEF Used, Owned
<1>7. RamInv'
  BY <1>1, <1>5, <1>6 DEF IInv, RamInv, Sound, Apart, Used, Owned
<1>8. SavedInv'
  BY <1>4, SavedInvStable DEF IInv
<1>9. \A f \in Files : Settled(f) => Settled(f)'
  BY <1>1, <1>4, <1>5, <1>6 DEF Settled
<1>10. Covered(jhas \cup Pending)'
  <2>1. Pending = {} /\ Pending' = {}
    BY <1>1 DEF Pending
  <2> QED
    BY <1>1, <1>3, <1>4, <1>5, <1>6, <1>9, <2>1 DEF Covered, Used
<1>11. ASSUME NEW j \in jhas' PROVE Same(jrec', ram', j)
  <2>1. j \in Items /\ "FREE" \in Items /\ jrec \in Images
    BY <1>1 DEF IInv, TypeOK, Items, System
  <2>2. Same(jrec', IF j = "FREE" THEN ram' ELSE jrec, j)
    BY <1>1, <1>5, <2>1, WithSame
  <2>3. CASE j = "FREE"
    BY <2>2, <2>3
  <2>4. CASE j # "FREE"
    <3>1. Same(jrec', jrec, j) /\ Same(jrec, ram, j)
      BY <1>1, <1>2, <2>2, <2>4 DEF IInv, RecordsInv
    <3> QED
      BY <1>5, <2>4, <3>1 DEF Same
  <2> QED
    BY <2>3, <2>4
<1>12. RecordsInv'
  <2>1. Changed' = Changed /\ "FREE" \notin Files
    BY <1>1, FilesAssumption DEF Changed, System
  <2> QED
    BY <1>1, <1>2, <1>3, <1>6, <1>11, <2>1 DEF IInv, RecordsInv
<1>13. JournalInv'
  BY <1>1, <1>3, <1>10 DEF JournalInv
<1> QED
  BY <1>2, <1>7, <1>8, <1>12, <1>13, PhasesApart
     DEF IInv, IdleInv, SyncInv, MountInv

(* A failed journal write leaves the saved volume as it was. *)
LEMMA JournalErrorStep ==
  ASSUME IInv, TypeOK', JournalError
  PROVE  IInv'
<1>1. /\ pc \in JournalPhases /\ pc' = "IDLE" /\ wedged'
      /\ UNCHANGED <<ram, limbo, disk, jbusy>>
  BY DEF JournalError, mem
<1>2. ~jbusy
  BY <1>1 DEF IInv, JournalInv
<1>3. \A c \in Copies : Saved(c)' = Saved(c)
  BY <1>1, <1>2, SavedStable
<1>4. RamInv' /\ SavedInv'
  BY <1>1, <1>3, RamSame, SavedInvStable DEF IInv
<1>5. IdleInv'
  BY <1>1, <1>2 DEF IdleInv
<1> QED
  BY <1>1, <1>4, <1>5, PhasesApart
     DEF IInv, RecordsInv, JournalInv, SyncInv, MountInv

-----------------------------------------------------------------------------
(* The commit and the passes over the alternates.                          *)

(* When the saved tables become the RAM tables, and each header that of    *)
(* RAM or a settled one, no two files of the saved volume share a sector.  *)
LEMMA SavedFromRam ==
  ASSUME RamInv, SavedInv, ram' = ram, limbo' = limbo,
         \A c \in Copies : SameTables(Saved(c)', ram),
         \A c \in Copies, f \in Used(ram) :
           \/ Saved(c)'.hdr[f].own = ram.hdr[f].own
           \/ Saved(c)'.hdr[f].own = Saved(c).hdr[f].own /\ Settled(f)
  PROVE  SavedInv' /\ \A f \in Used(ram) : Settled(f)'
<1>1. ASSUME NEW c \in Copies, NEW f \in Files
      PROVE  \/ Owned(Saved(c)', f) = Owned(ram, f)
             \/ f \in Used(ram) /\ Settled(f) /\ Owned(Saved(c)', f) = Owned(Saved(c), f)
  <2>1. Saved(c)'.idx[f] = ram.idx[f]
    BY DEF SameTables
  <2>2. CASE f \notin Used(ram)
    BY <2>1, <2>2 DEF Owned, Used
  <2>3. CASE f \in Used(ram) /\ Saved(c)'.hdr[f].own = ram.hdr[f].own
    BY <2>1, <2>3 DEF Owned
  <2>4. CASE /\ f \in Used(ram) /\ Settled(f)
             /\ Saved(c)'.hdr[f].own = Saved(c).hdr[f].own
    BY <2>1, <2>4, OwnedSame DEF Settled
  <2> QED
    BY <2>2, <2>3, <2>4
<1>2. \A c \in Copies, f \in Files :
        Owned(Saved(c)', f) \cap (ram.free \cup limbo) = {}
  BY <1>1 DEF Settled, RamInv, Apart
<1>3. \A c \in Copies, f, g \in Files :
        f # g => Owned(Saved(c)', f) \cap Owned(ram, g) = {}
  BY <1>1 DEF Settled, RamInv, Apart
<1>4. ASSUME NEW c \in Copies, NEW d \in Copies, NEW f \in Files,
             NEW g \in Files, f # g
      PROVE  Owned(Saved(c)', f) \cap Owned(Saved(d)', g) = {}
  <2>1. CASE Owned(Saved(d)', g) = Owned(ram, g)
    BY <1>3, <1>4, <2>1
  <2>2. CASE Owned(Saved(c)', f) = Owned(ram, f)
    <3>1. Owned(Saved(d)', g) \cap Owned(ram, f) = {}
      BY <1>3, <1>4
    <3> QED
      BY <2>2, <3>1
  <2>3. CASE /\ Owned(Saved(c)', f) = Owned(Saved(c), f)
             /\ Owned(Saved(d)', g) = Owned(Saved(d), g)
    BY <1>4, <2>3 DEF SavedInv, Apart
  <2> QED
    BY <1>1, <2>1, <2>2, <2>3
<1>5. ASSUME NEW c \in Copies PROVE Sound(Saved(c)')
  <2>1. Saved(c)'.dir = Used(Saved(c)') /\ Used(Saved(c)') = Used(ram)
    BY DEF SameTables, RamInv, Sound, Used
  <2>2. ASSUME NEW f \in Used(ram)
        PROVE  Saved(c)'.idx[f] \cap Saved(c)'.hdr[f].own = {}
    <3>1. Saved(c)'.idx[f] = ram.idx[f] /\ f \in Files
      BY DEF SameTables, Used
    <3>2. CASE Saved(c)'.hdr[f].own = ram.hdr[f].own
      BY <3>1, <3>2 DEF RamInv, Sound
    <3>3. CASE Saved(c)'.hdr[f].own = Saved(c).hdr[f].own /\ Settled(f)
      <4>1. Saved(c).idx[f] = ram.idx[f] /\ f \in Used(Saved(c))
        BY <3>1, <3>3 DEF Settled, Used
      <4> QED
        BY <3>1, <3>3, <4>1 DEF SavedInv, Sound
    <3> QED
      BY <3>2, <3>3
  <2> QED
    BY <2>1, <2>2 DEF Sound
<1>6. \A c, d \in Copies : SameTables(Saved(c)', Saved(d)') /\ Apart(Saved(c)', Saved(d)')
  BY <1>2, <1>4 DEF SameTables, Apart
<1>7. SavedInv'
  BY <1>5, <1>6 DEF SavedInv, Sound, SameTables, Apart, Used, Owned
<1>8. ASSUME NEW f \in Used(ram) PROVE Settled(f)'
  <2>1. f \in Files
    BY DEF Used
  <2> QED
    BY <1>2, <1>3, <2>1 DEF Settled, SameTables
<1> QED
  BY <1>7, <1>8

(* Marking the journal busy turns the saved volume into the RAM tables.    *)
LEMMA MarkBusyStep ==
  ASSUME IInv, TypeOK', MarkBusy
  PROVE  IInv'
<1>1. /\ pc = "JSYNC_MARK_BUSY" /\ pc' = "JSYNC_DONE" /\ jbusy'
      /\ UNCHANGED <<ram, limbo, dirty, ibits, disk, jrec, jhas, wedged>>
  BY DEF MarkBusy, mem
<1>2. pc \in JournalPhases /\ pc' \in SyncPhases
  BY <1>1 DEF JournalPhases, SyncPhases
<1>3. /\ ~jbusy /\ ~wedged /\ Covered(jhas) /\ "FREE" \in jhas /\ limbo = {}
      /\ \A i \in jhas : Same(jrec, ram, i)
  <2>1. Pending = {}
    BY <1>1 DEF Pending
  <2> QED
    BY <1>1, <1>2, <2>1 DEF IInv, JournalInv, RecordsInv
<1>4. ASSUME NEW c \in Copies
      PROVE  /\ Saved(c) = disk[c]
             /\ Saved(c)' = Replayed(disk[c])
  BY <1>1, <1>3 DEF Saved, Replayed
<1>5. ASSUME NEW c \in Copies PROVE SameTables(Saved(c)', ram)
  BY <1>3, <1>4 DEF SameTables, Replayed, Same, Covered
<1>6. ASSUME NEW c \in Copies, NEW f \in Used(ram)
      PROVE  \/ Saved(c)'.hdr[f].own = ram.hdr[f].own
             \/ Saved(c)'.hdr[f].own = Saved(c).hdr[f].own /\ Settled(f)
  <2>1. f \in Files
    BY DEF Used
  <2>2. CASE f \in jhas
    BY <1>3, <1>4, <2>1, <2>2 DEF Replayed, Same
  <2>3. CASE f \notin jhas
    BY <1>3, <1>4, <2>1, <2>3 DEF Replayed, Covered
  <2> QED
    BY <2>2, <2>3
<1>7. SavedInv' /\ \A f \in Used(ram) : Settled(f)'
  BY <1>1, <1>5, <1>6, SavedFromRam DEF IInv
<1>8. RamInv'
  BY <1>1 DEF IInv, RamInv
<1>9. SyncInv'
  <2>1. \A c : Written(c)' = {}
    BY <1>1 DEF Written
  <2> QED
    BY <1>1, <1>3, <1>5, <1>7, <2>1 DEF SyncInv
<1>10. RecordsInv'
  BY <1>1, <1>2 DEF IInv, RecordsInv, Changed
<1> QED
  BY <1>2, <1>7, <1>8, <1>9, <1>10, PhasesApart
     DEF IInv, IdleInv, JournalInv, MountInv

(* A step of the passes that writes nothing. *)
LEMMA PassStep ==
  ASSUME IInv, TypeOK', pc \in SyncPhases \ {"SYNC_DONE"},
         pc' \in SyncPhases \ {"SYNC_DONE"},
         UNCHANGED <<mem, media, wedged>>,
         \A c \in Copies : jhas \cap Written(c)' \subseteq Written(c)
  PROVE  IInv'
<1>1. \A c \in Copies : Saved(c)' = Saved(c)
  BY SavedStable DEF media
<1>2. /\ RamInv' /\ SavedInv'
      /\ \A f \in Files : Settled(f) => Settled(f)'
  BY <1>1, RamSame, SavedInvStable DEF IInv, mem
<1>3. SyncInv'
  BY <1>1, <1>2 DEF IInv, SyncInv, mem, media, Used
<1>4. RecordsInv'
  BY DEF IInv, RecordsInv, mem, media, Changed
<1> QED
  BY <1>2, <1>3, <1>4, PhasesApart DEF IInv, IdleInv, JournalInv, MountInv

(* The first pass starts with nothing written. *)
LEMMA JournalDoneStep ==
  ASSUME IInv, TypeOK', JournalDone
  PROVE  IInv'
<1>1. /\ pc = "JSYNC_DONE" /\ pc' = "SYNC_WALK_DIRTY" /\ cp' = 1 /\ todo' = dirty
      /\ UNCHANGED <<mem, media, wedged>>
  BY DEF JournalDone
<1>2. pc \in SyncPhases \ {"SYNC_DONE"} /\ pc' \in SyncPhases \ {"SYNC_DONE"}
  BY <1>1 DEF SyncPhases
<1>3. jhas \cap Entries \subseteq dirty
  BY <1>2, FilesAssumption DEF IInv, RecordsInv, Changed, Entries, System
<1>4. \A c \in Copies : jhas \cap Written(c)' = {}
  BY <1>1, <1>3 DEF Written, Copies
<1> QED
  BY <1>1, <1>2, <1>4, PassStep

(* The next pass starts when every entry has been written. *)
LEMMA WalkDoneStep ==
  ASSUME IInv, TypeOK', WalkDone
  PROVE  IInv'
<1>1. /\ pc = "SYNC_WALK_DIRTY" /\ todo = {} /\ UNCHANGED <<mem, media, wedged>>
      /\ \/ cp < NCopies /\ cp' = cp + 1 /\ todo' = dirty /\ pc' = pc
         \/ cp >= NCopies /\ cp' = 1 /\ todo' = {} /\ pc' = "SYNC_UPD_INDEX"
  BY BoundsType DEF WalkDone, IInv, TypeOK, Copies
<1>2. pc \in SyncPhases \ {"SYNC_DONE"} /\ pc' \in SyncPhases \ {"SYNC_DONE"}
  BY <1>1 DEF SyncPhases
<1>3. jhas \cap Entries \subseteq dirty
  BY <1>2, FilesAssumption DEF IInv, RecordsInv, Changed, Entries, System
<1>4. ASSUME NEW c \in Copies PROVE jhas \cap Written(c)' \subseteq Written(c)
  <2>1. c \in Nat /\ c <= NCopies /\ c >= 1 /\ cp \in Nat /\ NCopies \in Nat
    BY BoundsType DEF Copies, IInv, TypeOK
  <2>2. CASE cp < NCopies
    BY <1>1, <1>3, <2>1, <2>2 DEF Written
  <2>3. CASE cp >= NCopies
    BY <1>1, <2>1, <2>3 DEF Written
  <2> QED
    BY <2>1, <2>2, <2>3
<1> QED
  BY <1>1, <1>2, <1>4, PassStep

(* A step of the passes that writes one item in place. *)
LEMMA InPlaceStep ==
  ASSUME IInv, TypeOK', NEW i \in Items, InPlace(i), i \in Files => i \in Used(ram),
         pc \in SyncPhases \ {"SYNC_DONE"}, pc' \in SyncPhases \ {"SYNC_DONE"},
         UNCHANGED <<mem, jrec, jhas, jbusy, wedged>>,
         \A c \in Copies : jhas \cap Written(c)' \subseteq
                            Written(c) \cup (IF c = cp THEN {i} ELSE {})
  PROVE  IInv'
<1>1. /\ jbusy /\ jbusy' /\ jhas' = jhas /\ jrec' = jrec /\ ram' = ram /\ limbo' = limbo
      /\ limbo = {} /\ ram \in Images /\ cp \in Copies /\ disk \in [Copies -> Images]
      /\ \A c \in Copies : SameTables(Saved(c), ram)
      /\ \A f \in Used(ram) : Settled(f)
  BY DEF IInv, TypeOK, SyncInv, mem
<1>2. ASSUME NEW c \in Copies
      PROVE  /\ disk'[c] = IF c = cp THEN With(disk[c], ram, i) ELSE disk[c]
             /\ Saved(c) = Replayed(disk[c]) /\ Saved(c)' = Replayed(disk'[c])
             /\ disk[c] \in Images
  BY <1>1 DEF InPlace, Saved, Replayed
<1>3. ASSUME NEW c \in Copies, NEW j \in Items
      PROVE  Same(disk'[c], IF c = cp /\ j = i THEN ram ELSE disk[c], j)
  <2>1. CASE c = cp
    BY <1>1, <1>2, <2>1, WithSame
  <2>2. CASE c # cp
    BY <1>2, <2>2 DEF Same
  <2> QED
    BY <2>1, <2>2
<1>4. {"ROOT", "INDEX", "FREE"} \subseteq Items /\ Files \subseteq Items
  BY DEF Items, System
<1>5. ASSUME NEW c \in Copies PROVE SameTables(Saved(c)', ram)
  <2>1. \/ disk'[c].idx = disk[c].idx \/ disk'[c].idx = ram.idx
    BY <1>3, <1>4 DEF Same
  <2>2. \/ disk'[c].dir = disk[c].dir \/ disk'[c].dir = ram.dir
    BY <1>3, <1>4 DEF Same
  <2>3. \/ disk'[c].free = disk[c].free \/ disk'[c].free = ram.free
    BY <1>3, <1>4 DEF Same
  <2>4. SameTables(Replayed(disk[c]), ram)
    BY <1>1, <1>2
  <2>5. SameTables(Replayed(disk'[c]), ram)
    BY <2>1, <2>2, <2>3, <2>4 DEF SameTables, Replayed
  <2> QED
    BY <1>2, <2>5
<1>6. ASSUME NEW c \in Copies, NEW f \in Used(ram)
      PROVE  \/ Saved(c)'.hdr[f].own = ram.hdr[f].own
             \/ Saved(c)'.hdr[f].own = Saved(c).hdr[f].own /\ Settled(f)
  <2>1. f \in Files /\ Settled(f)
    BY <1>1 DEF Used
  <2>2. \/ disk'[c].hdr[f].own = disk[c].hdr[f].own
        \/ disk'[c].hdr[f].own = ram.hdr[f].own
    BY <1>3, <1>4, <2>1 DEF Same
  <2> QED
    BY <1>2, <2>1, <2>2 DEF Replayed
<1>7. SavedInv' /\ \A f \in Used(ram) : Settled(f)'
  BY <1>1, <1>5, <1>6, SavedFromRam DEF IInv
<1>8. RamInv'
  BY <1>1 DEF IInv, RamInv
<1>9. ASSUME NEW c \in Copies, NEW j \in jhas \cap Written(c)'
      PROVE  Same(disk'[c], ram, j)
  <2>1. j \in Items
    BY DEF IInv, TypeOK
  <2>2. CASE c = cp /\ j = i
    BY <1>3, <2>1, <2>2
  <2>3. CASE ~(c = cp /\ j = i)
    <3>1. j \in Written(c) /\ Same(disk'[c], disk[c], j)
      BY <1>3, <2>1, <2>3
    <3>2. Same(disk[c], ram, j)
      BY <3>1 DEF IInv, SyncInv
    <3> QED
      BY <3>1, <3>2 DEF Same
  <2> QED
    BY <2>2, <2>3
<1>10. SyncInv'
  BY <1>1, <1>5, <1>7, <1>9 DEF SyncInv
<1>11. RecordsInv'
  BY <1>1 DEF IInv, RecordsInv, mem, Changed
<1> QED
  BY <1>7, <1>8, <1>10, <1>11, PhasesApart DEF IInv, IdleInv, JournalInv, MountInv

(* A header or directory is written to one alternate. *)
LEMMA WriteEntryStep ==
  ASSUME IInv, TypeOK', NEW i \in Entries, WriteEntry(i)
  PROVE  IInv'
<1>1. /\ pc = "SYNC_WALK_DIRTY" /\ pc' = pc /\ cp' = cp /\ i \in todo
      /\ todo' = todo \ {i}
      /\ UNCHANGED <<mem, jrec, jhas, jbusy, wedged>>
  BY DEF WriteEntry
<1>2. pc \in SyncPhases \ {"SYNC_DONE"}
  BY <1>1 DEF SyncPhases
<1>3. \A c \in Copies : Written(c)' \subseteq
                          Written(c) \cup (IF c = cp THEN {i} ELSE {})
  BY <1>1 DEF Written, Copies, IInv, TypeOK
<1>4. i \in Items
  BY DEF Entries, Items, System
<1>5. CASE Skipped(i)
  <2>1. disk' = disk /\ i \in Files /\ i \notin Used(ram)
    BY <1>5 DEF WriteEntry, Skipped
  <2>2. i \notin jhas
    BY <1>2, <2>1 DEF IInv, RecordsInv
  <2>3. \A c \in Copies : jhas \cap Written(c)' \subseteq Written(c)
    BY <1>3, <2>2
  <2> QED
    BY <1>1, <1>2, <2>1, <2>3, PassStep DEF media
<1>6. CASE ~Skipped(i)
  <2>1. InPlace(i) /\ (i \in Files => i \in Used(ram))
    BY <1>6 DEF WriteEntry, Skipped
  <2> QED
    BY <1>1, <1>2, <1>3, <1>4, <2>1, InPlaceStep
<1> QED
  BY <1>5, <1>6

(* The index is written to one alternate. *)
LEMMA UpdateIndexStep ==
  ASSUME IInv, TypeOK', UpdateIndex
  PROVE  IInv'
<1>1. /\ pc = "SYNC_UPD_INDEX" /\ pc' = "SYNC_UPD_FREE" /\ cp' = cp
      /\ UNCHANGED <<mem, jrec, jhas, jbusy, wedged>>
  BY DEF UpdateIndex
<1>2. pc \in SyncPhases \ {"SYNC_DONE"} /\ pc' \in SyncPhases \ {"SYNC_DONE"}
  BY <1>1 DEF SyncPhases
<1>3. \A c \in Copies : Written(c)' \subseteq
                          Written(c) \cup (IF c = cp THEN {"INDEX"} ELSE {})
  BY <1>1 DEF Written, Copies, IInv, TypeOK, Entries, Items, System
<1>4. "INDEX" \in Items /\ "INDEX" \notin Files /\ "INDEX" \notin Entries
  BY FilesAssumption DEF Items, System, Entries
<1>5. CASE ibits
  BY <1>1, <1>2, <1>3, <1>4, <1>5, InPlaceStep DEF UpdateIndex
<1>6. CASE ~ibits
  <2>1. disk' = disk
    BY <1>6 DEF UpdateIndex
  <2>2. "INDEX" \notin jhas
    BY <1>2, <1>4, <1>6 DEF IInv, TypeOK, RecordsInv, Changed
  <2>3. \A c \in Copies : jhas \cap Written(c)' \subseteq Written(c)
    BY <1>3, <2>2
  <2> QED
    BY <1>1, <1>2, <2>1, <2>3, PassStep DEF media
<1> QED
  BY <1>5, <1>6

(* The free list is written to one alternate, and the next is turned to. *)
LEMMA UpdateFreeStep ==
  ASSUME IInv, TypeOK', UpdateFree
  PROVE  IInv'
<1>1. /\ pc = "SYNC_UPD_FREE" /\ InPlace("FREE")
      /\ UNCHANGED <<mem, jrec, jhas, jbusy, wedged>>
      /\ \/ cp < NCopies /\ cp' = cp + 1 /\ pc' = "SYNC_UPD_INDEX"
         \/ cp >= NCopies /\ cp' = 1 /\ pc' = "SYNC_MARK_JCLEAN"
  BY BoundsType DEF UpdateFree, IInv, TypeOK, Copies
<1>2. pc \in SyncPhases \ {"SYNC_DONE"} /\ pc' \in SyncPhases \ {"SYNC_DONE"}
  BY <1>1 DEF SyncPhases
<1>3. ASSUME NEW c \in Copies
      PROVE  Written(c)' \subseteq Written(c) \cup (IF c = cp THEN {"FREE"} ELSE {})
  <2>1. c \in Nat /\ c <= NCopies /\ c >= 1 /\ cp \in Nat /\ NCopies \in Nat
    BY BoundsType DEF Copies, IInv, TypeOK
  <2>2. CASE cp < NCopies
    BY <1>1, <2>1, <2>2 DEF Written
  <2>3. CASE cp >= NCopies
    BY <1>1, <2>1, <2>3 DEF Written
  <2> QED
    BY <2>1, <2>2, <2>3
<1>4. "FREE" \in Items /\ "FREE" \notin Files
  BY FilesAssumption DEF Items, System
<1> QED
  BY <1>1, <1>2, <1>3, <1>4, InPlaceStep

(* What the alternates hold is what a replay would make of them, so the    *)
(* journal may be dropped.                                                 *)
LEMMA MarkCleanStep ==
  ASSUME IInv, TypeOK', MarkClean
  PROVE  IInv'
<1>1. /\ pc = "SYNC_MARK_JCLEAN" /\ pc' = "SYNC_DONE" /\ ~jbusy' /\ jhas' = {}
      /\ ram' = ram /\ limbo' = limbo
      /\ UNCHANGED <<mem, disk, wedged>>
  BY DEF MarkClean, mem
<1>2. pc \in SyncPhases /\ pc' \in SyncPhases
  BY <1>1 DEF SyncPhases
<1>3. /\ jbusy /\ limbo = {} /\ \A f \in Used(ram) : Settled(f)
      /\ \A c \in Copies : SameTables(Saved(c), ram)
      /\ \A c \in Copies : \A i \in jhas : Same(disk[c], ram, i)
  <2>1. \A c : Written(c) = Items
    BY <1>1 DEF Written
  <2>2. jhas \subseteq Items
    BY DEF IInv, TypeOK
  <2> QED
    BY <1>1, <1>2, <2>1, <2>2 DEF IInv, SyncInv
<1>4. ASSUME NEW c \in Copies
      PROVE  Saved(c) = Replayed(disk[c]) /\ Saved(c)' = disk[c]
  BY <1>1, <1>3 DEF Saved
<1>5. ASSUME NEW c \in Copies PROVE SameTables(Saved(c)', ram)
  BY <1>3, <1>4 DEF SameTables, Replayed, Same
<1>6. ASSUME NEW c \in Copies, NEW f \in Used(ram)
      PROVE  \/ Saved(c)'.hdr[f].own = ram.hdr[f].own
             \/ Saved(c)'.hdr[f].own = Saved(c).hdr[f].own /\ Settled(f)
  <2>1. f \in Files
    BY DEF Used
  <2>2. CASE f \in jhas
    BY <1>3, <1>4, <2>1, <2>2 DEF Same
  <2>3. CASE f \notin jhas
    BY <1>3, <1>4, <2>1, <2>3 DEF Replayed
  <2> QED
    BY <2>2, <2>3
<1>7. SavedInv' /\ \A f \in Used(ram) : Settled(f)'
  BY <1>1, <1>5, <1>6, SavedFromRam DEF IInv
<1>8. RamInv'
  BY <1>1 DEF IInv, RamInv
<1>9. SyncInv'
  BY <1>1, <1>3, <1>5, <1>7 DEF SyncInv
<1>10. RecordsInv'
  BY <1>1, <1>2 DEF IInv, RecordsInv
<1> QED
  BY <1>2, <1>7, <1>8, <1>9, <1>10, PhasesApart
     DEF IInv, IdleInv, JournalInv, MountInv

(* When the lists are emptied, nothing is left for the next commit to bring. *)
LEMMA SyncDoneStep ==
  ASSUME IInv, TypeOK', SyncDone
  PROVE  IInv'
<1>1. /\ pc = "SYNC_DONE" /\ pc' = "IDLE" /\ ibits' = FALSE /\ dirty' = {}
      /\ UNCHANGED <<ram, limbo, media, wedged>>
  BY DEF SyncDone
<1>2. pc \in SyncPhases
  BY <1>1 DEF SyncPhases
<1>3. /\ ~jbusy /\ limbo = {} /\ \A f \in Used(ram) : Settled(f)
      /\ \A c \in Copies : SameTables(Saved(c), ram)
  BY <1>1, <1>2 DEF IInv, SyncInv
<1>4. \A c \in Copies : Saved(c)' = Saved(c)
  BY <1>1, SavedStable DEF media
<1>5. Covered({}) /\ NoSavedFree
  <2>1. Covered({})
    BY <1>3 DEF Covered, SameTables
  <2>2. ASSUME NEW c \in Copies, NEW f \in Files
        PROVE  Owned(Saved(c), f) \cap ram.free = {}
    BY <1>3 DEF SameTables, Settled, Owned, Used
  <2> QED
    BY <2>1, <2>2 DEF NoSavedFree
<1>6. /\ RamInv' /\ SavedInv' /\ Covered({})' /\ NoSavedFree'
  BY <1>1, <1>4, <1>5, RamSame, SavedInvStable DEF IInv
<1>7. IdleInv'
  <2>1. Changed' = {}
    BY <1>1 DEF Changed
  <2>2. Covered(Changed)'
    BY <1>6, <2>1 DEF Covered
  <2> QED
    BY <1>1, <1>3, <1>6, <2>2 DEF IdleInv, media
<1> QED
  BY <1>1, <1>6, <1>7, PhasesApart
     DEF IInv, RecordsInv, JournalInv, SyncInv, MountInv

-----------------------------------------------------------------------------
(* Crash, replay and mount.                                                *)

(* A crash leaves the saved volume as it was. *)
LEMMA CrashStep ==
  ASSUME IInv, TypeOK', Crash
  PROVE  IInv'
<1>1. /\ pc' = "DOWN" /\ cp' = 1 /\ wedged' = FALSE /\ ram' = NoImage /\ limbo' = {}
      /\ disk' = disk /\ jbusy' = jbusy /\ (jbusy => jhas' = jhas /\ jrec' = jrec)
  BY DEF Crash, Stop
<1>2. \A c \in Copies : Saved(c)' = Saved(c)
  BY <1>1, SavedStable
<1>3. SavedInv'
  BY <1>2, SavedInvStable DEF IInv
<1>4. RamInv'
  BY <1>1 DEF RamInv, Sound, Apart, Used, Owned, NoImage
<1>5. pc' \in MountPhases /\ MountInv'
  BY <1>1 DEF MountPhases, MountInv
<1> QED
  BY <1>3, <1>4, <1>5, PhasesApart
     DEF IInv, IdleInv, RecordsInv, JournalInv, SyncInv

(* A mount starts with nothing replayed. *)
LEMMA ReadJournalStep ==
  ASSUME IInv, TypeOK', ReadJournal
  PROVE  IInv'
<1>1. /\ pc = "DOWN" /\ cp' = cp /\ UNCHANGED <<mem, media, wedged>>
      /\ \/ jbusy /\ pc' = "JOU_RD_PROC_JOU" /\ todo' = jhas
         \/ ~jbusy /\ pc' = "MOUNT_RD_FH"
  BY DEF ReadJournal
<1>2. pc \in MountPhases /\ pc' \in MountPhases
  BY <1>1 DEF MountPhases
<1>3. \A c \in Copies : Saved(c)' = Saved(c)
  BY <1>1, SavedStable DEF media
<1>4. RamInv' /\ SavedInv'
  BY <1>1, <1>3, RamSame, SavedInvStable DEF IInv, mem
<1>5. cp = 1 /\ ~wedged
  BY <1>1, <1>2 DEF IInv, MountInv
<1>6. MountInv'
  <2>1. ~(cp > 1) /\ \A c \in Copies : ~(c < cp)
    BY <1>5 DEF Copies
  <2> QED
    BY <1>1, <1>5, <2>1 DEF MountInv, media
<1> QED
  BY <1>2, <1>4, <1>6, PhasesApart DEF IInv, IdleInv, RecordsInv, JournalInv, SyncInv

(* Replaying a record again changes nothing a replay would not.            *)
LEMMA ReplayAgain ==
  ASSUME TypeOK, NEW img \in Images, NEW i \in jhas
  PROVE  Replayed(With(img, jrec, i)) = Replayed(img)
<1>1. i \in Items
  BY DEF TypeOK
<1>2. CASE i \in Files
  <2>1. With(img, jrec, i) = [img EXCEPT !.hdr[i] = jrec.hdr[i]]
    BY <1>2, FilesAssumption DEF With, System
  <2>2. /\ With(img, jrec, i).idx = img.idx /\ With(img, jrec, i).dir = img.dir
        /\ With(img, jrec, i).free = img.free
        /\ \A f \in Files \ {i} : With(img, jrec, i).hdr[f] = img.hdr[f]
    BY <2>1 DEF Images
  <2> QED
    BY <2>2 DEF Replayed
<1>3. CASE i \in System
  <2>1. /\ With(img, jrec, i).hdr = img.hdr
        /\ i # "ROOT" => With(img, jrec, i).dir = img.dir
        /\ i # "INDEX" => With(img, jrec, i).idx = img.idx
        /\ i # "FREE" => With(img, jrec, i).free = img.free
    BY <1>3 DEF With, System, Images
  <2> QED
    BY <2>1 DEF Replayed
<1> QED
  BY <1>1, <1>2, <1>3 DEF Items

(* A record is replayed to one alternate. *)
LEMMA ReplayRecordStep ==
  ASSUME IInv, TypeOK', NEW i \in Items, ReplayRecord(i)
  PROVE  IInv'
<1>1. /\ pc = "JOU_RD_PROC_JOU" /\ pc' = pc /\ i \in todo /\ (cp > 1 => i = cur)
      /\ disk' = [disk EXCEPT ![cp] = With(@, jrec, i)]
      /\ \/ cp < NCopies /\ cp' = cp + 1 /\ cur' = i /\ todo' = todo
         \/ cp >= NCopies /\ cp' = 1 /\ todo' = todo \ {i}
      /\ UNCHANGED <<mem, jrec, jhas, jbusy, wedged>>
  BY BoundsType DEF ReplayRecord, IInv, TypeOK, Copies
<1>2. pc \in MountPhases
  BY <1>1 DEF MountPhases
<1>3. /\ jbusy /\ ~wedged /\ todo \subseteq jhas
      /\ \A c \in Copies, j \in jhas :
           j \notin todo \/ (j = cur /\ c < cp) => Same(disk[c], jrec, j)
  BY <1>1, <1>2 DEF IInv, MountInv
<1>4. ASSUME NEW c \in Copies
      PROVE  /\ disk'[c] = IF c = cp THEN With(disk[c], jrec, i) ELSE disk[c]
             /\ Saved(c) = Replayed(disk[c]) /\ Saved(c)' = Replayed(disk'[c])
             /\ disk[c] \in Images
  BY <1>1, <1>3 DEF Saved, Replayed, IInv, TypeOK
<1>5. \A c \in Copies : Saved(c)' = Saved(c)
  BY <1>1, <1>3, <1>4, ReplayAgain DEF IInv
<1>6. RamInv' /\ SavedInv'
  BY <1>1, <1>5, RamSame, SavedInvStable DEF IInv, mem
<1>7. ASSUME NEW c \in Copies, NEW j \in jhas
      PROVE  Same(disk'[c], IF c = cp /\ j = i THEN jrec ELSE disk[c], j)
  <2>1. CASE c = cp
    BY <1>4, <2>1, WithSame DEF IInv, TypeOK
  <2>2. CASE c # cp
    BY <1>4, <2>2 DEF Same
  <2> QED
    BY <2>1, <2>2
<1>8. ASSUME NEW c \in Copies, NEW j \in jhas,
             j \notin todo' \/ (j = cur' /\ c < cp')
      PROVE  Same(disk'[c], jrec, j)
  <2>1. c \in Nat /\ c <= NCopies /\ c >= 1 /\ cp \in Nat /\ cp >= 1 /\ NCopies \in Nat
    BY BoundsType DEF Copies, IInv, TypeOK
  <2>2. CASE c = cp /\ j = i
    BY <1>7, <2>2
  <2>3. CASE ~(c = cp /\ j = i)
    <3>1. j \notin todo \/ (j = cur /\ c < cp)
      BY <1>1, <1>8, <2>1, <2>3
    <3>2. Same(disk[c], jrec, j) /\ Same(disk'[c], disk[c], j)
      BY <1>3, <1>7, <2>3, <3>1
    <3> QED
      BY <3>2 DEF Same
  <2> QED
    BY <2>2, <2>3
<1>9. MountInv'
  <2>1. cp' > 1 => cur' \in todo'
    BY <1>1, BoundsType DEF IInv, TypeOK, Copies
  <2> QED
    BY <1>1, <1>3, <1>8, <2>1 DEF MountInv
<1> QED
  BY <1>1, <1>2, <1>6, <1>9, PhasesApart
     DEF IInv, IdleInv, RecordsInv, JournalInv, SyncInv

(* When every record is in place, the journal may be dropped. *)
LEMMA ReplayDoneStep ==
  ASSUME IInv, TypeOK', ReplayDone
  PROVE  IInv'
<1>1. /\ pc = "JOU_RD_PROC_JOU" /\ pc' = "MOUNT_RD_FH" /\ todo = {} /\ ~jbusy'
      /\ UNCHANGED <<mem, disk, wedged>>
  BY DEF ReplayDone
<1>2. pc \in MountPhases /\ pc' \in MountPhases
  BY <1>1 DEF MountPhases
<1>3. /\ jbusy /\ ~wedged
      /\ \A c \in Copies, i \in jhas : Same(disk[c], jrec, i)
  BY <1>1, <1>2 DEF IInv, MountInv
<1>4. ASSUME NEW c \in Copies
      PROVE  /\ SameTables(Saved(c)', Saved(c))
             /\ \A f \in Files : Saved(c)'.hdr[f].own = Saved(c).hdr[f].own
  <2>1. Saved(c) = Replayed(disk[c]) /\ Saved(c)' = disk[c]
    BY <1>1, <1>3 DEF Saved
  <2> QED
    BY <1>3, <2>1 DEF SameTables, Replayed, Same
<1>5. SavedInv'
  <2>1. ASSUME NEW c \in Copies
        PROVE  /\ Used(Saved(c)') = Used(Saved(c))
               /\ \A f \in Files : Owned(Saved(c)', f) = Owned(Saved(c), f)
    BY <1>4 DEF SameTables, Used, Owned
  <2>2. \A c \in Copies : Sound(Saved(c)')
    BY <1>4, <2>1 DEF IInv, SavedInv, Sound, SameTables, Used
  <2>3. \A c, d \in Copies : Apart(Saved(c)', Saved(d)')
    BY <1>4, <2>1 DEF IInv, SavedInv, Apart, SameTables
  <2>4. \A c, d \in Copies : SameTables(Saved(c)', Saved(d)')
    BY <1>4 DEF IInv, SavedInv, SameTables
  <2> QED
    BY <2>2, <2>3, <2>4 DEF SavedInv, Sound, Apart, SameTables, Used, Owned
<1>6. RamInv'
  BY <1>1 DEF IInv, RamInv, mem
<1>7. MountInv'
  BY <1>1, <1>3 DEF MountInv
<1> QED
  BY <1>2, <1>5, <1>6, <1>7, PhasesApart
     DEF IInv, IdleInv, RecordsInv, JournalInv, SyncInv

(* Any mix of alternates makes one sound volume, and removing its stubs    *)
(* puts their sectors in limbo until the index without them is saved.      *)
LEMMA MountFileStep ==
  ASSUME IInv, TypeOK', NEW pick \in [Items -> Copies], Mount(pick)
  PROVE  IInv'
<1> DEFINE img == Loaded(pick)
           Z == Stubs(img)
<1>1. /\ pc = "MOUNT_RD_FH" /\ pc' = "IDLE" /\ UNCHANGED <<media, wedged>>
      /\ ram' = ZapStubs(img) /\ limbo' = UNION {Owned(img, f) : f \in Z}
      /\ dirty' = (IF Z = {} THEN {} ELSE {"ROOT"}) /\ ibits' = (Z # {})
  BY DEF Mount
<1>2. ~jbusy /\ ~wedged
  BY <1>1 DEF IInv, MountInv, MountPhases
<1>3. \A c \in Copies : Saved(c)' = Saved(c) /\ Saved(c) = disk[c] /\ disk[c] \in Images
  BY <1>1, <1>2, SavedStable DEF media, Saved, IInv, TypeOK
<1>4. SavedInv'
  BY <1>3, SavedInvStable DEF IInv
<1>5. pick["INDEX"] \in Copies /\ pick["ROOT"] \in Copies /\ pick["FREE"] \in Copies
      /\ \A f \in Files : pick[f] \in Copies
  BY DEF Items, System
<1>6. \A c \in Copies : SameTables(img, Saved(c))
  BY <1>3, <1>5 DEF Loaded, SameTables, IInv, SavedInv
<1>7. ASSUME NEW f \in Files
      PROVE  /\ Owned(img, f) = Owned(Saved(pick[f]), f)
             /\ img.idx[f] # {} => img.hdr[f] = Saved(pick[f]).hdr[f]
  <2>1. img.idx[f] = Saved(pick[f]).idx[f]
    BY <1>5, <1>6 DEF SameTables
  <2>2. img.idx[f] # {} => img.hdr[f] = Saved(pick[f]).hdr[f]
    BY <1>3, <1>5 DEF Loaded
  <2> QED
    BY <2>1, <2>2 DEF Owned
<1>8. img.dir = Used(img) /\ Z \subseteq Files /\ img.idx \in [Files -> SUBSET Sectors]
  <2>1. img.dir = Used(img)
    BY <1>5, <1>6 DEF SameTables, Used, IInv, SavedInv, Sound
  <2> QED
    BY <1>3, <1>5, <2>1 DEF Stubs, Used, Loaded, Images
<1>9. \A f \in Files, c \in Copies : Owned(Saved(c), f) \cap img.free = {}
  BY <1>6 DEF SameTables, IInv, SavedInv, Apart
<1>10. \A f, g \in Files, c \in Copies :
         f # g => Owned(Saved(c), f) \cap Owned(img, g) = {}
  BY <1>5, <1>7 DEF IInv, SavedInv, Apart
<1> HIDE DEF img, Z
<1>11. /\ ram'.free = img.free /\ ram'.dir = img.dir \ Z
       /\ \A f \in Files : ram'.idx[f] = IF f \in Z THEN {} ELSE img.idx[f]
       /\ \A f \in Files \ Z : ram'.hdr[f] = img.hdr[f]
       /\ Z = {} => ram'.idx = img.idx
  BY <1>1, <1>8 DEF ZapStubs, Z
<1>12. \A f \in Files : Owned(ram', f) = IF f \in Z THEN {} ELSE Owned(img, f)
  BY <1>11 DEF Owned
<1>13. RamInv'
  <2>1. Sound(ram')
    <3>1. ram'.dir = Used(ram')
      BY <1>8, <1>11 DEF Used
    <3>2. ASSUME NEW f \in Used(ram')
          PROVE  ram'.idx[f] \cap ram'.hdr[f].own = {}
      <4>1. /\ f \in Files \ Z /\ ram'.idx[f] = img.idx[f] /\ img.idx[f] # {}
            /\ ram'.hdr[f] = Saved(pick[f]).hdr[f]
        BY <1>7, <1>11 DEF Used
      <4>2. img.idx[f] = Saved(pick[f]).idx[f] /\ f \in Used(Saved(pick[f]))
        BY <1>5, <1>6, <4>1 DEF SameTables, Used
      <4> QED
        BY <1>5, <4>1, <4>2 DEF IInv, SavedInv, Sound
    <3> QED
      BY <3>1, <3>2 DEF Sound
  <2>2. Apart(ram', ram')
    BY <1>5, <1>7, <1>9, <1>10, <1>11, <1>12 DEF Apart
  <2>3. limbo' \cap ram'.free = {}
    <3>1. \A f \in Z : Owned(img, f) \cap img.free = {}
      BY <1>5, <1>7, <1>8, <1>9
    <3> QED
      BY <1>1, <1>11, <3>1
  <2>4. ASSUME NEW f \in Files PROVE limbo' \cap Owned(ram', f) = {}
    <3>1. \A g \in Z : g # f => Owned(img, g) \cap Owned(img, f) = {}
      BY <1>5, <1>7, <1>8, <1>10
    <3> QED
      BY <1>1, <1>12, <3>1
  <2> QED
    BY <2>1, <2>2, <2>3, <2>4 DEF RamInv, Sound, Apart, Used, Owned
<1>14. ASSUME NEW f \in Used(ram') PROVE Settled(f)'
  <2>1. f \in Files \ Z /\ ram'.idx[f] = img.idx[f]
    BY <1>11 DEF Used
  <2>2. ASSUME NEW c \in Copies
        PROVE  /\ Saved(c).idx[f] = ram'.idx[f]
               /\ Owned(Saved(c), f) \cap (ram'.free \cup limbo') = {}
               /\ \A g \in Files \ {f} : Owned(Saved(c), f) \cap Owned(ram', g) = {}
    <3>1. Saved(c).idx[f] = ram'.idx[f]
      BY <1>6, <2>1 DEF SameTables
    <3>2. Owned(Saved(c), f) \cap ram'.free = {}
      BY <1>9, <1>11, <2>1
    <3>3. \A g \in Z : Owned(Saved(c), f) \cap Owned(img, g) = {}
      BY <1>8, <1>10, <2>1
    <3>4. Owned(Saved(c), f) \cap limbo' = {}
      BY <1>1, <3>3
    <3>5. \A g \in Files \ {f} : Owned(Saved(c), f) \cap Owned(ram', g) = {}
      BY <1>10, <1>12, <2>1
    <3> QED
      BY <3>1, <3>2, <3>4, <3>5
  <2> QED
    BY <1>3, <2>2 DEF Settled
<1>15. IdleInv'
  <2>1. NoSavedFree'
    BY <1>3, <1>9, <1>11 DEF NoSavedFree
  <2>2. Covered(Changed)'
    <3>1. \A c \in Copies : Z = {} => Saved(c)'.dir = ram'.dir /\ Saved(c)'.idx = ram'.idx
      BY <1>3, <1>6, <1>11 DEF SameTables
    <3>2. Z # {} => "ROOT" \in Changed' /\ "INDEX" \in Changed'
      BY <1>1 DEF Changed
    <3> QED
      BY <1>14, <3>1, <3>2 DEF Covered
  <2> QED
    BY <1>1, <1>2, <2>1, <2>2 DEF IdleInv, media
<1> QED
  BY <1>1, <1>4, <1>13, <1>15, PhasesApart
     DEF IInv, RecordsInv, JournalInv, SyncInv, MountInv

-----------------------------------------------------------------------------
(* Handles.                                                                *)

(* Handles stay on files that exist. *)
LEMMA OpenInvStep ==
  ASSUME TypeOK, OpenInv, [Next]_vars
  PROVE  OpenInv'
<1>1. CASE UNCHANGED vars
  BY <1>1 DEF OpenInv, vars, mem, control, Mounted, Used
<1>2. ASSUME NEW f \in Files, NEW H \in Blocks(HdrSects), NEW S \in Extents,
             Create(f, H, S)
      PROVE  OpenInv'
  <2>1. pc' = pc /\ Mounted
    BY <1>2 DEF Create, Operation, control, Mounted, MountPhases
  <2>2. \A g \in Files : open'[g] > 0 => g = f \/ open[g] > 0
    BY <1>2 DEF Create, TypeOK
  <2>3. Used(ram') = Used(ram) \cup {f}
    BY <1>2, EmptyBlock DEF Create, Used, TypeOK, Images
  <2> QED
    BY <2>1, <2>2, <2>3 DEF OpenInv, Mounted
<1>3. ASSUME NEW f \in Files, Delete(f) \/ \E S \in Extents \cup {{}} : TruncateFails(f, S)
      PROVE  OpenInv'
  <2>1. pc' = pc /\ Mounted
    BY <1>3 DEF Delete, TruncateFails, Operation, control, Mounted, MountPhases
  <2>2. \A g \in Files : open'[g] > 0 => g # f /\ open[g] > 0
    BY <1>3, BoundsType DEF Delete, TruncateFails, TypeOK
  <2>3. Used(ram') = Used(ram) \ {f}
    BY <1>3 DEF Delete, TruncateFails, Used, TypeOK, Images
  <2> QED
    BY <2>1, <2>2, <2>3 DEF OpenInv, Mounted
<1>4. ASSUME NEW f \in Files,
             \/ \E H \in Blocks(HdrSects), S \in Extents \cup {{}} : CreateFails(f, H, S)
             \/ \E S \in Extents : Truncate(f, S)
             \/ \E size \in 0..MaxSize : Open(f, size)
             \/ \E S \in Extents : Extend(f, S)
             \/ WriteDone(f)
             \/ WriteFails(f)
             \/ Close(f)
      PROVE  OpenInv'
  <2>1. pc' = pc /\ Mounted
    BY <1>4 DEF CreateFails, Truncate, Open, Extend, WriteDone, WriteFails, Close,
                Operation, control, Mounted, MountPhases
  <2>2. ram'.idx = ram.idx
    BY <1>4 DEF CreateFails, Truncate, Open, Extend, WriteDone, WriteFails, Close,
                TypeOK, Images
  <2>3. \A g \in Files : open'[g] > 0 => open[g] > 0 \/ g \in Used(ram)
    BY <1>4 DEF CreateFails, Truncate, Open, Extend, WriteDone, WriteFails, Close,
                TypeOK
  <2> QED
    BY <2>1, <2>2, <2>3 DEF OpenInv, Mounted, Used
<1>5. CASE FileOperation
  BY <1>2, <1>3, <1>4, <1>5 DEF FileOperation
<1>6. CASE SyncStart \/ SyncStep \/ JournalError
  <2>1. open' = open
    BY <1>6 DEF SyncStart, SyncStep, JournalError, JournalEntry, JournalEntriesDone,
       JournalIndex, JournalFree, MarkBusy, JournalDone, WriteEntry, WalkDone,
       UpdateIndex, UpdateFree, MarkClean, SyncDone, mem
  <2>2. ram'.idx = ram.idx
    BY <1>6 DEF SyncStart, SyncStep, JournalError, JournalEntry, JournalEntriesDone,
       JournalIndex, JournalFree, MarkBusy, JournalDone, WriteEntry, WalkDone,
       UpdateIndex, UpdateFree, MarkClean, SyncDone, mem, TypeOK, Images
  <2>3. Mounted /\ Mounted'
    BY <1>6 DEF SyncStart, SyncStep, JournalError, JournalEntry, JournalEntriesDone,
       JournalIndex, JournalFree, MarkBusy, JournalDone, WriteEntry, WalkDone,
       UpdateIndex, UpdateFree, MarkClean, SyncDone, Mounted, MountPhases,
       JournalPhases
  <2> QED
    BY <2>1, <2>2, <2>3 DEF OpenInv, Used
<1>7. CASE Crash
  BY <1>7 DEF Crash, Stop, OpenInv, NoImage, Used
<1>8. CASE MountStep
  <2>1. ~Mounted /\ open' = open
    BY <1>8 DEF MountStep, ReadJournal, ReplayRecord, ReplayDone, Mount, Mounted,
                MountPhases, mem
  <2>2. \A f \in Files : ~(open[f] > 0)
    BY <2>1 DEF OpenInv
  <2>3. Mounted' \/ Used(ram') = Used(ram)
    BY <1>8 DEF MountStep, ReadJournal, ReplayRecord, ReplayDone, Mount, Mounted,
                MountPhases, mem, Used
  <2> QED
    BY <2>1, <2>2, <2>3 DEF OpenInv
<1> QED
  BY <1>1, <1>5, <1>6, <1>7, <1>8 DEF Next

-----------------------------------------------------------------------------
(* The invariant is inductive.                                             *)

(* A freshly formatted volume satisfies the invariant. *)
LEMMA IInvInit == Init => IInv /\ OpenInv
<1> SUFFICES ASSUME Init PROVE IInv /\ OpenInv
  OBVIOUS
<1>1. TypeOK
  BY TypeInit
<1>2. /\ ram = Fresh /\ limbo = {} /\ dirty = {} /\ ibits = FALSE /\ ~jbusy
      /\ pc = "IDLE" /\ open = [f \in Files |-> 0] /\ \A c \in Copies : disk[c] = Fresh
  BY DEF Init
<1>3. \A f \in Files : Fresh.idx[f] = {} /\ Owned(Fresh, f) = {}
  BY DEF Fresh, NoImage, Owned
<1>4. Fresh.dir = {} /\ Used(Fresh) = {}
  BY <1>3 DEF Fresh, NoImage, Used
<1>5. \A c \in Copies : Saved(c) = Fresh
  BY <1>2 DEF Saved
<1>6. RamInv
  BY <1>2, <1>3, <1>4 DEF RamInv, Sound, Apart
<1>7. SavedInv
  BY <1>3, <1>4, <1>5 DEF SavedInv, Sound, Apart, SameTables
<1>8. Covered(Changed) /\ NoSavedFree
  BY <1>2, <1>3, <1>4, <1>5 DEF Covered, NoSavedFree
<1>9. OpenInv
  BY <1>2 DEF OpenInv, Mounted, MountPhases
<1> QED
  BY <1>1, <1>2, <1>6, <1>7, <1>8, <1>9, PhasesApart
     DEF IInv, IdleInv, RecordsInv, JournalInv, SyncInv, MountInv

(* Every step keeps it. *)
LEMMA IInvStep == IInv /\ OpenInv /\ [Next]_vars => IInv' /\ OpenInv'
<1> SUFFICES ASSUME IInv, OpenInv, [Next]_vars PROVE IInv' /\ OpenInv'
  OBVIOUS
<1>1. TypeOK' /\ OpenInv'
  BY TypeStep, OpenInvStep DEF IInv
<1>2. CASE UNCHANGED vars
  <2>1. UNCHANGED <<ram, limbo, dirty, ibits, media, pc, cp, todo, cur, wedged>>
    BY <1>2 DEF vars, mem, control
  <2>2. \A c \in Copies : Saved(c)' = Saved(c)
    BY <2>1, SavedStable DEF media
  <2>3. RamInv' /\ SavedInv'
    BY <2>1, <2>2, RamSame, SavedInvStable DEF IInv
  <2>4. IdleInv' /\ RecordsInv' /\ JournalInv' /\ SyncInv' /\ MountInv'
    BY <2>1, <2>2 DEF IInv, IdleInv, RecordsInv, JournalInv, SyncInv, MountInv,
       Covered, Settled, NoSavedFree, Changed, Pending, Written, media
  <2> QED
    BY <1>1, <2>3, <2>4 DEF IInv
<1>3. CASE FileOperation
  <2> PICK f \in Files :
        \/ \E H \in Blocks(HdrSects), S \in Extents : Create(f, H, S)
        \/ \E H \in Blocks(HdrSects), S \in Extents \cup {{}} : CreateFails(f, H, S)
        \/ \E S \in Extents : Truncate(f, S)
        \/ \E S \in Extents \cup {{}} : TruncateFails(f, S)
        \/ Delete(f)
        \/ \E size \in 0..MaxSize : Open(f, size)
        \/ \E S \in Extents : Extend(f, S)
        \/ WriteDone(f) \/ WriteFails(f) \/ Close(f)
    BY <1>3 DEF FileOperation
  <2>1. \A S \in Extents : Extend(f, S) => f \in Used(ram)
    BY DEF Extend, OpenInv
  <2> QED
    BY <1>1, <2>1, CreateStep, CreateFailsStep, TruncateStep, TruncateFailsStep,
       DeleteStep, OpenStep, ExtendStep, WriteDoneStep, CloseStep
<1>4. CASE SyncStart \/ SyncStep \/ JournalError
  BY <1>1, <1>4, SyncStartStep, JournalEntryStep, JournalEntriesDoneStep,
     JournalIndexStep, JournalFreeStep, MarkBusyStep, JournalErrorStep,
     JournalDoneStep, WriteEntryStep, WalkDoneStep, UpdateIndexStep,
     UpdateFreeStep, MarkCleanStep, SyncDoneStep DEF SyncStep
<1>5. CASE Crash \/ MountStep
  BY <1>1, <1>5, CrashStep, ReadJournalStep, ReplayRecordStep, ReplayDoneStep,
     MountFileStep DEF MountStep
<1> QED
  BY <1>1, <1>2, <1>3, <1>4, <1>5 DEF Next

(* Each phase of a sync, of a mount and of the operations between them     *)
(* finds what it needs and leaves what the next one needs.                 *)
THEOREM Inductive == Spec => [](IInv /\ OpenInv)
BY IInvInit, IInvStep, PTL DEF Spec

-----------------------------------------------------------------------------
(* What follows from it.                                                   *)

(* After a crash at any step, of the program or of the replay, and after   *)
(* any failure modelled, every alternate is a consistent volume.           *)
THEOREM SavedSafe == Spec => []SavedConsistent
<1>1. IInv => SavedConsistent
  <2> SUFFICES ASSUME IInv, NEW c \in Copies PROVE Consistent(Saved(c))
    BY DEF SavedConsistent
  <2>1. Sound(Saved(c)) /\ Apart(Saved(c), Saved(c))
    BY DEF IInv, SavedInv
  <2> QED
    BY <2>1 DEF Sound, Apart, Consistent, AllOwned, Used
<1> QED
  BY <1>1, Inductive, PTL

(* The same of the RAM tables, whatever alternates they were read from.    *)
THEOREM RamSafe == Spec => []RamConsistent
<1>1. IInv => RamConsistent
  <2> SUFFICES ASSUME IInv PROVE RamConsistent
    OBVIOUS
  <2>1. Sound(ram) /\ Apart(ram, ram)
    BY DEF IInv, RamInv
  <2>2. Consistent(ram)
    BY <2>1 DEF Sound, Apart, Consistent, AllOwned, Used
  <2>3. limbo \cap (ram.free \cup AllOwned(ram)) = {}
    BY DEF IInv, RamInv, AllOwned
  <2> QED
    BY <2>2, <2>3 DEF RamConsistent
<1> QED
  BY <1>1, Inductive, PTL

(* Without failing journal writes, no operation can be given a sector that *)
(* the saved volume owns.                                                  *)
THEOREM LimboSafe ==
  ASSUME "journal" \notin Faults
  PROVE  Spec => []LimboHolds
<1>1. Init => ~wedged
  BY DEF Init
<1>2. ~wedged /\ [Next]_vars => ~wedged'
  BY ZenonT(60) DEF Next, vars, FileOperation, Create, CreateFails, Truncate, TruncateFails,
     Delete, Open, Extend, WriteDone, WriteFails, Close, Operation, SyncStart,
     SyncStep, JournalError, JournalEntry, JournalEntriesDone, JournalIndex,
     JournalFree, MarkBusy, JournalDone, WriteEntry, WalkDone, UpdateIndex,
     UpdateFree, MarkClean, SyncDone, Crash, Stop, MountStep, ReadJournal,
     ReplayRecord, ReplayDone, Mount
<1>3. IInv /\ ~wedged => LimboHolds
  BY DEF IInv, IdleInv, NoSavedFree, LimboHolds, AllOwned
<1>4. Spec => []~wedged
  BY <1>1, <1>2, PTL DEF Spec
<1> QED
  BY <1>3, <1>4, Inductive, PTL

-----------------------------------------------------------------------------
(* File operations and completions of writes.                              *)

(* An operation on f puts f on the dirty list, or changes neither its stub *)
(* mark nor, unless a write is still to be recorded, its pointers.         *)
LEMMA HeadersOperation ==
  ASSUME IInv, TypeOK', HdrInv, pc = "IDLE", pc' = "IDLE", NEW f \in Files,
         UNCHANGED <<media, wedged, crashes>>,
         \A g \in Files \ {f} : ram'.idx[g] = ram.idx[g] /\ ram'.hdr[g] = ram.hdr[g],
         \A g \in Files \ {f} : /\ g \in upd' <=> g \in upd
                                /\ g \in ext' <=> g \in ext,
         dirty \subseteq dirty',
         \/ f \in dirty' \/ f \notin Used(ram')
         \/ /\ ram'.idx[f] = ram.idx[f] /\ ram'.hdr[f].new = ram.hdr[f].new
            /\ ram'.hdr[f].size <= ram.hdr[f].size
            /\ f \in upd => f \in upd'
            /\ \/ f \in ext' \cup upd'
               \/ ram'.hdr[f].own = ram.hdr[f].own /\ f \notin ext
  PROVE  HdrInv'
<1>1. \A c \in Copies : Saved(c)' = Saved(c)
  BY SavedStable DEF media
<1>2. ASSUME NEW g \in Used(ram') \ dirty'
      PROVE  /\ g \in Used(ram) \ dirty /\ ram'.idx[g] = ram.idx[g]
             /\ ram'.hdr[g].new = ram.hdr[g].new
             /\ g \in upd => g \in upd'
             /\ \/ g \in ext' \cup upd'
                \/ ram'.hdr[g].own = ram.hdr[g].own /\ g \notin ext \cup upd
  BY <1>2 DEF Used
<1>3. ASSUME ~wedged PROVE HeadersCovered(dirty)'
  <2>1. SUFFICES ASSUME NEW g \in Used(ram') \ dirty' PROVE HeaderSaved(g)'
    BY DEF HeadersCovered
  <2>2. HeaderSaved(g)
    BY <1>2, <1>3 DEF HdrInv, HeadersInv, HeadersCovered
  <2>3. \A c \in Copies : Saved(c)'.hdr[g].new = ram'.hdr[g].new
    BY <1>1, <1>2, <2>2 DEF HeaderSaved
  <2>4. \/ g \in ext' \cup upd' \/ "write" \in Faults
        \/ \E c \in Copies : ram'.hdr[g].own \subseteq Saved(c)'.hdr[g].own
    BY <1>1, <1>2, <2>2 DEF HeaderSaved
  <2> QED
    BY <2>3, <2>4 DEF HeaderSaved
<1>4. HeadersInv'
  BY <1>3, PhasesApart DEF HeadersInv
<1>5. StubsInv'
  BY <1>1, BoundsType DEF HdrInv, StubsInv, Used
<1>6. InPlaceInv' /\ ReplayInv'
  BY PhasesApart DEF InPlaceInv, ReplayInv
<1>7. AgreeInv'
  <2>1. SUFFICES ASSUME crashes = 0, NEW c \in Copies,
                        NEW g \in Used(Saved(1)) \ (upd' \cup dirty'),
                        ram'.idx[g] = Saved(1).idx[g]
                 PROVE  disk[1].hdr[g] = disk[c].hdr[g]
    BY <1>1, BoundsType, PhasesApart DEF AgreeInv, Mounted, Used, media
  <2>2. g \in Used(ram') \ dirty'
    BY <2>1 DEF Used
  <2>3. g \notin upd \cup dirty /\ ram.idx[g] = Saved(1).idx[g]
    BY <1>2, <2>1, <2>2
  <2> QED
    BY <2>1, <2>3 DEF HdrInv, AgreeInv
<1>8. SizeNotLost'
  <2>1. SUFFICES ASSUME NEW g \in Used(ram') \ (dirty' \cup upd')
                 PROVE  \E c \in Copies : Saved(c)'.hdr[g].size >= ram'.hdr[g].size
    BY DEF SizeNotLost
  <2>2. g \in Used(ram) \ (dirty \cup upd) /\ Mounted
    BY <1>2, PhasesApart DEF Mounted
  <2>3. PICK c \in Copies : Saved(c).hdr[g].size >= ram.hdr[g].size
    BY <2>2 DEF HdrInv, SizeNotLost
  <2>4. ram'.hdr[g].size <= ram.hdr[g].size
    <3>1. g \in Files /\ ram.hdr[g].size \in 0..MaxSize
      BY <2>2 DEF IInv, TypeOK, Images, Headers, Used
    <3> QED
      BY <2>1, <3>1, BoundsType
  <2>5. Saved(c).hdr[g].size \in Int /\ ram.hdr[g].size \in Int /\ ram'.hdr[g].size \in Int
    <3>1. g \in Files /\ ram \in Images /\ ram' \in Images /\ Saved(c) \in Images
      BY <2>2, SavedType DEF IInv, TypeOK, Used
    <3> QED
      BY <3>1, BoundsType DEF Images, Headers
  <2> QED
    BY <1>1, <2>3, <2>4, <2>5
<1> QED
  BY <1>4, <1>5, <1>6, <1>7, <1>8 DEF HdrInv

(* What the completion of a write changes: the size of a header that is    *)
(* then marked and on the dirty list.                                      *)
LEMMA WriteChanges ==
  ASSUME IInv, NEW f \in Files, WriteDone(f) \/ WriteFails(f)
  PROVE  /\ UNCHANGED <<media, ibits, pc, cp, cur, wedged, crashes>> /\ Mounted
         /\ dirty \subseteq dirty' /\ upd \subseteq upd' /\ todo \subseteq todo'
         /\ dirty' \ upd' \subseteq dirty \ upd
         /\ todo' \subseteq todo \cup dirty'
         /\ ram'.idx = ram.idx
         /\ \A g \in Files : /\ ram'.hdr[g].own = ram.hdr[g].own
                             /\ ram'.hdr[g].new = ram.hdr[g].new
                             /\ g \notin upd' => ram'.hdr[g] = ram.hdr[g]
         /\ "write" \in Faults \/ ext \subseteq ext' \cup upd'
<1>1. CASE WriteDone(f)
  <2>1. /\ ram' = [ram EXCEPT !.hdr[f].size = @ + 1] /\ ram \in Images
        /\ upd' = upd \cup {f} /\ ext \subseteq ext' \cup {f}
        /\ dirty' = dirty \cup {f}
    BY <1>1 DEF WriteDone, AddToDirty, IInv, TypeOK
  <2>2. /\ UNCHANGED <<media, ibits, pc, cp, cur, wedged, crashes>> /\ Mounted
        /\ todo \subseteq todo' /\ todo' \subseteq todo \cup {f}
    BY <1>1 DEF WriteDone, AddToDirty, counts
  <2>3. /\ ram'.idx = ram.idx
        /\ \A g \in Files : /\ ram'.hdr[g].own = ram.hdr[g].own
                            /\ ram'.hdr[g].new = ram.hdr[g].new
                            /\ g # f => ram'.hdr[g] = ram.hdr[g]
    BY <2>1 DEF Images, Headers
  <2> QED
    BY <2>1, <2>2, <2>3
<1>2. CASE WriteFails(f)
  BY <1>2 DEF WriteFails, control, counts
<1> QED
  BY <1>1, <1>2

(* A header whose stub mark and pointers stay is saved as it was. *)
LEMMA HeaderSavedSame ==
  ASSUME NEW f, \A c \in Copies : Saved(c)' = Saved(c),
         ram'.hdr[f].new = ram.hdr[f].new, ram'.hdr[f].own = ram.hdr[f].own,
         "write" \in Faults \/ (f \in ext \cup upd => f \in ext' \cup upd'),
         HeaderSaved(f)
  PROVE  HeaderSaved(f)'
<1>1. \A c \in Copies : Saved(c)'.hdr[f].new = ram'.hdr[f].new
  BY DEF HeaderSaved
<1>2. \/ f \in ext' \cup upd' \/ "write" \in Faults
      \/ \E c \in Copies : ram'.hdr[f].own \subseteq Saved(c)'.hdr[f].own
  BY DEF HeaderSaved
<1> QED
  BY <1>1, <1>2 DEF HeaderSaved

(* A write that completes in any phase. *)
LEMMA HeadersWrite ==
  ASSUME IInv, TypeOK', HdrInv, NEW f \in Files, WriteDone(f) \/ WriteFails(f)
  PROVE  HdrInv'
<1>0. /\ UNCHANGED <<media, ibits, pc, cp, cur, wedged, crashes>> /\ Mounted
      /\ dirty \subseteq dirty' /\ upd \subseteq upd' /\ todo \subseteq todo'
      /\ dirty' \ upd' \subseteq dirty \ upd
      /\ todo' \subseteq todo \cup dirty'
      /\ ram'.idx = ram.idx
      /\ \A g \in Files : /\ ram'.hdr[g].own = ram.hdr[g].own
                          /\ ram'.hdr[g].new = ram.hdr[g].new
                          /\ g \notin upd' => ram'.hdr[g] = ram.hdr[g]
      /\ "write" \in Faults \/ ext \subseteq ext' \cup upd'
  BY WriteChanges
<1>1. \A c \in Copies : Saved(c)' = Saved(c)
  BY <1>0, SavedStable DEF media
<1>2. Used(ram') = Used(ram) /\ Used(ram) \subseteq Files
  BY <1>0 DEF Used
<1>3. \A g \in Files : HeaderSaved(g) => HeaderSaved(g)'
  <2>1. SUFFICES ASSUME NEW g \in Files, HeaderSaved(g) PROVE HeaderSaved(g)'
    OBVIOUS
  <2>2. "write" \in Faults \/ (g \in ext \cup upd => g \in ext' \cup upd')
    BY <1>0
  <2> QED
    BY <1>0, <1>1, <2>1, <2>2, HeaderSavedSame
<1>4. \A S, T : S \subseteq T /\ HeadersCovered(S) => HeadersCovered(T)'
  BY <1>2, <1>3 DEF HeadersCovered
<1>5. HeadersInv'
  <2>1. jhas \cup Pending \subseteq (jhas \cup Pending)'
    BY <1>0 DEF Pending, Changed, media
  <2>2. pc \in JournalPhases => HeadersCovered(jhas \cup Pending)'
    BY <1>4, <2>1 DEF HdrInv, HeadersInv
  <2> QED
    BY <1>0, <1>2, <1>4, <2>2 DEF HdrInv, HeadersInv, media
<1>6. StubsInv'
  BY <1>1, BoundsType DEF HdrInv, StubsInv, Used
<1>7. InPlaceInv'
  <2>1. \A c : Written(c)' \subseteq Written(c)
    BY <1>0 DEF Written
  <2> QED
    BY <1>0, <1>2, <2>1 DEF HdrInv, InPlaceInv, media
<1>8. ReplayInv'
  BY <1>0 DEF ReplayInv, Mounted, MountPhases
<1>9. AgreeInv'
  BY <1>0, <1>1, BoundsType DEF HdrInv, AgreeInv, Mounted, Used, media
<1>10. SizeNotLost'
  BY <1>0, <1>1, <1>2 DEF HdrInv, SizeNotLost
<1> QED
  BY <1>5, <1>6, <1>7, <1>8, <1>9, <1>10 DEF HdrInv

-----------------------------------------------------------------------------
(* The journal.                                                            *)

(* A step of the journalling keeps every header it has still to record in  *)
(* the journal or among the items to come.                                 *)
LEMMA HeadersJournal ==
  ASSUME IInv, HdrInv, pc \in {"IDLE"} \cup JournalPhases,
         pc' \in {"IDLE"} \cup JournalPhases, ~wedged,
         ram'.idx = ram.idx, ram'.hdr = ram.hdr,
         UNCHANGED <<dirty, upd, ext, disk, jbusy, crashes>>,
         pc' = "IDLE" => wedged',
         pc = "IDLE" /\ pc' \in JournalPhases => dirty \subseteq (jhas \cup Pending)',
         pc \in JournalPhases /\ pc' \in JournalPhases =>
           (jhas \cup Pending) \cap Used(ram) \subseteq (jhas \cup Pending)',
         pc' \in JournalPhases =>
           \A f \in jhas' \cap Files : jrec'.hdr[f].new = ram'.hdr[f].new
  PROVE  HdrInv'
<1>1. ~jbusy /\ Mounted /\ Mounted'
  BY PhasesApart DEF IInv, IdleInv, JournalInv, Mounted
<1>2. \A c \in Copies : Saved(c)' = Saved(c)
  BY <1>1, SavedStable
<1>3. Used(ram') = Used(ram) /\ Used(ram) \subseteq Files
  BY DEF Used
<1>4. \A f : HeaderSaved(f) => HeaderSaved(f)'
  BY <1>2, HeaderSavedSame
<1>5. pc' \in JournalPhases => HeadersCovered(jhas \cup Pending)'
  <2>1. CASE pc = "IDLE"
    BY <1>3, <1>4, <2>1 DEF HdrInv, HeadersInv, HeadersCovered
  <2>2. CASE pc \in JournalPhases
    BY <1>3, <1>4, <2>2 DEF HdrInv, HeadersInv, HeadersCovered
  <2> QED
    BY <2>1, <2>2
<1>6. HeadersInv'
  BY <1>5, PhasesApart DEF HeadersInv
<1>7. StubsInv'
  BY <1>2, BoundsType DEF HdrInv, StubsInv, Used
<1>8. InPlaceInv' /\ ReplayInv'
  BY PhasesApart DEF InPlaceInv, ReplayInv, MountPhases, JournalPhases
<1>9. AgreeInv'
  BY <1>1, <1>2, BoundsType DEF HdrInv, AgreeInv, Used
<1>10. SizeNotLost'
  BY <1>1, <1>2, <1>3 DEF HdrInv, SizeNotLost
<1> QED
  BY <1>6, <1>7, <1>8, <1>9, <1>10 DEF HdrInv

(* Recording an item records the stub mark of its header. *)
LEMMA RecordMark ==
  ASSUME IInv, HdrInv, NEW i \in Items, Journal(i), ram' = ram, pc \in JournalPhases
  PROVE  \A f \in jhas' \cap Files : jrec'.hdr[f].new = ram'.hdr[f].new
<1>1. jhas' = jhas \cup {i} /\ jrec' = With(jrec, ram, i)
  BY DEF Journal
<1>2. \A f \in jhas \cap Files : jrec.hdr[f].new = ram.hdr[f].new
  BY DEF HdrInv, HeadersInv
<1>3. jrec \in Images /\ ram \in Images
  BY DEF IInv, TypeOK
<1>4. CASE i \in Files
  <2>1. jrec' = [jrec EXCEPT !.hdr[i] = ram.hdr[i]]
    BY <1>1, <1>4, FilesAssumption DEF With, System
  <2>2. \A f \in Files : jrec'.hdr[f] = IF f = i THEN ram.hdr[f] ELSE jrec.hdr[f]
    BY <1>3, <2>1 DEF Images
  <2> QED
    BY <1>1, <1>2, <2>2
<1>5. CASE i \in System
  <2>1. jrec'.hdr = jrec.hdr
    BY <1>1, <1>3, <1>5 DEF With, System, Images
  <2>2. i \notin Files
    BY <1>5, FilesAssumption
  <2> QED
    BY <1>1, <1>2, <2>1, <2>2
<1> QED
  BY <1>4, <1>5 DEF Items

(* The start of a sync and the steps of fsys_jou_q up to the commit. *)
LEMMA HeadersJournalSteps ==
  ASSUME IInv, HdrInv,
         \/ SyncStart \/ (\E i \in Entries : JournalEntry(i)) \/ JournalEntriesDone
         \/ JournalIndex \/ JournalFree \/ JournalError
  PROVE  HdrInv'
<1>1. CASE SyncStart
  <2>1. /\ pc = "IDLE" /\ pc' = "JSYNC_FH_TO_JOU" /\ todo' = dirty /\ jhas' = {}
        /\ ~wedged /\ UNCHANGED <<ram, dirty, upd, ext, disk, jbusy, crashes>>
    BY <1>1 DEF SyncStart, mem, counts
  <2>2. dirty \subseteq (jhas \cup Pending)'
    BY <2>1 DEF Pending
  <2>3. pc' \in JournalPhases
    BY <2>1 DEF JournalPhases
  <2> QED
    BY <2>1, <2>2, <2>3, PhasesApart, HeadersJournal
<1>2. ASSUME NEW i \in Entries, JournalEntry(i) PROVE HdrInv'
  <2>1. /\ pc = "JSYNC_FH_TO_JOU" /\ pc' = pc /\ i \in todo /\ todo' = todo \ {i}
        /\ UNCHANGED <<ram, dirty, ibits, upd, ext, disk, jbusy, wedged, crashes>>
    BY <1>2 DEF JournalEntry, mem, counts
  <2>2. pc \in JournalPhases
    BY <2>1 DEF JournalPhases
  <2>3. ~wedged
    BY <2>2 DEF IInv, RecordsInv
  <2>4. Pending \subseteq Pending' \cup {i}
    BY <2>1 DEF Pending, Changed
  <2>5. CASE Skipped(i)
    <3>1. jhas' = jhas /\ jrec' = jrec /\ i \notin Used(ram)
      BY <1>2, <2>5 DEF JournalEntry, Skipped
    <3>2. (jhas \cup Pending) \cap Used(ram) \subseteq (jhas \cup Pending)'
      BY <2>4, <3>1
    <3>3. \A f \in jhas' \cap Files : jrec'.hdr[f].new = ram'.hdr[f].new
      BY <2>1, <2>2, <3>1 DEF HdrInv, HeadersInv
    <3> QED
      BY <2>1, <2>2, <2>3, <3>2, <3>3, PhasesApart, HeadersJournal
  <2>6. CASE ~Skipped(i)
    <3>1. Journal(i) /\ jhas' = jhas \cup {i} /\ i \in Items
      BY <1>2, <2>6 DEF JournalEntry, Journal, Entries, Items, System
    <3>2. \A f \in jhas' \cap Files : jrec'.hdr[f].new = ram'.hdr[f].new
      BY <2>1, <2>2, <3>1, RecordMark
    <3>3. (jhas \cup Pending) \cap Used(ram) \subseteq (jhas \cup Pending)'
      BY <2>4, <3>1
    <3> QED
      BY <2>1, <2>2, <2>3, <3>2, <3>3, PhasesApart, HeadersJournal
  <2> QED
    BY <2>5, <2>6
<1>3. CASE JournalEntriesDone
  <2>1. /\ pc = "JSYNC_FH_TO_JOU" /\ pc' = "JSYNC_INDEX_TO_JOU" /\ todo = {}
        /\ UNCHANGED <<ram, dirty, ibits, upd, ext, disk, jhas, jrec, jbusy, wedged, crashes>>
    BY <1>3 DEF JournalEntriesDone, mem, media, counts
  <2>2. pc \in JournalPhases /\ pc' \in JournalPhases
    BY <2>1 DEF JournalPhases
  <2>3. Pending' = Pending
    BY <2>1 DEF Pending, Changed
  <2>4. ~wedged /\ \A f \in jhas' \cap Files : jrec'.hdr[f].new = ram'.hdr[f].new
    BY <2>1, <2>2 DEF IInv, RecordsInv, HdrInv, HeadersInv
  <2> QED
    BY <2>1, <2>2, <2>3, <2>4, PhasesApart, HeadersJournal
<1>4. CASE JournalIndex
  <2>1. /\ pc = "JSYNC_INDEX_TO_JOU" /\ pc' = "JSYNC_FREE_FH_TO_JOU"
        /\ UNCHANGED <<ram, dirty, ibits, upd, ext, disk, jbusy, wedged, crashes>>
        /\ IF ibits THEN Journal("INDEX") ELSE UNCHANGED <<jhas, jrec>>
    BY <1>4 DEF JournalIndex, mem, counts
  <2>2. pc \in JournalPhases /\ pc' \in JournalPhases
    BY <2>1 DEF JournalPhases
  <2>3. ~wedged
    BY <2>2 DEF IInv, RecordsInv
  <2>4. Pending \subseteq {"INDEX"} /\ "INDEX" \in Items /\ "INDEX" \notin Used(ram)
    BY <2>1, FilesAssumption DEF Pending, Items, System, Used
  <2>5. jhas \subseteq jhas'
    BY <2>1 DEF Journal
  <2>6. \A f \in jhas' \cap Files : jrec'.hdr[f].new = ram'.hdr[f].new
    BY <2>1, <2>2, <2>4, RecordMark DEF HdrInv, HeadersInv
  <2>7. (jhas \cup Pending) \cap Used(ram) \subseteq (jhas \cup Pending)'
    BY <2>4, <2>5
  <2> QED
    BY <2>1, <2>2, <2>3, <2>6, <2>7, PhasesApart, HeadersJournal
<1>5. CASE JournalFree
  <2>1. /\ pc = "JSYNC_FREE_FH_TO_JOU" /\ pc' = "JSYNC_MARK_BUSY"
        /\ jhas' = jhas \cup {"FREE"} /\ jrec' = With(jrec, ram', "FREE")
        /\ UNCHANGED <<dirty, upd, ext, disk, jbusy, wedged, crashes>>
        /\ ram' = [ram EXCEPT !.free = @ \cup limbo]
    BY <1>5 DEF JournalFree, counts
  <2>2. pc \in JournalPhases /\ pc' \in JournalPhases
    BY <2>1 DEF JournalPhases
  <2>3. ram'.idx = ram.idx /\ ram'.hdr = ram.hdr /\ jrec'.hdr = jrec.hdr
    BY <2>1 DEF IInv, TypeOK, Images, With
  <2>4. "FREE" \notin Files
    BY FilesAssumption DEF System
  <2>5. \A f \in jhas' \cap Files : jrec'.hdr[f].new = ram'.hdr[f].new
    BY <2>1, <2>2, <2>3, <2>4 DEF HdrInv, HeadersInv
  <2>6. ~wedged /\ Pending = {}
    BY <2>1, <2>2 DEF IInv, RecordsInv, Pending
  <2> QED
    BY <2>1, <2>2, <2>3, <2>5, <2>6, PhasesApart, HeadersJournal
<1>6. CASE JournalError
  <2>1. /\ pc \in JournalPhases /\ pc' = "IDLE" /\ wedged'
        /\ UNCHANGED <<ram, dirty, upd, ext, disk, jbusy, crashes>>
    BY <1>6 DEF JournalError, mem, counts
  <2>2. ~wedged
    BY <2>1 DEF IInv, RecordsInv
  <2> QED
    BY <2>1, <2>2, PhasesApart, HeadersJournal
<1> QED
  BY <1>1, <1>2, <1>3, <1>4, <1>5, <1>6

-----------------------------------------------------------------------------
(* The commit and the passes over the alternates.                          *)

(* The index, directory and free list of RAM are those of every alternate. *)
TablesSaved == \A c \in Copies : SameTables(Saved(c), ram)

(* With the saved tables those of RAM and every header saved, the          *)
(* alternates agree on the stubs.                                          *)
LEMMA StubsFromHeaders == TablesSaved /\ HeadersCovered({}) => StubsInv
<1> SUFFICES ASSUME TablesSaved, HeadersCovered({}),
                    NEW c \in Copies, NEW f \in Used(Saved(1))
             PROVE  Saved(c).hdr[f].new = Saved(1).hdr[f].new
  BY DEF StubsInv
<1>1. f \in Used(ram) \ {} /\ 1 \in Copies
  BY BoundsType DEF TablesSaved, SameTables, Used
<1> QED
  BY <1>1 DEF TablesSaved, HeadersCovered, HeaderSaved

(* The commit saves every header, by its record or because it is the same. *)
LEMMA HeadersMarkBusy ==
  ASSUME IInv, IInv', HdrInv, MarkBusy
  PROVE  HdrInv'
<1>1. /\ pc = "JSYNC_MARK_BUSY" /\ pc' = "JSYNC_DONE" /\ jbusy'
      /\ UNCHANGED <<ram, upd, ext, dirty, disk, jrec, jhas, crashes>>
  BY DEF MarkBusy, mem, counts
<1>2. pc \in JournalPhases /\ pc' \in SyncPhases
  BY <1>1 DEF JournalPhases, SyncPhases
<1>3. /\ ~jbusy /\ Covered(jhas) /\ HeadersCovered(jhas)
      /\ \A f \in jhas \cap Files : jrec.hdr[f].own = ram.hdr[f].own /\ f \in dirty
      /\ \A f \in jhas \cap Files : jrec.hdr[f].new = ram.hdr[f].new
  <2>1. Pending = {} /\ "INDEX" \notin Files /\ "FREE" \notin Files
    BY <1>1, FilesAssumption DEF Pending, System
  <2> QED
    BY <1>1, <1>2, <2>1 DEF IInv, JournalInv, RecordsInv, HdrInv, HeadersInv, Same,
                            Changed
<1>4. /\ \A c \in Copies : SameTables(Saved(c)', ram')
      /\ Used(Saved(1)') = Used(ram) /\ Used(ram) \subseteq Files
  BY <1>1, <1>2, BoundsType DEF IInv, SyncInv, SameTables, Used
<1>5. ASSUME NEW c \in Copies, NEW f \in Files
      PROVE  Saved(c)'.hdr[f] = IF f \in jhas THEN jrec.hdr[f] ELSE Saved(c).hdr[f]
  BY <1>1, <1>3 DEF Saved, Replayed
<1>6. HeadersCovered({})'
  <2>1. SUFFICES ASSUME NEW f \in Used(ram) PROVE HeaderSaved(f)'
    BY <1>1 DEF HeadersCovered
  <2>2. f \in Files
    BY <1>4
  <2>3. CASE f \in jhas
    <3>1. \A c \in Copies : Saved(c)'.hdr[f] = jrec.hdr[f]
      BY <1>5, <2>2, <2>3
    <3>2. \A c \in Copies : /\ Saved(c)'.hdr[f].new = ram'.hdr[f].new
                            /\ Saved(c)'.hdr[f].own = ram'.hdr[f].own
      BY <1>1, <1>3, <2>2, <2>3, <3>1
    <3>3. \E c \in Copies : ram'.hdr[f].own \subseteq Saved(c)'.hdr[f].own
      BY <3>2, BoundsType
    <3> QED
      BY <3>2, <3>3 DEF HeaderSaved
  <2>4. CASE f \notin jhas
    <3>1. \A c \in Copies : Saved(c)'.hdr[f] = Saved(c).hdr[f]
      BY <1>5, <2>2, <2>4
    <3>2. HeaderSaved(f)
      BY <1>3, <2>4 DEF HeadersCovered
    <3>3. \A c \in Copies : Saved(c)'.hdr[f].new = ram'.hdr[f].new
      BY <1>1, <3>1, <3>2 DEF HeaderSaved
    <3>4. \/ f \in ext' \cup upd' \/ "write" \in Faults
          \/ \E c \in Copies : ram'.hdr[f].own \subseteq Saved(c)'.hdr[f].own
      BY <1>1, <3>1, <3>2 DEF HeaderSaved
    <3> QED
      BY <3>3, <3>4 DEF HeaderSaved
  <2> QED
    BY <2>3, <2>4
<1>7. HeadersInv'
  BY <1>1, <1>2, <1>3, <1>6, PhasesApart DEF HeadersInv
<1>8. StubsInv'
  <2>1. TablesSaved'
    BY <1>4 DEF TablesSaved
  <2> QED
    BY <1>6, <2>1, StubsFromHeaders, PTL
<1>9. InPlaceInv' /\ ReplayInv'
  BY <1>1 DEF InPlaceInv, ReplayInv, Written
<1>10. AgreeInv'
  <2>1. SUFFICES ASSUME crashes = 0, NEW c \in Copies,
                        NEW f \in Used(ram) \ (upd \cup dirty)
                 PROVE  disk[1].hdr[f] = disk[c].hdr[f]
    BY <1>1, <1>2, <1>4, PhasesApart DEF AgreeInv, Mounted
  <2>2. f \in Files /\ f \notin jhas
    BY <1>3, <1>4
  <2>3. Settled(f)
    BY <1>3, <2>1, <2>2 DEF Covered
  <2>4. Saved(1).idx[f] = ram.idx[f] /\ f \in Used(Saved(1))
    BY <2>3, BoundsType DEF Settled, Used
  <2> QED
    BY <2>1, <2>4 DEF HdrInv, AgreeInv
<1>11. SizeNotLost'
  <2>1. \A f \in Used(ram) \ (dirty \cup upd) : f \in Files /\ f \notin jhas
    BY <1>3, <1>4
  <2>2. Mounted
    BY <1>2, PhasesApart DEF Mounted
  <2> QED
    BY <1>1, <1>5, <2>1, <2>2 DEF HdrInv, SizeNotLost
<1> QED
  BY <1>7, <1>8, <1>9, <1>10, <1>11 DEF HdrInv

(* A step of the passes that writes nothing. *)
LEMMA HeadersPass ==
  ASSUME IInv, HdrInv, pc \in SyncPhases \ {"SYNC_DONE"},
         pc' \in SyncPhases \ {"SYNC_DONE"},
         UNCHANGED <<mem, media, wedged, crashes>>,
         pc' = "SYNC_WALK_DIRTY" => todo' \subseteq dirty,
         \A c \in Copies :
           dirty \cap Used(ram) \cap Written(c)' \subseteq Written(c)
  PROVE  HdrInv'
<1>0. UNCHANGED <<ram, dirty, upd, ext, disk, jrec, jhas, jbusy, crashes>>
  BY DEF mem, media
<1>1. \A c \in Copies : Saved(c)' = Saved(c)
  BY <1>0, SavedStable
<1>2. Mounted /\ Mounted'
  BY PhasesApart DEF Mounted
<1>3. Used(ram') = Used(ram) /\ \A f : HeaderSaved(f) => HeaderSaved(f)'
  BY <1>0, <1>1, HeaderSavedSame
<1>4. HeadersInv'
  BY <1>0, <1>3, PhasesApart DEF HdrInv, HeadersInv, HeadersCovered
<1>5. StubsInv' /\ AgreeInv' /\ SizeNotLost'
  BY <1>0, <1>1, <1>2, BoundsType
     DEF HdrInv, StubsInv, AgreeInv, SizeNotLost, Used
<1>6. \A f \in jhas \cap Files : f \in dirty
  BY FilesAssumption DEF IInv, RecordsInv, Changed, System
<1>7. InPlaceInv'
  <2>1. SUFFICES ASSUME NEW c \in Copies, NEW f \in Used(ram) \cap Written(c)'
                 PROVE  /\ f \in jhas => disk[c].hdr[f].new = ram.hdr[f].new
                        /\ f \in dirty \ upd => disk[c].hdr[f] = ram.hdr[f]
    BY <1>0 DEF InPlaceInv
  <2>2. f \in Files
    BY DEF Used
  <2>3. f \in dirty => f \in Written(c)
    BY <2>1
  <2> QED
    BY <1>6, <2>1, <2>2, <2>3 DEF HdrInv, InPlaceInv
<1>8. ReplayInv'
  BY PhasesApart DEF ReplayInv, SyncPhases
<1> QED
  BY <1>4, <1>5, <1>7, <1>8 DEF HdrInv

(* Writing an item in place makes the header of a file that of RAM. *)
LEMMA InPlaceHeader ==
  ASSUME TypeOK, NEW i \in Items, InPlace(i), NEW c \in Copies, NEW f \in Files
  PROVE  disk'[c].hdr[f] = IF c = cp /\ f = i THEN ram.hdr[f] ELSE disk[c].hdr[f]
<1>1. disk'[c] = IF c = cp THEN With(disk[c], ram, i) ELSE disk[c]
  BY DEF InPlace, TypeOK
<1>2. disk[c] \in Images
  BY DEF TypeOK
<1>3. CASE i \in Files
  <2>1. With(disk[c], ram, i) = [disk[c] EXCEPT !.hdr[i] = ram.hdr[i]]
    BY <1>3, FilesAssumption DEF With, System
  <2> QED
    BY <1>1, <1>2, <2>1 DEF Images
<1>4. CASE i \in System
  <2>1. With(disk[c], ram, i).hdr = disk[c].hdr /\ f # i
    BY <1>2, <1>4, FilesAssumption DEF With, System, Images
  <2> QED
    BY <1>1, <2>1
<1> QED
  BY <1>3, <1>4 DEF Items

(* A step of the passes that writes one item in place. *)
LEMMA HeadersInPlace ==
  ASSUME IInv, IInv', HdrInv, NEW i \in Items, InPlace(i), i \in Files => i \in dirty,
         pc \in SyncPhases \ {"SYNC_DONE"}, pc' \in SyncPhases \ {"SYNC_DONE"},
         UNCHANGED <<mem, jrec, jhas, jbusy, wedged, crashes>>,
         pc' = "SYNC_WALK_DIRTY" => todo' \subseteq dirty,
         \A c \in Copies : dirty \cap Used(ram) \cap Written(c)' \subseteq
                             Written(c) \cup (IF c = cp THEN {i} ELSE {})
  PROVE  HdrInv'
<1>0. /\ UNCHANGED <<ram, dirty, upd, ext, jrec, jhas, jbusy, crashes>>
      /\ jbusy /\ Mounted /\ Mounted'
  BY PhasesApart DEF mem, Mounted, IInv, SyncInv
<1>1. ASSUME NEW c \in Copies, NEW f \in Files
      PROVE  disk'[c].hdr[f] = IF c = cp /\ f = i THEN ram.hdr[f] ELSE disk[c].hdr[f]
  BY InPlaceHeader DEF IInv
<1>2. ASSUME NEW c \in Copies, NEW f \in Files
      PROVE  Saved(c)'.hdr[f] = IF f \notin jhas /\ c = cp /\ f = i
                                THEN ram.hdr[f] ELSE Saved(c).hdr[f]
  BY <1>0, <1>1 DEF Saved, Replayed
<1>3. /\ \A c \in Copies : SameTables(Saved(c)', ram') /\ SameTables(Saved(c), ram)
      /\ Used(Saved(1)') = Used(ram) /\ Used(Saved(1)) = Used(ram)
      /\ Used(ram) \subseteq Files
  BY <1>0, BoundsType DEF IInv, SyncInv, SameTables, Used
<1>4. HeadersCovered({})'
  <2>1. SUFFICES ASSUME NEW f \in Used(ram) PROVE HeaderSaved(f)'
    BY <1>0 DEF HeadersCovered
  <2>2. f \in Files /\ HeaderSaved(f)
    BY <1>3 DEF HdrInv, HeadersInv, HeadersCovered
  <2>3. ASSUME NEW c \in Copies
        PROVE  /\ Saved(c)'.hdr[f].new = ram'.hdr[f].new
               /\ ram.hdr[f].own \subseteq Saved(c).hdr[f].own =>
                    ram'.hdr[f].own \subseteq Saved(c)'.hdr[f].own
    BY <1>0, <1>2, <2>2 DEF HeaderSaved
  <2>4. \/ f \in ext' \cup upd' \/ "write" \in Faults
        \/ \E c \in Copies : ram'.hdr[f].own \subseteq Saved(c)'.hdr[f].own
    BY <1>0, <2>2, <2>3 DEF HeaderSaved
  <2> QED
    BY <2>3, <2>4 DEF HeaderSaved
<1>5. HeadersInv'
  BY <1>0, <1>4, PhasesApart DEF HdrInv, HeadersInv
<1>6. StubsInv'
  <2>1. TablesSaved'
    BY <1>3 DEF TablesSaved
  <2> QED
    BY <1>4, <2>1, StubsFromHeaders, PTL
<1>7. \A f \in jhas \cap Files : f \in dirty
  BY FilesAssumption DEF IInv, RecordsInv, Changed, System
<1>8. InPlaceInv'
  <2>1. SUFFICES ASSUME NEW c \in Copies, NEW f \in Used(ram) \cap Written(c)'
                 PROVE  /\ f \in jhas => disk'[c].hdr[f].new = ram.hdr[f].new
                        /\ f \in dirty \ upd => disk'[c].hdr[f] = ram.hdr[f]
    BY <1>0 DEF InPlaceInv
  <2>2. f \in Files
    BY DEF Used
  <2>3. f \in dirty => f \in Written(c) \/ (c = cp /\ f = i)
    BY <2>1
  <2>4. CASE c = cp /\ f = i
    BY <1>1, <2>2, <2>4
  <2>5. CASE ~(c = cp /\ f = i)
    BY <1>1, <1>7, <2>1, <2>2, <2>3, <2>5 DEF HdrInv, InPlaceInv
  <2> QED
    BY <2>4, <2>5
<1>9. ReplayInv'
  BY PhasesApart DEF ReplayInv, SyncPhases
<1>10. AgreeInv'
  <2>1. SUFFICES ASSUME crashes = 0, NEW c \in Copies,
                        NEW f \in Used(ram) \ (upd \cup dirty)
                 PROVE  disk'[1].hdr[f] = disk'[c].hdr[f]
    BY <1>0, <1>3 DEF AgreeInv
  <2>2. f \in Files /\ f # i
    BY <1>3, <2>1
  <2>3. ram.idx[f] = Saved(1).idx[f]
    BY <1>3, BoundsType DEF SameTables
  <2> QED
    BY <1>1, <1>3, <2>1, <2>2, <2>3, BoundsType DEF HdrInv, AgreeInv
<1>11. SizeNotLost'
  <2>1. \A f \in Used(ram) \ (dirty \cup upd) : f \in Files /\ f # i
    BY <1>3
  <2> QED
    BY <1>0, <1>2, <2>1 DEF HdrInv, SizeNotLost
<1> QED
  BY <1>5, <1>6, <1>8, <1>9, <1>10, <1>11 DEF HdrInv

(* The steps of fsys_sync_q between the commit and the clean mark. *)
LEMMA HeadersPassSteps ==
  ASSUME IInv, IInv', HdrInv,
         \/ JournalDone \/ (\E i \in Entries : WriteEntry(i)) \/ WalkDone
         \/ UpdateIndex \/ UpdateFree
  PROVE  HdrInv'
<1>1. /\ Used(ram) \subseteq Files /\ Files \subseteq Entries /\ Files \subseteq Items
      /\ "INDEX" \notin Files /\ "FREE" \notin Files
      /\ "INDEX" \in Items /\ "FREE" \in Items
  BY FilesAssumption DEF Used, Entries, Items, System
<1>2. ASSUME NEW c \in Copies
      PROVE  c \in Nat /\ c <= NCopies /\ c >= 1 /\ cp \in Nat /\ NCopies \in Nat
  BY BoundsType DEF Copies, IInv, TypeOK
<1>3. CASE JournalDone
  <2>1. /\ pc = "JSYNC_DONE" /\ pc' = "SYNC_WALK_DIRTY" /\ cp' = 1 /\ todo' = dirty
        /\ UNCHANGED <<mem, media, wedged, crashes>>
    BY <1>3 DEF JournalDone, counts
  <2>2. pc \in SyncPhases \ {"SYNC_DONE"} /\ pc' \in SyncPhases \ {"SYNC_DONE"}
    BY <2>1 DEF SyncPhases
  <2>3. \A c \in Copies : dirty \cap Written(c)' = {}
    BY <1>2, <2>1 DEF Written
  <2> QED
    BY <2>1, <2>2, <2>3, HeadersPass
<1>4. ASSUME NEW i \in Entries, WriteEntry(i) PROVE HdrInv'
  <2>1. /\ pc = "SYNC_WALK_DIRTY" /\ pc' = pc /\ cp' = cp /\ i \in todo
        /\ todo' = todo \ {i}
        /\ UNCHANGED <<mem, jrec, jhas, jbusy, wedged, crashes>>
    BY <1>4 DEF WriteEntry, counts
  <2>2. pc \in SyncPhases \ {"SYNC_DONE"} /\ pc' \in SyncPhases \ {"SYNC_DONE"}
    BY <2>1 DEF SyncPhases
  <2>3. todo \subseteq dirty /\ i \in Items
    BY <2>1, <2>2 DEF HdrInv, InPlaceInv, Entries, Items, System
  <2>4. \A c \in Copies : Written(c)' \subseteq
                            Written(c) \cup (IF c = cp THEN {i} ELSE {})
    BY <2>1 DEF Written
  <2>5. CASE Skipped(i)
    <3>1. UNCHANGED media /\ i \notin Used(ram)
      BY <1>4, <2>1, <2>5 DEF WriteEntry, Skipped, media
    <3>2. \A c \in Copies : dirty \cap Used(ram) \cap Written(c)' \subseteq Written(c)
      BY <2>4, <3>1
    <3> QED
      BY <2>1, <2>2, <2>3, <3>1, <3>2, HeadersPass
  <2>6. CASE ~Skipped(i)
    <3>1. InPlace(i)
      BY <1>4, <2>6 DEF WriteEntry
    <3> QED
      BY <2>1, <2>2, <2>3, <2>4, <3>1, HeadersInPlace
  <2> QED
    BY <2>5, <2>6
<1>5. CASE WalkDone
  <2>1. /\ pc = "SYNC_WALK_DIRTY" /\ todo = {}
        /\ UNCHANGED <<mem, media, wedged, crashes>>
        /\ \/ cp < NCopies /\ cp' = cp + 1 /\ todo' = dirty /\ pc' = pc
           \/ cp >= NCopies /\ cp' = 1 /\ todo' = {} /\ pc' = "SYNC_UPD_INDEX"
    BY <1>5, BoundsType DEF WalkDone, IInv, TypeOK, Copies, counts
  <2>2. pc \in SyncPhases \ {"SYNC_DONE"} /\ pc' \in SyncPhases \ {"SYNC_DONE"}
    BY <2>1 DEF SyncPhases
  <2>3. ASSUME NEW c \in Copies PROVE dirty \cap Written(c)' \subseteq Written(c)
    <3>1. CASE cp < NCopies
      BY <1>2, <2>1, <3>1 DEF Written
    <3>2. CASE cp >= NCopies
      BY <1>2, <2>1, <3>2 DEF Written
    <3> QED
      BY <1>2, <3>1, <3>2
  <2> QED
    BY <2>1, <2>2, <2>3, HeadersPass
<1>6. CASE UpdateIndex
  <2>1. /\ pc = "SYNC_UPD_INDEX" /\ pc' = "SYNC_UPD_FREE" /\ cp' = cp
        /\ UNCHANGED <<mem, jrec, jhas, jbusy, wedged, crashes>>
    BY <1>6 DEF UpdateIndex, counts
  <2>2. pc \in SyncPhases \ {"SYNC_DONE"} /\ pc' \in SyncPhases \ {"SYNC_DONE"}
    BY <2>1 DEF SyncPhases
  <2>3. \A c \in Copies : Used(ram) \cap Written(c)' \subseteq Written(c)
    BY <1>1, <2>1 DEF Written
  <2>4. CASE ibits
    BY <1>1, <1>6, <2>1, <2>2, <2>3, <2>4, HeadersInPlace DEF UpdateIndex
  <2>5. CASE ~ibits
    BY <1>6, <2>1, <2>2, <2>3, <2>5, HeadersPass DEF UpdateIndex, media
  <2> QED
    BY <2>4, <2>5
<1>7. CASE UpdateFree
  <2>1. /\ pc = "SYNC_UPD_FREE" /\ InPlace("FREE")
        /\ UNCHANGED <<mem, jrec, jhas, jbusy, wedged, crashes>>
        /\ \/ cp < NCopies /\ cp' = cp + 1 /\ pc' = "SYNC_UPD_INDEX"
           \/ cp >= NCopies /\ cp' = 1 /\ pc' = "SYNC_MARK_JCLEAN"
    BY <1>7, BoundsType DEF UpdateFree, IInv, TypeOK, Copies, counts
  <2>2. pc \in SyncPhases \ {"SYNC_DONE"} /\ pc' \in SyncPhases \ {"SYNC_DONE"}
    BY <2>1 DEF SyncPhases
  <2>3. ASSUME NEW c \in Copies PROVE Used(ram) \cap Written(c)' \subseteq Written(c)
    <3>1. CASE cp < NCopies
      BY <1>1, <1>2, <2>1, <3>1 DEF Written
    <3>2. CASE cp >= NCopies
      BY <1>1, <1>2, <2>1, <3>2 DEF Written
    <3> QED
      BY <1>2, <3>1, <3>2
  <2> QED
    BY <1>1, <2>1, <2>2, <2>3, HeadersInPlace
<1> QED
  BY <1>3, <1>4, <1>5, <1>6, <1>7

(* The clean mark: every recorded header is in place. *)
LEMMA HeadersMarkClean ==
  ASSUME IInv, IInv', HdrInv, MarkClean
  PROVE  HdrInv'
<1>1. /\ pc = "SYNC_MARK_JCLEAN" /\ pc' = "SYNC_DONE" /\ ~jbusy' /\ jhas' = {}
      /\ UNCHANGED <<ram, dirty, upd, ext, disk, crashes>>
  BY DEF MarkClean, mem, counts
<1>2. pc \in SyncPhases /\ pc' \in SyncPhases
  BY <1>1 DEF SyncPhases
<1>3. /\ \A c \in Copies : SameTables(Saved(c)', ram') /\ SameTables(Saved(c), ram)
      /\ Used(Saved(1)') = Used(ram) /\ Used(Saved(1)) = Used(ram)
      /\ Used(ram) \subseteq Files /\ jbusy /\ Mounted /\ Mounted'
  BY <1>1, <1>2, BoundsType, PhasesApart DEF IInv, SyncInv, SameTables, Used, Mounted
<1>4. \A c : Written(c) = Items
  BY <1>1 DEF Written
<1>5. ASSUME NEW c \in Copies, NEW f \in Used(ram)
      PROVE  /\ f \in jhas => /\ Saved(c)'.hdr[f].new = ram.hdr[f].new
                              /\ Saved(c)'.hdr[f].own = ram.hdr[f].own
             /\ f \notin jhas => Saved(c)'.hdr[f] = Saved(c).hdr[f]
             /\ f \in dirty \ upd => disk[c].hdr[f] = ram.hdr[f]
  <2>1. f \in Files /\ f \in Items /\ Saved(c)' = disk[c] /\ Saved(c) = Replayed(disk[c])
    BY <1>1, <1>3 DEF Saved, Items
  <2>2. /\ f \in jhas => disk[c].hdr[f].new = ram.hdr[f].new
        /\ f \in dirty \ upd => disk[c].hdr[f] = ram.hdr[f]
    BY <1>1, <1>2, <1>4, <2>1 DEF HdrInv, InPlaceInv
  <2>3. f \in jhas => disk[c].hdr[f].own = ram.hdr[f].own
    BY <1>2, <1>4, <2>1 DEF IInv, SyncInv, Same
  <2>4. f \notin jhas => Saved(c)'.hdr[f] = Saved(c).hdr[f]
    BY <2>1 DEF Replayed
  <2> QED
    BY <2>1, <2>2, <2>3, <2>4
<1>6. HeadersCovered({})'
  <2>1. SUFFICES ASSUME NEW f \in Used(ram) PROVE HeaderSaved(f)'
    BY <1>1 DEF HeadersCovered
  <2>2. HeaderSaved(f)
    BY <1>2 DEF HdrInv, HeadersInv, HeadersCovered
  <2>3. ASSUME NEW c \in Copies
        PROVE  /\ Saved(c)'.hdr[f].new = ram'.hdr[f].new
               /\ ram.hdr[f].own \subseteq Saved(c).hdr[f].own =>
                    ram'.hdr[f].own \subseteq Saved(c)'.hdr[f].own
    BY <1>1, <1>5, <2>2 DEF HeaderSaved
  <2>4. \/ f \in ext' \cup upd' \/ "write" \in Faults
        \/ \E c \in Copies : ram'.hdr[f].own \subseteq Saved(c)'.hdr[f].own
    BY <1>1, <2>2, <2>3 DEF HeaderSaved
  <2> QED
    BY <2>3, <2>4 DEF HeaderSaved
<1>7. HeadersInv'
  BY <1>1, <1>2, <1>6, PhasesApart DEF HeadersInv
<1>8. StubsInv'
  <2>1. TablesSaved'
    BY <1>3 DEF TablesSaved
  <2> QED
    BY <1>6, <2>1, StubsFromHeaders, PTL
<1>9. InPlaceInv' /\ ReplayInv'
  BY <1>1, <1>5 DEF InPlaceInv, ReplayInv
<1>10. AgreeInv'
  <2>1. \A f \in Files : ram.idx[f] = Saved(1).idx[f] /\ ram'.idx[f] = Saved(1)'.idx[f]
    BY <1>3, BoundsType DEF SameTables
  <2> QED
    BY <1>1, <1>3, <2>1 DEF HdrInv, AgreeInv
<1>11. SizeNotLost'
  <2>1. \A f \in jhas \cap Files : f \in dirty
    BY <1>2, FilesAssumption DEF IInv, RecordsInv, Changed, System
  <2>2. \A f \in Used(ram) \ (dirty \cup upd) : f \notin jhas
    BY <1>3, <2>1
  <2> QED
    BY <1>1, <1>3, <1>5, <2>2 DEF HdrInv, SizeNotLost
<1> QED
  BY <1>7, <1>8, <1>9, <1>10, <1>11 DEF HdrInv

(* The dirty list is emptied: what it named is in place as RAM has it, or  *)
(* its file is still marked.                                               *)
LEMMA HeadersSyncDone ==
  ASSUME IInv, HdrInv, SyncDone
  PROVE  HdrInv'
<1>1. /\ pc = "SYNC_DONE" /\ pc' = "IDLE" /\ dirty' = {}
      /\ UNCHANGED <<ram, upd, ext, media, crashes>>
  BY DEF SyncDone, counts
<1>2. pc \in SyncPhases
  BY <1>1 DEF SyncPhases
<1>3. /\ ~jbusy /\ Used(Saved(1)) = Used(ram) /\ Used(ram) \subseteq Files
      /\ Mounted /\ Mounted'
  BY <1>1, <1>2, BoundsType, PhasesApart DEF IInv, SyncInv, SameTables, Used, Mounted
<1>4. \A c \in Copies : Saved(c)' = Saved(c) /\ Saved(c) = disk[c]
  BY <1>1, <1>3, SavedStable DEF media, Saved
<1>5. \A c \in Copies, f \in Used(ram) : f \in dirty \ upd => disk[c].hdr[f] = ram.hdr[f]
  <2>1. Used(ram) \cap Items = Used(ram)
    BY <1>3 DEF Items
  <2> QED
    BY <1>1, <1>2, <2>1 DEF HdrInv, InPlaceInv
<1>6. HeadersCovered(dirty)'
  <2>1. \A f \in Used(ram) : HeaderSaved(f)
    BY <1>2 DEF HdrInv, HeadersInv, HeadersCovered
  <2>2. \A f \in Used(ram) : HeaderSaved(f)'
    BY <1>1, <1>4, <2>1, HeaderSavedSame
  <2> QED
    BY <1>1, <2>2 DEF HeadersCovered
<1>7. HeadersInv'
  BY <1>1, <1>6, PhasesApart DEF HeadersInv
<1>8. StubsInv'
  BY <1>4, BoundsType DEF HdrInv, StubsInv, Used
<1>9. InPlaceInv' /\ ReplayInv'
  BY <1>1, PhasesApart DEF InPlaceInv, ReplayInv
<1>10. AgreeInv'
  <2>1. SUFFICES ASSUME crashes = 0, NEW c \in Copies, NEW f \in Used(ram) \ upd,
                        ram.idx[f] = Saved(1).idx[f]
                 PROVE  disk[1].hdr[f] = disk[c].hdr[f]
    BY <1>1, <1>3, <1>4, BoundsType DEF AgreeInv, media
  <2>2. CASE f \in dirty
    BY <1>5, <2>1, <2>2, BoundsType
  <2>3. CASE f \notin dirty
    BY <1>3, <2>1, <2>3 DEF HdrInv, AgreeInv
  <2> QED
    BY <2>2, <2>3
<1>11. SizeNotLost'
  <2>1. SUFFICES ASSUME NEW f \in Used(ram) \ upd
                 PROVE  \E c \in Copies : Saved(c).hdr[f].size >= ram.hdr[f].size
    BY <1>1, <1>4 DEF SizeNotLost
  <2>2. CASE f \in dirty
    <3>1. Saved(1).hdr[f] = ram.hdr[f] /\ 1 \in Copies
      BY <1>4, <1>5, <2>1, <2>2, BoundsType
    <3>2. ram.hdr[f].size \in Nat
      BY <1>3, BoundsType DEF IInv, TypeOK, Images, Headers
    <3> QED
      BY <3>1, <3>2
  <2>3. CASE f \notin dirty
    BY <1>3, <2>1, <2>3 DEF HdrInv, SizeNotLost
  <2> QED
    BY <2>2, <2>3
<1> QED
  BY <1>7, <1>8, <1>9, <1>10, <1>11 DEF HdrInv

-----------------------------------------------------------------------------
(* Crash, replay and mount.                                                *)

(* A crash, and the reading of the journal's first sector. *)
LEMMA HeadersDown ==
  ASSUME IInv, HdrInv, Crash \/ ReadJournal
  PROVE  HdrInv'
<1>1. /\ disk' = disk /\ jbusy' = jbusy /\ (jbusy => jhas' = jhas /\ jrec' = jrec)
      /\ crashes' # 0
      /\ \/ pc' \in {"DOWN", "MOUNT_RD_FH"}
         \/ pc' = "JOU_RD_PROC_JOU" /\ todo' = jhas' /\ cp' = 1
  <2>1. CASE Crash
    <3>1. crashes' = crashes + 1 /\ crashes \in Nat
      BY <2>1 DEF Crash, Stop, IInv, TypeOK
    <3>2. crashes' # 0
      BY <3>1
    <3> QED
      BY <2>1, <3>2 DEF Crash, Stop
  <2>2. CASE ReadJournal
    <3>1. /\ pc = "DOWN" /\ UNCHANGED <<media, cp, counts>>
          /\ \/ pc' = "MOUNT_RD_FH"
             \/ pc' = "JOU_RD_PROC_JOU" /\ todo' = jhas
      <4>1. CASE jbusy
        BY <2>2, <4>1 DEF ReadJournal
      <4>2. CASE ~jbusy
        BY <2>2, <4>2 DEF ReadJournal
      <4> QED
        BY <4>1, <4>2
    <3>2. cp = 1 /\ crashes # 0
      BY <3>1 DEF IInv, MountInv, HdrInv, AgreeInv, Mounted, MountPhases
    <3> QED
      BY <3>1, <3>2 DEF media, counts
  <2> QED
    BY <2>1, <2>2
<1>2. \A c \in Copies : Saved(c)' = Saved(c)
  BY <1>1, SavedStable
<1>3. pc' \in MountPhases
  BY <1>1 DEF MountPhases
<1>4. HeadersInv' /\ InPlaceInv' /\ SizeNotLost'
  BY <1>3, PhasesApart DEF HeadersInv, InPlaceInv, SizeNotLost, Mounted
<1>5. StubsInv' /\ AgreeInv'
  BY <1>1, <1>2, BoundsType DEF HdrInv, StubsInv, AgreeInv, Used
<1>6. ReplayInv'
  BY <1>1 DEF ReplayInv, Copies
<1> QED
  BY <1>4, <1>5, <1>6 DEF HdrInv

(* A record is replayed to one alternate, or all have been. *)
LEMMA HeadersReplay ==
  ASSUME IInv, HdrInv, (\E i \in Items : ReplayRecord(i)) \/ ReplayDone
  PROVE  HdrInv'
<1>1. /\ pc = "JOU_RD_PROC_JOU" /\ pc' \in MountPhases /\ jbusy /\ todo \subseteq jhas
      /\ crashes' = crashes /\ crashes # 0
  <2>1. /\ pc = "JOU_RD_PROC_JOU" /\ pc' \in {"JOU_RD_PROC_JOU", "MOUNT_RD_FH"}
        /\ crashes' = crashes
    BY DEF ReplayRecord, ReplayDone, counts
  <2> QED
    BY <2>1 DEF MountPhases, IInv, MountInv, HdrInv, AgreeInv, Mounted
<1>2. HeadersInv' /\ InPlaceInv' /\ SizeNotLost' /\ AgreeInv'
  BY <1>1, PhasesApart DEF HeadersInv, InPlaceInv, SizeNotLost, AgreeInv, Mounted
<1>3. ASSUME NEW i \in Items, ReplayRecord(i) PROVE HdrInv'
  <2>1. /\ i \in todo /\ (cp > 1 => i = cur) /\ UNCHANGED <<jrec, jhas, jbusy, pc>>
        /\ disk' = [disk EXCEPT ![cp] = With(@, jrec, i)]
        /\ \/ cp < NCopies /\ cp' = cp + 1 /\ cur' = i /\ todo' = todo
           \/ cp >= NCopies /\ cp' = 1 /\ todo' = todo \ {i}
    BY <1>3, BoundsType DEF ReplayRecord, IInv, TypeOK, Copies
  <2>2. ASSUME NEW c \in Copies
        PROVE  /\ disk'[c] = IF c = cp THEN With(disk[c], jrec, i) ELSE disk[c]
               /\ Saved(c) = Replayed(disk[c]) /\ Saved(c)' = Replayed(disk'[c])
               /\ disk[c] \in Images
    BY <1>1, <2>1 DEF Saved, Replayed, IInv, TypeOK
  <2>3. \A c \in Copies : Saved(c)' = Saved(c)
    BY <1>1, <2>1, <2>2, ReplayAgain DEF IInv
  <2>4. StubsInv'
    BY <2>3, BoundsType DEF HdrInv, StubsInv, Used
  <2>5. ASSUME NEW c \in Copies, NEW f \in jhas \cap Files,
               f \notin todo' \/ (f = cur' /\ c < cp')
        PROVE  disk'[c].hdr[f] = jrec.hdr[f]
    <3>1. disk'[c].hdr[f] = IF c = cp /\ f = i THEN jrec.hdr[f] ELSE disk[c].hdr[f]
      <4>1. CASE i \in Files
        <5>1. With(disk[c], jrec, i) = [disk[c] EXCEPT !.hdr[i] = jrec.hdr[i]]
          BY <4>1, FilesAssumption DEF With, System
        <5> QED
          BY <2>2, <5>1 DEF Images
      <4>2. CASE i \in System
        <5>1. With(disk[c], jrec, i).hdr = disk[c].hdr /\ f # i
          BY <2>2, <4>2, FilesAssumption DEF With, System, Images
        <5> QED
          BY <2>2, <5>1
      <4> QED
        BY <4>1, <4>2 DEF Items
    <3>2. CASE c = cp /\ f = i
      BY <3>1, <3>2
    <3>3. CASE ~(c = cp /\ f = i)
      <4>1. c \in Nat /\ c <= NCopies /\ c >= 1 /\ cp \in Nat /\ cp >= 1 /\ NCopies \in Nat
        BY BoundsType DEF Copies, IInv, TypeOK
      <4>2. f \notin todo \/ (f = cur /\ c < cp)
        BY <2>1, <2>5, <3>3, <4>1
      <4> QED
        BY <1>1, <3>1, <3>3, <4>2 DEF HdrInv, ReplayInv
    <3> QED
      BY <3>2, <3>3
  <2>6. ReplayInv'
    BY <2>1, <2>5 DEF ReplayInv
  <2> QED
    BY <1>2, <2>4, <2>6 DEF HdrInv
<1>4. CASE ReplayDone
  <2>1. todo = {} /\ ~jbusy' /\ disk' = disk /\ pc' = "MOUNT_RD_FH"
    BY <1>4 DEF ReplayDone
  <2>2. ASSUME NEW c \in Copies
        PROVE  /\ \A f \in Files : Saved(c)'.hdr[f] = Saved(c).hdr[f]
               /\ Saved(c)'.idx = Saved(c).idx
    <3>1. Saved(c) = Replayed(disk[c]) /\ Saved(c)' = disk[c]
      BY <1>1, <2>1 DEF Saved
    <3>2. \A f \in jhas \cap Files : disk[c].hdr[f] = jrec.hdr[f]
      BY <1>1, <2>1 DEF HdrInv, ReplayInv
    <3>3. \A i \in jhas : Same(disk[c], jrec, i)
      BY <1>1, <2>1 DEF IInv, MountInv, MountPhases
    <3> QED
      BY <3>1, <3>2, <3>3 DEF Replayed, Same
  <2>3. Used(Saved(1)') = Used(Saved(1))
    BY <2>2, BoundsType DEF Used
  <2>4. StubsInv'
    BY <2>2, <2>3, BoundsType DEF HdrInv, StubsInv, Used
  <2> QED
    BY <1>2, <2>1, <2>4 DEF HdrInv, ReplayInv
<1> QED
  BY <1>3, <1>4

(* What a mount reads: the saved names and index, and the headers of the   *)
(* alternates it happened to read; the stubs are the saved ones.           *)
LEMMA MountReads ==
  ASSUME IInv, StubsInv, NEW pick \in [Items -> Copies], Mount(pick)
  PROVE  /\ ~jbusy /\ \A c \in Copies : Saved(c)' = Saved(c)
         /\ Stubs(Loaded(pick)) = {f \in Saved(1).dir : Saved(1).hdr[f].new}
         /\ ram'.dir = Saved(1).dir \ Stubs(Loaded(pick)) /\ ram'.dir \subseteq Files
         /\ Used(ram') \subseteq ram'.dir
         /\ \A f \in ram'.dir : /\ f \in Used(Saved(1)) /\ pick[f] \in Copies
                                /\ ram'.idx[f] = Saved(1).idx[f]
                                /\ ram'.hdr[f] = Saved(pick[f]).hdr[f]
<1> DEFINE img == Loaded(pick)
           Z == Stubs(img)
<1>1. /\ pc = "MOUNT_RD_FH" /\ UNCHANGED media /\ ram' = ZapStubs(img)
  BY DEF Mount
<1>2. ~jbusy
  BY <1>1 DEF IInv, MountInv, MountPhases
<1>3. \A c \in Copies : Saved(c)' = Saved(c) /\ Saved(c) = disk[c] /\ disk[c] \in Images
  BY <1>1, <1>2, SavedStable DEF media, Saved, IInv, TypeOK
<1>4. pick["INDEX"] \in Copies /\ pick["ROOT"] \in Copies /\ 1 \in Copies
      /\ \A f \in Files : pick[f] \in Copies
  BY BoundsType DEF Items, System
<1>5. \A c \in Copies : Saved(c).idx = Saved(1).idx /\ Saved(c).dir = Saved(1).dir
  BY <1>4 DEF IInv, SavedInv, SameTables
<1>6. /\ img.idx = Saved(1).idx /\ img.dir = Saved(1).dir
      /\ Saved(1).dir = Used(Saved(1)) /\ Saved(1).dir \subseteq Files
  BY <1>3, <1>4, <1>5 DEF Loaded, IInv, SavedInv, Sound, Used
<1>7. ASSUME NEW f \in Saved(1).dir
      PROVE  /\ f \in Files /\ img.idx[f] # {} /\ img.hdr[f] = Saved(pick[f]).hdr[f]
             /\ img.hdr[f].new = Saved(1).hdr[f].new
  <2>1. f \in Files /\ f \in Used(Saved(1)) /\ img.idx[f] # {}
    BY <1>6 DEF Used
  <2>2. img.hdr[f] = Saved(pick[f]).hdr[f]
    BY <1>3, <1>4, <2>1 DEF Loaded
  <2> QED
    BY <1>4, <2>1, <2>2 DEF StubsInv
<1>8. Z = {f \in Saved(1).dir : Saved(1).hdr[f].new}
  BY <1>6, <1>7 DEF Stubs
<1> HIDE DEF img, Z
<1>9. /\ ram'.dir = Saved(1).dir \ Z
      /\ \A f \in Files : ram'.idx[f] = IF f \in Z THEN {} ELSE Saved(1).idx[f]
      /\ \A f \in Files \ Z : ram'.hdr[f] = img.hdr[f]
  BY <1>1, <1>6 DEF ZapStubs, Z
<1>10. Used(ram') \subseteq ram'.dir
  BY <1>6, <1>9 DEF Used
<1> QED
  BY <1>2, <1>3, <1>4, <1>6, <1>7, <1>8, <1>9, <1>10 DEF Z, img

(* A mount reads headers that are saved. *)
LEMMA HeadersMount ==
  ASSUME IInv, TypeOK', HdrInv, NEW pick \in [Items -> Copies], Mount(pick)
  PROVE  HdrInv'
<1>1. /\ ~jbusy /\ \A c \in Copies : Saved(c)' = Saved(c)
      /\ Used(ram') \subseteq Files
      /\ \A f \in Used(ram') : /\ f \in Used(Saved(1)) /\ pick[f] \in Copies
                              /\ ram'.hdr[f] = Saved(pick[f]).hdr[f]
  BY MountReads DEF HdrInv
<1>2. pc = "MOUNT_RD_FH" /\ pc' = "IDLE" /\ crashes' = crashes
  BY DEF Mount, counts
<1>3. crashes # 0
  BY <1>2 DEF HdrInv, AgreeInv, Mounted, MountPhases
<1>4. HeadersCovered(dirty)'
  <2>1. SUFFICES ASSUME NEW f \in Used(ram') PROVE HeaderSaved(f)'
    BY DEF HeadersCovered
  <2>2. \A c \in Copies : Saved(c)'.hdr[f].new = ram'.hdr[f].new
    BY <1>1 DEF HdrInv, StubsInv
  <2>3. \E c \in Copies : ram'.hdr[f].own \subseteq Saved(c)'.hdr[f].own
    BY <1>1
  <2> QED
    BY <2>2, <2>3 DEF HeaderSaved
<1>5. HeadersInv'
  BY <1>2, <1>4, PhasesApart DEF HeadersInv
<1>6. StubsInv'
  BY <1>1, BoundsType DEF HdrInv, StubsInv, Used
<1>7. InPlaceInv' /\ ReplayInv' /\ AgreeInv'
  BY <1>2, <1>3, PhasesApart DEF InPlaceInv, ReplayInv, AgreeInv
<1>8. SizeNotLost'
  <2>1. \A f \in Used(ram') : ram'.hdr[f].size \in Nat
    BY <1>1, BoundsType DEF TypeOK, Images, Headers
  <2> QED
    BY <1>1, <2>1 DEF SizeNotLost
<1> QED
  BY <1>5, <1>6, <1>7, <1>8 DEF HdrInv

-----------------------------------------------------------------------------
(* The invariant is inductive.                                             *)

(* The operations that create, reset and remove files. *)
LEMMA HeadersFiles ==
  ASSUME IInv, TypeOK', HdrInv, NEW f \in Files,
         \/ \E H \in Blocks(HdrSects), S \in Extents : Create(f, H, S)
         \/ \E H \in Blocks(HdrSects), S \in Extents \cup {{}} : CreateFails(f, H, S)
         \/ \E S \in Extents : Truncate(f, S)
         \/ \E S \in Extents \cup {{}} : TruncateFails(f, S)
         \/ Delete(f)
  PROVE  HdrInv'
<1>1. /\ pc = "IDLE" /\ pc' = "IDLE" /\ UNCHANGED <<media, wedged, crashes>>
  BY DEF Create, CreateFails, Truncate, TruncateFails, Delete, Operation, control
<1>2. /\ dirty \subseteq dirty'
      /\ \A g \in Files \ {f} : (g \in upd' <=> g \in upd) /\ (g \in ext' <=> g \in ext)
  BY DEF Create, CreateFails, Truncate, TruncateFails, Delete
<1>3. ram.idx \in [Files -> SUBSET Sectors] /\ ram.hdr \in [Files -> Headers]
  BY DEF IInv, TypeOK, Images
<1>4. CASE \E H \in Blocks(HdrSects), S \in Extents : Create(f, H, S)
  <2> PICK H \in Blocks(HdrSects), S \in Extents : Create(f, H, S)
    BY <1>4
  <2>1. /\ ram'.idx = [ram.idx EXCEPT ![f] = H]
        /\ ram'.hdr = [ram.hdr EXCEPT ![f] = NewHeader(S)] /\ f \in dirty'
    BY DEF Create
  <2>2. \A g \in Files \ {f} : ram'.idx[g] = ram.idx[g] /\ ram'.hdr[g] = ram.hdr[g]
    BY <1>3, <2>1
  <2> QED
    BY <1>1, <1>2, <2>1, <2>2, HeadersOperation
<1>5. CASE \E H \in Blocks(HdrSects), S \in Extents \cup {{}} : CreateFails(f, H, S)
  <2>1. ram'.idx = ram.idx /\ ram'.hdr = [ram.hdr EXCEPT ![f] = NoHeader] /\ f \in dirty'
    BY <1>5 DEF CreateFails
  <2>2. \A g \in Files \ {f} : ram'.idx[g] = ram.idx[g] /\ ram'.hdr[g] = ram.hdr[g]
    BY <1>3, <2>1
  <2> QED
    BY <1>1, <1>2, <2>1, <2>2, HeadersOperation
<1>6. CASE \E S \in Extents : Truncate(f, S)
  <2> PICK S \in Extents : Truncate(f, S)
    BY <1>6
  <2>1. ram'.idx = ram.idx /\ ram'.hdr = [ram.hdr EXCEPT ![f] = NewHeader(S)] /\ f \in dirty'
    BY DEF Truncate
  <2>2. \A g \in Files \ {f} : ram'.idx[g] = ram.idx[g] /\ ram'.hdr[g] = ram.hdr[g]
    BY <1>3, <2>1
  <2> QED
    BY <1>1, <1>2, <2>1, <2>2, HeadersOperation
<1>7. CASE Delete(f) \/ \E S \in Extents \cup {{}} : TruncateFails(f, S)
  <2>1. /\ ram'.idx = [ram.idx EXCEPT ![f] = {}]
        /\ ram'.hdr = [ram.hdr EXCEPT ![f] = NoHeader]
    <3>1. Delete(f) => ram'.idx = [ram.idx EXCEPT ![f] = {}]
                         /\ ram'.hdr = [ram.hdr EXCEPT ![f] = NoHeader]
      BY DEF Delete
    <3>2. \A S : TruncateFails(f, S) => ram'.idx = [ram.idx EXCEPT ![f] = {}]
                                       /\ ram'.hdr = [ram.hdr EXCEPT ![f] = NoHeader]
      BY DEF TruncateFails
    <3> QED
      BY <1>7, <3>1, <3>2
  <2>2. \A g \in Files \ {f} : ram'.idx[g] = ram.idx[g] /\ ram'.hdr[g] = ram.hdr[g]
    BY <1>3, <2>1
  <2>3. f \notin Used(ram')
    BY <1>3, <2>1 DEF Used
  <2> QED
    BY <1>1, <1>2, <2>2, <2>3, HeadersOperation
<1> QED
  BY <1>4, <1>5, <1>6, <1>7

(* The operations on the data of a file. *)
LEMMA HeadersData ==
  ASSUME IInv, TypeOK', HdrInv, NEW f \in Files,
         \/ \E size \in 0..MaxSize : Open(f, size)
         \/ \E S \in Extents : Extend(f, S)
         \/ Close(f)
  PROVE  HdrInv'
<1>1. /\ pc = "IDLE" /\ pc' = "IDLE" /\ UNCHANGED <<media, wedged, crashes>>
  BY DEF Open, Extend, Close, Operation, control
<1>2. /\ dirty \subseteq dirty'
      /\ \A g \in Files \ {f} : (g \in upd' <=> g \in upd) /\ (g \in ext' <=> g \in ext)
  BY DEF Open, Extend, Close
<1>3. ram \in Images /\ ram.hdr \in [Files -> Headers] /\ ram.hdr[f].size \in Nat
  BY BoundsType DEF IInv, TypeOK, Images, Headers
<1>4. CASE \E size \in 0..MaxSize : Open(f, size)
  <2> PICK size \in 0..MaxSize : Open(f, size)
    BY <1>4
  <2>1. /\ ram' = [ram EXCEPT !.hdr[f].size = size] /\ size \in {0, ram.hdr[f].size}
        /\ upd' = upd /\ ext' = ext
    BY DEF Open
  <2>2. \A g \in Files \ {f} : ram'.idx[g] = ram.idx[g] /\ ram'.hdr[g] = ram.hdr[g]
    BY <1>3, <2>1 DEF Images
  <2>3. /\ ram'.idx = ram.idx /\ ram'.hdr[f].own = ram.hdr[f].own
        /\ ram'.hdr[f].new = ram.hdr[f].new /\ ram'.hdr[f].size = size
    BY <1>3, <2>1 DEF Images, Headers
  <2>4. ram'.hdr[f].size <= ram.hdr[f].size
    BY <1>3, <2>1, <2>3
  <2> QED
    BY <1>1, <1>2, <2>1, <2>2, <2>3, <2>4, HeadersOperation
<1>5. CASE \E S \in Extents : Extend(f, S)
  <2> PICK S \in Extents : Extend(f, S)
    BY <1>5
  <2>1. /\ ram'.idx = ram.idx /\ ram'.hdr = [ram.hdr EXCEPT ![f].own = @ \cup S]
        /\ upd' = upd /\ f \in ext'
    BY DEF Extend
  <2>2. \A g \in Files \ {f} : ram'.idx[g] = ram.idx[g] /\ ram'.hdr[g] = ram.hdr[g]
    BY <1>3, <2>1
  <2>3. ram'.hdr[f].new = ram.hdr[f].new /\ ram'.hdr[f].size = ram.hdr[f].size
    BY <1>3, <2>1 DEF Headers
  <2> QED
    BY <1>1, <1>2, <1>3, <2>1, <2>2, <2>3, HeadersOperation
<1>6. CASE Close(f)
  <2>1. CASE f \in upd
    <3>1. ram' = [ram EXCEPT !.hdr[f].new = FALSE] /\ f \in dirty'
      BY <1>6, <2>1 DEF Close
    <3>2. \A g \in Files \ {f} : ram'.idx[g] = ram.idx[g] /\ ram'.hdr[g] = ram.hdr[g]
      BY <1>3, <3>1 DEF Images
    <3> QED
      BY <1>1, <1>2, <3>1, <3>2, HeadersOperation
  <2>2. CASE f \notin upd
    <3>1. ram' = ram /\ upd' = upd /\ ext' = ext
      BY <1>6, <2>2 DEF Close
    <3> QED
      BY <1>1, <1>2, <1>3, <3>1, HeadersOperation
  <2> QED
    BY <2>1, <2>2
<1> QED
  BY <1>4, <1>5, <1>6

(* A freshly formatted volume has no headers. *)
LEMMA HeadersInit == Init => HdrInv
<1> SUFFICES ASSUME Init PROVE HdrInv
  OBVIOUS
<1>1. /\ ram = Fresh /\ dirty = {} /\ upd = {} /\ ~jbusy /\ pc = "IDLE" /\ 1 \in Copies
      /\ \A c \in Copies : disk[c] = Fresh
  BY BoundsType DEF Init
<1>2. \A f \in Files : Fresh.idx[f] = {}
  BY DEF Fresh, NoImage
<1>3. Used(ram) = {} /\ \A c \in Copies : Saved(c) = Fresh
  BY <1>1, <1>2 DEF Saved, Used
<1>4. Mounted
  BY <1>1, PhasesApart DEF Mounted
<1> QED
  BY <1>1, <1>3, <1>4, PhasesApart
     DEF HdrInv, HeadersInv, HeadersCovered, StubsInv, InPlaceInv, ReplayInv,
         AgreeInv, SizeNotLost

(* Every step keeps the invariant. *)
LEMMA HeadersStep == IInv /\ IInv' /\ HdrInv /\ [Next]_vars => HdrInv'
<1> SUFFICES ASSUME IInv, IInv', HdrInv, [Next]_vars PROVE HdrInv'
  OBVIOUS
<1>0. TypeOK'
  BY DEF IInv
<1>1. CASE UNCHANGED vars
  <2>1. /\ UNCHANGED <<ram, dirty, ibits, upd, ext, disk, jrec, jhas, jbusy, pc, cp, todo, cur>>
        /\ UNCHANGED <<wedged, crashes>>
    BY <1>1 DEF vars, mem, media, control, counts
  <2>2. \A c \in Copies : Saved(c)' = Saved(c)
    BY <2>1, SavedStable
  <2>3. Used(ram') = Used(ram) /\ \A f : HeaderSaved(f) => HeaderSaved(f)'
    BY <2>1, <2>2, HeaderSavedSame
  <2>4. Pending' = Pending /\ \A c : Written(c)' = Written(c)
    BY <2>1 DEF Pending, Changed, Written
  <2>5. HeadersInv'
    BY <2>1, <2>3, <2>4 DEF HdrInv, HeadersInv, HeadersCovered
  <2>6. StubsInv' /\ AgreeInv' /\ SizeNotLost'
    BY <2>1, <2>2, <2>3, BoundsType
       DEF HdrInv, StubsInv, AgreeInv, SizeNotLost, Mounted, Used
  <2>7. InPlaceInv' /\ ReplayInv'
    BY <2>1, <2>3, <2>4 DEF HdrInv, InPlaceInv, ReplayInv
  <2> QED
    BY <2>5, <2>6, <2>7 DEF HdrInv
<1>2. CASE FileOperation
  BY <1>0, <1>2, HeadersFiles, HeadersData, HeadersWrite DEF FileOperation
<1>3. CASE SyncStart \/ SyncStep \/ JournalError
  BY <1>3, HeadersJournalSteps, HeadersMarkBusy, HeadersPassSteps,
     HeadersMarkClean, HeadersSyncDone DEF SyncStep
<1>4. CASE Crash \/ MountStep
  BY <1>0, <1>4, HeadersDown, HeadersReplay, HeadersMount DEF MountStep
<1> QED
  BY <1>1, <1>2, <1>3, <1>4 DEF Next

(* What the headers of the alternates, the journal's records and the lists *)
(* of changed files owe each other while writes complete at any time.      *)
THEOREM HeadersInductive == Spec => []HdrInv
<1>1. Spec => [](IInv /\ OpenInv)
  BY Inductive
<1> QED
  BY <1>1, HeadersInit, HeadersStep, PTL DEF Spec

-----------------------------------------------------------------------------
(* What follows from it.                                                   *)

(* fsys_write_done and fsys_close_upd: a size that a write has grown is    *)
(* never forgotten, although SYNC_DONE empties the dirty list while writes *)
(* complete without the volume mutex.                                      *)
THEOREM SizesKept == Spec => []SizeNotLost
BY HeadersInductive, PTL DEF HdrInv

(* The alternates of the saved volume differ at no moment in names, index, *)
(* free list or stubs, and until the first crash in no header that is not  *)
(* marked as changed: the fail-over of a mount reads one volume.           *)
THEOREM CopiesSafe == Spec => []CopiesAgree
<1>1. IInv /\ HdrInv => CopiesAgree
  <2> SUFFICES ASSUME IInv, HdrInv, NEW c \in Copies
               PROVE  /\ Saved(1).idx = Saved(c).idx /\ Saved(1).dir = Saved(c).dir
                      /\ Saved(1).free = Saved(c).free
                      /\ \A f \in Used(Saved(1)) : Saved(1).hdr[f].new = Saved(c).hdr[f].new
                      /\ (crashes = 0 /\ ~jbusy) =>
                           \A f \in Used(Saved(1)) \ (upd \cup dirty) :
                             ram.idx[f] = Saved(1).idx[f] =>
                               Saved(1).hdr[f] = Saved(c).hdr[f]
    BY DEF CopiesAgree
  <2>1. SameTables(Saved(1), Saved(c)) /\ 1 \in Copies
    BY BoundsType DEF IInv, SavedInv
  <2>2. ~jbusy => Saved(1) = disk[1] /\ Saved(c) = disk[c]
    BY DEF Saved
  <2> QED
    BY <2>1, <2>2 DEF SameTables, HdrInv, StubsInv, AgreeInv
<1> QED
  BY <1>1, Inductive, HeadersInductive, PTL

-----------------------------------------------------------------------------
(* No step loses a sector the RAM tables know, truncation failures apart.  *)

(* An operation on f may move sectors between the free list, limbo and f.  *)
LEMMA KnownKept ==
  ASSUME NEW f \in Files,
         \A g \in Files \ {f} : Owned(ram', g) = Owned(ram, g),
         limbo \subseteq limbo',
         ram.free \subseteq ram'.free \cup limbo' \cup Owned(ram', f),
         Owned(ram, f) \subseteq limbo' \cup Owned(ram', f)
  PROVE  Known \subseteq Known'
<1> SUFFICES ASSUME NEW s \in Known PROVE s \in Known'
  OBVIOUS
<1>1. CASE s \in ram.free \cup limbo
  BY <1>1 DEF Known, AllOwned
<1>2. CASE s \in AllOwned(ram)
  <2>1. PICK g \in Files : s \in Owned(ram, g)
    BY <1>2 DEF AllOwned
  <2> QED
    BY <2>1 DEF Known, AllOwned
<1> QED
  BY <1>1, <1>2 DEF Known

(* An operation on f leaves the entries of the other files alone. *)
LEMMA OthersKept ==
  ASSUME NEW f \in Files,
         \A g \in Files \ {f} :
           ram'.idx[g] = ram.idx[g] /\ ram'.hdr[g].own = ram.hdr[g].own
  PROVE  \A g \in Files \ {f} : Owned(ram', g) = Owned(ram, g)
BY OwnedSame

(* The operations that create and remove files. *)
LEMMA KnownFiles ==
  ASSUME IInv, NEW f \in Files,
         \/ \E H \in Blocks(HdrSects), S \in Extents : Create(f, H, S)
         \/ \E H \in Blocks(HdrSects), S \in Extents \cup {{}} : CreateFails(f, H, S)
         \/ \E S \in Extents : Truncate(f, S)
         \/ Delete(f)
  PROVE  Known \subseteq Known'
<1>1. CASE \E H \in Blocks(HdrSects), S \in Extents : Create(f, H, S)
  <2> PICK H \in Blocks(HdrSects), S \in Extents : Create(f, H, S)
    BY <1>1
  <2>1. /\ ram'.idx = [ram.idx EXCEPT ![f] = H]
        /\ ram'.hdr = [ram.hdr EXCEPT ![f] = NewHeader(S)]
        /\ ram'.free = ram.free \ (H \cup S) /\ limbo' = limbo /\ f \notin Used(ram)
    BY DEF Create
  <2>2. Owned(ram', f) = H \cup S
    BY <2>1, EmptyBlock, RamFile DEF Owned, NewHeader, Images
  <2>3. \A g \in Files \ {f} : Owned(ram', g) = Owned(ram, g)
    BY <2>1, RamFile, OthersKept DEF Images
  <2> QED
    BY <2>1, <2>2, <2>3, RamFile, KnownKept
<1>2. CASE \E H \in Blocks(HdrSects), S \in Extents \cup {{}} : CreateFails(f, H, S)
  <2> PICK H \in Blocks(HdrSects), S \in Extents \cup {{}} : CreateFails(f, H, S)
    BY <1>2
  <2>1. /\ ram'.idx = ram.idx /\ ram'.hdr = [ram.hdr EXCEPT ![f] = NoHeader]
        /\ ram'.free = ram.free \ (H \cup S) /\ limbo' = limbo \cup H \cup S
        /\ f \notin Used(ram)
    BY DEF CreateFails
  <2>2. \A g \in Files \ {f} : Owned(ram', g) = Owned(ram, g)
    BY <2>1, RamFile, OthersKept DEF Images
  <2> QED
    BY <2>1, <2>2, RamFile, KnownKept
<1>3. CASE \E S \in Extents : Truncate(f, S)
  <2> PICK S \in Extents : Truncate(f, S)
    BY <1>3
  <2>1. /\ ram'.idx = ram.idx /\ ram'.hdr = [ram.hdr EXCEPT ![f] = NewHeader(S)]
        /\ ram'.free = ram.free \ S /\ limbo' = limbo \cup ram.hdr[f].own
        /\ f \in Used(ram)
    BY DEF Truncate
  <2>2. Owned(ram', f) = ram.idx[f] \cup S
    BY <2>1, RamFile DEF Owned, NewHeader, Images, Used
  <2>3. \A g \in Files \ {f} : Owned(ram', g) = Owned(ram, g)
    BY <2>1, RamFile, OthersKept DEF Images
  <2> QED
    BY <2>1, <2>2, <2>3, RamFile, KnownKept
<1>4. CASE Delete(f)
  <2>1. /\ ram'.idx = [ram.idx EXCEPT ![f] = {}]
        /\ ram'.hdr = [ram.hdr EXCEPT ![f] = NoHeader]
        /\ ram'.free = ram.free /\ limbo' = limbo \cup Owned(ram, f)
    BY <1>4 DEF Delete
  <2>2. \A g \in Files \ {f} : Owned(ram', g) = Owned(ram, g)
    BY <2>1, RamFile, OthersKept DEF Images
  <2> QED
    BY <2>1, <2>2, KnownKept
<1> QED
  BY <1>1, <1>2, <1>3, <1>4

(* The operations on the data of a file. *)
LEMMA KnownData ==
  ASSUME IInv, OpenInv, NEW f \in Files,
         \/ \E size \in 0..MaxSize : Open(f, size)
         \/ \E S \in Extents : Extend(f, S)
         \/ WriteDone(f) \/ WriteFails(f) \/ Close(f)
  PROVE  Known \subseteq Known'
<1>1. CASE \E S \in Extents : Extend(f, S)
  <2> PICK S \in Extents : Extend(f, S)
    BY <1>1
  <2>1. /\ ram'.idx = ram.idx /\ ram'.hdr = [ram.hdr EXCEPT ![f].own = @ \cup S]
        /\ ram'.free = ram.free \ S /\ limbo' = limbo /\ f \in Used(ram)
    BY DEF Extend, OpenInv
  <2>2. Owned(ram', f) = Owned(ram, f) \cup S
    BY <2>1, RamFile DEF Owned, Images, Headers, Used
  <2>3. \A g \in Files \ {f} : Owned(ram', g) = Owned(ram, g)
    BY <2>1, RamFile, OthersKept DEF Images
  <2> QED
    BY <2>1, <2>2, <2>3, KnownKept
<1>2. CASE \/ \E size \in 0..MaxSize : Open(f, size)
           \/ WriteDone(f) \/ WriteFails(f) \/ Close(f)
  <2>1. /\ ram'.idx = ram.idx /\ ram'.free = ram.free /\ limbo' = limbo
        /\ \A g \in Files : ram'.hdr[g].own = ram.hdr[g].own
    BY SMTT(60), <1>2, RamFile DEF Open, WriteDone, WriteFails, Close, Images, Headers
  <2>2. \A g \in Files : Owned(ram', g) = Owned(ram, g)
    BY <2>1, OwnedSame
  <2> QED
    BY <2>1, <2>2, KnownKept
<1> QED
  BY <1>1, <1>2

(* A sync moves limbo to the free list and nothing else. *)
LEMMA KnownSync ==
  ASSUME IInv, SyncStart \/ SyncStep \/ JournalError
  PROVE  Known \subseteq Known'
<1>1. CASE JournalFree
  <2>1. /\ ram'.idx = ram.idx /\ ram'.hdr = ram.hdr
        /\ ram'.free = ram.free \cup limbo
    BY <1>1 DEF JournalFree, IInv, TypeOK, Images
  <2>2. AllOwned(ram') = AllOwned(ram)
    BY <2>1 DEF AllOwned, Owned
  <2> QED
    BY <2>1, <2>2 DEF Known
<1>2. CASE ~JournalFree
  <2>1. ram' = ram /\ limbo' = limbo
    BY <1>2 DEF SyncStart, SyncStep, JournalError, JournalEntry,
       JournalEntriesDone, JournalIndex, MarkBusy, JournalDone, WriteEntry,
       WalkDone, UpdateIndex, UpdateFree, MarkClean, SyncDone, mem
  <2> QED
    BY <2>1 DEF Known
<1> QED
  BY <1>1, <1>2

(* While no truncation fails, every sector a running volume knows stays    *)
(* free, in limbo or owned: fcreate_q, delete_q, fsys_qwrite and the sync  *)
(* leak nothing.                                                           *)
THEOREM KnownSafe ==
  ASSUME "truncate" \notin Faults
  PROVE  Spec => KeepsKnown
<1>1. ASSUME IInv, OpenInv, [Next]_vars, Mounted, Mounted'
      PROVE  Known \subseteq Known'
  <2>1. CASE UNCHANGED vars
    BY <2>1 DEF vars, mem, Known
  <2>2. CASE FileOperation
    BY <1>1, <2>2, KnownFiles, KnownData DEF FileOperation, TruncateFails
  <2>3. CASE SyncStart \/ SyncStep \/ JournalError
    BY <1>1, <2>3, KnownSync
  <2>4. CASE Crash \/ MountStep
    BY <1>1, <2>4 DEF Crash, Stop, MountStep, ReadJournal, ReplayRecord,
       ReplayDone, Mount, Mounted, MountPhases
  <2> QED
    BY <1>1, <2>1, <2>2, <2>3, <2>4 DEF Next
<1>2. IInv /\ OpenInv /\ [Next]_vars
        => [Mounted /\ Mounted' => Known \subseteq Known']_vars
  BY <1>1
<1> QED
  BY <1>2, Inductive, PTL DEF Spec, KeepsKnown

-----------------------------------------------------------------------------
(* The commit.                                                             *)

(* While no write fails that extended its file, a commit leaves no sector  *)
(* unaccounted for but those of writes whose header it could not know.     *)
THEOREM CommitSafe ==
  ASSUME "write" \notin Faults
  PROVE  Spec => CommitKeepsSectors
<1> DEFINE Accounted(c) == Saved(c).free \cup AllOwned(Saved(c))
           Writing == UNION {ram.hdr[f].own : f \in ext \cup upd}
<1>1. ASSUME IInv, IInv', HdrInv', [Next]_vars, ~jbusy, jbusy',
             NEW s \in Known, s \notin Writing
      PROVE  \E c \in Copies : s \in Accounted(c)'
  <2>1. MarkBusy
    BY ZenonT(60), <1>1 DEF Next, vars, media, FileOperation, Create, CreateFails, Truncate,
       TruncateFails, Delete, Open, Extend, WriteDone, WriteFails, Close, Operation,
       SyncStart, SyncStep, JournalError, JournalEntry, JournalEntriesDone,
       JournalIndex, JournalFree, JournalDone, WriteEntry, WalkDone, UpdateIndex,
       UpdateFree, MarkClean, SyncDone, Crash, Stop, MountStep, ReadJournal,
       ReplayRecord, ReplayDone, Mount
  <2>2. /\ UNCHANGED <<ram, limbo, ext, upd>> /\ pc' = "JSYNC_DONE"
        /\ pc' \in SyncPhases
    BY <2>1 DEF MarkBusy, mem, SyncPhases
  <2>3. /\ limbo = {} /\ \A c \in Copies : SameTables(Saved(c)', ram)
        /\ \A f \in Used(ram) : HeaderSaved(f)'
    BY <1>1, <2>2 DEF IInv, SyncInv, HdrInv, HeadersInv, HeadersCovered
  <2>4. CASE s \in ram.free
    BY <2>3, <2>4, BoundsType DEF SameTables
  <2>5. CASE s \notin ram.free
    <3>1. PICK f \in Files : s \in Owned(ram, f)
      BY <1>1, <2>3, <2>5 DEF Known, AllOwned
    <3>2. f \in Used(ram) /\ (s \in ram.idx[f] \/ s \in ram.hdr[f].own)
      BY <3>1 DEF Owned, Used
    <3>3. \A c \in Copies : Saved(c)'.idx[f] = ram.idx[f] /\ Saved(c)'.idx[f] # {}
      BY <2>3, <3>2 DEF SameTables, Used
    <3>4. PICK c \in Copies : s \in Saved(c)'.idx[f] \cup Saved(c)'.hdr[f].own
      <4>1. CASE s \in ram.idx[f]
        BY <3>3, <4>1, BoundsType
      <4>2. CASE s \in ram.hdr[f].own
        <5>1. f \notin ext \cup upd
          BY <1>1, <4>2
        <5>2. \E c \in Copies : ram'.hdr[f].own \subseteq Saved(c)'.hdr[f].own
          BY <2>2, <2>3, <3>2, <5>1 DEF HeaderSaved
        <5> QED
          BY <2>2, <4>2, <5>2
      <4> QED
        BY <3>2, <4>1, <4>2
    <3>5. s \in Owned(Saved(c)', f)
      BY <3>3, <3>4 DEF Owned
    <3> QED
      BY <3>5 DEF AllOwned, Owned
  <2> QED
    BY <2>4, <2>5
<1>2. ASSUME IInv, IInv', HdrInv', [Next]_vars, ~jbusy, jbusy'
      PROVE  Sectors \ UNION {Saved(c)'.free \cup AllOwned(Saved(c)') : c \in Copies}
               \subseteq (Sectors \ Known) \cup Writing
  BY <1>1, <1>2 DEF AllOwned, Owned
<1>3. IInv /\ IInv' /\ HdrInv' /\ [Next]_vars =>
        [~jbusy /\ jbusy' =>
           Sectors \ UNION {Saved(c)'.free \cup AllOwned(Saved(c)') : c \in Copies}
             \subseteq (Sectors \ Known) \cup Writing]_vars
  BY <1>2
<1> QED
  BY <1>3, Inductive, HeadersInductive, PTL DEF Spec, CommitKeepsSectors

-----------------------------------------------------------------------------
(* The abstract volume.                                                    *)

(* The names of a sound image and what they stand for depend on its names, *)
(* its index and its stubs.                                                *)
LEMMA ViewSame ==
  ASSUME NEW a, NEW b, a.dir = b.dir,
         \A f \in a.dir : a.idx[f] = b.idx[f] /\ a.hdr[f].new = b.hdr[f].new
  PROVE  View(a) = View(b)
BY DEF View

(* The two facts that carry the refinement through the passes: the journal *)
(* is committed, and what would survive is what the users see.             *)
Committed == pc \in SyncPhases
SavedAsLive == View(Saved(1)) = View(ram)

(* From the commit to the end of the sync a mount would find the live      *)
(* volume, in whichever state the alternates are.                          *)
LEMMA ViewSyncing == IInv /\ HdrInv /\ Committed => SavedAsLive
<1> SUFFICES ASSUME IInv, HdrInv, pc \in SyncPhases PROVE View(Saved(1)) = View(ram)
  BY DEF Committed, SavedAsLive
<1>1. SameTables(Saved(1), ram) /\ ram.dir = Used(ram) /\ 1 \in Copies
  BY BoundsType DEF IInv, SyncInv, RamInv, Sound
<1>2. \A f \in ram.dir : Saved(1).hdr[f].new = ram.hdr[f].new
  BY <1>1 DEF HdrInv, HeadersInv, HeadersCovered, HeaderSaved
<1> QED
  BY <1>1, <1>2, ViewSame DEF SameTables

(* The initial volume is the abstract one. *)
LEMMA RefinesInit == Init => Abstract!Init
<1> SUFFICES ASSUME Init PROVE Abstract!Init
  OBVIOUS
<1>1. ram = Fresh /\ Saved(1) = Fresh /\ pc = "IDLE"
  BY BoundsType DEF Init, Saved
<1>2. Fresh.dir = {}
  BY DEF Fresh, NoImage
<1>3. View(Fresh) = Abstract!Empty
  BY <1>2 DEF View, Abstract!Empty
<1> QED
  BY <1>1, <1>3, PhasesApart DEF Abstract!Init, Mounted

(* A step that changes neither view nor whether the volume is mounted. *)
LEMMA RefinesStutter ==
  ASSUME View(ram)' = View(ram), View(Saved(1))' = View(Saved(1)), Mounted' = Mounted
  PROVE  [Abstract!Next]_(Abstract!vars)
BY DEF Abstract!vars

(* The steps of a sync: one of them is the commit. *)
LEMMA RefinesSync ==
  ASSUME IInv, IInv', HdrInv, HdrInv', SyncStart \/ SyncStep \/ JournalError
  PROVE  [Abstract!Next]_(Abstract!vars)
<1>1. Mounted /\ Mounted'
  BY DEF SyncStart, SyncStep, JournalError, JournalEntry, JournalEntriesDone,
     JournalIndex, JournalFree, MarkBusy, JournalDone, WriteEntry, WalkDone,
     UpdateIndex, UpdateFree, MarkClean, SyncDone, Mounted, MountPhases, JournalPhases
<1>2. ram'.dir = ram.dir /\ ram'.idx = ram.idx /\ ram'.hdr = ram.hdr
  BY DEF SyncStart, SyncStep, JournalError, JournalEntry, JournalEntriesDone,
     JournalIndex, JournalFree, MarkBusy, JournalDone, WriteEntry, WalkDone,
     UpdateIndex, UpdateFree, MarkClean, SyncDone, mem, IInv, TypeOK, Images
<1>3. View(ram)' = View(ram)
  BY <1>2, ViewSame
<1>4. CASE MarkBusy
  <2>1. pc' \in SyncPhases
    BY <1>4 DEF MarkBusy, SyncPhases
  <2>2. Committed'
    BY <2>1 DEF Committed
  <2>3. SavedAsLive'
    BY <2>2, ViewSyncing, PTL
  <2>4. Abstract!Commit
    BY <1>1, <1>3, <2>3 DEF Abstract!Commit, SavedAsLive
  <2> QED
    BY <2>4 DEF Abstract!Next
<1>5. CASE pc \in SyncPhases /\ pc' \in SyncPhases
  <2>1. Committed /\ Committed'
    BY <1>5 DEF Committed
  <2>2. SavedAsLive /\ SavedAsLive'
    BY <2>1, ViewSyncing, PTL
  <2> QED
    BY <1>1, <1>3, <2>2, RefinesStutter DEF SavedAsLive, Mounted
<1>6. CASE ~MarkBusy /\ ~(pc \in SyncPhases /\ pc' \in SyncPhases)
  <2>1. /\ disk' = disk /\ jbusy' = jbusy
        /\ pc \in {"IDLE"} \cup JournalPhases \/ (jhas' = jhas /\ jrec' = jrec)
    BY <1>6 DEF SyncStart, SyncStep, JournalError, JournalEntry, JournalEntriesDone,
       JournalIndex, JournalFree, JournalDone, WriteEntry, WalkDone,
       UpdateIndex, UpdateFree, MarkClean, SyncDone, media, SyncPhases, JournalPhases
  <2>2. jbusy => jhas' = jhas /\ jrec' = jrec
    BY <2>1 DEF IInv, IdleInv, JournalInv
  <2>3. Saved(1)' = Saved(1)
    BY <2>1, <2>2, SavedStable, BoundsType
  <2>4. View(Saved(1))' = View(Saved(1))
    BY <2>3 DEF View
  <2> QED
    BY <1>1, <1>3, <2>4, RefinesStutter DEF Mounted
<1> QED
  BY <1>4, <1>5, <1>6

(* A file operation changes the live volume only. *)
LEMMA RefinesOperation ==
  ASSUME IInv, FileOperation
  PROVE  [Abstract!Next]_(Abstract!vars)
<1>1. /\ UNCHANGED media /\ pc' = pc /\ Mounted
  BY SMTT(60) DEF FileOperation, Create, CreateFails, Truncate, TruncateFails, Delete, Open,
     Extend, WriteDone, WriteFails, Close, Operation, control, Mounted, MountPhases
<1>2. Saved(1)' = Saved(1)
  BY <1>1, SavedStable, BoundsType DEF media
<1>3. View(Saved(1))' = View(Saved(1)) /\ Mounted'
  BY <1>1, <1>2 DEF View, Mounted
<1> QED
  BY <1>1, <1>3 DEF Abstract!Next, Abstract!Operate

(* A crash takes the live volume, and the saved one is what the mount will *)
(* read, replayed or not.                                                  *)
LEMMA RefinesDown ==
  ASSUME IInv, HdrInv,
         Crash \/ ReadJournal \/ (\E i \in Items : ReplayRecord(i)) \/ ReplayDone
  PROVE  [Abstract!Next]_(Abstract!vars)
<1>1. CASE Crash
  <2>1. /\ disk' = disk /\ jbusy' = jbusy /\ (jbusy => jhas' = jhas /\ jrec' = jrec)
        /\ ram' = NoImage /\ pc' = "DOWN"
    BY <1>1 DEF Crash, Stop
  <2>2. Saved(1)' = Saved(1)
    BY <2>1, SavedStable, BoundsType
  <2>3. View(Saved(1))' = View(Saved(1)) /\ ~Mounted'
    BY <2>1, <2>2 DEF View, Mounted, MountPhases
  <2>4. View(ram)' = Abstract!Empty
    BY <2>1 DEF View, NoImage, Abstract!Empty
  <2>5. Abstract!Crash
    BY <2>3, <2>4 DEF Abstract!Crash
  <2> QED
    BY <2>5 DEF Abstract!Next
<1>2. CASE ReadJournal \/ (\E i \in Items : ReplayRecord(i)) \/ ReplayDone
  <2>1. ram' = ram /\ ~Mounted /\ ~Mounted'
    BY <1>2 DEF ReadJournal, ReplayRecord, ReplayDone, mem, Mounted, MountPhases
  <2>2. View(ram)' = View(ram)
    BY <2>1 DEF View
  <2>3. /\ Saved(1)'.dir = Saved(1).dir
        /\ \A f \in Files : /\ Saved(1)'.idx[f] = Saved(1).idx[f]
                            /\ Saved(1)'.hdr[f].new = Saved(1).hdr[f].new
    <3>1. CASE ReadJournal
      <4>1. Saved(1)' = Saved(1)
        BY <3>1, SavedStable, BoundsType DEF ReadJournal, media
      <4> QED
        BY <4>1
    <3>2. CASE \E i \in Items : ReplayRecord(i)
      <4> PICK i \in Items : ReplayRecord(i)
        BY <3>2
      <4>1. /\ jbusy /\ i \in jhas /\ UNCHANGED <<jrec, jhas, jbusy>> /\ 1 \in Copies
            /\ disk' = [disk EXCEPT ![cp] = With(@, jrec, i)]
        BY BoundsType DEF ReplayRecord, IInv, MountInv, MountPhases
      <4>2. /\ disk'[1] = IF cp = 1 THEN With(disk[1], jrec, i) ELSE disk[1]
            /\ disk[1] \in Images
        BY <4>1 DEF IInv, TypeOK
      <4>3. Replayed(disk'[1]) = Replayed(disk[1])
        BY <4>1, <4>2, ReplayAgain DEF IInv
      <4>4. Saved(1)' = Saved(1)
        BY <4>1, <4>3 DEF Saved, Replayed
      <4> QED
        BY <4>4
    <3>3. CASE ReplayDone
      <4>1. /\ jbusy /\ todo = {} /\ ~jbusy' /\ disk' = disk /\ pc = "JOU_RD_PROC_JOU"
        BY <3>3 DEF ReplayDone, IInv, MountInv, MountPhases
      <4>2. Saved(1) = Replayed(disk[1]) /\ Saved(1)' = disk[1] /\ 1 \in Copies
        BY <4>1, BoundsType DEF Saved
      <4>3. /\ \A f \in jhas \cap Files : disk[1].hdr[f] = jrec.hdr[f]
            /\ \A i \in jhas : Same(disk[1], jrec, i)
        BY <4>1, <4>2 DEF HdrInv, ReplayInv, IInv, MountInv, MountPhases
      <4> QED
        BY <4>2, <4>3 DEF Replayed, Same
    <3> QED
      BY <1>2, <3>1, <3>2, <3>3
  <2>4. Saved(1).dir \subseteq Files
    BY BoundsType DEF IInv, SavedInv, Sound, Used
  <2>5. View(Saved(1))' = View(Saved(1))
    BY <2>3, <2>4 DEF View
  <2> QED
    BY <2>1, <2>2, <2>5, RefinesStutter DEF Mounted
<1> QED
  BY <1>1, <1>2

(* A mount starts from the saved volume without its stubs, whatever        *)
(* alternates it read.                                                     *)
LEMMA RefinesMount ==
  ASSUME IInv, HdrInv, NEW pick \in [Items -> Copies], Mount(pick)
  PROVE  [Abstract!Next]_(Abstract!vars)
<1> DEFINE S == Saved(1)
           Z == {f \in S.dir : S.hdr[f].new}
<1>1. /\ \A c \in Copies : Saved(c)' = Saved(c)
      /\ ram'.dir = S.dir \ Z /\ ram'.dir \subseteq Files
      /\ \A f \in ram'.dir : /\ f \in Used(S) /\ pick[f] \in Copies
                             /\ ram'.idx[f] = S.idx[f]
                             /\ ram'.hdr[f] = Saved(pick[f]).hdr[f]
  BY MountReads DEF HdrInv
<1>2. \A f \in ram'.dir : ram'.hdr[f].new = S.hdr[f].new
  BY <1>1 DEF HdrInv, StubsInv
<1>3. Saved(1)' = Saved(1)
  BY <1>1, BoundsType
<1>4. ~Mounted /\ Mounted'
  BY DEF Mount, Mounted, MountPhases
<1>5. DOMAIN View(S) = S.dir /\ \A f \in S.dir : View(S)[f].stub = S.hdr[f].new
  BY DEF View
<1>6. {m \in DOMAIN View(S) : ~View(S)[m].stub} = S.dir \ Z
  BY <1>5
<1>7. View(ram)' = [n \in S.dir \ Z |-> View(S)[n]]
  <2>1. View(ram)' = [n \in ram'.dir |-> [hdr |-> ram'.idx[n], stub |-> ram'.hdr[n].new]]
    BY DEF View
  <2>2. \A n \in ram'.dir : View(S)[n] = [hdr |-> ram'.idx[n], stub |-> ram'.hdr[n].new]
    BY <1>1, <1>2 DEF View
  <2> QED
    BY <1>1, <2>1, <2>2
<1>8. Abstract!Recover
  <2>1. View(Saved(1))' = View(Saved(1))
    BY <1>3 DEF View
  <2> QED
    BY <1>4, <1>6, <1>7, <2>1 DEF Abstract!Recover
<1> QED
  BY <1>8 DEF Abstract!Next

(* Every step of the program is a step of the abstract volume or none. *)
LEMMA RefinesNext ==
  IInv /\ IInv' /\ HdrInv /\ HdrInv' /\ [Next]_vars => [Abstract!Next]_(Abstract!vars)
<1> SUFFICES ASSUME IInv, IInv', HdrInv, HdrInv', [Next]_vars
             PROVE  [Abstract!Next]_(Abstract!vars)
  OBVIOUS
<1>1. CASE UNCHANGED vars
  <2>1. UNCHANGED <<ram, disk, jrec, jhas, jbusy, pc>>
    BY <1>1 DEF vars, mem, media, control
  <2>2. Saved(1)' = Saved(1)
    BY <2>1, SavedStable, BoundsType
  <2> QED
    BY <2>1, <2>2, RefinesStutter DEF View, Mounted
<1>2. CASE FileOperation
  BY <1>2, RefinesOperation
<1>3. CASE SyncStart \/ SyncStep \/ JournalError
  BY <1>3, RefinesSync
<1>4. CASE Crash \/ MountStep
  BY <1>4, RefinesDown, RefinesMount DEF MountStep
<1> QED
  BY <1>1, <1>2, <1>3, <1>4 DEF Next

(* "The journalling system only preserves the directory structure across a *)
(* system crash": seen by its users, the journalled volume is one whose    *)
(* directory structure is saved as a whole at one instant of each sync,    *)
(* kept by every crash and every replay, and given back by the mount       *)
(* without the files nobody had finished creating.                         *)
THEOREM Refinement == Spec => AtomicCommit
<1>1. Spec => [](IInv /\ HdrInv)
  BY Inductive, HeadersInductive, PTL
<1> QED
  BY <1>1, RefinesInit, RefinesNext, PTL DEF Spec, AtomicCommit, Abstract!Spec
=============================================================================
