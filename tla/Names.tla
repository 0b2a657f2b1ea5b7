-------------------------------- MODULE Names --------------------------------
(***************************************************************************)
(* Directories, file headers and FIDs of a mounted volume (src/fsys.c):    *)
(* create, open, delete, rename, mkdir, rmdir, close, the reading of       *)
(* directories, sync, crash and mount.                                     *)
(*                                                                         *)
(* An operation holds the volume's mutex from its lookup to its end and is *)
(* one action; a close checks its descriptor first and gets the mutex      *)
(* later.  A sync is the single step that JournalSync shows it to be; what *)
(* it writes is what the operations put on the dirty list.                 *)
(*                                                                         *)
(* The volume is writable.  Every directory has the entries "." and "..":  *)
(* the first leads to the directory itself and is left out, and so is the  *)
(* second of the root, which leads to the root; that of another directory  *)
(* is kept apart from the names.  The paths given have neither of them.  A *)
(* directory is not removed while a stream reads it: the stream would read *)
(* memory that was freed.                                                  *)
(*                                                                         *)
(* A mount that removes a file by the ".." of another directory leaves its *)
(* name behind.  The model ends there: the code would put a second entry   *)
(* of the same name beside it.                                             *)
(***************************************************************************)
EXTENDS Integers, FiniteSets, FiniteSetsExt, Sequences, SequencesExt

CONSTANTS
  MaxFid,      \* bound: FIDs the index file has room for
  MaxGen,      \* 255, the last generation number
  Names,       \* file names, in the order of strcmp
  HashOf,      \* the chain of a name (hashit)
  Buckets,     \* FSYS_DIR_HASH_SIZE
  Paths,       \* bound: the paths given, sequences of names
  PerSector,   \* FIDs to a sector of the index file
  Handles,     \* bound: descriptors
  MaxOps       \* bound: files and streams created and opened, renames and syncs

ASSUME FidsAssumption == MaxFid \in Nat /\ MaxFid >= 1 /\ MaxGen \in Nat \ {0} /\ PerSector \in Nat \ {0}
ASSUME NamesAssumption ==
  /\ Names \subseteq Nat \ {0} /\ IsFiniteSet(Names)
  /\ Buckets \in Nat \ {0} /\ HashOf \in [Names -> 1..Buckets]
ASSUME PathsAssumption == \A p \in Paths : p \in Seq(Names) /\ p # <<>>
ASSUME OpsAssumption == MaxOps \in Nat

VARIABLES
  m,      \* the volume in memory: rfh, dirs, dots, index, unused, ffree, dirty, ibits
  saved,  \* what a mount would find: rfh, dirs, dots, index, ffree
  up,     \* the volume is mounted
  lost,   \* the mount left the name of a file that it removed
  h,      \* QioFile; again: how often its FID was given out since it was opened
  s,      \* FsysDIR, one stream
  ops     \* what was used up of MaxOps

vars == <<m, saved, up, lost, h, s, ops>>

Root == 1                 \* FSYS_INDEX_ROOT
IndexFid == 0             \* FSYS_INDEX_INDEX
Fids == Root..MaxFid
NoEnt == [fid |-> 0, gen |-> 0]
NoFile == [valid |-> FALSE, gen |-> 0, dir |-> FALSE, new |-> FALSE, upd |-> FALSE]
Lba == [use |-> "lba", gen |-> 0]
Empty(gen) == [use |-> "empty", gen |-> gen]
NoDir == [n \in Names |-> NoEnt]
Dots == 0                 \* the name ".."
Free == [open |-> FALSE, fid |-> 0, gen |-> 0, again |-> 0, closing |-> FALSE]
NoStream == [open |-> FALSE, dir |-> 0, entry |-> 1, cur |-> 0, cut |-> FALSE,
             seen |-> {}, steady |-> {}, cuts |-> FALSE]

\* A volume that can be used, and that the model follows.
Usable == up /\ ~lost

--------------------------------------------------------------------------
(* Looking a path up.                                                      *)

Live(v, e) == e.fid # 0 /\ v.rfh[e.fid].gen = e.gen

\* From a directory to the one that a component of a path names; 0 when there is none.
Enter(v, top, n) ==
  IF top # 0 /\ v.rfh[top].dir /\ Live(v, v.dirs[top][n]) THEN v.dirs[top][n].fid ELSE 0

\* The directory the last name of a path is looked up in; 0 when there is none.
Owner(v, path) ==
  LET top == FoldLeft(LAMBDA t, n : Enter(v, t, n), Root, Front(path))
  IN  IF top \in Fids /\ v.rfh[top].dir THEN top ELSE 0

Found(v, path) ==
  LET owner == Owner(v, path)
      e == v.dirs[owner][Last(path)]
  IN  IF owner # 0 /\ Live(v, e) THEN e.fid ELSE 0

--------------------------------------------------------------------------
(* What the operations are made of.  v is the volume as the steps before   *)
(* left it.                                                                *)

\* Mutant: the generation is not changed.
NextGen_Same(gen) == gen

\* Mutant: it does not wrap.
NextGen_NoWrap(gen) == gen + 1

NextGen(gen) == IF gen + 1 > MaxGen THEN 1 ELSE gen + 1

\* The last FID of the unused list that is free; a new one when there is none.
FreeFid(v) ==
  LET free == {i \in DOMAIN v.unused : v.index[v.unused[i]].use = "empty"}
  IN  IF free = {} THEN 0 ELSE Max(free)

NewFid(v) == LET i == FreeFid(v) IN IF i = 0 THEN v.ffree ELSE v.unused[i]

GetFh(v) ==
  LET i == FreeFid(v)
      fid == NewFid(v)
      gen == IF i = 0 THEN 1 ELSE NextGen(v.index[fid].gen)
  IN  [v EXCEPT !.unused = SubSeq(@, 1, IF i = 0 THEN 0 ELSE i - 1),
                !.ffree = IF i = 0 THEN @ + 1 ELSE @,
                !.dirty = IF i = 0 THEN @ \cup {IndexFid} ELSE @,
                !.index[fid] = Empty(gen),
                !.rfh[fid] = [NoFile EXCEPT !.gen = gen]]

\* FIDs as the index is read, from the first to the last.
InOrder(fids) ==
  CHOOSE q \in [1..Cardinality(fids) -> fids] : \A i, j \in DOMAIN q : i < j => q[i] < q[j]

AddToUnused(unused, fids) == unused \o InOrder({f \in fids : \A i \in DOMAIN unused : unused[i] # f})

\* Mutant: the index is not marked to be written.
BlastFids_NotMarked(v, fids) ==
  [v EXCEPT !.index = [f \in Fids |-> IF f \in fids THEN Empty(v.rfh[f].gen) ELSE @[f]],
            !.rfh = [f \in Fids |-> IF f \in fids THEN NoFile ELSE @[f]],
            !.dirs = [f \in Fids |-> IF f \in fids THEN NoDir ELSE @[f]],
            !.dots = [f \in Fids |-> IF f \in fids THEN NoEnt ELSE @[f]],
            !.unused = AddToUnused(@, fids)]

\* The headers are gone at once; their generations are kept in the index.
BlastFids(v, fids) ==
  [v EXCEPT !.index = [f \in Fids |-> IF f \in fids THEN Empty(v.rfh[f].gen) ELSE @[f]],
            !.rfh = [f \in Fids |-> IF f \in fids THEN NoFile ELSE @[f]],
            !.dirs = [f \in Fids |-> IF f \in fids THEN NoDir ELSE @[f]],
            !.dots = [f \in Fids |-> IF f \in fids THEN NoEnt ELSE @[f]],
            !.unused = AddToUnused(@, fids), !.ibits = @ \cup fids]

ZapFile(v, owner, n, fid) ==
  BlastFids([v EXCEPT !.dirs[owner][n] = NoEnt, !.dirty = @ \cup {owner}], {fid})

--------------------------------------------------------------------------
(* Descriptors.                                                            *)

\* qio_getfile; operations on names take a descriptor and give it back.
CanGetFile == Usable /\ \E x \in Handles : ~h[x].open

Opened(table, fid, gen) ==
  \E x \in Handles :
    /\ ~h[x].open
    /\ h' = [table EXCEPT ![x] = [Free EXCEPT !.open = TRUE, !.fid = fid, !.gen = gen]]

GivenOut(fid) == [x \in Handles |-> IF h[x].open /\ h[x].fid = fid THEN [h[x] EXCEPT !.again = @ + 1] ELSE h[x]]

\* What every operation on a descriptor asks first.
Reaches(x) ==
  /\ h[x].open /\ h[x].fid < m.ffree
  /\ m.rfh[h[x].fid].valid /\ m.rfh[h[x].fid].gen = h[x].gen

--------------------------------------------------------------------------
(* Streams.  A chain is kept in the order of its names; an entry keeps no  *)
(* link when it is taken out.                                              *)

Chain(v, dir, b) == {n \in Names : HashOf[n] = b /\ v.dirs[dir][n] # NoEnt}

\* The stream after the directory it reads was changed.
Noticed(v) ==
  LET gone == {n \in Names : s.open /\ v.dirs[s.dir][n] # m.dirs[s.dir][n]}
  IN  s' = IF ~s.open THEN s
           ELSE [s EXCEPT !.steady = @ \ gone, !.cut = @ \/ s.cur \in gone, !.cuts = @ \/ s.cur \in gone]

--------------------------------------------------------------------------
(* The operations on names.                                                *)

Step(v) == m' = v /\ Noticed(v)

Counted == ops < MaxOps /\ ops' = ops + 1

\* fcreate_q, over an old file.  It is a stub again until it is closed.
Truncate(path, fails) ==
  LET owner == Owner(m, path)
      fid == Found(m, path)
      v == [m EXCEPT !.rfh[fid] = [NoFile EXCEPT !.gen = m.rfh[fid].gen, !.new = TRUE, !.upd = TRUE, !.valid = ~fails],
                     !.dirty = @ \cup {fid}]
  IN  /\ Counted
      /\ fid # 0 /\ ~m.rfh[fid].dir
      /\ \/ fails /\ Step(ZapFile(v, owner, Last(path), fid)) /\ UNCHANGED h
         \/ ~fails /\ Step(v) /\ Opened(h, fid, m.rfh[fid].gen)

\* fcreate_q, a new file or directory.  It gets its name last; a directory has the one
\* it is made in as its "..", and keeps it when it is renamed or that one is removed.
CreateNew(path, mkdir, fails) ==
  LET owner == Owner(m, path)
      fid == NewFid(m)
      got == GetFh(m)
      gen == got.rfh[fid].gen
      v == [got EXCEPT !.index[fid] = Lba, !.ibits = @ \cup {fid},
                       !.rfh[fid] = [@ EXCEPT !.new = TRUE, !.upd = TRUE], !.dirty = @ \cup {fid}]
      w == [v EXCEPT !.dirs[owner][Last(path)] = [fid |-> fid, gen |-> gen], !.dirty = @ \cup {owner},
                     !.dots[fid] = IF mkdir THEN [fid |-> owner, gen |-> m.rfh[owner].gen] ELSE NoEnt,
                     !.rfh[fid] = [@ EXCEPT !.valid = TRUE, !.dir = mkdir, !.new = ~mkdir, !.upd = ~mkdir]]
  IN  /\ Counted
      /\ fid \in Fids
      /\ owner # 0 /\ Found(m, path) = 0
      /\ \/ fails /\ Step(ZapFile(v, owner, Last(path), fid)) /\ h' = GivenOut(fid)
         \/ ~fails /\ mkdir /\ Step(w) /\ h' = GivenOut(fid)
         \/ ~fails /\ ~mkdir /\ Step(w) /\ Opened(GivenOut(fid), fid, gen)

\* fopen_q, an old file or directory.
OpenOld(path) ==
  /\ Counted
  /\ Found(m, path) # 0
  /\ UNCHANGED <<m, s>>
  /\ Opened(h, Found(m, path), m.rfh[Found(m, path)].gen)

\* What there is is opened, or truncated (O_TRUNC); what there is not is created, with
\* O_CREAT, and with O_TRUNC and O_WRONLY whether O_CREAT was given or not.
Open(path) ==
  /\ CanGetFile
  /\ \/ OpenOld(path)
     \/ \E fails \in BOOLEAN : Truncate(path, fails) \/ CreateNew(path, FALSE, fails)
  /\ UNCHANGED <<saved, up, lost>>

\* By FID, also of a file that was deleted: its generation is 0 then.
OpenFid(fid, gen) ==
  /\ CanGetFile
  /\ Counted
  /\ fid < m.ffree /\ m.rfh[fid].gen = gen
  /\ UNCHANGED <<m, saved, up, lost, s>>
  /\ Opened(h, fid, gen)

\* Of a name in use it opens the file or directory that has it.
Mkdir(path) ==
  /\ CanGetFile
  /\ OpenOld(path) \/ \E fails \in BOOLEAN : CreateNew(path, TRUE, fails)
  /\ UNCHANGED <<saved, up, lost>>

Delete(path) ==
  LET fid == Found(m, path)
  IN  /\ CanGetFile
      /\ fid # 0 /\ ~m.rfh[fid].dir
      /\ Step(ZapFile(m, Owner(m, path), Last(path), fid))
      /\ UNCHANGED <<saved, up, lost, h, ops>>

Rmdir(path) ==
  LET fid == Found(m, path)
  IN  /\ CanGetFile
      /\ fid # 0 /\ m.rfh[fid].dir /\ m.dirs[fid] = NoDir
      /\ ~(s.open /\ s.dir = fid)
      /\ Step(ZapFile(m, Owner(m, path), Last(path), fid))
      /\ UNCHANGED <<saved, up, lost, h, ops>>

\* Mutant: the directory a file is moved to is not put on the dirty list.
Moved_OneDirty(v, from, n, to, k) ==
  LET e == v.dirs[from][n]
      out == [v EXCEPT !.dirs[from][n] = NoEnt]
  IN  [out EXCEPT !.dirs[to][k] = e, !.dirty = @ \cup {from}]

Moved(v, from, n, to, k) ==
  LET e == v.dirs[from][n]
      out == [v EXCEPT !.dirs[from][n] = NoEnt]
  IN  [out EXCEPT !.dirs[to][k] = e, !.dirty = @ \cup {from, to}]

Rename(src, dst) ==
  /\ CanGetFile
  /\ Counted
  /\ Found(m, src) # 0 /\ Owner(m, dst) # 0 /\ Found(m, dst) = 0
  /\ Step(Moved(m, Owner(m, src), Last(src), Owner(m, dst), Last(dst)))
  /\ UNCHANGED <<saved, up, lost, h>>

--------------------------------------------------------------------------
(* Closing a descriptor: the check, and the work under the volume's mutex. *)

CloseCalled(x) ==
  /\ Usable /\ ~h[x].closing /\ Reaches(x)
  /\ h' = [h EXCEPT ![x].closing = TRUE]
  /\ UNCHANGED <<m, saved, up, lost, s, ops>>

\* The header is the one that has the FID now.
CloseUpd(x) ==
  LET fid == h[x].fid
  IN  /\ Usable /\ h[x].closing
      /\ m' = IF m.rfh[fid].upd
              THEN [m EXCEPT !.dirty = @ \cup {fid}, !.rfh[fid] = [@ EXCEPT !.upd = FALSE, !.new = FALSE]]
              ELSE m
      /\ h' = [h EXCEPT ![x] = Free]
      /\ UNCHANGED <<saved, up, lost, s, ops>>

--------------------------------------------------------------------------
(* Reading a directory.                                                    *)

StreamAt(dir) == [NoStream EXCEPT !.open = TRUE, !.dir = dir, !.steady = {n \in Names : m.dirs[dir][n] # NoEnt}]

\* The root is found by its entry ".".
Opendir(fid) ==
  /\ Usable /\ ~s.open
  /\ Counted
  /\ fid \in {Root} \cup {Found(m, p) : p \in Paths} /\ m.rfh[fid].dir
  /\ s' = StreamAt(fid)
  /\ UNCHANGED <<m, saved, up, lost, h>>

\* Mutant: the chain a stream was in is not looked at again.
NextInChain_None(b) == {}

\* What follows the current entry in its chain.
NextInChain(b) == {n \in Chain(m, s.dir, b) : n > s.cur}

Readdir ==
  LET rest == IF s.cur = 0 \/ s.cut THEN {} ELSE NextInChain(HashOf[s.cur])
      more == {b \in s.entry..Buckets : Chain(m, s.dir, b) # {}}
  IN  /\ Usable /\ s.open
      /\ \/ /\ rest # {}
            /\ s' = [s EXCEPT !.cur = Min(rest), !.seen = @ \cup {Min(rest)}]
         \/ /\ rest = {} /\ more # {}
            /\ LET n == Min(Chain(m, s.dir, Min(more)))
               IN  s' = [s EXCEPT !.entry = Min(more) + 1, !.cur = n, !.cut = FALSE, !.seen = @ \cup {n}]
         \/ /\ rest = {} /\ more = {}
            /\ s' = [s EXCEPT !.entry = Buckets + 1, !.cur = 0, !.cut = FALSE]
      /\ UNCHANGED <<m, saved, up, lost, h, ops>>

Rewdir ==
  /\ Usable /\ s.open
  /\ s' = StreamAt(s.dir)
  /\ Counted
  /\ UNCHANGED <<m, saved, up, lost, h>>

Closedir ==
  /\ Usable /\ s.open
  /\ s' = NoStream
  /\ UNCHANGED <<m, saved, up, lost, h, ops>>

--------------------------------------------------------------------------
(* Sync, crash and mount.                                                  *)

\* The headers on the dirty list, but for those of files that are gone.
Written == {f \in m.dirty \cap Fids : f = Root \/ m.rfh[f].valid}

\* A header as it is written, with the flags of a file that is open or new.
UnpackRfh(f) == m.rfh[f]

\* The entries of files that are there, with the generation their header has: that of
\* another file, when the directory that ".." led to is gone and its FID is in use again.
WrittenEnt(e) ==
  IF e.fid # 0 /\ e.fid < m.ffree /\ m.rfh[e.fid].valid
  THEN [fid |-> e.fid, gen |-> m.rfh[e.fid].gen] ELSE NoEnt

SyncDirectory(f) == [n \in Names |-> WrittenEnt(m.dirs[f][n])]

\* The sectors of the index that hold a marked FID.
PartsOfIndex == {f \in Fids : \E b \in m.ibits : b \div PerSector = f \div PerSector}

Sync ==
  /\ Usable /\ m.dirty # {}
  /\ saved' = [rfh   |-> [f \in Fids |-> IF f \in Written THEN UnpackRfh(f) ELSE saved.rfh[f]],
               dirs  |-> [f \in Fids |-> IF f \in Written THEN SyncDirectory(f) ELSE saved.dirs[f]],
               dots  |-> [f \in Fids |-> IF f \in Written THEN WrittenEnt(m.dots[f]) ELSE saved.dots[f]],
               index |-> [f \in Fids |-> IF f \in PartsOfIndex THEN m.index[f] ELSE saved.index[f]],
               ffree |-> IF IndexFid \in m.dirty THEN m.ffree ELSE saved.ffree]
  /\ m' = [m EXCEPT !.dirty = {}, !.ibits = {}]
  /\ Counted
  /\ UNCHANGED <<up, lost, h, s>>

Crash ==
  /\ Usable
  /\ up' = FALSE
  /\ h' = [x \in Handles |-> Free] /\ s' = NoStream
  /\ UNCHANGED <<m, saved, lost, ops>>

\* The directories that are reached from the root.
Reached(v) ==
  LET tops == {f \in Fids : v.rfh[f].dir}
      closed == {all \in SUBSET tops : Root \in all
                   /\ \A f \in all, n \in Names : v.dirs[f][n].fid \in tops => v.dirs[f][n].fid \in all}
  IN  {g \in tops : \A all \in closed : g \in all}

IsStub(v, e) == e.fid # 0 /\ v.rfh[e.fid].valid /\ v.rfh[e.fid].new

\* The entries that the walk over the tree finds a stub at.  It compares the FID only,
\* and it compares that of "..", too.
Ent(v, x) == IF x[2] = Dots THEN v.dots[x[1]] ELSE v.dirs[x[1]][x[2]]
InTree(v) == Reached(v) \X (Names \cup {Dots})
StubEnts(v) == {x \in InTree(v) : IsStub(v, Ent(v, x))}
Stubs(v) == {Ent(v, x).fid : x \in StubEnts(v)}

\* For each stub the entry that the walk meets first: the hash of the names decides.
Walks(v) == {first \in [Stubs(v) -> StubEnts(v)] : \A g \in Stubs(v) : Ent(v, first[g]).fid = g}

\* zap_stub_files.  A stub is no directory, so that removing one hides no other.  The entry
\* at which it is met is taken out; a later one stays, as the header is no stub any more.
ZapStubs(v, first) ==
  LET out == {first[g] : g \in Stubs(v)}
      kept == {Ent(v, x).fid : x \in InTree(v) \ out}
      w == [v EXCEPT !.dirs = [f \in Fids |-> [n \in Names |-> IF <<f, n>> \in out THEN NoEnt ELSE @[f][n]]],
                     !.dots = [f \in Fids |-> IF <<f, Dots>> \in out THEN NoEnt ELSE @[f]],
                     !.dirty = @ \cup {x[1] : x \in out}]
      z == BlastFids(w, Stubs(v))
  IN  [z EXCEPT !.rfh = [f \in Fids |-> [z.rfh[f] EXCEPT !.upd = @ /\ f \notin kept]]]

\* A header that was read.
MkRamfh(f) == [saved.rfh[f] EXCEPT !.valid = TRUE]

\* A directory that was read: an entry without a generation is passed over, and one
\* outside the index has no file.
ReadEnt(e) == IF e.gen # 0 /\ e.fid < saved.ffree THEN e ELSE NoEnt

MkRamdir(f) == [n \in Names |-> ReadEnt(saved.dirs[f][n])]

\* A header is read when the index has a sector for it; FIDs without are unused.
Loaded ==
  LET there(f) == saved.index[f].use = "lba"
      dir(f) == there(f) /\ saved.rfh[f].dir
  IN  [rfh    |-> [f \in Fids |-> IF there(f) THEN MkRamfh(f) ELSE NoFile],
       dirs   |-> [f \in Fids |-> IF dir(f) THEN MkRamdir(f) ELSE NoDir],
       dots   |-> [f \in Fids |-> IF dir(f) THEN ReadEnt(saved.dots[f]) ELSE NoEnt],
       index  |-> [f \in Fids |-> IF saved.index[f].use = "zero" THEN Empty(1) ELSE saved.index[f]],
       unused |-> InOrder({f \in Fids : f < saved.ffree /\ ~there(f)}),
       ffree  |-> saved.ffree, dirty |-> {}, ibits |-> {}]

Mount ==
  /\ ~up /\ up' = TRUE
  /\ \E first \in Walks(Loaded) :
       /\ m' = ZapStubs(Loaded, first)
       /\ lost' = \E g \in Stubs(Loaded) : first[g][2] = Dots
  /\ UNCHANGED <<saved, h, s, ops>>

--------------------------------------------------------------------------
\* A volume that was just formatted.
Init ==
  /\ m = [rfh |-> [f \in Fids |-> IF f = Root THEN [NoFile EXCEPT !.valid = TRUE, !.gen = 1, !.dir = TRUE] ELSE NoFile],
          dirs |-> [f \in Fids |-> NoDir], dots |-> [f \in Fids |-> NoEnt],
          index |-> [f \in Fids |-> IF f = Root THEN Lba ELSE [use |-> "zero", gen |-> 0]],
          unused |-> <<>>, ffree |-> Root + 1, dirty |-> {}, ibits |-> {}]
  /\ saved = [rfh |-> m.rfh, dirs |-> m.dirs, dots |-> m.dots, index |-> m.index, ffree |-> m.ffree]
  /\ up = TRUE /\ lost = FALSE
  /\ h = [x \in Handles |-> Free]
  /\ s = NoStream
  /\ ops = 0

NextName ==
  \/ \E f \in Fids, gen \in 0..MaxGen : OpenFid(f, gen)
  \/ \E p \in Paths : Open(p) \/ Mkdir(p) \/ Delete(p) \/ Rmdir(p)
  \/ \E p, r \in Paths : Rename(p, r)

NextFile ==
  \/ \E x \in Handles : CloseCalled(x) \/ CloseUpd(x)
  \/ \E f \in Fids : Opendir(f)
  \/ Readdir \/ Rewdir \/ Closedir

Next == NextName \/ NextFile \/ Sync \/ Crash \/ Mount

Spec == Init /\ [][Next]_vars

--------------------------------------------------------------------------
Header == [valid : BOOLEAN, gen : 0..MaxGen, dir : BOOLEAN, new : BOOLEAN, upd : BOOLEAN]
Entry == [fid : {0} \cup Fids, gen : 0..MaxGen]
Slot == [use : {"lba", "empty", "zero"}, gen : 0..MaxGen]
Descriptor == [open : BOOLEAN, fid : {0} \cup Fids, gen : 0..MaxGen, again : Nat, closing : BOOLEAN]
Stream == [open : BOOLEAN, dir : {0} \cup Fids, entry : 1..(Buckets + 1), cur : {0} \cup Names,
           cut : BOOLEAN, seen : SUBSET Names, steady : SUBSET Names, cuts : BOOLEAN]

OnDisk == [rfh : [Fids -> Header], dirs : [Fids -> [Names -> Entry]], dots : [Fids -> Entry],
           index : [Fids -> Slot], ffree : 2..(MaxFid + 1)]
InMemory == [rfh : [Fids -> Header], dirs : [Fids -> [Names -> Entry]], dots : [Fids -> Entry],
             index : [Fids -> Slot], unused : Seq(Fids), ffree : 2..(MaxFid + 1),
             dirty : SUBSET ({IndexFid} \cup Fids), ibits : SUBSET Fids]

TypeOK ==
  /\ m \in InMemory /\ saved \in OnDisk
  /\ up \in BOOLEAN /\ lost \in BOOLEAN
  /\ h \in [Handles -> Descriptor] /\ s \in Stream
  /\ ops \in 0..MaxOps

\* Every entry is in a directory and names a file that is there, of its generation; every
\* file but the root has one name; and a FID is unused, once, when no file has it.
Whole ==
  LET ents == {x \in Fids \X Names : m.dirs[x[1]][x[2]] # NoEnt}
      names(f) == {x \in ents : m.dirs[x[1]][x[2]].fid = f}
      free == {m.unused[i] : i \in DOMAIN m.unused}
  IN  /\ \A x \in ents : /\ m.rfh[x[1]].valid /\ m.rfh[x[1]].dir
                         /\ m.rfh[m.dirs[x[1]][x[2]].fid].valid /\ Live(m, m.dirs[x[1]][x[2]])
      /\ \A f \in Fids \ {Root} : Cardinality(names(f)) = IF m.rfh[f].valid THEN 1 ELSE 0
      /\ IsInjective(m.unused)
      /\ \A f \in Fids : m.rfh[f].valid <=> m.index[f].use = "lba"
      /\ \A f \in Fids : f \in free <=> f < m.ffree /\ ~m.rfh[f].valid

\* Names, headers, the index and the unused FIDs agree, until a mount finds a stub by the
\* ".." of a directory that was moved out of one that is gone.
NamesSound == Usable => Whole

\* A stub leaves with its own entry, "pluck ourself from the list": what a mount leaves of
\* names leads to files that are there.
StubsPlucked == up => \A f \in Reached(m), n \in Names : m.dirs[f][n] # NoEnt => Live(m, m.dirs[f][n])

\* What is read or written through a descriptor is the file it was opened on; unless the
\* FID was given out again and its generation came round, which takes MaxGen times.
HandlesSound ==
  \A x \in Handles : Reaches(x) => h[x].again % MaxGen = 0

\* A scan of a directory returns every entry that was there all the time, unless the one
\* it stood at was removed: that ends its chain.
ScansComplete ==
  s.open /\ s.entry = Buckets + 1 /\ s.cur = 0 /\ ~s.cuts => s.steady \subseteq s.seen

--------------------------------------------------------------------------
\* The files that have a name a user can give, where each is and whether it is a stub.
Listing(v) ==
  LET ents == {x \in Reached(v) \X Names : Live(v, v.dirs[x[1]][x[2]])}
  IN  [x \in ents |-> LET e == v.dirs[x[1]][x[2]]
                      IN  [fid |-> e.fid, gen |-> e.gen, dir |-> v.rfh[e.fid].dir, stub |-> v.rfh[e.fid].new]]

Nothing == [x \in {} |-> x]

Volume == INSTANCE AtomicVolume WITH
  live <- IF up THEN Listing(m) ELSE Nothing, saved <- Listing(saved), up <- up

\* Whatever was done since the last sync is lost by a crash, and nothing else but the
\* files nobody had closed.
AtomicNames == [][Volume!Next]_<<IF up THEN Listing(m) ELSE Nothing, Listing(saved), up>>
=============================================================================
