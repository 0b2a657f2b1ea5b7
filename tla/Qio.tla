-------------------------------- MODULE Qio ---------------------------------
(***************************************************************************)
(* The QIO core (src/qio.c) over the two drivers that need no volume: the  *)
(* null device and the disk or disk image (src/fsys_ide.c).                *)
(*                                                                         *)
(* Two kinds of caller.  Asyncs are AST functions, as those of the file    *)
(* system are: they keep their IOQ, call between any two ASTs and are told *)
(* by a completion routine.  Programs run at base level through the stdio  *)
(* shims: each takes an IOQ, makes its qiow_ calls with no completion      *)
(* routine, spins on iostatus and gives the IOQ back; base level runs only *)
(* while the AST queue is empty.                                           *)
(*                                                                         *)
(* A file descriptor is the index of a table entry and a generation; a     *)
(* caller uses only descriptors it opened, also after it closed them.      *)
(***************************************************************************)
EXTENDS QioKernel, FiniteSets, FiniteSetsExt, Functions

CONSTANTS
  Files,      \* entries of the table files[], 1..QIO_MAX_FILES
  GenCount,   \* generations a table entry has, (QIO_GENERATION_MASK+1) / (inx_mask+1)
  Asyncs,     \* callers at AST level
  Programs,   \* callers at base level
  Watched,    \* a drive
  AsyncOps,   \* bound: what callers at AST level ask for
  OpenModes,  \* bound: what a caller opens for
  Sectors,    \* bound: places a caller seeks to
  ImageSize,  \* sectors of a drive
  MaxFrees,   \* bound: no descriptor is taken after so many closes
  MaxLeaks    \* bound: how often mkdir is called without a path

ASSUME FilesAssumption == Files \subseteq Nat \ {0} /\ IsFiniteSet(Files)
ASSUME GenAssumption == GenCount \in Nat \ {0}
ASSUME CallersAssumption == Asyncs \cap Programs = {} /\ IsFiniteSet(Asyncs \cup Programs)
ASSUME SizesAssumption == ImageSize \in Nat /\ Sectors \subseteq Nat
ASSUME ModesAssumption == OpenModes \subseteq SUBSET {"R", "W"}
ASSUME DrivesAssumption == "null" \notin Mutexes /\ Watched \in Mutexes

VARIABLES
  k,      \* AST queue and the mutexes of the drives
  desc,   \* files[]: the device and the mode of an open entry
  free,   \* files_freelist, kept sorted by index: only its smallest counts
  frees,  \* how often each entry was freed; its low bits are file->gen
  pool,   \* the IOQs in the list of ioq_pool_head; their order does not matter
  leaked, \* IOQs no one holds and that are not in the pool
  q,      \* the members of the IOQs
  host,   \* where each disk image is positioned (lseek64)
  task    \* the callers

vars == <<k, desc, free, frees, pool, leaked, q, host, task>>

Callers == Asyncs \cup Programs
Drives == Mutexes
Devices == Drives \cup {"null"}
Paths == Devices \cup {"none"}
NoFd == [inx |-> 0, gen |-> 0, serial |-> 0]
Idle(fd) == [pc |-> "idle", ioq |-> Nobody, fd |-> fd, todo |-> <<>>]

--------------------------------------------------------------------------
(* The descriptor table. *)

Gen(f) == frees[f] % GenCount

\* serial tells apart descriptors that look alike; the code does not have it.
File2Fd(f) == [inx |-> f, gen |-> Gen(f), serial |-> frees[f]]

\* Mutant: the generation is not looked at.
Fd2File_AnyGeneration(fd) == IF fd.inx \in Files THEN fd.inx ELSE 0

Fd2File(fd) == IF fd.inx \in Files /\ fd.gen = Gen(fd.inx) THEN fd.inx ELSE 0

IsOpen(f) == f # 0 /\ desc[f].dvc # "none"

GetFile == Min(free)

Closed == [dvc |-> "none", mode |-> {}]

\* Mutant: the entry goes back with its generation.
FreeFile_SameGeneration(f) ==
  /\ desc' = [desc EXCEPT ![f] = Closed]
  /\ free' = free \cup {f}
  /\ frees' = frees

\* The drive's close leaves file->dvc; only an old descriptor could still see it.
FreeFile(f) ==
  /\ desc' = [desc EXCEPT ![f] = Closed]
  /\ free' = free \cup {f}
  /\ frees' = [frees EXCEPT ![f] = @ + 1]

--------------------------------------------------------------------------
(* The drivers.  What null_fops and ide_fops leave 0 is not supported.     *)

NullOps == {"lseek", "read", "write", "open", "fstat", "readwpos", "writewpos"}

IdeOps == NullOps \cup {"close"}

Supports(dvc, op) == op \in (IF dvc = "null" THEN NullOps ELSE IdeOps)

\* qio_complete: nothing is queued for an IOQ without a completion routine.
CompleteIoq(kk, i) ==
  IF \E c \in Asyncs : task[c].ioq = i THEN Complete(kk, i, "user") ELSE kk

\* Every operation of the null device completes before the call returns.
NullCall(qq, i, op) ==
  /\ q' = [qq EXCEPT ![i].status = IF op \in {"read", "readwpos"} THEN "EOF" ELSE "SUCC"]
  /\ k' = CompleteIoq(k, i)

\* que_it: the request waits for the drive; ide_task runs it at AST level.
IdeCall(qq, i, op, drive, where) ==
  /\ q' = [qq EXCEPT ![i] = [@ EXCEPT !.op = op, !.status = "pending", !.where = where]]
  /\ k' = GetMutex(k, drive, i, "ide_task")

DriverCall(qq, i, op, dvc, where) ==
  IF dvc = "null" THEN NullCall(qq, i, op) ELSE IdeCall(qq, i, op, dvc, where)

Seeks(op) == op \in {"lseek", "readwpos", "writewpos"}
Moves(op) == op \in {"read", "write", "readwpos", "writewpos"}

\* lseek takes the new position from iparam1, which holds whence (0, SEEK_SET).
IdePosition(op, where, now) ==
  IF op = "lseek" THEN 0 ELSE IF Seeks(op) THEN where ELSE now

\* The host may refuse the seek, or the transfer after it; the image ends.
IdeOutcomes(op, at) ==
  {IF Moves(op) /\ at >= ImageSize THEN "EOF" ELSE "SUCC"}
  \cup (IF Seeks(op) THEN {"no seek"} ELSE {})
  \cup (IF Moves(op) THEN {"error"} ELSE {})

Outcomes == {"SUCC", "EOF", "error", "no seek"}

\* Mutant: the error of the seek is passed on as it is.
IdeStatus_Raw(outcome) == outcome

IdeStatus(outcome) == IF outcome = "no seek" THEN "error" ELSE outcome

IdeHost(op, where, now, outcome) ==
  CASE outcome = "no seek" -> now
    [] outcome = "SUCC" /\ Moves(op) -> IdePosition(op, where, now) + 1
    [] OTHER -> IdePosition(op, where, now)

\* op and where are of no use once the request is served.
IdeTask(i, f, drive, outcome) ==
  /\ outcome \in IdeOutcomes(q[i].op, IdePosition(q[i].op, q[i].where, host[drive]))
  /\ host' = [host EXCEPT ![drive] = IdeHost(q[i].op, q[i].where, @, outcome)]
  /\ q' = [q EXCEPT ![i] = [op |-> "none", status |-> IdeStatus(outcome), where |-> 0,
                            file |-> IF @.op = "close" THEN NoFd ELSE @.file]]
  /\ IF q[i].op = "close" THEN FreeFile(f) ELSE UNCHANGED <<desc, free, frees>>
  /\ k' = CompleteIoq(FreeMutex(Dispatched(k), drive, i), i)
  /\ UNCHANGED <<pool, leaked, task>>

--------------------------------------------------------------------------
(* The callers.                                                            *)

Cleared == [op |-> "none", status |-> "none", where |-> 0, file |-> NoFd]

Getioq == CHOOSE i \in pool : TRUE

TakeIoq(c, todo) ==
  /\ pool # {}
  /\ pool' = pool \ {Getioq}
  /\ q' = [q EXCEPT ![Getioq].file = task[c].fd]
  /\ task' = [task EXCEPT ![c] = [@ EXCEPT !.pc = "ready", !.ioq = Getioq, !.todo = todo]]

\* Mutant: the caller forgets the IOQ.
GiveIoq_Lost(c, fd) ==
  /\ pool' = pool
  /\ q' = [q EXCEPT ![task[c].ioq] = Cleared]
  /\ task' = [task EXCEPT ![c] = Idle(fd)]

\* The memset of qio_getioq is made here: an IOQ in the pool is of no use to anyone.
GiveIoq(c, fd) ==
  /\ pool' = pool \cup {task[c].ioq}
  /\ q' = [q EXCEPT ![task[c].ioq] = Cleared]
  /\ task' = [task EXCEPT ![c] = Idle(fd)]

\* The caller's descriptor is still the one it opened.
Holds(c) == task[c].fd # NoFd /\ task[c].fd = File2Fd(task[c].fd.inx)

\* Bound: no caller uses a closed descriptor that has come to look open again.
UsesOldFd(c) ==
  LET fd == q[task[c].ioq].file IN fd # NoFd /\ Fd2File(fd) # 0 /\ fd # File2Fd(fd.inx)

Calls(c, op) ==
  /\ task[c].pc = "ready"
  /\ IF c \in Programs THEN k.ast = <<>> /\ Head(task[c].todo) = op ELSE op \in AsyncOps
  /\ ~UsesOldFd(c)

\* A queued call is waited for; an open stays in todo until it is known how it ended.
Left(c, op) ==
  IF c \in Programs THEN IF op = "open" THEN task[c].todo ELSE Tail(task[c].todo)
  ELSE IF op = "open" THEN <<"open">> ELSE <<>>

Called(c, op) == task' = [task EXCEPT ![c].pc = "wait", ![c].todo = Left(c, op)]

\* A refused call returns the error and has no completion; which error is left out.
Refused(c, op, fd) ==
  /\ IF c \in Programs
     THEN /\ q' = [q EXCEPT ![task[c].ioq].status = "error", ![task[c].ioq].file = fd]
          /\ Called(c, op)
     ELSE q' = [q EXCEPT ![task[c].ioq].file = fd] /\ task' = task
  /\ UNCHANGED <<k, desc, free, frees, pool, leaked, host>>

\* QIO_NOTOPEN, QIO_NOT_ORD or QIO_NOT_OWR, QIO_NOTSUPP.
Allowed(f, op, need) == IsOpen(f) /\ need \subseteq desc[f].mode /\ Supports(desc[f].dvc, op)

OnDescriptor(c, op, need, where) ==
  LET i == task[c].ioq
      f == Fd2File(q[i].file)
  IN  /\ Calls(c, op)
      /\ \/ ~Allowed(f, op, need) /\ Refused(c, op, q[i].file)
         \/ /\ Allowed(f, op, need)
            /\ DriverCall(q, i, op, desc[f].dvc, where)
            /\ Called(c, op)
            /\ UNCHANGED <<desc, free, frees, pool, leaked, host>>

\* QIO_NSD, QIO_NOTSUPP.
Reaches(p, op) == p # "none" /\ Supports(p, op)

\* Calls on a path take a descriptor; ioq->file is -1 until then.
OnPath(c, op, p, mode) ==
  LET i == task[c].ioq
  IN  /\ Calls(c, op)
      /\ \/ ~Reaches(p, op) /\ Refused(c, op, NoFd)
         \/ Reaches(p, op) /\ free = {} /\ Refused(c, op, NoFd)
         \/ /\ Reaches(p, op) /\ free # {} /\ SumFunction(frees) < MaxFrees
            /\ free' = free \ {GetFile}
            /\ desc' = [desc EXCEPT ![GetFile] = [dvc |-> p, mode |-> mode]]
            /\ DriverCall([q EXCEPT ![i].file = File2Fd(GetFile)], i, op, p, 0)
            /\ Called(c, op)
            /\ UNCHANGED <<frees, pool, leaked, host>>

QioRead(c) == OnDescriptor(c, "read", {"R"}, 0)
QioReadwpos(c) == \E w \in Sectors : OnDescriptor(c, "readwpos", {"R"}, w)
QioWrite(c) == OnDescriptor(c, "write", {"W"}, 0)
QioWritewpos(c) == \E w \in Sectors : OnDescriptor(c, "writewpos", {"W"}, w)
QioLseek(c) == \E w \in Sectors : OnDescriptor(c, "lseek", {}, w)
QioFstat(c) == OnDescriptor(c, "fstat", {}, 0)
QioIoctl(c) == OnDescriptor(c, "ioctl", {}, 0)
QioIsatty(c) == OnDescriptor(c, "isatty", {}, 0)
QioCancel(c) == OnDescriptor(c, "cancel", {}, 0)
QioReadv(c) == OnDescriptor(c, "readv", {"R"}, 0)
QioWritev(c) == OnDescriptor(c, "writev", {"W"}, 0)

\* Without a close of the driver's own the entry is freed before the completion.
QioClose(c) ==
  LET i == task[c].ioq
      f == Fd2File(q[i].file)
  IN  /\ Calls(c, "close")
      /\ \/ ~IsOpen(f) /\ Refused(c, "close", q[i].file)
         \/ /\ IsOpen(f) /\ ~Supports(desc[f].dvc, "close")
            /\ FreeFile(f)
            /\ q' = [q EXCEPT ![i].status = "SUCC", ![i].file = NoFd]
            /\ k' = CompleteIoq(k, i)
            /\ Called(c, "close")
            /\ UNCHANGED <<pool, leaked, host>>
         \/ /\ IsOpen(f) /\ Supports(desc[f].dvc, "close")
            /\ IdeCall(q, i, "close", desc[f].dvc, 0)
            /\ Called(c, "close")
            /\ UNCHANGED <<desc, free, frees, pool, leaked, host>>

\* A caller holds one descriptor; stat opens one of its own for a moment.
QioOpen(c) ==
  \E p \in Paths, m \in OpenModes :
     /\ Holds(c) => task[c].todo = <<"open", "fstat", "close">>
     /\ task[c].todo = <<"open", "fstat", "close">> => m = {"R"}
     /\ OnPath(c, "open", p, m)

QioOpenspc(c) ==
  \E p \in Paths, m \in OpenModes : c \in Asyncs /\ ~Holds(c) /\ OnPath(c, "open", p, m)

QioDelete(c) == \E p \in Paths : OnPath(c, "delete", p, {})
QioRmdir(c) == \E p \in Paths : OnPath(c, "rmdir", p, {})
QioMkdir(c) == \E p \in Paths : OnPath(c, "mkdir", p, {})
QioFsync(c) == \E p \in Paths : OnPath(c, "fsync", p, {})

QioRename(c) ==
  \E from, to \in Paths :
     \/ /\ "none" \in {from, to} \/ from # to
        /\ Calls(c, "rename") /\ Refused(c, "rename", NoFd)
     \/ from = to /\ OnPath(c, "rename", from, {})

\* Neither driver has directories or statfs; these leave ioq->file alone.
QioStatfs(c) == Calls(c, "statfs") /\ Refused(c, "statfs", q[task[c].ioq].file)
QioOpendir(c) == Calls(c, "opendir") /\ Refused(c, "opendir", q[task[c].ioq].file)

QioReaddir(c) == Calls(c, "readdir") /\ Refused(c, "readdir", q[task[c].ioq].file)
QioRewdir(c) == Calls(c, "rewdir") /\ Refused(c, "rewdir", q[task[c].ioq].file)
QioClosedir(c) == Calls(c, "closedir") /\ Refused(c, "closedir", q[task[c].ioq].file)

\* QIO_IOQBUSY: a call with an IOQ that is on a queue spoils the status of the
\* request under way, and nothing else.
BusyCall(c) ==
  /\ c \in Asyncs /\ task[c].pc = "wait"
  /\ Queued(k, task[c].ioq)
  /\ q' = [q EXCEPT ![task[c].ioq].status = "error"]
  /\ UNCHANGED <<k, desc, free, frees, pool, leaked, host, task>>

--------------------------------------------------------------------------
(* Callers at AST level.                                                   *)

AsyncGetioq(c) ==
  /\ task[c].pc = "idle" /\ TakeIoq(c, <<>>)
  /\ UNCHANGED <<k, desc, free, frees, leaked, host>>

AsyncFreeioq(c) ==
  /\ task[c].pc = "ready" /\ GiveIoq(c, task[c].fd)
  /\ UNCHANGED <<k, desc, free, frees, leaked, host>>

\* The completion routine looks at the status and keeps the descriptor of an open.
UserDone(i, c) ==
  /\ task[c].pc = "wait" /\ task[c].ioq = i
  /\ k' = Dispatched(k)
  /\ q' = [q EXCEPT ![i].status = "none"]
  /\ task' = [task EXCEPT ![c].pc = "ready", ![c].todo = <<>>,
                          ![c].fd = IF task[c].todo = <<"open">> THEN q[i].file ELSE @]
  /\ UNCHANGED <<desc, free, frees, pool, leaked, host>>

\* One turn of the dispatch loop.  The drive is found by the descriptor: a request whose
\* descriptor was closed in the meantime has none (the code follows a null pointer) and
\* never ends.
RunAst ==
  /\ k.ast # <<>>
  /\ LET i == Head(k.ast)
         f == Fd2File(q[i].file)
     IN \/ /\ k.act[i] = "ide_task"
           /\ f # 0
           /\ \E drive \in Drives, outcome \in Outcomes : desc[f].dvc = drive /\ IdeTask(i, f, drive, outcome)
        \/ /\ k.act[i] = "user"
           /\ \E c \in Asyncs : UserDone(i, c)

--------------------------------------------------------------------------
(* Callers at base level: a shim gets an IOQ, makes its calls and frees it.*)

Shim(c, calls) ==
  /\ task[c].pc = "idle" /\ k.ast = <<>>
  /\ TakeIoq(c, calls)
  /\ UNCHANGED <<k, desc, free, frees, leaked, host>>

Unlink(c) == Shim(c, <<"delete">>)
Rmdir(c) == Shim(c, <<"rmdir">>)
Rename(c) == Shim(c, <<"rename">>)
Open(c) == ~Holds(c) /\ Shim(c, <<"open">>)
Close(c) == Shim(c, <<"close">>)
Lseek(c) == Shim(c, <<"lseek">>)
Read(c) == Shim(c, <<"read">>)
Write(c) == Shim(c, <<"write">>)
Ioctl(c) == Shim(c, <<"ioctl">>)
Stat(c) == Shim(c, <<"open", "fstat", "close">>)
Fstat(c) == Shim(c, <<"fstat">>)
Statfs(c) == Shim(c, <<"statfs">>)
Fstatfs(c) == Fd2File(task[c].fd) # 0 /\ Shim(c, <<"statfs">>)
Isatty(c) == Shim(c, <<"isatty">>)
Readv(c) == Shim(c, <<"readv">>)
Writev(c) == Shim(c, <<"writev">>)

\* mkdir takes its IOQ before it looks at the path, and keeps it when there is none.
Mkdir(c) ==
  \/ Shim(c, <<"mkdir">>)
  \/ /\ task[c].pc = "idle" /\ k.ast = <<>> /\ pool # {}
     /\ Cardinality(leaked) < MaxLeaks
     /\ leaked' = leaked \cup {Getioq}
     /\ pool' = pool \ {Getioq}
     /\ UNCHANGED <<k, desc, free, frees, q, host, task>>

\* qiow_*: spin on iostatus.  stat makes no further call when its open failed.
Return(c) ==
  LET t == task[c]
      opened == t.todo # <<>> /\ Head(t.todo) = "open"
      left == IF ~opened THEN t.todo ELSE IF q[t.ioq].status = "SUCC" THEN Tail(t.todo) ELSE <<>>
      fd == IF t.todo = <<"open">> THEN q[t.ioq].file ELSE t.fd
  IN  /\ t.pc = "wait" /\ k.ast = <<>>
      /\ q[t.ioq].status # "pending"
      /\ \/ /\ left # <<>>
            /\ task' = [task EXCEPT ![c].pc = "ready", ![c].todo = left]
            /\ UNCHANGED <<pool, q>>
         \/ left = <<>> /\ GiveIoq(c, fd)
      /\ UNCHANGED <<k, desc, free, frees, leaked, host>>

--------------------------------------------------------------------------
Init ==
  /\ k = IdleKernel
  /\ desc = [f \in Files |-> Closed]
  /\ free = Files
  /\ frees = [f \in Files |-> 0]
  /\ pool = Ioqs
  /\ leaked = {}
  /\ q = [i \in Ioqs |-> Cleared]
  /\ host = [d \in Drives |-> 0]
  /\ task = [c \in Callers |-> Idle(NoFd)]

Call(c) ==
  \/ QioRead(c) \/ QioReadwpos(c) \/ QioWrite(c) \/ QioWritewpos(c) \/ QioLseek(c)
  \/ QioFstat(c) \/ QioIoctl(c) \/ QioIsatty(c) \/ QioCancel(c) \/ QioReadv(c) \/ QioWritev(c)
  \/ QioClose(c) \/ QioOpen(c) \/ QioOpenspc(c) \/ QioDelete(c) \/ QioRmdir(c) \/ QioMkdir(c)
  \/ QioFsync(c) \/ QioRename(c) \/ QioStatfs(c) \/ QioOpendir(c) \/ QioReaddir(c)
  \/ QioRewdir(c) \/ QioClosedir(c) \/ BusyCall(c)

AtAstLevel(c) == AsyncGetioq(c) \/ AsyncFreeioq(c)

AtBaseLevel(c) ==
  \/ Unlink(c) \/ Rmdir(c) \/ Rename(c) \/ Open(c) \/ Close(c) \/ Lseek(c) \/ Mkdir(c)
  \/ Read(c) \/ Write(c) \/ Ioctl(c) \/ Stat(c) \/ Fstat(c) \/ Statfs(c) \/ Fstatfs(c)
  \/ Isatty(c) \/ Readv(c) \/ Writev(c) \/ Return(c)

Next ==
  \/ RunAst
  \/ \E c \in Callers : Call(c)
  \/ \E c \in Asyncs : AtAstLevel(c)
  \/ \E c \in Programs : AtBaseLevel(c)

\* The dispatch loop runs until the AST queue is empty.
Spec == Init /\ [][Next]_vars /\ WF_vars(RunAst)

--------------------------------------------------------------------------
TypeOK ==
  /\ k \in Kernel
  /\ desc \in [Files -> [dvc : Devices \cup {"none"}, mode : SUBSET {"R", "W"}]]
  /\ free \subseteq Files
  /\ frees \in [Files -> Nat]
  /\ pool \subseteq Ioqs /\ leaked \subseteq Ioqs
  /\ \A i \in Ioqs : q[i].status \in {"none", "pending", "SUCC", "EOF", "error"}
  /\ host \in [Drives -> Nat]
  /\ \A c \in Callers : task[c].pc \in {"idle", "ready", "wait"} /\ task[c].ioq \in Ioqs \cup {Nobody}

\* A descriptor is open for exactly one caller, or on its way to one; every other
\* entry is in the free list.  (qio_getfile, qio_freefile and every path between.)
Owns(c, f) ==
  \/ Holds(c) /\ task[c].fd.inx = f
  \/ task[c].ioq # Nobody /\ q[task[c].ioq].file = File2Fd(f)

FdsAccounted ==
  \A f \in Files : IF f \in free THEN \A c \in Callers : ~Owns(c, f)
                   ELSE Cardinality({c \in Callers : Owns(c, f)}) = 1

\* An IOQ is in the pool once, or has one owner, or was lost by mkdir; in the
\* pool it is on no queue and holds no mutex.
IoqsAccounted ==
  LET held == {task[c].ioq : c \in Callers} \ {Nobody}
  IN  /\ Cardinality(held) = Cardinality({c \in Callers : task[c].ioq # Nobody})
      /\ pool \cap held = {} /\ leaked \cap (pool \cup held) = {}
      /\ pool \cup held \cup leaked = Ioqs
      /\ \A i \in pool \cup leaked : ~Queued(k, i) /\ \A d \in Drives : k.cur[d] # i

\* A closed descriptor opens nothing until its entry has been through all its
\* generations (qio_fd2file, qio_freefile).
StaleFdDead ==
  \A c \in Callers : LET fd == task[c].fd IN
     fd.inx \in Files /\ Fd2File(fd) # 0 => (frees[fd.inx] - fd.serial) % GenCount = 0

\* Every call ends: an AST caller hears of it, a spinning program sees a status.
CallsEnd ==
  /\ \A c \in Asyncs : task[c].pc = "wait" ~> task[c].pc = "ready"
  /\ \A c \in Programs : task[c].pc = "wait" ~> (task[c].pc = "wait" => q[task[c].ioq].status # "pending")

\* The QioMutex of a drive is a fair lock.
Lock == INSTANCE FifoLock WITH Users <- Ioqs, Free <- Nobody,
                               holder <- k.cur[Watched], waiting <- k.wait[Watched]

LockSpec == Lock!Spec
=============================================================================
