------------------------------ MODULE FilePipe ------------------------------
(***************************************************************************)
(* Reads, writes, seeks, cancel and close of open files (src/fsys.c), from *)
(* the call to the completion, over a drive that finishes transfers in any *)
(* order and may fail.                                                     *)
(*                                                                         *)
(* A request waits for the mutex of its descriptor, is cut into transfers  *)
(* that one extent holds (fsys_qread, fsys_qwrite), goes to the next copy  *)
(* of the file (reads: after an error; writes: always) and lets the mutex  *)
(* go.  A read that starts within a sector is done by a second QioIOQ,     *)
(* which reads that sector into vol->filep, a buffer all files share.      *)
(* Every function below runs at AST level, one at a time; callers are at   *)
(* base level and get in only between two runs of the AST queue.           *)
(*                                                                         *)
(* Files are counted in units of half a sector.  Descriptors are on        *)
(* different files, are not opened for one copy (FSYS_OPNCPY_M) nor with   *)
(* O_RPTNOERR, and are left alone once their close was called.             *)
(***************************************************************************)
EXTENDS QioKernel, Integers, FiniteSetsExt, SequencesExt

CONSTANTS
  Users,       \* the callers, each with a QioIOQ of its own
  Fqs,         \* FsysQio structs; each begins with a QioIOQ, our_ioq
  MIoqs,       \* QioIOQs of the pool of src/qio.c
  VolOp,       \* the QioIOQ of an operation on the volume
  Fds,         \* open descriptors, each with the file it is on
  NCopies,     \* FSYS_MAX_ALTS copies of a file
  DefExtend,   \* sectors a file is extended by (def_extend)
  MaxSectors,  \* bound: sectors the volume can give a file
  Calls,       \* bound: the calls made, each at most once
  MaxCalls,    \* bound: how many of them
  Joins,       \* bound: which copies an extension may find room for next to their last extent
  MaxErrors,   \* bound: failed transfers, extensions and allocations
  MaxVolOps,   \* bound: operations on the volume
  PosWrap      \* 2^32 bytes, in units: where the position of a descriptor wraps

ASSUME IoqsAssumption ==
  /\ Ioqs = Users \cup Fqs \cup MIoqs \cup {VolOp} /\ VolOp \notin Users \cup Fqs \cup MIoqs
  /\ Users \cap Fqs = {} /\ Users \cap MIoqs = {} /\ Fqs \cap MIoqs = {} /\ IsFiniteSet(Fqs)
ASSUME MutexesAssumption ==
  Mutexes = Fds \cup {"filep", "vol"} /\ "none" \notin Fds /\ "filep" \notin Fds /\ "vol" \notin Fds
ASSUME CopiesAssumption == NCopies \in Nat \ {0} /\ DefExtend \in Nat \ {0} /\ PosWrap \in Nat \ {0}
ASSUME CallsAssumption ==
  \A x \in Calls : x.fd \in Fds /\ x.len \in Nat /\ x.where \in (IF x.op = "lseek" THEN Int ELSE Nat)

VARIABLES
  k,     \* AST queue; fp->mutex of each descriptor, filep_mutex, vol->mutex
  req,   \* the QioIOQs of the callers and of the pool
  data,  \* the buffers of the callers
  q,     \* the FsysQios
  pool,  \* fsysqio_pool_head, first to be taken first
  mpool, \* ioq_pool_head
  fp,    \* QioFile
  file,  \* FsysRamFH: its size, clusters, active_rp and the extents of each copy
  disk,  \* what is in each unit of each copy
  filep, \* vol->filep
  io,    \* FsysQios with a transfer at the drive
  ro,    \* FSYS_VOL_FLG_RO
  truth, \* what the last finished write of a unit put there, or Unknown
  used   \* what was used up of the bounds

vars == <<k, req, data, q, pool, mpool, fp, file, disk, filep, io, ro, truth, used>>

Callers == Users \cup MIoqs
Copies == 1..NCopies
BytPSect == 2                      \* a sector, in units
Units == 0..(MaxSectors * BytPSect - 1)
Old(fd) == <<fd, 0>>               \* what a file holds at first
New(x) == <<"write", x>>           \* what a call writes
Unknown == <<"?", 0>>

Sect(pos) == pos \div BytPSect
Bws(pos) == pos % BytPSect
Err(status) == status \notin {"none", "SUCC"}

\* iostatus is "none" while it is 0; for and state are the user and user2 of readbws_q.
NoRequest == [op |-> "none", fd |-> "none", where |-> 0, len |-> 0, from |-> 0, status |-> "none",
              cnt |-> 0, fq |-> Nobody, for |-> Nobody, state |-> 0, whence |-> "none"]

NoFq == [kind |-> "none", caller |-> Nobody, fd |-> "none", sector |-> 0, bws |-> 0, oWhere |-> 0,
         oBws |-> 0, oLen |-> 0, uLen |-> 0, total |-> 0, state |-> 0, which |-> 1,
         oStatus |-> "none", status |-> "none", cnt |-> 0, buff |-> 0, val |-> "none"]

--------------------------------------------------------------------------
(* The pool of FsysQios.  A free entry is known by its next member, which  *)
(* is 0 in one that is in use and in the last one of the pool.             *)

\* Mutant: what was freed before is freed again.
FreeQio_Always(p, i) == <<i>> \o p

FreeQio(p, i) == IF i \in In(p) /\ Last(p) # i THEN p ELSE <<i>> \o p

--------------------------------------------------------------------------
(* Cutting a request into transfers.                                       *)

\* An extent is known by the sector of the file it ends before.
Allocated(extents) == Last(extents)

\* Sectors from a given one to the end of its extent; 0 when there is none.
Contiguous(extents, sector) ==
  IF sector >= Allocated(extents) THEN 0 ELSE Min({end \in In(extents) : end > sector}) - sector

Room(r) == Contiguous(file[r.fd].extents[r.which], r.sector)

\* Units of the next transfer: whole sectors first.
Chunk(r) ==
  LET len == Min({Room(r) * BytPSect, r.uLen})
  IN  IF len > BytPSect THEN len - Bws(len) ELSE len

Advanced(r) ==
  [r EXCEPT !.total = @ + r.cnt, !.uLen = @ - r.cnt, !.buff = @ + r.cnt,
            !.sector = @ + (r.cnt + BytPSect - 1) \div BytPSect]

StartIo(i, r, kk) ==
  /\ q' = [q EXCEPT ![i] = [r EXCEPT !.state = 2, !.status = "none", !.cnt = 0]]
  /\ io' = io \cup {i}
  /\ k' = kk

FinishIo(i, r, kk) ==
  /\ q' = [q EXCEPT ![i] = [r EXCEPT !.state = 0, !.cnt = IF r.kind = "read" THEN r.total ELSE @]]
  /\ io' = io
  /\ k' = Complete(kk, i, IF r.kind = "read" THEN "read_done" ELSE "write_done")

\* fsys_qread, from state 1.
ReadOn(i, r, kk) ==
  \/ r.uLen = 0 /\ FinishIo(i, r, kk)
  \/ r.uLen > 0 /\ Room(r) > 0 /\ StartIo(i, r, kk)
  \/ r.uLen > 0 /\ Room(r) = 0 /\ FinishIo(i, [r EXCEPT !.status = IF r.cnt = 0 THEN "EOF" ELSE @], kk)

\* fsys_qwrite, from state 1.  No file of a read-only volume is open for writing.
WriteOn(i, r, kk) ==
  \/ r.uLen = 0 /\ FinishIo(i, r, kk)
  \/ r.uLen > 0 /\ Room(r) > 0 /\ StartIo(i, r, kk)
  \/ /\ r.uLen > 0 /\ Room(r) = 0
     /\ q' = [q EXCEPT ![i] = [r EXCEPT !.state = 3]]
     /\ k' = GetMutex(kk, "vol", i, "qwrite")
     /\ io' = io

\* fsys_qwrite, from its entry.
WriteFrom(i, r, kk) ==
  \/ r.bws # 0 /\ FinishIo(i, [r EXCEPT !.status = "ERR"], kk)
  \/ r.bws = 0 /\ WriteOn(i, r, kk)

\* The drive: a transfer ends, with an error or with all of its units moved.
DiskDone(i) ==
  LET r == q[i]
      n == Chunk(r)
      at(x) == r.sector * BytPSect + x - r.buff
      piece == r.buff..(r.buff + n - 1)
      src == disk[r.fd][r.which]
  IN  /\ i \in io
      /\ io' = io \ {i}
      /\ k' = Complete(k, i, IF r.kind = "read" THEN "qread" ELSE "qwrite")
      /\ \/ /\ used.errors < MaxErrors
            /\ used' = [used EXCEPT !.errors = @ + 1]
            /\ q' = [q EXCEPT ![i].status = "ERR"]
            /\ UNCHANGED <<disk, filep, data>>
         \/ /\ q' = [q EXCEPT ![i].status = "SUCC", ![i].cnt = n]
            /\ UNCHANGED used
            /\ \/ /\ r.kind = "read" /\ r.caller \in Users
                  /\ data' = [data EXCEPT ![r.caller] = [x \in DOMAIN @ |-> IF x \in piece THEN src[at(x)] ELSE @[x]]]
                  /\ UNCHANGED <<disk, filep>>
               \/ /\ r.kind = "read" /\ r.caller \in MIoqs
                  /\ filep' = [x \in DOMAIN filep |-> IF x \in piece THEN src[at(x)] ELSE filep[x]]
                  /\ UNCHANGED <<disk, data>>
               \/ /\ r.kind = "write"
                  /\ disk' = [disk EXCEPT ![r.fd][r.which] =
                                [y \in Units |-> IF \E x \in piece : at(x) = y THEN New(r.val) ELSE @[y]]]
                  /\ UNCHANGED <<filep, data>>
      /\ UNCHANGED <<req, pool, mpool, fp, file, ro, truth>>

--------------------------------------------------------------------------
(* The calls.                                                              *)

Idle == {c \in Users : req[c].op = "none"}

\* The callers are alike: an idle one makes the call.
CanCall(c, x) ==
  /\ k.ast = <<>>
  /\ Cardinality(used.calls) < MaxCalls /\ x \in Calls \ used.calls
  /\ c \in Idle /\ c = CHOOSE d \in Idle : TRUE
  /\ fp[x.fd].open /\ ~fp[x.fd].closing

Count(x) == used' = [used EXCEPT !.calls = @ \cup {x}]

\* The call returns an error and nothing is completed.
Refused(x) == Count(x) /\ UNCHANGED <<k, req, q, pool, mpool, fp, file, disk, filep, data, io, ro, truth>>

\* fsys_getqio: no memory for the batch.
NoQio ==
  /\ used.errors < MaxErrors
  /\ used' = [used EXCEPT !.errors = @ + 1]
  /\ UNCHANGED <<k, req, q, pool, mpool, fp, file, disk, filep, data, io, ro, truth>>

Request(x, fq) ==
  [NoRequest EXCEPT !.op = x.op, !.fd = x.fd, !.where = x.where, !.from = x.where, !.len = x.len, !.fq = fq,
                    !.whence = x.whence]

Buffer(len) == [n \in 0..(len - 1) |-> Unknown]

\* validate_read, validate_write: the first FsysQio of the pool, filled in.
ReadFq(c, fd, where, len) ==
  [NoFq EXCEPT !.kind = "read", !.caller = c, !.fd = fd, !.oLen = len, !.uLen = len,
               !.oWhere = Sect(where), !.sector = Sect(where), !.bws = Bws(where), !.oBws = Bws(where)]

WriteFq(c, x, where) == [ReadFq(c, x.fd, where, x.len) EXCEPT !.kind = "write", !.val = x]

Submit(c, x, fq) ==
  /\ pool # <<>>
  /\ q' = [q EXCEPT ![Head(pool)] = fq]
  /\ pool' = Tail(pool)
  /\ req' = [req EXCEPT ![c] = Request(x, Head(pool))]
  /\ data' = [data EXCEPT ![c] = Buffer(x.len)]
  /\ Count(x)
  /\ UNCHANGED <<mpool, fp, file, disk, filep, io, ro, truth>>

Filler(c, fd) == [NoRequest EXCEPT !.op = "filler", !.fd = fd, !.for = c]

AnyMIoq == CHOOSE j \in mpool : TRUE

FsysReadwpos(c, x) ==
  LET fq == ReadFq(c, x.fd, x.where, x.len)
  IN  /\ CanCall(c, x) /\ x.op = "readwpos"
      /\ \/ NoQio
         \/ /\ Bws(x.where) = 0
            /\ Submit(c, x, fq)
            /\ k' = GetMutex(k, x.fd, c, "readwpos_q")
         \/ Bws(x.where) # 0 /\ mpool = {} /\ Refused(x)
         \/ /\ Bws(x.where) # 0 /\ mpool # {} /\ pool # <<>>
            /\ q' = [q EXCEPT ![Head(pool)] = fq]
            /\ pool' = Tail(pool)
            /\ req' = [req EXCEPT ![c] = Request(x, Head(pool)), ![AnyMIoq] = Filler(c, x.fd)]
            /\ data' = [data EXCEPT ![c] = Buffer(x.len)]
            /\ mpool' = mpool \ {AnyMIoq}
            /\ k' = GetMutex(k, x.fd, AnyMIoq, "readbws_q")
            /\ Count(x)
            /\ UNCHANGED <<fp, file, disk, filep, io, ro, truth>>

FsysRead(c, x) ==
  /\ CanCall(c, x) /\ x.op = "read"
  /\ Submit(c, x, ReadFq(c, x.fd, 0, x.len))
  /\ k' = GetMutex(k, x.fd, c, "read_q")

\* fsys_qwrite and write_q run under the FsysQio's own QioIOQ.
FsysWritewpos(c, x) ==
  /\ CanCall(c, x) /\ x.op = "writewpos" /\ ~ro
  /\ Submit(c, x, WriteFq(c, x, x.where))
  /\ k' = GetMutex(k, x.fd, Head(pool), "qwrite")

FsysWrite(c, x) ==
  /\ CanCall(c, x) /\ x.op = "write" /\ ~ro
  /\ Submit(c, x, WriteFq(c, x, 0))
  /\ k' = GetMutex(k, x.fd, Head(pool), "write_q")

FsysLseek(c, x) ==
  /\ CanCall(c, x) /\ x.op = "lseek"
  /\ req' = [req EXCEPT ![c] = Request(x, Nobody)]
  /\ k' = GetMutex(k, x.fd, c, "lseek_q")
  /\ Count(x)
  /\ UNCHANGED <<q, pool, mpool, fp, file, disk, filep, data, io, ro, truth>>

\* The flag acts on what waits or runs; the call itself waits behind all of it.
FsysCancel(c, x) ==
  /\ CanCall(c, x) /\ x.op = "cancel"
  /\ req' = [req EXCEPT ![c] = Request(x, Nobody)]
  /\ fp' = [fp EXCEPT ![x.fd].cancel = TRUE]
  /\ k' = GetMutex(k, x.fd, c, "cancel_done")
  /\ Count(x)
  /\ UNCHANGED <<q, pool, mpool, file, disk, filep, data, io, ro, truth>>

FsysClose(c, x) ==
  /\ CanCall(c, x) /\ x.op = "close"
  /\ \/ mpool = {} /\ Refused(x)
     \/ /\ mpool # {}
        /\ req' = [req EXCEPT ![c] = Request(x, Nobody),
                              ![AnyMIoq] = [Filler(c, x.fd) EXCEPT !.op = "closer"]]
        /\ mpool' = mpool \ {AnyMIoq}
        /\ fp' = [fp EXCEPT ![x.fd].closing = TRUE, ![x.fd].cancel = TRUE]
        /\ k' = GetMutex(k, x.fd, AnyMIoq, "cancel_done")
        /\ Count(x)
        /\ UNCHANGED <<q, pool, file, disk, filep, data, io, ro, truth>>

--------------------------------------------------------------------------
(* What runs at AST level.                                                 *)

Runs(i, func) == k.ast # <<>> /\ i = Head(k.ast) /\ k.act[i] = func

D == Dispatched(k)

\* ioq->complete: the caller's routine, or the next state of the sub-sector read.
Tell(kk, i) == Complete(kk, i, IF i \in Users THEN "user" ELSE "readbws_q")

\* rr, qq and kk: the requests, the FsysQios and the kernel as the caller left them.
Answer(rr, i, status, cnt) == req' = [rr EXCEPT ![i].status = status, ![i].cnt = cnt]

Seekable == {"SEEK_SET", "SEEK_END", "SEEK_CUR"}

LseekTo(f, where, whence) ==
  where + CASE whence = "SEEK_SET" -> 0
            [] whence = "SEEK_END" -> f.size
            [] whence = "SEEK_CUR" -> f.pos

\* Only sector boundaries and the end of the file can be sought; also a boundary before
\* the start, which is a position far behind the end.
InvalidSeek(f, new) == new > f.size \/ (new < f.size /\ Bws(new) # 0)

LseekQ(c) ==
  LET r == req[c]
      f == fp[r.fd]
      new == LseekTo(f, r.where, r.whence)
      cancelled == f.cancel \/ f.closing
      invalid == r.whence \in Seekable => InvalidSeek(f, new)
  IN  /\ Runs(c, "lseek_q")
      /\ k' = Tell(FreeMutex(D, r.fd, c), c)
      /\ \/ cancelled /\ Answer(req, c, "CANCELLED", 0) /\ UNCHANGED fp
         \/ /\ ~cancelled /\ invalid
            /\ Answer(req, c, "ERR", IF r.whence \in Seekable THEN f.pos ELSE 0)
            /\ UNCHANGED fp
         \/ /\ ~cancelled /\ ~invalid
            /\ Answer(req, c, "SUCC", new % PosWrap)
            /\ fp' = [fp EXCEPT ![r.fd].pos = new % PosWrap]
      /\ UNCHANGED <<q, pool, mpool, file, disk, filep, data, io, ro, truth, used>>

\* The end of a read that needs no transfer.
NoTransfer(i, rr, status, cnt) ==
  /\ Answer(rr, i, status, cnt)
  /\ q' = [q EXCEPT ![rr[i].fq] = NoFq]
  /\ pool' = FreeQio(pool, rr[i].fq)
  /\ k' = Tell(FreeMutex(D, rr[i].fd, i), i)
  /\ io' = io

\* Mutant: a read is not cut off at the end of the file.
Clipped_Never(fd, where, len) == len

\* A read never goes past the end of the file.
Clipped(fd, where, len) == Min({len, file[fd].size - where})

\* At the end of the file the position is set to it; a read of nothing leaves it alone.
ReadwposQ(i, rr, qq) ==
  LET r == rr[i]
      f == fp[r.fd]
      size == file[r.fd].size
      len == Clipped(r.fd, r.where, qq[r.fq].oLen)
      start == [qq[r.fq] EXCEPT !.oLen = len, !.uLen = len, !.which = file[r.fd].active]
  IN  /\ \/ f.cancel /\ NoTransfer(i, rr, "CANCELLED", r.cnt) /\ UNCHANGED fp
         \/ /\ ~f.cancel /\ r.where >= size
            /\ NoTransfer(i, rr, "EOF", 0)
            /\ fp' = [fp EXCEPT ![r.fd].pos = size]
         \/ /\ ~f.cancel /\ r.where < size /\ len = 0
            /\ NoTransfer(i, rr, IF r.status = "none" THEN "SUCC" ELSE r.status, 0)
            /\ UNCHANGED fp
         \/ /\ ~f.cancel /\ r.where < size /\ len > 0
            /\ ReadOn(r.fq, start, D)
            /\ req' = rr
            /\ UNCHANGED <<pool, fp>>
      /\ UNCHANGED <<mpool, file, disk, filep, data, ro, truth, used>>

\* The next transfer of a read, or its end.
Qread(i) ==
  /\ Runs(i, "qread")
  /\ \/ Err(q[i].status) /\ FinishIo(i, q[i], D)
     \/ ~Err(q[i].status) /\ ReadOn(i, Advanced(q[i]), D)
  /\ UNCHANGED <<req, pool, mpool, fp, file, disk, filep, data, ro, truth, used>>

\* fsys_read_done: what is left goes to the next copy.
Retried(r) ==
  LET nxt == r.oWhere * BytPSect + r.oBws + r.total
  IN  [r EXCEPT !.which = @ + 1, !.oWhere = Sect(nxt), !.sector = Sect(nxt), !.bws = Bws(nxt), !.oBws = Bws(nxt),
                !.oLen = @ - r.total, !.uLen = r.oLen - r.total, !.total = 0]

\* Mutant: the mutex is let go between the two parts of a sub-sector read.
ReadDoneFrees_Always(kk, fd, c) == FreeMutex(kk, fd, c)

ReadDoneFrees(kk, fd, c) == IF fp[fd].hold THEN kk ELSE FreeMutex(kk, fd, c)

ReadDone(i) ==
  LET r == q[i]
      c == r.caller
      f == fp[r.fd]
      retry == ~f.cancel /\ Err(r.status) /\ r.status # "EOF" /\ r.which < NCopies
  IN  /\ Runs(i, "read_done")
      /\ \/ /\ retry
            /\ file' = [file EXCEPT ![r.fd].active = r.which + 1]
            /\ req' = [req EXCEPT ![c].cnt = @ + r.total]
            /\ ReadOn(i, Retried(r), D)
            /\ UNCHANGED <<pool, fp>>
         \/ /\ ~retry
            /\ Answer(req, c, IF f.cancel THEN "CANCELLED" ELSE r.status, req[c].cnt + r.total)
            /\ fp' = [fp EXCEPT ![r.fd].pos = r.oWhere * BytPSect + r.total + r.oBws]
            /\ q' = [q EXCEPT ![i] = NoFq]
            /\ pool' = FreeQio(pool, i)
            /\ k' = Tell(ReadDoneFrees(D, r.fd, c), c)
            /\ UNCHANGED <<file, io>>
      /\ UNCHANGED <<mpool, disk, filep, data, ro, truth, used>>

\* readbws_q gives everything back, in the name of the caller.  The FsysQio of the
\* filler, which fsys_read_done freed, is freed again.
Cleanup(j, kk, rr, qq, status, cnt, pos) ==
  LET h == rr[j].for
      fd == rr[j].fd
      once == IF rr[j].fq = Nobody THEN pool ELSE FreeQio(pool, rr[j].fq)
  IN  /\ k' = Tell(FreeMutex(PassMutex(FreeMutex(kk, "filep", j), fd, h), fd, h), h)
      /\ req' = [rr EXCEPT ![h].status = IF @ = "none" THEN status ELSE @,
                           ![h].cnt = IF cnt = 0 THEN rr[j].cnt ELSE cnt,
                           ![j] = NoRequest]
      /\ fp' = [fp EXCEPT ![fd].hold = FALSE, ![fd].pos = pos]
      /\ q' = [qq EXCEPT ![rr[h].fq] = NoFq]
      /\ pool' = FreeQio(once, rr[h].fq)
      /\ mpool' = mpool \cup {j}

\* State 0: the file's mutex is held.  The size this descriptor knows cuts the read.
FillerWaits(j, kk, rr, qq) ==
  LET h == rr[j].for
      size == fp[rr[j].fd].size
      left == size - rr[h].where
      fq == rr[h].fq
  IN  \/ left <= 0 /\ Cleanup(j, kk, rr, qq, "EOF", 0, size)
      \/ /\ left > 0
         /\ q' = [qq EXCEPT ![fq].oLen = Min({@, left}), ![fq].uLen = Min({@, left})]
         /\ req' = [rr EXCEPT ![j].state = 1]
         /\ mpool' = mpool \ {j}
         /\ k' = GetMutex(kk, "filep", j, "readbws_q")
         /\ UNCHANGED <<pool, fp>>

\* State 1: the buffer is held as well.
FillerReads(j) ==
  LET fd == req[j].fd
      his == q[req[req[j].for].fq]
  IN  \/ /\ used.errors < MaxErrors
         /\ used' = [used EXCEPT !.errors = @ + 1]
         /\ Cleanup(j, D, req, q, "ERR", 0, fp[fd].pos)
      \/ /\ pool # <<>>
         /\ q' = [q EXCEPT ![Head(pool)] = ReadFq(j, fd, his.oWhere * BytPSect, BytPSect)]
         /\ pool' = Tail(pool)
         /\ req' = [req EXCEPT ![j].state = 2, ![j].fq = Head(pool)]
         /\ fp' = [fp EXCEPT ![fd].hold = TRUE]
         /\ k' = Complete(D, j, "readwpos_q")
         /\ UNCHANGED <<mpool, used>>

\* What is left of a read after its first amt units, which ended before sector next.
Rest(r, amt, next) ==
  [r EXCEPT !.buff = amt, !.oLen = @ - amt, !.uLen = @ - amt, !.oBws = 0, !.bws = 0, !.oWhere = next, !.sector = next]

\* State 2: the caller gets its part of the sector; the rest is read without a filler.
FillerCopies(j) ==
  LET h == req[j].for
      fd == req[j].fd
      fq == req[h].fq
      bws == q[fq].oBws
      amt == Min({BytPSect - bws, q[fq].oLen})
  IN  /\ data' = [data EXCEPT ![h] = [x \in DOMAIN @ |-> IF x < amt THEN filep[x + bws] ELSE @[x]]]
      /\ \/ q[fq].oLen = amt /\ Cleanup(j, D, req, q, req[j].status, amt, req[h].where + amt)
         \/ /\ q[fq].oLen > amt
            /\ q' = [q EXCEPT ![fq] = Rest(q[fq], amt, Sect(fp[fd].pos))]
            /\ req' = [req EXCEPT ![h].cnt = amt, ![h].where = fp[fd].pos, ![j] = NoRequest]
            /\ fp' = [fp EXCEPT ![fd].hold = FALSE]
            /\ k' = Complete(FreeMutex(PassMutex(D, fd, h), "filep", j), h, "readwpos_q")
            /\ mpool' = mpool \cup {j}
            /\ UNCHANGED pool

\* The status of a cancelled read is the filler's, which may be none yet.
ReadbwsQ(j) ==
  LET r == req[j]
      cancel == fp[r.fd].cancel
      on == ~cancel /\ ~Err(r.status)
  IN  /\ Runs(j, "readbws_q")
      /\ \/ ~on /\ Cleanup(j, D, req, q, r.status, 0, fp[r.fd].pos) /\ UNCHANGED <<data, used>>
         \/ on /\ r.state = 0 /\ FillerWaits(j, D, req, q) /\ UNCHANGED <<data, used>>
         \/ on /\ r.state = 1 /\ FillerReads(j) /\ UNCHANGED data
         \/ on /\ r.state = 2 /\ FillerCopies(j) /\ UNCHANGED used
      /\ UNCHANGED <<file, disk, filep, io, ro, truth>>

\* The position is known only now.
ReadQ(c) ==
  LET r == req[c]
      f == fp[r.fd]
      fq == ReadFq(c, r.fd, f.pos, r.len)
      rr == [req EXCEPT ![c].where = f.pos, ![c].from = f.pos]
      qq == [q EXCEPT ![r.fq] = fq]
  IN  /\ Runs(c, "read_q")
      /\ \/ Bws(f.pos) = 0 /\ ReadwposQ(c, rr, qq)
         \/ /\ Bws(f.pos) # 0 /\ mpool = {}
            /\ NoTransfer(c, rr, "ERR", 0)
            /\ UNCHANGED <<mpool, fp, file, disk, filep, data, ro, truth, used>>
         \/ /\ Bws(f.pos) # 0 /\ mpool # {}
            /\ LET j == AnyMIoq
                   rj == [rr EXCEPT ![j] = Filler(c, r.fd)]
                   kj == PassMutex(D, r.fd, j)
               IN  \/ f.cancel /\ Cleanup(j, kj, rj, qq, "none", 0, f.pos)
                   \/ ~f.cancel /\ FillerWaits(j, kj, rj, qq)
            /\ UNCHANGED <<file, disk, filep, data, io, ro, truth, used>>

--------------------------------------------------------------------------
(* Writes.                                                                 *)

\* The units a write is to fill; some of them may be filled when it fails.
Asked(r) == (r.oWhere * BytPSect + r.oBws)..(r.oWhere * BytPSect + r.oBws + r.oLen - 1)
Written(r) == (r.oWhere * BytPSect)..(r.oWhere * BytPSect + r.oLen - 1)

Marked(r, value) ==
  truth' = [truth EXCEPT ![r.fd] = [y \in Units |-> IF y \in Asked(r) \cup Written(r) THEN value ELSE @[y]]]

\* A write begins with the first copy.
WriteBegins(i, r) ==
  /\ Marked(r, Unknown)
  /\ WriteFrom(i, r, D)
  /\ UNCHANGED <<req, pool, mpool, fp, file, disk, filep, data, ro, used>>

\* The sub-sector part of the position is set in o_bws only: the data goes to the
\* start of the sector.
WriteQ(i) ==
  LET pos == fp[q[i].fd].pos
  IN  /\ Runs(i, "write_q")
      /\ WriteBegins(i, [q[i] EXCEPT !.oWhere = Sect(pos), !.sector = Sect(pos), !.oBws = Bws(pos)])

\* Mutant: the sectors of an extension are not counted.
Extended_NotCounted(i, gets, joined) ==
  LET r == q[i]
      f == file[r.fd]
      def == Max({0, r.sector - f.clusters}) + DefExtend
      more(e, c) == IF c \in gets THEN Append(e, Allocated(e) + def) ELSE e
  IN  [f EXCEPT !.extents = [c \in Copies |-> more(@[c], c)]]

\* wr_ext_file: every copy gets def sectors more, next to its last extent or apart,
\* unless the volume runs out; sectors counts them whatever happened.
Extended(i, gets, joined) ==
  LET r == q[i]
      f == file[r.fd]
      def == Max({0, r.sector - f.clusters}) + DefExtend
      more(e, c) == IF c \notin gets THEN e
                    ELSE IF c \in joined THEN [e EXCEPT ![Len(e)] = @ + def] ELSE Append(e, Allocated(e) + def)
  IN  [f EXCEPT !.clusters = @ + def, !.extents = [c \in Copies |-> more(@[c], c)]]

\* The volume has room for as many sectors as the bound says.
HasRoom(f) == \A c \in Copies : Allocated(f.extents[c]) <= MaxSectors

\* State 3, the volume's mutex is held.  An error of an earlier copy still counts; a copy
\* that an extension left short is extended until it reaches.
WrExtFile(i) ==
  LET r == q[i]
      kk == FreeMutex(D, "vol", i)
  IN  \/ /\ \E joined \in Joins : ~HasRoom(Extended(i, Copies, joined))
         /\ FinishIo(i, [r EXCEPT !.status = "ERR"], kk)
         /\ UNCHANGED <<file, used>>
      \/ \E n \in 0..NCopies : \E joined \in Joins :
            LET f == Extended(i, 1..n, joined)
                status == IF n < NCopies THEN "ERR" ELSE r.status
            IN  /\ HasRoom(f)
                /\ n < NCopies => used.errors < MaxErrors
                /\ used' = [used EXCEPT !.errors = IF n < NCopies THEN @ + 1 ELSE @]
                /\ file' = [file EXCEPT ![r.fd] = f]
                /\ \/ Err(status) /\ FinishIo(i, [r EXCEPT !.status = status], kk)
                   \/ /\ ~Err(status) /\ Contiguous(f.extents[r.which], r.sector) > 0
                      /\ StartIo(i, r, kk)
                   \/ /\ ~Err(status) /\ Contiguous(f.extents[r.which], r.sector) = 0
                      /\ q' = q /\ io' = io
                      /\ k' = GetMutex(kk, "vol", i, "qwrite")

Qwrite(i) ==
  LET r == q[i]
  IN  /\ Runs(i, "qwrite")
      /\ \/ r.state = 0 /\ WriteBegins(i, r)
         \/ /\ r.state = 2
            /\ \/ Err(r.status) /\ FinishIo(i, r, D)
               \/ ~Err(r.status) /\ WriteFrom(i, Advanced(r), D)
            /\ UNCHANGED <<req, pool, mpool, fp, file, disk, filep, data, ro, truth, used>>
         \/ /\ r.state = 3
            /\ WrExtFile(i)
            /\ UNCHANGED <<req, pool, mpool, fp, disk, filep, data, ro, truth>>

NextCopy(r) ==
  [r EXCEPT !.which = @ + 1, !.sector = r.oWhere, !.uLen = r.oLen, !.buff = 0, !.total = 0]

\* The file grows to the end of what the last copy took, also when the write failed.
WriteDone(i) ==
  LET r == [q[i] EXCEPT !.oStatus = IF Err(q[i].status) THEN q[i].status ELSE @]
      f == fp[r.fd]
      more == ~f.cancel /\ r.which < NCopies
      lim == Min({r.total, r.oLen})
      npos == r.oWhere * BytPSect + r.oBws + lim
      size == Max({file[r.fd].size, npos})
      good == r.oStatus = "none" /\ r.oBws = 0 /\ r.which = NCopies
  IN  /\ Runs(i, "write_done")
      /\ \/ /\ more
            /\ WriteFrom(i, NextCopy(r), D)
            /\ UNCHANGED <<req, pool, fp, file, truth>>
         \/ /\ ~more
            /\ Answer(req, r.caller, IF r.oStatus # "none" THEN r.oStatus ELSE r.status, lim)
            /\ file' = [file EXCEPT ![r.fd].size = size]
            /\ fp' = [fp EXCEPT ![r.fd].pos = npos, ![r.fd].size = size]
            /\ Marked(r, IF good THEN New(r.val) ELSE Unknown)
            /\ q' = [q EXCEPT ![i] = NoFq]
            /\ pool' = FreeQio(pool, i)
            /\ k' = Tell(FreeMutex(D, r.fd, i), r.caller)
            /\ UNCHANGED io
      /\ UNCHANGED <<mpool, disk, filep, data, ro, used>>

--------------------------------------------------------------------------
(* Cancel and close.                                                       *)

\* Everything that waited before the cancel has been answered.
CancelDone(i) ==
  /\ Runs(i, "cancel_done")
  /\ fp' = [fp EXCEPT ![req[i].fd].cancel = FALSE]
  /\ req' = [req EXCEPT ![i].status = "SUCC"]
  /\ k' = Complete(FreeMutex(D, req[i].fd, i), i, IF i \in Users THEN "user" ELSE "closeq")
  /\ UNCHANGED <<q, pool, mpool, file, disk, filep, data, io, ro, truth, used>>

\* On a read-only volume nothing more happens.
Closeq(j) ==
  /\ Runs(j, "closeq")
  /\ mpool' = mpool \cup {j}
  /\ req' = [req EXCEPT ![j] = NoRequest]
  /\ k' = IF ro THEN D ELSE GetMutex(D, "vol", req[j].for, "close_upd")
  /\ UNCHANGED <<q, pool, fp, file, disk, filep, data, io, ro, truth, used>>

CloseUpd(c) ==
  /\ Runs(c, "close_upd")
  /\ fp' = [fp EXCEPT ![req[c].fd].open = FALSE]
  /\ req' = [req EXCEPT ![c].status = "SUCC"]
  /\ k' = Tell(FreeMutex(D, "vol", c), c)
  /\ UNCHANGED <<q, pool, mpool, file, disk, filep, data, io, ro, truth, used>>

UserDone(c) ==
  /\ Runs(c, "user")
  /\ req' = [req EXCEPT ![c] = NoRequest]
  /\ data' = [data EXCEPT ![c] = <<>>]
  /\ k' = D
  /\ UNCHANGED <<q, pool, mpool, fp, file, disk, filep, io, ro, truth, used>>

--------------------------------------------------------------------------
(* Any operation that holds the volume's mutex for a while.                *)

\* Bound: it comes only when the next step may want the mutex.
VolOpCalled ==
  /\ k.ast = <<>> /\ k.cur["vol"] # VolOp /\ ~Queued(k, VolOp)
  /\ used.volops < MaxVolOps
  /\ \/ \E i \in io : q[i].kind = "write" /\ q[i].uLen > Chunk(q[i])
     \/ \E j \in MIoqs : req[j].op = "closer"
  /\ used' = [used EXCEPT !.volops = @ + 1]
  /\ k' = GetMutex(k, "vol", VolOp, "vol_op")
  /\ UNCHANGED <<req, q, pool, mpool, fp, file, disk, filep, data, io, ro, truth>>

VolOpRuns ==
  /\ Runs(VolOp, "vol_op")
  /\ k' = D
  /\ UNCHANGED <<req, q, pool, mpool, fp, file, disk, filep, data, io, ro, truth, used>>

VolOpEnds ==
  /\ k.cur["vol"] = VolOp /\ ~Queued(k, VolOp)
  /\ k' = FreeMutex(k, "vol", VolOp)
  /\ UNCHANGED <<req, q, pool, mpool, fp, file, disk, filep, data, io, ro, truth, used>>

--------------------------------------------------------------------------
Init ==
  /\ k = IdleKernel
  /\ req = [i \in Callers |-> NoRequest]
  /\ data = [c \in Users |-> <<>>]
  /\ q = [i \in Fqs |-> NoFq]
  /\ pool = SetToSeq(Fqs)
  /\ mpool = MIoqs
  /\ fp = [fd \in Fds |-> [pos |-> 0, size |-> BytPSect, open |-> TRUE, cancel |-> FALSE,
                           closing |-> FALSE, hold |-> FALSE]]
  /\ file = [fd \in Fds |-> [size |-> BytPSect, clusters |-> 1, active |-> 1,
                             extents |-> [c \in Copies |-> <<1>>]]]
  /\ disk = [fd \in Fds |-> [c \in Copies |-> [y \in Units |-> Old(fd)]]]
  /\ filep = [x \in 0..(BytPSect - 1) |-> Unknown]
  /\ io = {}
  /\ ro \in BOOLEAN
  /\ truth = [fd \in Fds |-> [y \in Units |-> IF y < BytPSect THEN Old(fd) ELSE Unknown]]
  /\ used = [calls |-> {}, errors |-> 0, volops |-> 0]

Call(c, x) ==
  \/ FsysReadwpos(c, x) \/ FsysRead(c, x) \/ FsysWritewpos(c, x) \/ FsysWrite(c, x)
  \/ FsysLseek(c, x) \/ FsysCancel(c, x) \/ FsysClose(c, x)

RunAst ==
  \/ \E i \in Callers : Runs(i, "readwpos_q") /\ ReadwposQ(i, req, q)
  \/ \E i \in Fqs : Qread(i) \/ ReadDone(i) \/ WriteQ(i) \/ Qwrite(i) \/ WriteDone(i)
  \/ \E j \in MIoqs : ReadbwsQ(j) \/ Closeq(j)
  \/ \E c \in Users : LseekQ(c) \/ ReadQ(c) \/ CloseUpd(c) \/ UserDone(c)
  \/ \E i \in Callers : CancelDone(i)
  \/ VolOpRuns

Next ==
  \/ \E c \in Users, x \in Calls : Call(c, x)
  \/ RunAst
  \/ \E i \in Fqs : DiskDone(i)
  \/ VolOpCalled \/ VolOpEnds

\* The AST queue is run until it is empty, the drive serves what it was given, and no
\* operation keeps the volume for ever: something of that happens while there is any.
Work == RunAst \/ VolOpEnds \/ \E i \in Fqs : DiskDone(i)

Spec == Init /\ [][Next]_vars /\ WF_vars(Work)

--------------------------------------------------------------------------
TypeOK ==
  /\ k \in Kernel
  /\ \A i \in Callers : /\ req[i].status \in {"none", "SUCC", "EOF", "ERR", "CANCELLED"}
                        /\ req[i].cnt \in Nat
                        /\ /\ req[i].op \in {"read", "readwpos", "write", "writewpos"} /\ req[i].len > 0
                           /\ req[i].status \in {"none", "SUCC"}
                           => req[i].cnt <= req[i].len
  /\ \A i \in Fqs : q[i].uLen \in Nat /\ q[i].total \in Nat /\ q[i].which \in Copies
  /\ In(pool) \subseteq Fqs /\ mpool \subseteq MIoqs /\ io \subseteq Fqs
  /\ \A fd \in Fds : /\ fp[fd].pos \in Nat /\ file[fd].size \in Nat /\ file[fd].active \in Copies
                     /\ \A c \in Copies : Allocated(file[fd].extents[c]) <= file[fd].clusters

\* The user behind the QioIOQ that holds a mutex.
Behind(i) ==
  CASE i \in Users -> i
    [] i \in MIoqs -> req[i].for
    [] i \in Fqs -> IF q[i].caller \in MIoqs THEN req[q[i].caller].for ELSE q[i].caller
    [] OTHER -> Nobody

Busy(i) == i \in io \/ q[i].state # 0 \/ (Queued(k, i) /\ k.act[i] \in {"qread", "read_done", "write_done"})

\* One request at a time is at work on a descriptor, the one whose QioIOQ holds its
\* mutex, through every hand-over from one QioIOQ to another (read_q, readbws_q,
\* fsys_read_done); and one at a time uses the buffer all files share.
Serialised ==
  \A i \in Fqs : Busy(i) =>
     /\ Behind(k.cur[q[i].fd]) = Behind(i)
     /\ q[i].caller \in MIoqs => k.cur["filep"] = q[i].caller

\* What is in a pool is there once and is used by nobody, what is not has an owner,
\* and when all is quiet everything is back and no mutex is held.
PoolSound ==
  LET owned == {req[c].fq : c \in {u \in Users : req[u].fq # Nobody /\ k.act[u] # "user"}}
      fillers == {i \in Fqs : q[i].caller \in MIoqs}
  IN  /\ IsInjective(pool)
      /\ \A i \in In(pool) : i \notin io /\ ~Queued(k, i) /\ q[i] = NoFq /\ \A m \in Mutexes : k.cur[m] # i
      /\ In(pool) \cup owned \cup fillers = Fqs
      /\ \A j \in mpool : req[j] = NoRequest /\ ~Queued(k, j) /\ \A m \in Mutexes : k.cur[m] # j
      /\ (\A c \in Users : req[c] = NoRequest) =>
            mpool = MIoqs /\ In(pool) = Fqs /\ \A m \in Mutexes : k.cur[m] \in {Nobody, VolOp}

\* A copy may be shorter than the file only after an extension failed.
Covered(fd) == \A c \in Copies : Allocated(file[fd].extents[c]) * BytPSect >= file[fd].size

\* A read that succeeds returns what the last write put there, from whichever copy,
\* through the buffer or not, as much as there is, and leaves the descriptor behind it, or
\* where it was when nothing was asked for; one that says there is nothing began at the end.
ReadsRight ==
  [][\A c \in Users :
       LET r == req'[c]
           size == file[r.fd].size
       IN  req[c].op \in {"read", "readwpos"} /\ req[c].status = "none" /\ r.status # "none" =>
             /\ r.status = "SUCC" =>
                  /\ \A x \in 0..(r.cnt - 1) : truth[r.fd][r.from + x] \in {data'[c][x], Unknown}
                  /\ Covered(r.fd) => r.cnt = Min({r.len, size - r.from})
                  /\ fp'[r.fd].pos = IF r.len = 0 THEN fp[r.fd].pos ELSE r.from + r.cnt
             /\ r.status = "EOF" /\ Covered(r.fd) => r.from >= size]_vars

\* Once no more calls come, every one has been answered; but for a close on a read-only
\* volume.
CallsEnd == <>[](\A c \in Users : req[c].op # "none" => ro /\ req[c].op = "close")

\* A call that was queued leaves its result in iostatus: "When the iostatus member
\* becomes non-zero, the read will have completed" (src/qio.h:984).
AnsweredWithStatus ==
  \A c \in Users : c \in In(k.ast) /\ k.act[c] = "user" => req[c].status # "none"
=============================================================================
