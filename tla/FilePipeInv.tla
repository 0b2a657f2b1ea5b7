----------------------------- MODULE FilePipeInv -----------------------------
(***************************************************************************)
(* The invariant from which the safety properties of FilePipe follow.      *)
(* Each request is a chain of a caller's QioIOQ, its FsysQio, the QioIOQ   *)
(* that fills the buffer of part sectors or closes, and that one's own     *)
(* FsysQio; the invariant says where each of them is and which mutexes it  *)
(* holds, from the call to the answer, and that chains have nothing in     *)
(* common.                                                                 *)
(***************************************************************************)
EXTENDS FilePipe, QioKernelProofs

Statuses == {"none", "SUCC", "EOF", "ERR", "CANCELLED"}
Ops == {x.op : x \in Calls} \cup {"none", "filler", "closer"}
Whences == {x.whence : x \in Calls} \cup {"none"}

QioIOQ == [op : Ops, fd : Fds \cup {"none"}, where : Int, len : Nat, from : Int, status : Statuses,
           cnt : Nat, fq : Fqs \cup {Nobody}, for : Users \cup {Nobody}, state : 0..2, whence : Whences]

FsysQio == [kind : {"none", "read", "write"}, caller : Callers \cup {Nobody}, fd : Fds \cup {"none"},
            sector : Nat, bws : 0..1, oWhere : Nat, oBws : 0..1, oLen : Nat, uLen : Nat, total : Nat,
            state : {0, 2, 3}, which : Copies, oStatus : Statuses, status : Statuses, cnt : Nat,
            buff : Nat, val : Calls \cup {"none"}]

QioFile == [pos : Nat, size : Nat, open : BOOLEAN, cancel : BOOLEAN, closing : BOOLEAN, hold : BOOLEAN]

Extents == Seq(Nat) \ {<<>>}

RamFH == [size : Nat \ {0}, clusters : Nat, active : Copies, extents : [Copies -> Extents]]

FileInv ==
  /\ file \in [Fds -> RamFH]
  /\ \A fd \in Fds, c \in Copies : Allocated(file[fd].extents[c]) <= file[fd].clusters

TypeInv ==
  /\ req \in [Callers -> QioIOQ] /\ q \in [Fqs -> FsysQio]
  /\ pool \in Seq(Fqs) /\ IsInjective(pool) /\ mpool \subseteq MIoqs /\ io \subseteq Fqs
  /\ fp \in [Fds -> QioFile] /\ ro \in BOOLEAN /\ FileInv

--------------------------------------------------------------------------
(* FsysQios.                                                               *)

\* Each caller has one at most, one more reads a part of a sector, and one is left.
EnoughQios == IsFiniteSet(Users) /\ Cardinality(Fqs) > Cardinality(Users) + 1

Owns(a, i) == i \in Fqs \ In(pool) /\ q[i].caller = a /\ q[i].fd = req[a].fd /\ req[a].fq = i

\* It waits for its request.
Spare(i) == q[i].kind = "read" /\ i \notin io /\ Still(k, i, {}) /\ q[i].state = 0 /\ q[i].total = 0

\* A transfer, or what runs between two of them.
ReadsOn(i) ==
  /\ q[i].kind = "read"
  /\ \/ i \in io /\ Still(k, i, {}) /\ q[i].state = 2
     \/ i \notin io /\ Due(k, i, {}, "qread") /\ q[i].state = 2
     \/ i \notin io /\ Due(k, i, {}, "read_done") /\ q[i].state = 0

\* A FsysQio that writes holds the mutex of the descriptor itself.
WritesOn(i, fd) ==
  /\ q[i].kind = "write"
  /\ \/ i \in io /\ Still(k, i, {fd}) /\ q[i].state = 2
     \/ i \notin io /\ Due(k, i, {fd}, "qwrite") /\ q[i].state = 2
     \/ i \notin io /\ Asks(k, i, {fd}, "vol", "qwrite") /\ q[i].state = 3
     \/ i \notin io /\ Due(k, i, {fd}, "write_done") /\ q[i].state = 0

ToWrite(i, fd) ==
  /\ q[i].kind = "write" /\ i \notin io /\ q[i].state = 0
  /\ Asks(k, i, {}, fd, "qwrite") \/ Asks(k, i, {}, fd, "write_q")

\* What is done of it, and how much the transfer at the drive may add.
Amounts(r) == r.total + r.uLen = r.oLen /\ (r.state = 2 => r.cnt <= r.uLen)

--------------------------------------------------------------------------
(* QioIOQs of the pool: what they do for a caller.                         *)

\* The caller of a filler, and the caller of a close.
Filled(c) == Owns(c, req[c].fq) /\ Spare(req[c].fq) /\ Still(k, c, {})

Closing(c) == req[c].op = "close" /\ req[c].fq = Nobody /\ Still(k, c, {})

\* The sector was read; its FsysQio is in the pool already, and not at the end of it.
Sated(j) ==
  /\ req[j].fq \in In(pool) /\ Last(pool) # req[j].fq
  /\ Due(k, j, {req[j].fd, "filep"}, "readbws_q")
  /\ fp[req[j].fd].cancel => Err(req[j].status)

\* A cancel would let the mutex go before the filler was done with it.
ToRead(j) ==
  /\ Owns(j, req[j].fq) /\ Spare(req[j].fq) /\ q[req[j].fq].oLen > 0
  /\ Due(k, j, {req[j].fd, "filep"}, "readwpos_q") /\ ~fp[req[j].fd].cancel

Reading(j) ==
  Owns(j, req[j].fq) /\ ReadsOn(req[j].fq) /\ Still(k, j, {req[j].fd, "filep"})

Fills(j) ==
  \/ /\ req[j].state = 0 /\ req[j].fq = Nobody /\ req[j].cnt = 0
     /\ Asks(k, j, {}, req[j].fd, "readbws_q")
  \/ /\ req[j].state = 1 /\ req[j].fq = Nobody /\ req[j].cnt = 0
     /\ Asks(k, j, {req[j].fd}, "filep", "readbws_q")
  \/ /\ req[j].state = 2 /\ fp[req[j].fd].hold
     /\ ToRead(j) \/ Reading(j) \/ Sated(j)

FillerInv(j) ==
  LET c == req[j].for
  IN  /\ req[j].op = "filler" /\ req[j].where = 0
      /\ (req[c].len > 0 => q[req[c].fq].oLen > 0)
      /\ Filled(c) /\ Fills(j)

CloserInv(j) ==
  /\ req[j].op = "closer" /\ Closing(req[j].for) /\ req[j].fq = Nobody /\ req[j].state = 0
  /\ Asks(k, j, {}, req[j].fd, "cancel_done") \/ Due(k, j, {}, "closeq")

ServiceInv(j) ==
  IF j \in mpool THEN req[j] = NoRequest /\ Still(k, j, {})
  ELSE /\ req[j].for \in Users /\ req[req[j].for].fd = req[j].fd
       /\ \A l \in MIoqs \ mpool : req[l].for = req[j].for => l = j
       /\ FillerInv(j) \/ CloserInv(j)

--------------------------------------------------------------------------
(* Callers.                                                                *)

Quiet(c) == req[c] = NoRequest /\ Still(k, c, {})

Answered(c) == req[c].op # "none" /\ Due(k, c, {}, "user")

InTurn(c) ==
  /\ req[c].fq = Nobody
  /\ \/ req[c].op = "lseek" /\ Asks(k, c, {}, req[c].fd, "lseek_q")
     \/ req[c].op = "cancel" /\ Asks(k, c, {}, req[c].fd, "cancel_done")
     \/ req[c].op = "close" /\ Asks(k, c, {}, "vol", "close_upd")

Transfers(c) ==
  LET fd == req[c].fd
      i == req[c].fq
  IN  /\ Owns(c, i)
      /\ \/ Spare(i) /\ (Asks(k, c, {}, fd, "readwpos_q") \/ (Asks(k, c, {}, fd, "read_q") /\ req[c].cnt = 0))
         \/ ReadsOn(i) /\ Still(k, c, {fd})
         \/ Still(k, c, {}) /\ (ToWrite(i, fd) \/ WritesOn(i, fd))

Waits(c) == \E j \in MIoqs \ mpool : req[j].for = c

\* Nobody finishes a close on a read-only volume.
Forgotten(c) == ro /\ Closing(c)

\* What a caller is told.
Told(c) ==
  /\ req[c].op \in {"read", "readwpos", "write", "writewpos"} /\ req[c].len > 0
  /\ req[c].status \in {"none", "SUCC"}
  => req[c].cnt <= req[c].len

CallerInv(c) ==
  /\ req[c].op # "none" => req[c].fd \in Fds
  /\ req[c].op # "lseek" => req[c].where >= 0
  /\ req[c].op \in {"filler", "closer"} => c \in MIoqs
  /\ c \in Users => Quiet(c) \/ Answered(c) \/ InTurn(c) \/ Transfers(c) \/ Waits(c) \/ Forgotten(c)
  /\ c \in Users => Told(c)
  /\ c \in MIoqs => ServiceInv(c)

\* What its owner has got and what it is to get are no more than was asked.
Owned(i) ==
  LET a == q[i].caller
  IN  /\ a \in Callers /\ Owns(a, i) /\ Amounts(q[i])
      /\ a \in Users => /\ Transfers(a) \/ Filled(a)
                        /\ req[a].op \in {"read", "readwpos", "write", "writewpos"}
                        /\ req[a].status = "none" /\ req[a].cnt + q[i].oLen <= req[a].len
      /\ a \in MIoqs => a \notin mpool /\ req[a].op = "filler" /\ req[a].state = 2

QioInv(i) == IF i \in In(pool) THEN q[i] = NoFq /\ i \notin io /\ Still(k, i, {}) ELSE Owned(i)

\* The mutex of a file is kept for a filler only, between the parts of its read.
HoldInv ==
  \A fd \in Fds : fp[fd].hold => \E j \in MIoqs \ mpool : req[j].fd = fd /\ req[j].state = 2

VolOpInv == Still(k, VolOp, {}) \/ Asks(k, VolOp, {}, "vol", "vol_op") \/ Still(k, VolOp, {"vol"})

PipeInv ==
  /\ KernelInv(k) /\ TypeInv
  /\ \A a \in Callers : CallerInv(a)
  /\ \A i \in Fqs : QioInv(i)
  /\ HoldInv /\ VolOpInv
=============================================================================
