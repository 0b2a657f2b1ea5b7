------------------------------ MODULE QioProofs -----------------------------
(***************************************************************************)
(* Proofs about Qio, for any IOQs, callers, drives, table entries and      *)
(* generations: types, descriptors that were closed, the mutexes of the    *)
(* drives, and who has which IOQ and which table entry.                    *)
(***************************************************************************)
EXTENDS Qio, QioKernelProofs, FiniteSetTheorems, WellFoundedInduction, TLAPS

Statuses == {"none", "pending", "SUCC", "EOF", "error"}

(* A descriptor carries the generation its entry had when it was given out. *)
Fds == {fd \in [inx : Nat, gen : Nat, serial : Nat] : fd.gen = (fd.serial % GenCount)}

Entries == [dvc : Devices \cup {"none"}, mode : SUBSET {"R", "W"}]
Ops == {"none", "open", "close", "read", "readwpos", "write", "writewpos", "lseek", "fstat",
        "ioctl", "isatty", "cancel", "readv", "writev", "delete", "rmdir", "mkdir", "rename",
        "fsync", "statfs", "opendir", "readdir", "rewdir", "closedir"}
Requests == [op : Ops, status : Statuses, where : Nat, file : Fds]
Tasks == [pc : {"idle", "ready", "wait"}, ioq : Ioqs \cup {Nobody}, fd : Fds, todo : Seq(Ops)]

(* A caller that is not idle has an IOQ, and a program that is about to call *)
(* knows what.                                                             *)
Working(c) ==
  /\ task[c].pc # "idle" => task[c].ioq \in Ioqs
  /\ c \in Programs /\ task[c].pc = "ready" => task[c].todo # <<>>

TypeInv ==
  /\ k \in Kernel
  /\ desc \in [Files -> Entries]
  /\ free \subseteq Files
  /\ frees \in [Files -> Nat]
  /\ pool \subseteq Ioqs /\ leaked \subseteq Ioqs
  /\ q \in [Ioqs -> Requests]
  /\ host \in [Drives -> Nat]
  /\ task \in [Callers -> Tasks]
  /\ \A c \in Callers : Working(c)

-----------------------------------------------------------------------------
(* Generations.                                                            *)

(* Numbers with the same remainder differ by a multiple. *)
LEMMA ModDiff ==
  ASSUME NEW a \in Nat, NEW b \in Nat, NEW g \in Nat \ {0}, (a % g) = (b % g)
  PROVE  ((a - b) % g) = 0
<1>1. PICK x \in Int : a = g * x + (a % g)
  <2>1. a = g * (a \div g) + (a % g) /\ a \div g \in Int
    OBVIOUS
  <2> QED
    BY <2>1
<1>2. PICK y \in Int : b = g * y + (b % g)
  <2>1. b = g * (b \div g) + (b % g) /\ b \div g \in Int
    OBVIOUS
  <2> QED
    BY <2>1
<1>3. a - b = g * (x - y)
  BY <1>1, <1>2
<1> QED
  BY <1>3

(* The smallest of a nonempty set of entries is one of them. *)
LEMMA MinType ==
  ASSUME NEW S \in SUBSET Nat, S # {}
  PROVE  Min(S) \in S
<1> DEFINE R == OpToRel(<, Nat)
<1>1. IsWellFoundedOn(R, Nat)
  BY NatLessThanWellFounded
<1>2. \A x, y \in Nat : x < y => <<x, y>> \in R
  BY DEF OpToRel
<1> HIDE DEF R
<1>3. PICK x \in S : \A y \in S : ~(<<y, x>> \in R)
  <2>1. S \subseteq Nat
    OBVIOUS
  <2> QED
    BY <1>1, <2>1, WFMin
<1>4. \A y \in S : x <= y
  <2>1. \A y \in S : y \in Nat /\ x \in Nat /\ ~(y < x)
    BY <1>2, <1>3
  <2> QED
    BY <2>1
<1> QED
  BY <1>4 DEF Min

(* No descriptor, the descriptor of an entry, and the entry of a descriptor. *)
LEMMA NoFdType == NoFd \in Fds
BY GenAssumption DEF NoFd, Fds, GenAssumption

LEMMA File2FdType ==
  ASSUME TypeInv, NEW f \in Files
  PROVE  File2Fd(f) \in Fds
<1>1. f \in Nat /\ frees[f] \in Nat /\ (frees[f] % GenCount) \in Nat
  BY FilesAssumption, GenAssumption DEF TypeInv, FilesAssumption, GenAssumption
<1> QED
  BY <1>1 DEF File2Fd, Fds, Gen

LEMMA Fd2FileType ==
  ASSUME TypeInv, NEW fd, Fd2File(fd) # 0
  PROVE  Fd2File(fd) \in Files
BY DEF Fd2File

-----------------------------------------------------------------------------
(* The AST queue and the mutexes: what each operator may do to a mutex.    *)

(* A mutex is left alone, taken, waited for, or passed on; and nobody waits *)
(* for a free one.                                                         *)
Same(a, b, m) == b.cur[m] = a.cur[m] /\ b.wait[m] = a.wait[m]

Takes(a, b, m) == a.cur[m] = Nobody /\ b.cur[m] \in Ioqs /\ b.wait[m] = a.wait[m]

Waits(a, b, m) ==
  /\ b.cur[m] = a.cur[m]
  /\ \E i \in Ioqs : a.cur[m] \notin {Nobody, i} /\ b.wait[m] = Append(a.wait[m], i)

Passes(a, b, m) ==
  /\ a.cur[m] # Nobody
  /\ \/ a.wait[m] = <<>> /\ b.cur[m] = Nobody /\ b.wait[m] = a.wait[m]
     \/ a.wait[m] # <<>> /\ b.cur[m] = Head(a.wait[m]) /\ b.wait[m] = Tail(a.wait[m])

MutexStep(a, b) ==
  \A m \in Mutexes : Same(a, b, m) \/ Takes(a, b, m) \/ Waits(a, b, m) \/ Passes(a, b, m)

(* Neither a completion nor the dispatch loop touches a mutex. *)
Alike(a, b) == b \in Kernel /\ b.cur = a.cur /\ b.wait = a.wait

(* The members of a kernel. *)
LEMMA Members ==
  ASSUME NEW a \in Kernel
  PROVE  /\ a.ast \in Seq(Ioqs) /\ a.act \in [Ioqs -> Actions]
         /\ a.cur \in [Mutexes -> Ioqs \cup {Nobody}] /\ a.wait \in [Mutexes -> Seq(Ioqs)]
BY DEF Kernel

LEMMA CompleteKernel ==
  ASSUME NEW a \in Kernel, NEW i \in Ioqs, NEW f \in Actions
  PROVE  Alike(a, Complete(a, i, f))
<1>1. Alike(a, [a EXCEPT !.act[i] = f])
  BY DEF Kernel, Alike
<1>2. ASSUME NEW b \in Kernel PROVE Alike(b, QueueAst(b, i))
  <2>1. CASE Queued(b, i)
    BY <1>2, <2>1 DEF Alike, QueueAst
  <2>2. CASE ~Queued(b, i)
    <3>1. QueueAst(b, i) = [ast |-> Append(b.ast, i), act |-> b.act, cur |-> b.cur, wait |-> b.wait]
      BY <1>2, <2>2 DEF Kernel, QueueAst
    <3>2. Append(b.ast, i) \in Seq(Ioqs)
      BY <1>2, Members
    <3> QED
      BY <1>2, <3>1, <3>2 DEF Alike, Kernel
  <2> QED
    BY <2>1, <2>2
<1> QED
  BY <1>1, <1>2 DEF Alike, Complete

LEMMA CompleteIoqKernel ==
  ASSUME NEW a \in Kernel, NEW i \in Ioqs
  PROVE  Alike(a, CompleteIoq(a, i))
<1>1. CompleteIoq(a, i) \in {Complete(a, i, "user"), a}
  BY DEF CompleteIoq
<1>2. Alike(a, a)
  BY DEF Alike
<1>3. Alike(a, Complete(a, i, "user"))
  BY CompleteKernel DEF Actions
<1> QED
  BY <1>1, <1>2, <1>3

LEMMA DispatchedKernel ==
  ASSUME NEW a \in Kernel, a.ast # <<>>
  PROVE  Alike(a, Dispatched(a))
<1>1. Head(a.ast) \in Ioqs /\ Tail(a.ast) \in Seq(Ioqs)
  BY DEF Kernel
<1>2. Dispatched(a) = [[a EXCEPT !.act[Head(a.ast)] = "none"] EXCEPT !.ast = Tail(a.ast)]
  BY DEF Kernel, Dispatched
<1>3. [a EXCEPT !.act[Head(a.ast)] = "none"] = [a EXCEPT !.act = [a.act EXCEPT ![Head(a.ast)] = "none"]]
  BY DEF Kernel
<1>4. [a.act EXCEPT ![Head(a.ast)] = "none"] \in [Ioqs -> Actions]
  BY <1>1, Members DEF Actions
<1> QED
  BY <1>1, <1>2, <1>3, <1>4 DEF Alike, Kernel

LEMMA GetMutexKernel ==
  ASSUME NEW a \in Kernel, NEW m \in Mutexes, NEW i \in Ioqs, NEW f \in Actions
  PROVE  GetMutex(a, m, i, f) \in Kernel /\ MutexStep(a, GetMutex(a, m, i, f))
<1> DEFINE b == GetMutex(a, m, i, f)
<1>1. CASE GetMutexStatus(a, m, i) # "OK"
  BY <1>1 DEF GetMutex, MutexStep, Same
<1>2. CASE GetMutexStatus(a, m, i) = "OK" /\ a.cur[m] = Nobody
  <2>1. b = [a EXCEPT !.cur[m] = i, !.act[i] = f, !.ast = Append(@, i)]
    BY <1>2 DEF GetMutex, ClaimMutex
  <2>2. b \in Kernel
    <3>1. b = [ast |-> Append(a.ast, i), act |-> [a.act EXCEPT ![i] = f],
               cur |-> [a.cur EXCEPT ![m] = i], wait |-> a.wait]
      BY <2>1 DEF Kernel
    <3>2. /\ Append(a.ast, i) \in Seq(Ioqs) /\ [a.act EXCEPT ![i] = f] \in [Ioqs -> Actions]
          /\ [a.cur EXCEPT ![m] = i] \in [Mutexes -> Ioqs \cup {Nobody}]
      BY Members
    <3> QED
      BY <3>1, <3>2 DEF Kernel
  <2>3. Takes(a, b, m)
    BY <1>2, <2>1 DEF Kernel, Takes
  <2>4. \A n \in Mutexes \ {m} : Same(a, b, n)
    BY <2>1 DEF Kernel, Same
  <2> QED
    BY <2>2, <2>3, <2>4 DEF MutexStep
<1>3. CASE GetMutexStatus(a, m, i) = "OK" /\ a.cur[m] # Nobody
  <2>1. b = [a EXCEPT !.act[i] = f, !.wait[m] = Append(@, i)]
    BY <1>3 DEF GetMutex, ClaimMutex
  <2>2. b \in Kernel
    <3>1. b = [ast |-> a.ast, act |-> [a.act EXCEPT ![i] = f],
               cur |-> a.cur, wait |-> [a.wait EXCEPT ![m] = Append(@, i)]]
      BY <2>1 DEF Kernel
    <3>2. /\ [a.act EXCEPT ![i] = f] \in [Ioqs -> Actions]
          /\ [a.wait EXCEPT ![m] = Append(@, i)] \in [Mutexes -> Seq(Ioqs)]
      BY Members
    <3> QED
      BY <3>1, <3>2 DEF Kernel
  <2>3. a.cur[m] # i
    BY <1>3 DEF GetMutexStatus
  <2>4. Waits(a, b, m)
    BY <1>3, <2>1, <2>3 DEF Kernel, Waits
  <2>5. \A n \in Mutexes \ {m} : Same(a, b, n)
    BY <2>1 DEF Kernel, Same
  <2> QED
    BY <2>2, <2>4, <2>5 DEF MutexStep
<1> QED
  BY <1>1, <1>2, <1>3

LEMMA FreeMutexKernel ==
  ASSUME NEW a \in Kernel, NEW m \in Mutexes, NEW i \in Ioqs
  PROVE  FreeMutex(a, m, i) \in Kernel /\ MutexStep(a, FreeMutex(a, m, i))
<1> DEFINE b == FreeMutex(a, m, i)
<1>1. i # Nobody
  BY NobodyAssumption DEF NobodyAssumption
<1>2. CASE a.cur[m] # i
  BY <1>2 DEF FreeMutex, MutexStep, Same
<1>3. CASE a.cur[m] = i /\ a.wait[m] = <<>>
  <2>1. b = [a EXCEPT !.cur[m] = Nobody]
    BY <1>1, <1>3 DEF FreeMutex
  <2>2. b \in Kernel /\ Passes(a, b, m)
    <3>1. b \in Kernel
      BY ZenonT(60), <2>1 DEF Kernel
    <3>2. b.cur[m] = Nobody /\ b.wait = a.wait
      BY <2>1 DEF Kernel
    <3> QED
      BY <1>1, <1>3, <3>1, <3>2 DEF Passes
  <2>3. \A n \in Mutexes \ {m} : Same(a, b, n)
    BY <2>1 DEF Kernel, Same
  <2> QED
    BY <2>2, <2>3 DEF MutexStep
<1>4. CASE a.cur[m] = i /\ a.wait[m] # <<>>
  <2>1. b = [a EXCEPT !.cur[m] = Head(a.wait[m]), !.wait[m] = Tail(@), !.ast = Append(@, Head(a.wait[m]))]
    BY <1>1, <1>4 DEF FreeMutex, HandOver
  <2>2. Head(a.wait[m]) \in Ioqs /\ Tail(a.wait[m]) \in Seq(Ioqs)
    BY <1>4 DEF Kernel
  <2>3. b \in Kernel
    <3>1. b = [ast |-> Append(a.ast, Head(a.wait[m])), act |-> a.act,
               cur |-> [a.cur EXCEPT ![m] = Head(a.wait[m])], wait |-> [a.wait EXCEPT ![m] = Tail(@)]]
      BY <2>1 DEF Kernel
    <3>2. /\ Append(a.ast, Head(a.wait[m])) \in Seq(Ioqs)
          /\ [a.cur EXCEPT ![m] = Head(a.wait[m])] \in [Mutexes -> Ioqs \cup {Nobody}]
          /\ [a.wait EXCEPT ![m] = Tail(@)] \in [Mutexes -> Seq(Ioqs)]
      BY <2>2, Members
    <3> QED
      BY <3>1, <3>2 DEF Kernel
  <2>4. Passes(a, b, m)
    BY <1>1, <1>4, <2>1, <2>2 DEF Kernel, Passes
  <2>5. \A n \in Mutexes \ {m} : Same(a, b, n)
    BY <2>1 DEF Kernel, Same
  <2> QED
    BY <2>3, <2>4, <2>5 DEF MutexStep
<1> QED
  BY <1>2, <1>3, <1>4

-----------------------------------------------------------------------------
(* What the calls are made of.                                             *)

(* Every action keeps the types and moves each mutex as it may be moved.   *)
Step == TypeInv' /\ MutexStep(k, k')

LEMMA SameKernel ==
  ASSUME NEW a \in Kernel, NEW b, Alike(a, b)
  PROVE  b \in Kernel /\ MutexStep(a, b)
BY DEF Alike, MutexStep, Same

(* What is left of the caller's calls after one of them. *)
LEMMA LeftType ==
  ASSUME TypeInv, NEW c \in Callers, NEW op \in Ops, c \in Programs => task[c].todo # <<>>
  PROVE  Left(c, op) \in Seq(Ops)
<1>1. task[c].todo \in Seq(Ops)
  BY DEF TypeInv, Tasks
<1>2. <<"open">> \in Seq(Ops) /\ <<>> \in Seq(Ops)
  BY DEF Ops
<1>3. ASSUME task[c].todo # <<>> PROVE Tail(task[c].todo) \in Seq(Ops)
  BY <1>1, <1>3
<1> QED
  BY <1>1, <1>2, <1>3 DEF Left

LEMMA CalledType ==
  ASSUME TypeInv, NEW c \in Callers, NEW op \in Ops, Calls(c, op), Called(c, op)
  PROVE  task' \in [Callers -> Tasks] /\ \A d \in Callers : Working(d)'
<1>1. Left(c, op) \in Seq(Ops)
  BY LeftType DEF Calls, TypeInv, Working
<1>2. task' = [task EXCEPT ![c] = [@ EXCEPT !.pc = "wait", !.todo = Left(c, op)]]
  BY DEF Called, TypeInv
<1>3. task' \in [Callers -> Tasks]
  BY <1>1, <1>2 DEF TypeInv, Tasks
<1>4. \A d \in Callers : Working(d)'
  BY <1>2 DEF TypeInv, Tasks, Working, Calls
<1> QED
  BY <1>3, <1>4

(* The drivers' part of a call. *)
LEMMA DriverCallType ==
  ASSUME TypeInv, NEW i \in Ioqs, NEW qq \in [Ioqs -> Requests], NEW op \in Ops,
         NEW p \in Devices, NEW w \in Nat, DriverCall(qq, i, op, p, w)
  PROVE  q' \in [Ioqs -> Requests] /\ k' \in Kernel /\ MutexStep(k, k')
<1>1. k \in Kernel
  BY DEF TypeInv
<1>2. CASE p = "null"
  <2>1. q' = [qq EXCEPT ![i] = [@ EXCEPT !.status = IF op \in {"read", "readwpos"} THEN "EOF" ELSE "SUCC"]]
    BY <1>2 DEF DriverCall, NullCall
  <2>2. q' \in [Ioqs -> Requests]
    BY <2>1 DEF Requests, Statuses
  <2>3. k' = CompleteIoq(k, i)
    BY <1>2 DEF DriverCall, NullCall
  <2> QED
    BY <1>1, <2>2, <2>3, CompleteIoqKernel, SameKernel
<1>3. CASE p # "null"
  <2>1. p \in Mutexes
    BY <1>3 DEF Devices, Drives
  <2>2. q' = [qq EXCEPT ![i] = [@ EXCEPT !.op = op, !.status = "pending", !.where = w]]
    BY <1>3 DEF DriverCall, IdeCall
  <2>3. q' \in [Ioqs -> Requests]
    BY <2>2 DEF Requests, Statuses
  <2>4. k' = GetMutex(k, p, i, "ide_task") /\ "ide_task" \in Actions
    BY <1>3 DEF DriverCall, IdeCall, Actions
  <2> QED
    BY <1>1, <2>1, <2>3, <2>4, GetMutexKernel
<1> QED
  BY <1>2, <1>3

(* A caller that calls has an IOQ. *)
LEMMA CallerIoq ==
  ASSUME TypeInv, NEW c \in Callers, task[c].pc # "idle"
  PROVE  task[c].ioq \in Ioqs
BY DEF TypeInv, Working

LEMMA RefusedStep ==
  ASSUME TypeInv, NEW c \in Callers, NEW op \in Ops, NEW fd \in Fds, Calls(c, op), Refused(c, op, fd)
  PROVE  Step
<1>1. k' = k /\ Alike(k, k)
  BY DEF Refused, TypeInv, Alike
<1>2. q' \in [Ioqs -> Requests]
  BY DEF Refused, TypeInv, Requests, Statuses
<1>3. task' \in [Callers -> Tasks] /\ \A d \in Callers : Working(d)'
  <2>1. CASE Called(c, op)
    BY <2>1, CalledType
  <2>2. CASE task' = task
    BY <2>2 DEF TypeInv, Working
  <2> QED
    BY <2>1, <2>2 DEF Refused
<1>4. MutexStep(k, k')
  BY <1>1, SameKernel DEF TypeInv
<1> QED
  BY <1>1, <1>2, <1>3, <1>4 DEF Step, TypeInv, Refused

LEMMA FreeFileType ==
  ASSUME TypeInv, NEW f \in Files, FreeFile(f)
  PROVE  desc' \in [Files -> Entries] /\ free' \subseteq Files /\ frees' \in [Files -> Nat]
BY DEF TypeInv, FreeFile, Closed, Entries

LEMMA OnDescriptorStep ==
  ASSUME TypeInv, NEW c \in Callers, NEW op \in Ops, NEW need, NEW w \in Nat,
         OnDescriptor(c, op, need, w)
  PROVE  Step
<1> DEFINE i == task[c].ioq
           f == Fd2File(q[i].file)
<1>1. Calls(c, op) /\ task[c].pc = "ready" /\ i \in Ioqs
  BY CallerIoq DEF OnDescriptor, Calls
<1>2. q[i].file \in Fds
  BY <1>1 DEF TypeInv, Requests
<1>3. CASE ~Allowed(f, op, need) /\ Refused(c, op, q[i].file)
  BY <1>1, <1>2, <1>3, RefusedStep
<1>4. CASE /\ Allowed(f, op, need)
           /\ DriverCall(q, i, op, desc[f].dvc, w)
           /\ Called(c, op)
           /\ UNCHANGED <<desc, free, frees, pool, leaked, host>>
  <2>1. f \in Files /\ desc[f].dvc \in Devices
    BY <1>4, Fd2FileType DEF Allowed, IsOpen, TypeInv, Entries
  <2>2. q' \in [Ioqs -> Requests] /\ k' \in Kernel /\ MutexStep(k, k')
    BY <1>1, <1>4, <2>1, DriverCallType DEF TypeInv
  <2>3. task' \in [Callers -> Tasks] /\ \A d \in Callers : Working(d)'
    BY <1>1, <1>4, CalledType
  <2> QED
    BY <1>4, <2>2, <2>3 DEF Step, TypeInv
<1> QED
  BY <1>3, <1>4 DEF OnDescriptor

LEMMA OnPathStep ==
  ASSUME TypeInv, NEW c \in Callers, NEW op \in Ops, NEW p \in Paths, NEW mode \in SUBSET {"R", "W"},
         OnPath(c, op, p, mode)
  PROVE  Step
<1> DEFINE i == task[c].ioq
<1>1. Calls(c, op) /\ task[c].pc = "ready" /\ i \in Ioqs
  BY CallerIoq DEF OnPath, Calls
<1>2. CASE Refused(c, op, NoFd)
  BY <1>1, <1>2, NoFdType, RefusedStep
<1>3. CASE /\ Reaches(p, op) /\ free # {} /\ SumFunction(frees) < MaxFrees
           /\ free' = free \ {GetFile}
           /\ desc' = [desc EXCEPT ![GetFile] = [dvc |-> p, mode |-> mode]]
           /\ DriverCall([q EXCEPT ![i].file = File2Fd(GetFile)], i, op, p, 0)
           /\ Called(c, op)
           /\ UNCHANGED <<frees, pool, leaked, host>>
  <2>1. GetFile \in Files
    BY <1>3, MinType, FilesAssumption DEF GetFile, TypeInv, FilesAssumption
  <2>2. p \in Devices
    BY <1>3 DEF Reaches, Paths
  <2>3. [q EXCEPT ![i].file = File2Fd(GetFile)] \in [Ioqs -> Requests]
    <3>1. File2Fd(GetFile) \in Fds
      BY <2>1, File2FdType
    <3> QED
      BY <3>1 DEF TypeInv, Requests
  <2>4. q' \in [Ioqs -> Requests] /\ k' \in Kernel /\ MutexStep(k, k')
    BY <1>1, <1>3, <2>2, <2>3, DriverCallType
  <2>5. task' \in [Callers -> Tasks] /\ \A d \in Callers : Working(d)'
    BY <1>1, <1>3, CalledType
  <2>6. desc' \in [Files -> Entries] /\ free' \subseteq Files
    BY <1>3, <2>2 DEF TypeInv, Entries
  <2> QED
    BY <1>3, <2>4, <2>5, <2>6 DEF Step, TypeInv
<1> QED
  BY <1>2, <1>3 DEF OnPath

-----------------------------------------------------------------------------
(* The calls.                                                              *)

LEMMA CloseStep ==
  ASSUME TypeInv, NEW c \in Callers, QioClose(c)
  PROVE  Step
<1> DEFINE i == task[c].ioq
           f == Fd2File(q[i].file)
<1>1. Calls(c, "close") /\ task[c].pc = "ready" /\ i \in Ioqs /\ "close" \in Ops
  BY CallerIoq DEF QioClose, Calls, Ops
<1>2. q[i].file \in Fds
  BY <1>1 DEF TypeInv, Requests
<1>3. CASE ~IsOpen(f) /\ Refused(c, "close", q[i].file)
  BY <1>1, <1>2, <1>3, RefusedStep
<1>4. CASE /\ IsOpen(f)
           /\ FreeFile(f)
           /\ q' = [q EXCEPT ![i].status = "SUCC", ![i].file = NoFd]
           /\ k' = CompleteIoq(k, i)
           /\ Called(c, "close")
           /\ UNCHANGED <<pool, leaked, host>>
  <2>1. f \in Files
    BY <1>4, Fd2FileType DEF IsOpen
  <2>2. desc' \in [Files -> Entries] /\ free' \subseteq Files /\ frees' \in [Files -> Nat]
    BY <1>4, <2>1, FreeFileType
  <2>3. q' \in [Ioqs -> Requests]
    BY ZenonT(60), <1>4, NoFdType DEF TypeInv, Requests, Statuses
  <2>4. k' \in Kernel /\ MutexStep(k, k')
    BY <1>1, <1>4, CompleteIoqKernel, SameKernel DEF TypeInv
  <2>5. task' \in [Callers -> Tasks] /\ \A d \in Callers : Working(d)'
    BY <1>1, <1>4, CalledType
  <2> QED
    BY <1>4, <2>2, <2>3, <2>4, <2>5 DEF Step, TypeInv
<1>5. CASE /\ IsOpen(f) /\ Supports(desc[f].dvc, "close")
           /\ IdeCall(q, i, "close", desc[f].dvc, 0)
           /\ Called(c, "close")
           /\ UNCHANGED <<desc, free, frees, pool, leaked, host>>
  <2>1. f \in Files /\ desc[f].dvc \in Devices /\ desc[f].dvc # "null"
    BY SMTT(60), <1>5, Fd2FileType DEF IsOpen, TypeInv, Entries, Supports, NullOps
  <2>2. DriverCall(q, i, "close", desc[f].dvc, 0)
    BY <1>5, <2>1 DEF DriverCall
  <2>3. q' \in [Ioqs -> Requests] /\ k' \in Kernel /\ MutexStep(k, k')
    BY <1>1, <2>1, <2>2, DriverCallType DEF TypeInv
  <2>4. task' \in [Callers -> Tasks] /\ \A d \in Callers : Working(d)'
    BY <1>1, <1>5, CalledType
  <2> QED
    BY <1>5, <2>3, <2>4 DEF Step, TypeInv
<1> QED
  BY <1>3, <1>4, <1>5 DEF QioClose

(* Calls that neither driver has. *)
LEMMA UnsupportedStep ==
  ASSUME TypeInv, NEW c \in Callers, NEW op \in Ops,
         Calls(c, op), Refused(c, op, q[task[c].ioq].file) \/ Refused(c, op, NoFd)
  PROVE  Step
<1>1. q[task[c].ioq].file \in Fds
  BY CallerIoq DEF Calls, TypeInv, Requests
<1> QED
  BY <1>1, NoFdType, RefusedStep

LEMMA BusyCallStep ==
  ASSUME TypeInv, NEW c \in Callers, BusyCall(c)
  PROVE  Step
<1>1. q' \in [Ioqs -> Requests]
  BY DEF BusyCall, TypeInv, Requests, Statuses
<1>2. MutexStep(k, k')
  BY DEF BusyCall, MutexStep, Same
<1> QED
  BY <1>1, <1>2 DEF BusyCall, Step, TypeInv, Working

LEMMA CallStep ==
  ASSUME TypeInv, NEW c \in Callers, Call(c)
  PROVE  Step
<1> USE SizesAssumption, ModesAssumption DEF SizesAssumption, ModesAssumption, Ops
<1>1. CASE QioRead(c)
  BY <1>1, OnDescriptorStep DEF QioRead
<1>2. CASE QioReadwpos(c)
  BY <1>2, OnDescriptorStep DEF QioReadwpos
<1>3. CASE QioWrite(c)
  BY <1>3, OnDescriptorStep DEF QioWrite
<1>4. CASE QioWritewpos(c)
  BY <1>4, OnDescriptorStep DEF QioWritewpos
<1>5. CASE QioLseek(c)
  BY <1>5, OnDescriptorStep DEF QioLseek
<1>6. CASE QioFstat(c)
  BY <1>6, OnDescriptorStep DEF QioFstat
<1>7. CASE QioIoctl(c)
  BY <1>7, OnDescriptorStep DEF QioIoctl
<1>8. CASE QioIsatty(c)
  BY <1>8, OnDescriptorStep DEF QioIsatty
<1>9. CASE QioCancel(c)
  BY <1>9, OnDescriptorStep DEF QioCancel
<1>10. CASE QioReadv(c)
  BY <1>10, OnDescriptorStep DEF QioReadv
<1>11. CASE QioWritev(c)
  BY <1>11, OnDescriptorStep DEF QioWritev
<1>12. CASE QioClose(c)
  BY <1>12, CloseStep
<1>13. CASE QioOpen(c) \/ QioOpenspc(c)
  BY <1>13, OnPathStep DEF QioOpen, QioOpenspc
<1>14. CASE QioDelete(c)
  BY <1>14, OnPathStep DEF QioDelete
<1>15. CASE QioRmdir(c)
  BY <1>15, OnPathStep DEF QioRmdir
<1>16. CASE QioMkdir(c)
  BY <1>16, OnPathStep DEF QioMkdir
<1>17. CASE QioFsync(c)
  BY <1>17, OnPathStep DEF QioFsync
<1>18. CASE QioRename(c)
  BY <1>18, OnPathStep, UnsupportedStep DEF QioRename
<1>19. CASE QioStatfs(c) \/ QioOpendir(c)
  BY <1>19, UnsupportedStep DEF QioStatfs, QioOpendir
<1>20. CASE QioReaddir(c) \/ QioRewdir(c) \/ QioClosedir(c)
  BY <1>20, UnsupportedStep DEF QioReaddir, QioRewdir, QioClosedir
<1>21. CASE BusyCall(c)
  BY <1>21, BusyCallStep
<1> QED
  BY <1>1, <1>2, <1>3, <1>4, <1>5, <1>6, <1>7, <1>8, <1>9, <1>10, <1>11, <1>12, <1>13, <1>14,
     <1>15, <1>16, <1>17, <1>18, <1>19, <1>20, <1>21 DEF Call

-----------------------------------------------------------------------------
(* IOQs taken and given back.                                              *)

LEMMA TakeIoqType ==
  ASSUME TypeInv, NEW c \in Callers, NEW todo \in Seq(Ops), c \in Programs => todo # <<>>,
         TakeIoq(c, todo)
  PROVE  /\ pool' \subseteq Ioqs /\ q' \in [Ioqs -> Requests]
         /\ task' \in [Callers -> Tasks] /\ \A d \in Callers : Working(d)'
<1>1. Getioq \in Ioqs
  BY DEF TakeIoq, Getioq, TypeInv
<1>2. pool' \subseteq Ioqs
  BY DEF TakeIoq, TypeInv
<1>3. task[c].fd \in Fds
  BY DEF TypeInv, Tasks
<1>4. q' \in [Ioqs -> Requests]
  BY <1>3 DEF TakeIoq, TypeInv, Requests
<1>5. task' \in [Callers -> Tasks] /\ \A d \in Callers : Working(d)'
  BY <1>1 DEF TakeIoq, TypeInv, Tasks, Working
<1> QED
  BY <1>2, <1>4, <1>5

LEMMA GiveIoqType ==
  ASSUME TypeInv, NEW c \in Callers, NEW fd \in Fds, task[c].pc # "idle", GiveIoq(c, fd)
  PROVE  /\ pool' \subseteq Ioqs /\ q' \in [Ioqs -> Requests]
         /\ task' \in [Callers -> Tasks] /\ \A d \in Callers : Working(d)'
<1>1. task[c].ioq \in Ioqs
  BY CallerIoq
<1>2. pool' \subseteq Ioqs
  BY <1>1 DEF GiveIoq, TypeInv
<1>3. Cleared \in Requests
  BY NoFdType DEF Cleared, Requests, Statuses, Ops
<1>4. q' \in [Ioqs -> Requests]
  BY <1>3 DEF GiveIoq, TypeInv
<1>5. Idle(fd) \in Tasks
  BY DEF Idle, Tasks
<1>6. task' \in [Callers -> Tasks] /\ \A d \in Callers : Working(d)'
  BY <1>5 DEF GiveIoq, TypeInv, Working, Idle
<1> QED
  BY <1>2, <1>4, <1>6

LEMMA StillKernel ==
  ASSUME TypeInv, k' = k
  PROVE  MutexStep(k, k')
BY DEF MutexStep, Same

LEMMA AsyncStep ==
  ASSUME TypeInv, NEW c \in Asyncs, AtAstLevel(c)
  PROVE  Step
<1>1. c \in Callers /\ c \notin Programs /\ <<>> \in Seq(Ops) /\ task[c].fd \in Fds
  BY CallersAssumption DEF CallersAssumption, Callers, TypeInv, Tasks
<1>2. CASE AsyncGetioq(c)
  <2>1. TakeIoq(c, <<>>) /\ UNCHANGED <<k, desc, free, frees, leaked, host>>
    BY <1>2 DEF AsyncGetioq
  <2> QED
    BY <1>1, <2>1, TakeIoqType, StillKernel DEF Step, TypeInv
<1>3. CASE AsyncFreeioq(c)
  <2>1. GiveIoq(c, task[c].fd) /\ task[c].pc # "idle" /\ UNCHANGED <<k, desc, free, frees, leaked, host>>
    BY <1>3 DEF AsyncFreeioq
  <2> QED
    BY <1>1, <2>1, GiveIoqType, StillKernel DEF Step, TypeInv
<1> QED
  BY <1>2, <1>3 DEF AtAstLevel

LEMMA ShimStep ==
  ASSUME TypeInv, NEW c \in Programs, NEW calls \in Seq(Ops), calls # <<>>, Shim(c, calls)
  PROVE  Step
<1>1. c \in Callers
  BY DEF Callers
<1>2. TakeIoq(c, calls) /\ UNCHANGED <<k, desc, free, frees, leaked, host>>
  BY DEF Shim
<1> QED
  BY <1>1, <1>2, TakeIoqType, StillKernel DEF Step, TypeInv

LEMMA MkdirStep ==
  ASSUME TypeInv, NEW c \in Programs, Mkdir(c)
  PROVE  Step
<1>1. CASE Shim(c, <<"mkdir">>)
  <2>1. <<"mkdir">> \in Seq(Ops) /\ <<"mkdir">> # <<>>
    BY DEF Ops
  <2> QED
    BY <1>1, <2>1, ShimStep
<1>2. CASE /\ pool # {}
           /\ leaked' = leaked \cup {Getioq}
           /\ pool' = pool \ {Getioq}
           /\ UNCHANGED <<k, desc, free, frees, q, host, task>>
  <2>1. Getioq \in pool
    BY <1>2 DEF Getioq
  <2>2. MutexStep(k, k')
    BY <1>2, StillKernel
  <2> QED
    BY <1>2, <2>1, <2>2 DEF Step, TypeInv, Working
<1> QED
  BY <1>1, <1>2 DEF Mkdir

LEMMA ReturnStep ==
  ASSUME TypeInv, NEW c \in Programs, Return(c)
  PROVE  Step
<1> DEFINE t == task[c]
           opened == t.todo # <<>> /\ Head(t.todo) = "open"
           left == IF ~opened THEN t.todo ELSE IF q[t.ioq].status = "SUCC" THEN Tail(t.todo) ELSE <<>>
           fd == IF t.todo = <<"open">> THEN q[t.ioq].file ELSE t.fd
<1>1. c \in Callers /\ t.pc # "idle" /\ t \in Tasks /\ t.ioq \in Ioqs
  BY CallerIoq DEF Callers, Return, TypeInv
<1>2. left \in Seq(Ops) /\ fd \in Fds
  <2>1. t.todo \in Seq(Ops) /\ <<>> \in Seq(Ops)
    BY <1>1 DEF Tasks
  <2>2. t.todo # <<>> => Tail(t.todo) \in Seq(Ops)
    BY <2>1
  <2>3. q[t.ioq].file \in Fds /\ t.fd \in Fds
    BY <1>1 DEF TypeInv, Requests, Tasks
  <2> QED
    BY <2>1, <2>2, <2>3
<1> HIDE DEF left, fd
<1>3. MutexStep(k, k')
  BY StillKernel DEF Return
<1>4. CASE left # <<>> /\ task' = [task EXCEPT ![c].pc = "ready", ![c].todo = left] /\ UNCHANGED <<pool, q>>
  <2>1. task' \in [Callers -> Tasks]
    BY ZenonT(60), <1>2, <1>4 DEF TypeInv, Tasks
  <2>2. \A d \in Callers : Working(d)'
    BY <1>1, <1>4 DEF TypeInv, Tasks, Working
  <2> QED
    BY <1>3, <1>4, <2>1, <2>2 DEF Return, Step, TypeInv
<1>5. CASE GiveIoq(c, fd)
  BY <1>1, <1>2, <1>3, <1>5, GiveIoqType DEF Return, Step, TypeInv
<1> QED
  BY <1>4, <1>5 DEF Return, left, fd

LEMMA ProgramStep ==
  ASSUME TypeInv, NEW c \in Programs, AtBaseLevel(c)
  PROVE  Step
<1>1. ASSUME NEW op \in Ops PROVE <<op>> \in Seq(Ops) /\ <<op>> # <<>>
  OBVIOUS
<1>2. <<"open", "fstat", "close">> \in Seq(Ops) /\ <<"open", "fstat", "close">> # <<>>
  BY DEF Ops
<1>3. CASE Mkdir(c)
  BY <1>3, MkdirStep
<1>4. CASE Return(c)
  BY <1>4, ReturnStep
<1>5. CASE Stat(c)
  BY <1>2, <1>5, ShimStep DEF Stat
<1>6. CASE \E op \in Ops : Shim(c, <<op>>)
  BY <1>1, <1>6, ShimStep
<1>7. Unlink(c) \/ Rmdir(c) \/ Rename(c) \/ Open(c) \/ Close(c) \/ Lseek(c) => \E op \in Ops : Shim(c, <<op>>)
  BY DEF Unlink, Rmdir, Rename, Open, Close, Lseek, Ops
<1>8. Read(c) \/ Write(c) \/ Ioctl(c) \/ Fstat(c) \/ Statfs(c) \/ Fstatfs(c) => \E op \in Ops : Shim(c, <<op>>)
  BY DEF Read, Write, Ioctl, Fstat, Statfs, Fstatfs, Ops
<1>9. Isatty(c) \/ Readv(c) \/ Writev(c) => \E op \in Ops : Shim(c, <<op>>)
  BY DEF Isatty, Readv, Writev, Ops
<1> QED
  BY <1>3, <1>4, <1>5, <1>6, <1>7, <1>8, <1>9 DEF AtBaseLevel

-----------------------------------------------------------------------------
(* What runs at AST level.                                                 *)

LEMMA IdeTaskStep ==
  ASSUME TypeInv, NEW i \in Ioqs, NEW f \in Files, NEW drive \in Drives, NEW outcome \in Outcomes,
         k.ast # <<>>, IdeTask(i, f, drive, outcome)
  PROVE  Step
<1>1. host' \in [Drives -> Nat]
  <2>1. q[i].where \in Nat /\ host[drive] \in Nat
    BY DEF TypeInv, Requests
  <2>2. IdePosition(q[i].op, q[i].where, host[drive]) \in Nat
    BY <2>1 DEF IdePosition
  <2>3. IdeHost(q[i].op, q[i].where, host[drive], outcome) \in Nat
    <3> DEFINE p == IdePosition(q[i].op, q[i].where, host[drive])
    <3>1. p \in Nat /\ p + 1 \in Nat
      BY <2>2
    <3>2. CASE outcome = "no seek"
      BY <2>1, <3>2 DEF IdeHost
    <3>3. CASE outcome # "no seek" /\ outcome = "SUCC" /\ Moves(q[i].op)
      <4>1. IdeHost(q[i].op, q[i].where, host[drive], outcome) = p + 1
        BY <3>3 DEF IdeHost
      <4> QED
        BY <3>1, <4>1
    <3>4. CASE outcome # "no seek" /\ ~(outcome = "SUCC" /\ Moves(q[i].op))
      <4>1. IdeHost(q[i].op, q[i].where, host[drive], outcome) = p
        BY <3>4 DEF IdeHost
      <4> QED
        BY <3>1, <4>1
    <3> QED
      BY <3>2, <3>3, <3>4
  <2> QED
    BY <2>3 DEF IdeTask, TypeInv
<1>2. q' \in [Ioqs -> Requests]
  <2>1. IdeStatus(outcome) \in Statuses
    BY DEF IdeStatus, Outcomes, Statuses
  <2>2. (IF q[i].op = "close" THEN NoFd ELSE q[i].file) \in Fds
    BY NoFdType DEF TypeInv, Requests
  <2>3. [op |-> "none", status |-> IdeStatus(outcome), where |-> 0,
         file |-> IF q[i].op = "close" THEN NoFd ELSE q[i].file] \in Requests
    BY <2>1, <2>2 DEF Requests, Ops
  <2> QED
    BY <2>3 DEF IdeTask, TypeInv
<1>3. desc' \in [Files -> Entries] /\ free' \subseteq Files /\ frees' \in [Files -> Nat]
  <2>1. CASE FreeFile(f)
    BY <2>1, FreeFileType
  <2>2. CASE UNCHANGED <<desc, free, frees>>
    BY <2>2 DEF TypeInv
  <2> QED
    BY <2>1, <2>2 DEF IdeTask
<1>4. k' \in Kernel /\ MutexStep(k, k')
  <2> DEFINE a == Dispatched(k)
             b == FreeMutex(a, drive, i)
  <2>1. k \in Kernel /\ Alike(k, a)
    BY DispatchedKernel DEF TypeInv
  <2>2. a \in Kernel /\ drive \in Mutexes
    BY <2>1 DEF Alike, Drives
  <2>3. b \in Kernel /\ MutexStep(a, b)
    BY <2>2, FreeMutexKernel
  <2>4. Alike(b, CompleteIoq(b, i))
    BY <2>3, CompleteIoqKernel
  <2>5. k' = CompleteIoq(b, i)
    BY DEF IdeTask
  <2> HIDE DEF a, b
  <2> QED
    BY <2>1, <2>3, <2>4, <2>5 DEF Alike, MutexStep, Same, Takes, Waits, Passes
<1> QED
  BY <1>1, <1>2, <1>3, <1>4 DEF Step, TypeInv, IdeTask, Working

LEMMA UserDoneStep ==
  ASSUME TypeInv, NEW i \in Ioqs, NEW c \in Asyncs, k.ast # <<>>, UserDone(i, c)
  PROVE  Step
<1>1. c \in Callers /\ c \notin Programs
  BY CallersAssumption DEF CallersAssumption, Callers
<1>2. k' \in Kernel /\ MutexStep(k, k')
  BY DispatchedKernel, SameKernel DEF UserDone, TypeInv
<1>3. q' \in [Ioqs -> Requests]
  BY ZenonT(60) DEF UserDone, TypeInv, Requests, Statuses
<1>4. task' \in [Callers -> Tasks] /\ \A d \in Callers : Working(d)'
  <2> DEFINE fd == IF task[c].todo = <<"open">> THEN q[i].file ELSE task[c].fd
  <2>1. fd \in Fds /\ <<>> \in Seq(Ops)
    BY <1>1 DEF TypeInv, Requests, Tasks
  <2>2. task' = [task EXCEPT ![c] = [@ EXCEPT !.pc = "ready", !.todo = <<>>, !.fd = fd]]
    BY <1>1 DEF UserDone, TypeInv
  <2> HIDE DEF fd
  <2>3. task' \in [Callers -> Tasks]
    BY <2>1, <2>2 DEF TypeInv, Tasks
  <2>4. \A d \in Callers : Working(d)'
    BY <1>1, <2>2 DEF UserDone, TypeInv, Tasks, Working
  <2> QED
    BY <2>3, <2>4
<1> QED
  BY <1>2, <1>3, <1>4 DEF Step, TypeInv, UserDone

LEMMA RunAstStep ==
  ASSUME TypeInv, RunAst
  PROVE  Step
<1> DEFINE i == Head(k.ast)
           f == Fd2File(q[i].file)
<1>1. k.ast # <<>> /\ i \in Ioqs
  BY DEF RunAst, TypeInv, Kernel
<1>2. ASSUME f # 0, NEW drive \in Drives, NEW outcome \in Outcomes, IdeTask(i, f, drive, outcome)
      PROVE  Step
  <2>1. f \in Files
    BY <1>2, Fd2FileType
  <2> QED
    BY <1>1, <1>2, <2>1, IdeTaskStep
<1>3. ASSUME NEW c \in Asyncs, UserDone(i, c)
      PROVE  Step
  BY <1>1, <1>3, UserDoneStep
<1> QED
  BY <1>2, <1>3 DEF RunAst

-----------------------------------------------------------------------------
(* The theorems.                                                           *)

LEMMA TypeInit == Init => TypeInv
<1> SUFFICES ASSUME Init PROVE TypeInv
  OBVIOUS
<1>1. k \in Kernel
  BY DEF Init, IdleKernel, Kernel, Actions
<1>2. desc \in [Files -> Entries]
  BY DEF Init, Closed, Entries
<1>3. frees \in [Files -> Nat] /\ host \in [Drives -> Nat]
  BY DEF Init
<1>4. q \in [Ioqs -> Requests]
  <2>1. Cleared \in Requests
    BY NoFdType DEF Cleared, Requests, Statuses, Ops
  <2> QED
    BY <2>1 DEF Init
<1>5. task \in [Callers -> Tasks] /\ \A c \in Callers : Working(c)
  <2>1. Idle(NoFd) \in Tasks
    BY NoFdType DEF Idle, Tasks
  <2> QED
    BY <2>1 DEF Init, Idle, Working
<1> QED
  BY <1>1, <1>2, <1>3, <1>4, <1>5 DEF Init, TypeInv

LEMMA NextStep ==
  ASSUME TypeInv, [Next]_vars
  PROVE  Step
<1>1. CASE RunAst
  BY <1>1, RunAstStep
<1>2. CASE \E c \in Callers : Call(c)
  BY <1>2, CallStep
<1>3. CASE \E c \in Asyncs : AtAstLevel(c)
  BY <1>3, AsyncStep
<1>4. CASE \E c \in Programs : AtBaseLevel(c)
  BY <1>4, ProgramStep
<1>5. CASE UNCHANGED vars
  BY <1>5, StillKernel DEF vars, Step, TypeInv, Working
<1> QED
  BY <1>1, <1>2, <1>3, <1>4, <1>5 DEF Next

LEMMA TypesHold == Spec => []TypeInv
<1>1. TypeInv /\ [Next]_vars => TypeInv'
  BY NextStep DEF Step
<1> QED
  BY <1>1, TypeInit, PTL DEF Spec

(* Every variable keeps its type, whatever is called in whatever order: no *)
(* status but those of QIO reaches a caller, and no queue or mutex holds   *)
(* anything but an IOQ (src/qio.c, ide_task in src/fsys_ide.c).            *)
THEOREM TypeCorrect == Spec => []TypeOK
<1>1. TypeInv => TypeOK
  BY DEF TypeInv, TypeOK, Entries, Requests, Statuses, Tasks
<1> QED
  BY <1>1, TypesHold, PTL

(* A descriptor that was closed opens nothing until its table entry has been *)
(* through all its generations, however many there are (qio_fd2file,       *)
(* qio_freefile).                                                          *)
THEOREM StaleDead == Spec => []StaleFdDead
<1>1. TypeInv => StaleFdDead
  <2> SUFFICES ASSUME TypeInv, NEW c \in Callers, task[c].fd.inx \in Files, Fd2File(task[c].fd) # 0
               PROVE  ((frees[task[c].fd.inx] - task[c].fd.serial) % GenCount) = 0
    BY DEF StaleFdDead
  <2> DEFINE fd == task[c].fd
  <2>1. fd \in Fds
    BY DEF TypeInv, Tasks
  <2>2. fd.serial \in Nat /\ fd.gen = (fd.serial % GenCount)
    BY <2>1 DEF Fds
  <2>3. frees[fd.inx] \in Nat /\ fd.gen = (frees[fd.inx] % GenCount)
    BY DEF Fd2File, Gen, TypeInv
  <2> HIDE DEF fd
  <2> QED
    BY <2>2, <2>3, ModDiff, GenAssumption DEF GenAssumption, fd
<1> QED
  BY <1>1, TypesHold, PTL

(* The mutex of every drive is a lock: one holder at a time, which only a   *)
(* holder gives up, and then to the one that waited longest (qio_getmutex,  *)
(* qio_freemutex).  This is the safety part of LockSpec, for all drives.    *)
THEOREM MutexesAreLocks == Spec => [][MutexStep(k, k')]_k
<1>1. TypeInv /\ [Next]_vars => MutexStep(k, k')
  BY NextStep DEF Step
<1> QED
  BY <1>1, TypesHold, PTL DEF Spec

(* Nobody waits for a mutex that nobody holds: qio_freemutex hands it over  *)
(* rather than freeing it while there are waiters.                          *)
NobodyForgotten == \A m \in Mutexes : k.cur[m] = Nobody => k.wait[m] = <<>>

THEOREM NoLostWaiter == Spec => []NobodyForgotten
<1>1. Init => NobodyForgotten
  BY DEF Init, IdleKernel, NobodyForgotten
<1>2. TypeInv /\ NobodyForgotten /\ [Next]_vars => NobodyForgotten'
  <2> SUFFICES ASSUME TypeInv, NobodyForgotten, [Next]_vars, NEW m \in Mutexes, k'.cur[m] = Nobody
               PROVE  k'.wait[m] = <<>>
    BY DEF NobodyForgotten
  <2>1. k \in Kernel /\ MutexStep(k, k')
    BY NextStep DEF Step, TypeInv
  <2>2. CASE Same(k, k', m)
    BY <2>2 DEF Same, NobodyForgotten
  <2>3. CASE Takes(k, k', m)
    BY <2>3, NobodyAssumption DEF Takes, NobodyAssumption
  <2>4. CASE Waits(k, k', m)
    BY <2>4 DEF Waits
  <2>5. CASE Passes(k, k', m)
    <3>1. k.wait[m] # <<>> => Head(k.wait[m]) \in Ioqs
      BY <2>1 DEF Kernel
    <3> QED
      BY <2>5, <3>1, NobodyAssumption DEF Passes, NobodyAssumption
  <2> QED
    BY <2>1, <2>2, <2>3, <2>4, <2>5 DEF MutexStep
<1> QED
  BY <1>1, <1>2, TypesHold, PTL DEF Spec

(* The watched mutex moves as FifoLock says, step by step: the safety part *)
(* of LockSpec.                                                            *)
THEOREM LockSafe == Spec => Lock!Init /\ [][Lock!Next]_<<k.cur[Watched], k.wait[Watched]>>
<1>1. Init => Lock!Init
  BY DrivesAssumption DEF Init, IdleKernel, Lock!Init, DrivesAssumption
<1>2. TypeInv /\ [Next]_vars => [Lock!Next]_<<k.cur[Watched], k.wait[Watched]>>
  <2> SUFFICES ASSUME TypeInv, [Next]_vars
               PROVE  Lock!Next \/ UNCHANGED <<k.cur[Watched], k.wait[Watched]>>
    OBVIOUS
  <2>1. MutexStep(k, k') /\ Watched \in Mutexes
    BY NextStep, DrivesAssumption DEF Step, DrivesAssumption
  <2>2. CASE Same(k, k', Watched)
    BY <2>2 DEF Same
  <2>3. CASE Takes(k, k', Watched)
    BY <2>3 DEF Takes, Lock!Next, Lock!Enter
  <2>4. CASE Waits(k, k', Watched)
    BY <2>4 DEF Waits, Lock!Next, Lock!Wait
  <2>5. CASE Passes(k, k', Watched)
    BY <2>5 DEF Passes, Lock!Next, Lock!Leave
  <2> QED
    BY <2>1, <2>2, <2>3, <2>4, <2>5 DEF MutexStep
<1> QED
  BY <1>1, <1>2, TypesHold, PTL DEF Spec

-----------------------------------------------------------------------------
(* The accounts of IOQs and of table entries.                              *)

(* A descriptor is good while its table entry is as it was when the        *)
(* descriptor was given out.                                               *)
Good(fd) == fd.inx \in Files /\ fd.serial = frees[fd.inx]

(* No descriptor comes from the future. *)
Known(fd) == fd = NoFd \/ (fd.inx \in Files /\ fd.serial <= frees[fd.inx])

(* The descriptor in the caller's IOQ, while it has one. *)
Own(c) == q[task[c].ioq].file

(* The IOQ is on the caller's own descriptor or on none that is good. *)
OnOwn(c) == Good(Own(c)) => Own(c) = task[c].fd

StatCalls == <<"open", "fstat", "close">>

(* What a caller has left to do, and what it has open then. *)
AsyncReady(c) == task[c].todo = <<>> /\ OnOwn(c)

AsyncWait(c) ==
  \/ task[c].todo = <<>> /\ OnOwn(c)
  \/ task[c].todo = <<"open">> /\ ~Good(task[c].fd)

ProgramReady(c) ==
  \/ \E op \in Ops : /\ task[c].todo = <<op>>
                     /\ op # "close" => OnOwn(c)
                     /\ op = "open" => ~Good(task[c].fd)
  \/ task[c].todo = StatCalls /\ OnOwn(c)
  \/ task[c].todo = Tail(StatCalls)

ProgramWait(c) ==
  LET r == q[task[c].ioq]
  IN  \/ task[c].todo = <<>> /\ (OnOwn(c) \/ (r.status = "pending" /\ r.op = "close"))
      \/ task[c].todo = <<"open">> /\ ~Good(task[c].fd)
      \/ /\ task[c].todo = StatCalls
         /\ r.status = "pending" => r.op = "open"
         /\ r.status \notin {"pending", "SUCC"} => OnOwn(c)
      \/ task[c].todo = <<"close">>

(* Where the IOQ of a caller that waits is: on its way to the driver of its *)
(* descriptor, or to its completion routine.                               *)
Served(c) ==
  /\ Good(Own(c)) /\ desc[Own(c).inx].dvc \in Drives
  /\ Asks(k, task[c].ioq, {}, desc[Own(c).inx].dvc, "ide_task")
  /\ c \in Programs => q[task[c].ioq].status = "pending"

Told(c) == Due(k, task[c].ioq, {}, "user")

Rests(i) == Still(k, i, {})

AsyncInv(c) ==
  \/ task[c].pc = "idle"
  \/ task[c].pc = "ready" /\ AsyncReady(c) /\ Rests(task[c].ioq)
  \/ task[c].pc = "wait" /\ AsyncWait(c) /\ (Served(c) \/ Told(c))

ProgramInv(c) ==
  \/ task[c].pc = "idle"
  \/ task[c].pc = "ready" /\ ProgramReady(c) /\ Rests(task[c].ioq)
  \/ task[c].pc = "wait" /\ ProgramWait(c) /\ (Served(c) \/ Rests(task[c].ioq))

(* IOQs: each in the pool, lost or held by one caller. *)
HeldOnce ==
  /\ \A c \in Callers : task[c].pc = "idle" <=> task[c].ioq = Nobody
  /\ \A c, d \in Callers : task[c].ioq # Nobody /\ task[d].ioq = task[c].ioq => c = d
  /\ pool \cap leaked = {}
  /\ \A c \in Callers : task[c].ioq \notin pool \cup leaked
  /\ \A i \in Ioqs \ (pool \cup leaked) : \E c \in Callers : task[c].ioq = i
  /\ \A i \in pool \cup leaked : Rests(i)

(* Table entries: each free, or open for one caller. *)
Names(fd, f) == fd.inx = f /\ fd.serial = frees[f]

HasFd(c, f) == Names(task[c].fd, f) \/ (task[c].ioq # Nobody /\ Names(Own(c), f))

OpenOnce ==
  \A f \in Files :
     IF f \in free THEN \A c \in Callers : ~HasFd(c, f)
     ELSE desc[f].dvc # "none" /\ \E c \in Callers : \A d \in Callers : HasFd(d, f) <=> d = c

AllKnown ==
  /\ \A c \in Callers : Known(task[c].fd)
  /\ \A i \in Ioqs : Known(q[i].file)

CallerInv(c) ==
  /\ c \in Asyncs => AsyncInv(c)
  /\ c \in Programs => ProgramInv(c)

CallersInv == \A c \in Callers : CallerInv(c)

AccountInv == KernelInv(k) /\ HeldOnce /\ OpenOnce /\ AllKnown /\ CallersInv

-----------------------------------------------------------------------------
(* What a step of one caller leaves to the others.                         *)

(* The parts of the record of a caller, and of the IOQ it may hold.        *)
LEMMA CallerParts ==
  ASSUME TypeInv, HeldOnce, NEW c \in Callers
  PROVE  /\ task[c].ioq \in Ioqs \cup {Nobody} /\ (task[c].pc # "idle" <=> task[c].ioq \in Ioqs)
         /\ task[c].fd \in Fds /\ task[c].todo \in Seq(Ops)
         /\ task[c].ioq \in Ioqs => Own(c) \in Fds
BY NobodyAssumption DEF NobodyAssumption, TypeInv, Tasks, HeldOnce, Own, Requests

(* A step of somebody else keeps what holds of a caller: its IOQ is        *)
(* undisturbed, and the entry behind its descriptor is untouched.          *)
LEMMA OtherCaller ==
  ASSUME TypeInv, TypeInv', HeldOnce, AllKnown, NEW d \in Callers, CallerInv(d), task'[d] = task[d],
         task[d].ioq \in Ioqs => q'[task[d].ioq] = q[task[d].ioq] /\ Undisturbed(k, k', task[d].ioq),
         \A f \in Files : HasFd(d, f) => frees'[f] = frees[f] /\ desc'[f] = desc[f],
         \A f \in Files : frees'[f] >= frees[f]
  PROVE  CallerInv(d)' /\ Known(task[d].fd)' /\ (\A f \in Files : HasFd(d, f)' <=> HasFd(d, f))
<1>1. /\ task[d].ioq \in Ioqs \cup {Nobody} /\ (task[d].pc # "idle" <=> task[d].ioq \in Ioqs)
      /\ task[d].fd \in Fds /\ (task[d].ioq \in Ioqs => Own(d) \in Fds /\ Own(d)' = Own(d))
  BY CallerParts DEF Own
<1>2. /\ \A f \in Files : frees[f] \in Nat /\ frees'[f] \in Nat
      /\ \A fd \in Fds : fd.serial \in Nat
  BY DEF TypeInv, Fds
<1>3. Known(task[d].fd) /\ (task[d].ioq \in Ioqs => Known(Own(d)))
  BY DEF AllKnown, Own
<1>4. NoFd.inx \notin Files
  BY FilesAssumption DEF NoFd, FilesAssumption
<1>5. \A f \in Files : Names(task[d].fd, f)' <=> Names(task[d].fd, f)
  BY <1>1, <1>2, <1>3, <1>4 DEF Known, HasFd, Names
<1>6. ASSUME task[d].ioq \in Ioqs PROVE \A f \in Files : Names(Own(d), f)' <=> Names(Own(d), f)
  BY <1>1, <1>2, <1>3, <1>4, <1>6, NobodyAssumption DEF Known, HasFd, Names, NobodyAssumption
<1>7. Known(task[d].fd)'
  BY <1>1, <1>2, <1>3, <1>4 DEF Known
<1>8. \A f \in Files : HasFd(d, f)' <=> HasFd(d, f)
  BY <1>1, <1>5, <1>6, NobodyAssumption DEF HasFd, NobodyAssumption
<1>9. Good(task[d].fd)' <=> Good(task[d].fd)
  BY <1>5 DEF Good, Names
<1>10. ASSUME task[d].ioq \in Ioqs PROVE Good(Own(d))' <=> Good(Own(d))
  BY <1>1, <1>6, <1>10 DEF Good, Names
<1>11. ASSUME task[d].ioq \in Ioqs
       PROVE  /\ OnOwn(d)' <=> OnOwn(d)
              /\ Served(d) => Served(d)'
              /\ Told(d) => Told(d)'
              /\ Rests(task[d].ioq) => Rests(task[d].ioq)'
  <2>1. OnOwn(d)' <=> OnOwn(d)
    BY <1>1, <1>10, <1>11 DEF OnOwn
  <2>2. Undisturbed(k, k', task[d].ioq) /\ q'[task[d].ioq] = q[task[d].ioq]
    BY <1>11
  <2>3. {} \in SUBSET Mutexes /\ "ide_task" \in Actions /\ "user" \in Actions
    BY DEF Actions
  <2>4. ASSUME Served(d) PROVE Served(d)'
    <3>1. Good(Own(d)) /\ Good(Own(d))' /\ HasFd(d, Own(d).inx) /\ Own(d).inx \in Files
      BY <1>10, <1>11, <2>4, NobodyAssumption DEF Served, Good, HasFd, Names, NobodyAssumption
    <3>2. desc'[Own(d).inx] = desc[Own(d).inx]
      BY <3>1
    <3>3. desc[Own(d).inx].dvc \in Mutexes
      BY <2>4 DEF Served, Drives
    <3>4. Asks(k', task[d].ioq, {}, desc[Own(d).inx].dvc, "ide_task")
      BY <2>2, <2>3, <2>4, <3>3 DEF Served, Undisturbed
    <3> QED
      BY <1>1, <1>11, <2>2, <2>4, <3>1, <3>2, <3>4 DEF Served
  <2>5. Told(d) => Told(d)'
    BY <2>2, <2>3 DEF Told, Undisturbed
  <2>6. Rests(task[d].ioq) => Rests(task[d].ioq)'
    BY <2>2, <2>3 DEF Rests, Undisturbed
  <2> QED
    BY <2>1, <2>4, <2>5, <2>6
<1>12. CallerInv(d)'
  <2>1. CASE task[d].pc = "idle"
    BY <2>1 DEF CallerInv, AsyncInv, ProgramInv
  <2>2. CASE task[d].pc # "idle"
    <3>1. task[d].ioq \in Ioqs
      BY <1>1, <2>2
    <3>2. d \in Asyncs => AsyncInv(d)'
      BY <1>9, <1>11, <3>1 DEF CallerInv, AsyncInv, AsyncReady, AsyncWait
    <3>3. d \in Programs => ProgramInv(d)'
      BY <1>9, <1>11, <3>1 DEF CallerInv, ProgramInv, ProgramReady, ProgramWait
    <3> QED
      BY <3>2, <3>3 DEF CallerInv
  <2> QED
    BY <2>1, <2>2
<1> QED
  BY <1>7, <1>8, <1>12

-----------------------------------------------------------------------------
(* Steps of one caller, by what they do to IOQs and table entries.         *)

(* Nobody else, and no other IOQ, is touched. *)
Alone(c, i) ==
  /\ KernelInv(k)'
  /\ \A d \in Callers \ {c} : task'[d] = task[d]
  /\ \A j \in Ioqs \ {i} : q'[j] = q[j] /\ Undisturbed(k, k', j)

(* The table stays; an entry is taken; one the caller has is given back. *)
TableStays(c) ==
  /\ UNCHANGED <<desc, free, frees>>
  /\ \A f \in Files : HasFd(c, f)' <=> HasFd(c, f)

EntryTaken(c, g) ==
  /\ g \in free /\ free' = free \ {g} /\ frees' = frees
  /\ desc'[g].dvc # "none" /\ \A f \in Files \ {g} : desc'[f] = desc[f]
  /\ \A f \in Files : HasFd(c, f)' <=> HasFd(c, f) \/ f = g

EntryFreed(c, g) ==
  /\ HasFd(c, g) /\ free' = free \cup {g}
  /\ frees'[g] = frees[g] + 1 /\ \A f \in Files \ {g} : desc'[f] = desc[f] /\ frees'[f] = frees[f]
  /\ \A f \in Files : HasFd(c, f)' <=> HasFd(c, f) /\ f # g

TableStep(c) == TableStays(c) \/ \E g \in Files : EntryTaken(c, g) \/ EntryFreed(c, g)

(* What one caller has is not touched by what another does to the table. *)
LEMMA OthersTable ==
  ASSUME TypeInv, OpenOnce, NEW c \in Callers, TableStep(c), NEW d \in Callers \ {c}, NEW f \in Files
  PROVE  /\ frees'[f] >= frees[f]
         /\ HasFd(d, f) => frees'[f] = frees[f] /\ desc'[f] = desc[f]
<1>1. frees[f] \in Nat
  BY DEF TypeInv
<1>2. CASE TableStays(c)
  BY <1>1, <1>2 DEF TableStays
<1>3. ASSUME NEW g \in Files, EntryTaken(c, g) PROVE frees'[f] >= frees[f] /\ (HasFd(d, f) => frees'[f] = frees[f] /\ desc'[f] = desc[f])
  <2>1. ~HasFd(d, g)
    BY <1>3 DEF EntryTaken, OpenOnce
  <2> QED
    BY <1>1, <1>3, <2>1 DEF EntryTaken
<1>4. ASSUME NEW g \in Files, EntryFreed(c, g) PROVE frees'[f] >= frees[f] /\ (HasFd(d, f) => frees'[f] = frees[f] /\ desc'[f] = desc[f])
  <2>1. ~HasFd(d, g)
    BY <1>4 DEF EntryFreed, OpenOnce
  <2>2. f # g => frees'[f] = frees[f] /\ desc'[f] = desc[f]
    BY <1>4 DEF EntryFreed
  <2>3. f = g => frees'[f] = frees[f] + 1
    BY <1>4 DEF EntryFreed
  <2> QED
    BY <1>1, <2>1, <2>2, <2>3
<1> QED
  BY <1>2, <1>3, <1>4 DEF TableStep

(* A step that changes the table for one caller keeps one owner per entry. *)
LEMMA OpenOnceKept ==
  ASSUME TypeInv, OpenOnce, NEW c \in Callers, TableStep(c),
         \A d \in Callers \ {c} : \A f \in Files : HasFd(d, f)' <=> HasFd(d, f)
  PROVE  OpenOnce'
<1> SUFFICES ASSUME NEW f \in Files
             PROVE  (IF f \in free THEN \A d \in Callers : ~HasFd(d, f)
                     ELSE desc[f].dvc # "none" /\ \E e \in Callers : \A d \in Callers : HasFd(d, f) <=> d = e)'
  BY DEF OpenOnce
<1>1. IF f \in free THEN \A d \in Callers : ~HasFd(d, f)
      ELSE desc[f].dvc # "none" /\ \E e \in Callers : \A d \in Callers : HasFd(d, f) <=> d = e
  BY DEF OpenOnce
<1>2. ASSUME (f \in free)' <=> f \in free, f \notin free => desc'[f] = desc[f], HasFd(c, f)' <=> HasFd(c, f)
      PROVE  (IF f \in free THEN \A d \in Callers : ~HasFd(d, f)
              ELSE desc[f].dvc # "none" /\ \E e \in Callers : \A d \in Callers : HasFd(d, f) <=> d = e)'
  <2>1. \A d \in Callers : HasFd(d, f)' <=> HasFd(d, f)
    BY <1>2
  <2> QED
    BY <1>1, <1>2, <2>1
<1>3. CASE TableStays(c)
  BY <1>2, <1>3 DEF TableStays
<1>4. ASSUME NEW g \in Files, EntryTaken(c, g)
      PROVE  (IF f \in free THEN \A d \in Callers : ~HasFd(d, f)
              ELSE desc[f].dvc # "none" /\ \E e \in Callers : \A d \in Callers : HasFd(d, f) <=> d = e)'
  <2>1. CASE f = g
    <3>1. \A d \in Callers : HasFd(d, f)' <=> d = c
      BY <1>1, <1>4, <2>1 DEF EntryTaken
    <3> QED
      BY <1>4, <2>1, <3>1 DEF EntryTaken
  <2>2. CASE f # g
    BY <1>2, <1>4, <2>2 DEF EntryTaken
  <2> QED
    BY <2>1, <2>2
<1>5. ASSUME NEW g \in Files, EntryFreed(c, g)
      PROVE  (IF f \in free THEN \A d \in Callers : ~HasFd(d, f)
              ELSE desc[f].dvc # "none" /\ \E e \in Callers : \A d \in Callers : HasFd(d, f) <=> d = e)'
  <2>1. CASE f = g
    <3>1. HasFd(c, f)
      BY <1>5, <2>1 DEF EntryFreed
    <3>2. \A d \in Callers : ~HasFd(d, f)'
      BY <1>1, <1>5, <2>1, <3>1 DEF EntryFreed
    <3> QED
      BY <1>5, <2>1, <3>2 DEF EntryFreed
  <2>2. CASE f # g
    BY <1>2, <1>5, <2>2 DEF EntryFreed
  <2> QED
    BY <2>1, <2>2
<1> QED
  BY <1>3, <1>4, <1>5 DEF TableStep

(* A caller moves on with the IOQ it has. *)
LEMMA CallerMoves ==
  ASSUME TypeInv, TypeInv', AccountInv, NEW c \in Callers, task[c].ioq \in Ioqs,
         Alone(c, task[c].ioq), TableStep(c), pool' = pool, leaked' = leaked,
         task'[c].ioq = task[c].ioq, task'[c].pc # "idle",
         Known(task[c].fd)', Known(q[task[c].ioq].file)', CallerInv(c)'
  PROVE  AccountInv'
<1> DEFINE i == task[c].ioq
<1>1. KernelInv(k) /\ HeldOnce /\ OpenOnce /\ AllKnown /\ CallersInv
  BY DEF AccountInv
<1>2. \A d \in Callers \ {c} : task[d].ioq \in Ioqs => task[d].ioq # i
  BY <1>1, NobodyAssumption DEF HeldOnce, NobodyAssumption
<1>3. ASSUME NEW d \in Callers \ {c}
      PROVE  CallerInv(d)' /\ Known(task[d].fd)' /\ \A f \in Files : HasFd(d, f)' <=> HasFd(d, f)
  <2>1. task'[d] = task[d] /\ CallerInv(d)
    BY <1>1, <1>3 DEF Alone, CallersInv
  <2>2. task[d].ioq \in Ioqs => q'[task[d].ioq] = q[task[d].ioq] /\ Undisturbed(k, k', task[d].ioq)
    BY <1>2, <1>3 DEF Alone
  <2>3. \A f \in Files : frees'[f] >= frees[f] /\ (HasFd(d, f) => frees'[f] = frees[f] /\ desc'[f] = desc[f])
    BY <1>1, <1>3, OthersTable
  <2> QED
    BY <1>1, <2>1, <2>2, <2>3, OtherCaller
<1>4. OpenOnce'
  BY <1>1, <1>3, OpenOnceKept
<1>5. CallersInv'
  BY <1>3 DEF CallersInv
<1>6. AllKnown'
  <2>1. ASSUME NEW j \in Ioqs, j # i PROVE Known(q[j].file)'
    <3>1. q'[j] = q[j] /\ Known(q[j].file) /\ q[j].file \in Fds
      BY <1>1, <2>1 DEF Alone, AllKnown, TypeInv, Requests
    <3>2. \A f \in Files : frees[f] \in Nat /\ frees'[f] \in Nat /\ frees'[f] >= frees[f]
      <4> SUFFICES ASSUME NEW f \in Files PROVE frees[f] \in Nat /\ frees'[f] \in Nat /\ frees'[f] >= frees[f]
        OBVIOUS
      <4>1. frees[f] \in Nat /\ frees'[f] \in Nat
        BY DEF TypeInv
      <4> QED
        BY <4>1 DEF TableStep, TableStays, EntryTaken, EntryFreed
    <3> QED
      BY <3>1, <3>2 DEF Known, Fds
  <2> QED
    BY <1>3, <2>1 DEF AllKnown
<1>7. HeldOnce'
  <2>1. \A d \in Callers : task'[d].ioq = task[d].ioq /\ (task'[d].pc = "idle" <=> task[d].pc = "idle")
    <3>1. \A d \in Callers \ {c} : task'[d] = task[d]
      BY DEF Alone
    <3>2. task[c].pc # "idle"
      BY <1>1, CallerParts
    <3> QED
      BY <3>1, <3>2
  <2>2. ASSUME NEW j \in pool \cup leaked PROVE Rests(j)'
    <3>1. j \in Ioqs /\ j # i /\ Rests(j)
      BY <1>1 DEF HeldOnce, TypeInv
    <3>2. Undisturbed(k, k', j) /\ {} \in SUBSET Mutexes
      BY <3>1 DEF Alone
    <3> QED
      BY <3>1, <3>2 DEF Rests, Undisturbed
  <2> HIDE DEF i
  <2> QED
    BY <1>1, <2>1, <2>2 DEF HeldOnce
<1> QED
  BY <1>4, <1>5, <1>6, <1>7 DEF AccountInv, Alone

-----------------------------------------------------------------------------
(* What a call is made of.                                                 *)

(* No table entry has the index of the absent descriptor.                  *)
LEMMA NoFdBad == NoFd.inx \notin Files
BY FilesAssumption DEF NoFd, FilesAssumption

(* A completion is queued for callers at AST level only. *)
LEMMA CompletedIs ==
  ASSUME HeldOnce, NEW c \in Callers, NEW i \in Ioqs, task[c].ioq = i,
         NEW a, KernelInv(a), Still(a, i, {})
  PROVE  LET b == CompleteIoq(a, i)
         IN  /\ KernelInv(b) /\ Others(a, b, i)
             /\ c \in Asyncs => Due(b, i, {}, "user")
             /\ c \in Programs => Still(b, i, {})
<1>1. CASE c \in Asyncs
  <2>1. CompleteIoq(a, i) = Complete(a, i, "user") /\ "user" \in Actions /\ c \notin Programs
    BY <1>1, CallersAssumption DEF CompleteIoq, Actions, CallersAssumption
  <2> QED
    BY <1>1, <2>1, CompleteIs
<1>2. CASE c \notin Asyncs
  <2>1. i # Nobody
    BY NobodyAssumption DEF NobodyAssumption
  <2>2. \A d \in Asyncs : task[d].ioq # i
    BY <1>2, <2>1 DEF HeldOnce, Callers
  <2>3. CompleteIoq(a, i) = a
    BY <2>2 DEF CompleteIoq
  <2> QED
    BY <1>2, <2>3, UndisturbedSame DEF Others
<1> QED
  BY <1>1, <1>2

(* The driver has the request, or has done with it. *)
Driven(c, op, dvc, file) ==
  LET i == task[c].ioq
  IN  /\ KernelInv(k)' /\ q'[i].file = file
      /\ \A j \in Ioqs \ {i} : q'[j] = q[j] /\ Undisturbed(k, k', j)
      /\ \/ /\ dvc = "null" /\ q'[i].status # "pending" /\ (op = "open" => q'[i].status = "SUCC")
            /\ c \in Asyncs => Due(k', i, {}, "user")
            /\ c \in Programs => Still(k', i, {})
         \/ /\ dvc \in Drives /\ Asks(k', i, {}, dvc, "ide_task")
            /\ q'[i].status = "pending" /\ q'[i].op = op

(* A driver either queues the IOQ for its drive or completes it at once.   *)
LEMMA DriverCallIs ==
  ASSUME TypeInv, AccountInv, NEW c \in Callers, task[c].ioq \in Ioqs, Rests(task[c].ioq),
         NEW file, NEW op, NEW dvc \in Devices, NEW w,
         DriverCall([q EXCEPT ![task[c].ioq].file = file], task[c].ioq, op, dvc, w)
  PROVE  Driven(c, op, dvc, file)
<1> DEFINE i == task[c].ioq
           qq == [q EXCEPT ![i].file = file]
<1>1. KernelInv(k) /\ Still(k, i, {}) /\ HeldOnce /\ i \in Ioqs
  BY DEF AccountInv, Rests
<1>2. qq[i].file = file /\ qq \in [Ioqs -> [op : Ops, status : Statuses, where : Nat, file : Fds \cup {file}]]
  BY DEF TypeInv, Requests
<1>3. \A j \in Ioqs \ {i} : qq[j] = q[j]
  BY DEF TypeInv
<1> HIDE DEF qq
<1>4. CASE dvc = "null"
  <2>1. q' = [qq EXCEPT ![i].status = IF op \in {"read", "readwpos"} THEN "EOF" ELSE "SUCC"] /\ k' = CompleteIoq(k, i)
    BY <1>4 DEF DriverCall, NullCall, qq
  <2>2. /\ q'[i].file = file /\ \A j \in Ioqs \ {i} : q'[j] = q[j]
        /\ q'[i].status # "pending" /\ (op = "open" => q'[i].status = "SUCC")
    BY <1>1, <1>2, <1>3, <2>1
  <2>3. /\ KernelInv(k') /\ Others(k, k', i)
        /\ c \in Asyncs => Due(k', i, {}, "user")
        /\ c \in Programs => Still(k', i, {})
    BY <1>1, <2>1, CompletedIs
  <2> QED
    BY <1>4, <2>2, <2>3 DEF Driven, Others
<1>5. CASE dvc # "null"
  <2>1. dvc \in Mutexes /\ "ide_task" \in Actions
    BY <1>5 DEF Devices, Drives, Actions
  <2>2. /\ q' = [qq EXCEPT ![i] = [@ EXCEPT !.op = op, !.status = "pending", !.where = w]]
        /\ k' = GetMutex(k, dvc, i, "ide_task")
    BY <1>5 DEF DriverCall, IdeCall, qq
  <2>3. /\ q'[i].file = file /\ \A j \in Ioqs \ {i} : q'[j] = q[j]
        /\ q'[i].status = "pending" /\ q'[i].op = op
    BY <1>1, <1>2, <1>3, <2>2
  <2>4. KernelInv(k') /\ Others(k, k', i) /\ Asks(k', i, {}, dvc, "ide_task")
    BY <1>1, <2>1, <2>2, GetMutexIs
  <2> QED
    BY <2>1, <2>3, <2>4 DEF Driven, Others, Drives
<1> QED
  BY <1>4, <1>5

(* What a caller had open when it made a call, and what is left to do. *)
CallMade(c, op) ==
  /\ task[c].pc = "ready" /\ task[c].ioq \in Ioqs /\ Rests(task[c].ioq)
  /\ task[c].fd \in Fds /\ Own(c) \in Fds /\ Known(task[c].fd) /\ Known(Own(c))
  /\ c \in Asyncs => task[c].todo = <<>> /\ OnOwn(c) /\ Left(c, op) = IF op = "open" THEN <<"open">> ELSE <<>>
  /\ c \in Programs =>
       \/ op # "open" /\ Left(c, op) = <<>> /\ (op # "close" => OnOwn(c))
       \/ op = "open" /\ Left(c, op) = <<"open">> /\ OnOwn(c) /\ ~Good(task[c].fd)
       \/ op = "open" /\ Left(c, op) = StatCalls /\ OnOwn(c)
       \/ op = "fstat" /\ Left(c, op) = <<"close">>

(* A caller that is about to call does what it has left to do, and at AST  *)
(* level nothing is left but the reopening after an open.                  *)
LEMMA CallIsMade ==
  ASSUME TypeInv, AccountInv, NEW c \in Callers, NEW op \in Ops, Calls(c, op)
  PROVE  CallMade(c, op)
<1>1. HeldOnce /\ AllKnown /\ CallerInv(c) /\ task[c].pc = "ready"
  BY DEF AccountInv, CallersInv, Calls
<1>2. task[c].ioq \in Ioqs /\ task[c].fd \in Fds /\ Own(c) \in Fds /\ Known(task[c].fd) /\ Known(Own(c))
  BY <1>1, CallerParts DEF AllKnown, Own
<1>3. ASSUME c \in Asyncs
      PROVE  /\ task[c].todo = <<>> /\ OnOwn(c) /\ Rests(task[c].ioq)
             /\ Left(c, op) = IF op = "open" THEN <<"open">> ELSE <<>>
  BY <1>1, <1>3, CallersAssumption DEF CallerInv, AsyncInv, AsyncReady, Left, CallersAssumption
<1>4. ASSUME c \in Programs
      PROVE  /\ Rests(task[c].ioq)
             /\ \/ op # "open" /\ Left(c, op) = <<>> /\ (op # "close" => OnOwn(c))
                \/ op = "open" /\ Left(c, op) = <<"open">> /\ OnOwn(c) /\ ~Good(task[c].fd)
                \/ op = "open" /\ Left(c, op) = StatCalls /\ OnOwn(c)
                \/ op = "fstat" /\ Left(c, op) = <<"close">>
  <2>1. ProgramReady(c) /\ Rests(task[c].ioq) /\ Head(task[c].todo) = op
    BY <1>1, <1>4 DEF CallerInv, ProgramInv, Calls
  <2>2. Left(c, op) = IF op = "open" THEN task[c].todo ELSE Tail(task[c].todo)
    BY <1>4 DEF Left
  <2>3. CASE task[c].todo = StatCalls /\ OnOwn(c)
    <3>1. Head(StatCalls) = "open"
      BY DEF StatCalls
    <3> QED
      BY <2>1, <2>2, <2>3, <3>1
  <2>4. CASE task[c].todo = Tail(StatCalls)
    <3>1. Head(Tail(StatCalls)) = "fstat" /\ Tail(Tail(StatCalls)) = <<"close">>
      BY DEF StatCalls
    <3> QED
      BY <2>1, <2>2, <2>4, <3>1
  <2>5. ASSUME NEW o \in Ops, task[c].todo = <<o>>, o # "close" => OnOwn(c), o = "open" => ~Good(task[c].fd)
        PROVE  \/ op # "open" /\ Left(c, op) = <<>> /\ (op # "close" => OnOwn(c))
               \/ op = "open" /\ Left(c, op) = <<"open">> /\ OnOwn(c) /\ ~Good(task[c].fd)
    <3>1. o = op /\ Tail(<<o>>) = <<>>
      BY <2>1, <2>5
    <3> QED
      BY <2>2, <2>5, <3>1
  <2> QED
    BY <2>1, <2>3, <2>4, <2>5 DEF ProgramReady
<1>5. c \in Asyncs \/ c \in Programs
  BY DEF Callers
<1> QED
  BY <1>1, <1>2, <1>3, <1>4, <1>5 DEF CallMade

(* What a call changes of its caller.                                      *)
LEMMA CalledIs ==
  ASSUME TypeInv, NEW c \in Callers, NEW op, Called(c, op)
  PROVE  /\ task'[c].pc = "wait" /\ task'[c].todo = Left(c, op)
         /\ task'[c].ioq = task[c].ioq /\ task'[c].fd = task[c].fd
         /\ \A d \in Callers \ {c} : task'[d] = task[d]
BY DEF Called, TypeInv, Tasks

-----------------------------------------------------------------------------
(* The calls.                                                              *)

(* A refused call leaves the descriptor alone or takes it off the IOQ. *)
LEMMA RefusedKeeps ==
  ASSUME TypeInv, TypeInv', AccountInv, NEW c \in Callers, NEW op \in Ops, NEW fd \in Fds,
         Calls(c, op), Refused(c, op, fd),
         fd = Own(c) \/ (fd = NoFd /\ op \notin {"close", "fstat"}),
         op = "close" => ~Good(Own(c))
  PROVE  AccountInv'
<1> DEFINE i == task[c].ioq
<1>1. CallMade(c, op)
  BY CallIsMade
<1>2. i \in Ioqs /\ task[c].pc = "ready" /\ Known(task[c].fd) /\ Known(Own(c)) /\ Rests(i)
  BY <1>1 DEF CallMade
<1>3. /\ k' = k /\ UNCHANGED <<desc, free, frees>> /\ pool' = pool /\ leaked' = leaked
      /\ q'[i].file = fd /\ \A j \in Ioqs \ {i} : q'[j] = q[j]
  BY <1>2 DEF Refused, TypeInv, Requests
<1>4. /\ task'[c].ioq = i /\ task'[c].fd = task[c].fd /\ task'[c].pc # "idle"
      /\ \A d \in Callers \ {c} : task'[d] = task[d]
  <2>1. CASE task' = task
    BY <1>2, <2>1
  <2>2. CASE Called(c, op)
    BY <2>2, CalledIs
  <2> QED
    BY <2>1, <2>2 DEF Refused
<1>5. Alone(c, i)
  BY <1>3, <1>4, UndisturbedSame DEF Alone, AccountInv
<1>6. Own(c)' = fd
  BY <1>3, <1>4 DEF Own
<1>7. ~Good(NoFd) /\ Known(NoFd) /\ \A f \in Files : ~Names(NoFd, f)
  BY NoFdBad DEF Good, Known, Names
<1>8. fd # Own(c) => OnOwn(c)
  BY <1>1 DEF CallMade, Callers
<1>9. TableStep(c)
  <2>1. \A f \in Files : HasFd(c, f)' <=> HasFd(c, f)
    <3> SUFFICES ASSUME NEW f \in Files PROVE HasFd(c, f)' <=> HasFd(c, f)
      OBVIOUS
    <3>1. Names(task[c].fd, f)' <=> Names(task[c].fd, f)
      BY <1>3, <1>4 DEF Names
    <3>2. i # Nobody
      BY <1>2, NobodyAssumption DEF NobodyAssumption
    <3>3. CASE fd = Own(c)
      BY <1>3, <1>4, <1>6, <3>1, <3>2, <3>3 DEF HasFd, Names
    <3>4. CASE fd # Own(c)
      <4>1. fd = NoFd /\ ~Names(Own(c), f)'
        BY <1>3, <1>6, <1>7, <3>4, NoFdBad DEF Names
      <4>2. Names(Own(c), f) => Names(task[c].fd, f)
        BY <1>8, <3>4 DEF OnOwn, Good, Names
      <4> QED
        BY <1>4, <3>1, <3>2, <4>1, <4>2 DEF HasFd
    <3> QED
      BY <3>3, <3>4
  <2> QED
    BY <1>3, <2>1 DEF TableStep, TableStays
<1>10. Known(task[c].fd)' /\ Known(q[i].file)'
  BY <1>2, <1>3, <1>4, <1>7 DEF Known, Own
<1>11. (Good(task[c].fd)' <=> Good(task[c].fd)) /\ (OnOwn(c) => OnOwn(c)') /\ (~Good(Own(c)) => OnOwn(c)')
  <2>1. Good(task[c].fd)' <=> Good(task[c].fd)
    BY <1>3, <1>4 DEF Good
  <2>2. Good(Own(c))' => fd = Own(c) /\ Good(Own(c))
    BY <1>3, <1>6, <1>7, NoFdBad DEF Good
  <2> QED
    BY <1>4, <1>6, <2>1, <2>2 DEF OnOwn
<1>12. fd # Own(c) => OnOwn(c)'
  BY <1>8, <1>11
<1>13. Rests(task[c].ioq)'
  BY <1>2, <1>3, <1>4 DEF Rests
<1>14. CallerInv(c)'
  <2>1. ASSUME c \in Asyncs PROVE AsyncInv(c)'
    <3>1. task' = task
      BY <2>1, CallersAssumption DEF Refused, CallersAssumption
    <3>2. task[c].todo = <<>> /\ OnOwn(c)
      BY <1>1, <2>1 DEF CallMade
    <3> QED
      BY <1>2, <1>11, <1>13, <3>1, <3>2 DEF AsyncInv, AsyncReady
  <2>2. ASSUME c \in Programs PROVE ProgramInv(c)'
    <3>1. q'[i].status = "error" /\ Called(c, op)
      BY <1>2, <2>2 DEF Refused, TypeInv, Requests
    <3>2. task'[c].pc = "wait" /\ task'[c].todo = Left(c, op)
      BY <3>1, CalledIs
    <3>3. \/ op # "open" /\ Left(c, op) = <<>> /\ (op # "close" => OnOwn(c))
          \/ op = "open" /\ Left(c, op) = <<"open">> /\ OnOwn(c) /\ ~Good(task[c].fd)
          \/ op = "open" /\ Left(c, op) = StatCalls /\ OnOwn(c)
          \/ op = "fstat" /\ Left(c, op) = <<"close">>
      BY <1>1, <2>2 DEF CallMade
    <3>4. ProgramWait(c)'
      <4>1. CASE op # "open" /\ Left(c, op) = <<>> /\ (op # "close" => OnOwn(c))
        <5>1. OnOwn(c)'
          BY <1>11, <4>1
        <5> QED
          BY <3>2, <4>1, <5>1 DEF ProgramWait
      <4>2. CASE op = "open" /\ Left(c, op) = <<"open">> /\ OnOwn(c) /\ ~Good(task[c].fd)
        BY <1>11, <3>2, <4>2 DEF ProgramWait
      <4>3. CASE op = "open" /\ Left(c, op) = StatCalls /\ OnOwn(c)
        <5>1. OnOwn(c)' /\ q'[task'[c].ioq].status = "error"
          BY <1>4, <1>11, <3>1, <4>3
        <5> QED
          BY <3>2, <4>3, <5>1 DEF ProgramWait
      <4>4. CASE op = "fstat" /\ Left(c, op) = <<"close">>
        BY <3>2, <4>4 DEF ProgramWait
      <4> QED
        BY <3>3, <4>1, <4>2, <4>3, <4>4
    <3> QED
      BY <1>13, <3>2, <3>4 DEF ProgramInv
  <2> QED
    BY <2>1, <2>2 DEF CallerInv
<1> QED
  BY <1>2, <1>3, <1>4, <1>5, <1>9, <1>10, <1>14, CallerMoves

(* A call the driver has: the caller waits, with the descriptor file in its *)
(* IOQ.                                                                    *)
LEMMA DrivenWaits ==
  ASSUME TypeInv, TypeInv', NEW c \in Callers, NEW op \in Ops, CallMade(c, op), Called(c, op),
         NEW dvc, NEW file, Driven(c, op, dvc, file),
         Own(c)' = file, Good(Own(c))', desc'[file.inx].dvc = dvc,
         op # "open" => (OnOwn(c) => OnOwn(c)'),
         op = "open" => c \notin Programs \/ Left(c, op) = StatCalls \/ ~Good(task[c].fd)',
         op = "open" /\ c \in Asyncs => ~Good(task[c].fd)',
         op # "close" \/ dvc \in Drives
  PROVE  CallerInv(c)'
<1> DEFINE i == task[c].ioq
<1>1. task'[c].pc = "wait" /\ task'[c].todo = Left(c, op) /\ task'[c].ioq = i
  BY CalledIs
<1>2. i \in Ioqs
  BY DEF CallMade
<1>3. ASSUME c \in Asyncs PROVE AsyncInv(c)'
  <2>1. c \notin Programs
    BY <1>3, CallersAssumption DEF CallersAssumption
  <2>2. Served(c)' \/ Told(c)'
    BY <1>1, <1>3, <2>1 DEF Driven, Served, Told
  <2>3. OnOwn(c) /\ Left(c, op) = IF op = "open" THEN <<"open">> ELSE <<>>
    BY <1>3 DEF CallMade
  <2>4. AsyncWait(c)'
    BY <1>1, <1>3, <2>3 DEF AsyncWait
  <2> QED
    BY <1>1, <2>2, <2>4 DEF AsyncInv
<1>4. ASSUME c \in Programs PROVE ProgramInv(c)'
  <2>1. c \notin Asyncs
    BY <1>4, CallersAssumption DEF CallersAssumption
  <2>2. Served(c)' \/ Rests(task[c].ioq)'
    BY <1>1, <1>4, <2>1 DEF Driven, Served, Rests
  <2>3. \/ q'[i].status = "pending" /\ q'[i].op = op
        \/ dvc = "null" /\ q'[i].status # "pending" /\ (op = "open" => q'[i].status = "SUCC")
    BY DEF Driven
  <2>4. \/ op # "open" /\ Left(c, op) = <<>> /\ (op # "close" => OnOwn(c))
        \/ op = "open" /\ Left(c, op) = <<"open">> /\ ~Good(task[c].fd)'
        \/ op = "open" /\ Left(c, op) = StatCalls
        \/ op = "fstat" /\ Left(c, op) = <<"close">>
    BY <1>4, <2>1 DEF CallMade
  <2>5. ProgramWait(c)'
    <3>1. CASE op # "open" /\ op # "close" /\ Left(c, op) = <<>> /\ OnOwn(c)
      BY <1>1, <3>1 DEF ProgramWait
    <3>2. CASE op = "open"
      BY <1>1, <2>3, <2>4, <3>2 DEF ProgramWait
    <3>3. CASE op = "fstat" /\ Left(c, op) = <<"close">>
      BY <1>1, <3>3 DEF ProgramWait
    <3>4. CASE op = "close" /\ Left(c, op) = <<>>
      <4>1. dvc # "null"
        BY <3>4, DrivesAssumption DEF Drives, DrivesAssumption
      <4> QED
        BY <1>1, <2>3, <3>4, <4>1 DEF ProgramWait
    <3> QED
      BY <2>4, <3>1, <3>2, <3>3, <3>4
  <2> QED
    BY <1>1, <2>2, <2>5 DEF ProgramInv
<1> QED
  BY <1>3, <1>4 DEF CallerInv

(* The descriptor of a call is good, as no caller uses one that only looks *)
(* open.                                                                   *)
LEMMA FoundIsGood ==
  ASSUME TypeInv, AccountInv, NEW c \in Callers, task[c].ioq \in Ioqs, ~UsesOldFd(c), Fd2File(Own(c)) # 0
  PROVE  Good(Own(c)) /\ Fd2File(Own(c)) = Own(c).inx
<1>1. Own(c) # NoFd /\ Fd2File(Own(c)) = Own(c).inx /\ Own(c).inx \in Files
  BY NoFdBad DEF Fd2File
<1>2. Own(c) = File2Fd(Own(c).inx)
  BY <1>1 DEF UsesOldFd, Own
<1>3. Own(c).serial = frees[Own(c).inx]
  BY <1>2 DEF File2Fd
<1> QED
  BY <1>1, <1>3 DEF Good

(* A good descriptor is found, and its entry is open. *)
LEMMA GoodIsFound ==
  ASSUME TypeInv, OpenOnce, NEW c \in Callers, task[c].ioq \in Ioqs, Good(Own(c))
  PROVE  /\ Own(c).inx \in Files /\ Own(c).inx # 0 /\ Fd2File(Own(c)) = Own(c).inx
         /\ HasFd(c, Own(c).inx) /\ IsOpen(Own(c).inx)
<1>1. Own(c).inx \in Files /\ Own(c).inx # 0 /\ Own(c).serial = frees[Own(c).inx] /\ Own(c) \in Fds
  BY FilesAssumption DEF Good, FilesAssumption, TypeInv, Requests, Own
<1>2. Own(c).gen = Gen(Own(c).inx)
  BY <1>1 DEF Fds, Gen
<1>3. HasFd(c, Own(c).inx)
  BY <1>1, NobodyAssumption DEF HasFd, Names, NobodyAssumption
<1>4. desc[Own(c).inx].dvc # "none"
  BY <1>1, <1>3 DEF OpenOnce
<1> QED
  BY <1>1, <1>2, <1>3, <1>4 DEF Fd2File, IsOpen

(* A call on a descriptor: read, write, lseek, fstat, ioctl and the others. *)
LEMMA OnDescriptorKeeps ==
  ASSUME TypeInv, TypeInv', AccountInv, NEW c \in Callers, NEW op \in Ops \ {"open", "close"},
         NEW need, NEW w, OnDescriptor(c, op, need, w)
  PROVE  AccountInv'
<1> DEFINE i == task[c].ioq
           f == Fd2File(q[i].file)
<1>1. Calls(c, op) /\ CallMade(c, op) /\ ~UsesOldFd(c)
  BY CallIsMade DEF OnDescriptor, Calls
<1>2. i \in Ioqs /\ Own(c) \in Fds /\ Rests(i) /\ Known(task[c].fd) /\ Known(Own(c))
  BY <1>1 DEF CallMade
<1>3. CASE ~Allowed(f, op, need) /\ Refused(c, op, q[i].file)
  BY <1>1, <1>2, <1>3, RefusedKeeps DEF Own
<1>4. CASE /\ Allowed(f, op, need)
           /\ DriverCall(q, i, op, desc[f].dvc, w)
           /\ Called(c, op)
           /\ UNCHANGED <<desc, free, frees, pool, leaked, host>>
  <2>1. Good(Own(c)) /\ f = Own(c).inx /\ f \in Files /\ desc[f].dvc \in Devices
    <3>1. f # 0 /\ desc[f].dvc # "none"
      BY <1>4 DEF Allowed, IsOpen
    <3>2. Good(Own(c)) /\ f = Own(c).inx
      BY <1>1, <1>2, <3>1, FoundIsGood DEF Own
    <3> QED
      BY <3>1, <3>2 DEF Good, TypeInv, Entries
  <2>2. Driven(c, op, desc[f].dvc, Own(c))
    <3>1. [q EXCEPT ![i].file = Own(c)] = q
      BY <1>2 DEF Own, TypeInv, Requests
    <3> HIDE DEF f
    <3> QED
      BY <1>2, <1>4, <2>1, <3>1, DriverCallIs
  <2>3. /\ task'[c].pc = "wait" /\ task'[c].ioq = i /\ task'[c].fd = task[c].fd
        /\ \A d \in Callers \ {c} : task'[d] = task[d]
    BY <1>4, CalledIs
  <2>4. Own(c)' = Own(c) /\ q'[i].file = Own(c)
    BY <2>2, <2>3 DEF Driven, Own
  <2>5. Good(Own(c))' /\ (OnOwn(c) => OnOwn(c)')
    BY <1>4, <2>1, <2>3, <2>4 DEF Good, OnOwn
  <2>6. Alone(c, i)
    BY <2>2, <2>3 DEF Driven, Alone
  <2>7. TableStep(c)
    <3>1. \A g \in Files : HasFd(c, g)' <=> HasFd(c, g)
      BY <1>4, <2>3, <2>4 DEF HasFd, Names
    <3> QED
      BY <1>4, <3>1 DEF TableStep, TableStays
  <2>8. Known(task[c].fd)' /\ Known(q[i].file)'
    BY <1>2, <1>4, <2>3, <2>4 DEF Known
  <2>9. desc'[Own(c).inx].dvc = desc[f].dvc
    BY <1>4, <2>1
  <2> HIDE DEF f
  <2>10. CallerInv(c)'
    BY <1>1, <1>4, <2>2, <2>4, <2>5, <2>9, DrivenWaits
  <2> QED
    BY <1>2, <1>4, <2>3, <2>6, <2>7, <2>8, <2>10, CallerMoves
<1> QED
  BY <1>3, <1>4 DEF OnDescriptor

(* Only open is a call on a path that the drivers have. *)
LEMMA OnPathKeeps ==
  ASSUME TypeInv, TypeInv', AccountInv, NEW c \in Callers,
         NEW op \in {"open", "delete", "rmdir", "mkdir", "rename", "fsync"},
         NEW p \in Paths, NEW mode, OnPath(c, op, p, mode),
         op = "open" /\ c \in Asyncs => ~Good(task[c].fd)
  PROVE  AccountInv'
<1> DEFINE i == task[c].ioq
           g == GetFile
<1>1. Calls(c, op) /\ CallMade(c, op) /\ op \in Ops \ {"close", "fstat"}
  BY CallIsMade DEF OnPath, Ops
<1>2. i \in Ioqs /\ Own(c) \in Fds /\ Rests(i) /\ Known(task[c].fd) /\ Known(Own(c)) /\ task[c].fd \in Fds
  BY <1>1 DEF CallMade
<1>3. CASE Refused(c, op, NoFd)
  BY <1>1, <1>3, NoFdType, RefusedKeeps
<1>4. CASE /\ Reaches(p, op) /\ free # {}
           /\ free' = free \ {g}
           /\ desc' = [desc EXCEPT ![g] = [dvc |-> p, mode |-> mode]]
           /\ DriverCall([q EXCEPT ![i].file = File2Fd(g)], i, op, p, 0)
           /\ Called(c, op)
           /\ UNCHANGED <<frees, pool, leaked, host>>
  <2>1. g \in free /\ g \in Files
    BY <1>4, MinType, FilesAssumption DEF GetFile, TypeInv, FilesAssumption
  <2>2. op = "open" /\ p \in Devices
    BY <1>4 DEF Reaches, Paths, Supports, NullOps, IdeOps
  <2> HIDE DEF g
  <2>3. Driven(c, op, p, File2Fd(g))
    BY <1>2, <1>4, <2>2, DriverCallIs
  <2>4. /\ task'[c].pc = "wait" /\ task'[c].ioq = i /\ task'[c].fd = task[c].fd
        /\ \A d \in Callers \ {c} : task'[d] = task[d]
    BY <1>4, CalledIs
  <2>5. Own(c)' = File2Fd(g) /\ q'[i].file = File2Fd(g)
    BY <2>3, <2>4 DEF Driven, Own
  <2>6. File2Fd(g).inx = g /\ File2Fd(g).serial = frees[g] /\ frees[g] \in Nat
    BY <2>1 DEF File2Fd, TypeInv
  <2>7. Good(Own(c))' /\ (Good(task[c].fd)' <=> Good(task[c].fd))
    BY <1>4, <2>1, <2>4, <2>5, <2>6 DEF Good
  <2>8. Alone(c, i)
    BY <2>3, <2>4 DEF Driven, Alone
  <2>9. OnOwn(c)
    BY <1>1, <2>2 DEF CallMade, Callers
  <2>10. desc'[g].dvc = p /\ desc'[g].dvc # "none" /\ \A f \in Files \ {g} : desc'[f] = desc[f]
    <3>1. p # "none"
      BY <1>4 DEF Reaches
    <3> QED
      BY <1>4, <2>1, <3>1 DEF TypeInv
  <2>11. TableStep(c)
    <3>1. ASSUME NEW f \in Files PROVE HasFd(c, f)' <=> HasFd(c, f) \/ f = g
      <4>1. Names(task[c].fd, f)' <=> Names(task[c].fd, f)
        BY <1>4, <2>4 DEF Names
      <4>2. Names(Own(c), f)' <=> f = g
        BY <1>4, <2>5, <2>6 DEF Names
      <4>3. Names(Own(c), f) => Names(task[c].fd, f)
        BY <2>9, <3>1 DEF OnOwn, Good, Names
      <4>4. i # Nobody
        BY <1>2, NobodyAssumption DEF NobodyAssumption
      <4> QED
        BY <2>4, <4>1, <4>2, <4>3, <4>4 DEF HasFd
    <3> QED
      BY <1>4, <2>1, <2>10, <3>1 DEF TableStep, EntryTaken
  <2>12. Known(task[c].fd)' /\ Known(q[i].file)'
    BY <1>2, <1>4, <2>1, <2>4, <2>5, <2>6 DEF Known
  <2>13. op = "open" => c \notin Programs \/ Left(c, op) = StatCalls \/ ~Good(task[c].fd)'
    BY <1>1, <2>2, <2>7 DEF CallMade
  <2>14. CallerInv(c)'
    <3>1. op = "open" /\ c \in Asyncs => ~Good(task[c].fd)'
      BY <2>7
    <3>2. desc'[File2Fd(g).inx].dvc = p
      BY <2>6, <2>10
    <3>3. op \in Ops /\ op # "close"
      BY <1>1
    <3>4. op # "open" => (OnOwn(c) => OnOwn(c)')
      BY <2>2
    <3> QED
      BY <1>1, <1>4, <2>3, <2>5, <2>7, <2>13, <3>1, <3>2, <3>3, <3>4, DrivenWaits
  <2> QED
    BY <1>2, <1>4, <2>4, <2>8, <2>11, <2>12, <2>14, CallerMoves
<1> QED
  BY <1>3, <1>4 DEF OnPath

(* An entry that its caller has is given back: nobody has it any more. *)
LEMMA FreeingIs ==
  ASSUME TypeInv, TypeInv', AccountInv, NEW c \in Callers, task[c].ioq \in Ioqs, Good(Own(c)),
         FreeFile(Own(c).inx), task'[c].ioq = task[c].ioq, task'[c].fd = task[c].fd,
         q'[task[c].ioq].file = NoFd
  PROVE  /\ TableStep(c) /\ Known(task[c].fd)' /\ Known(q[task[c].ioq].file)' /\ OnOwn(c)'
         /\ ~Good(task[c].fd) => ~Good(task[c].fd)'
<1> DEFINE g == Own(c).inx
           i == task[c].ioq
<1>1. g \in Files /\ HasFd(c, g) /\ Own(c).serial = frees[g]
  BY GoodIsFound DEF AccountInv, Good
<1>2. /\ free' = free \cup {g} /\ frees'[g] = frees[g] + 1
      /\ \A f \in Files \ {g} : desc'[f] = desc[f] /\ frees'[f] = frees[f]
  BY <1>1 DEF FreeFile, TypeInv
<1>3. \A f \in Files : frees[f] \in Nat
  BY DEF TypeInv
<1>4. task[c].fd \in Fds /\ Known(task[c].fd) /\ Own(c)' = NoFd /\ task[c].fd.serial \in Nat
  BY DEF TypeInv, Tasks, AccountInv, AllKnown, Own, Fds
<1> HIDE DEF g
<1>5. ASSUME NEW f \in Files PROVE HasFd(c, f)' <=> HasFd(c, f) /\ f # g
  <2>1. ~Names(Own(c), f)'
    BY <1>4, NoFdBad DEF Names
  <2>2. Names(task[c].fd, f)' <=> Names(task[c].fd, f) /\ f # g
    BY <1>1, <1>2, <1>3, <1>4, NoFdBad DEF Names, Known
  <2>3. Names(Own(c), f) <=> f = g
    BY <1>1 DEF Names, g
  <2>4. i # Nobody
    BY NobodyAssumption DEF NobodyAssumption
  <2> QED
    BY <2>1, <2>2, <2>3, <2>4 DEF HasFd
<1>6. TableStep(c)
  <2>1. EntryFreed(c, g)
    BY <1>1, <1>2, <1>5 DEF EntryFreed
  <2> QED
    BY <1>1, <2>1 DEF TableStep
<1>7. Known(task[c].fd)'
  BY <1>1, <1>2, <1>3, <1>4 DEF Known
<1>8. ~Good(task[c].fd) => ~Good(task[c].fd)'
  BY <1>1, <1>2, <1>3, <1>4, NoFdBad DEF Good, Known
<1> QED
  BY <1>4, <1>6, <1>7, <1>8, NoFdBad DEF OnOwn, Good, Known

(* qio_close frees the entry before its driver has answered.               *)
LEMMA CloseKeeps ==
  ASSUME TypeInv, TypeInv', AccountInv, NEW c \in Callers, QioClose(c)
  PROVE  AccountInv'
<1> DEFINE i == task[c].ioq
           f == Fd2File(q[i].file)
<1>1. Calls(c, "close") /\ CallMade(c, "close") /\ ~UsesOldFd(c) /\ "close" \in Ops /\ OpenOnce /\ HeldOnce
  BY CallIsMade DEF QioClose, Calls, Ops, AccountInv
<1>2. /\ i \in Ioqs /\ Own(c) \in Fds /\ Rests(i) /\ KernelInv(k)
      /\ Known(task[c].fd) /\ Known(Own(c)) /\ task[c].fd \in Fds
  BY <1>1 DEF CallMade, AccountInv
<1>3. CASE ~IsOpen(f) /\ Refused(c, "close", q[i].file)
  <2>1. ~Good(Own(c))
    BY <1>1, <1>2, <1>3, GoodIsFound DEF Own
  <2> QED
    BY <1>1, <1>2, <1>3, <2>1, RefusedKeeps DEF Own
<1>4. ASSUME IsOpen(f) PROVE Good(Own(c)) /\ f = Own(c).inx /\ f \in Files /\ desc[f].dvc \in Devices
  <2>1. f # 0 /\ desc[f].dvc # "none"
    BY <1>4 DEF IsOpen
  <2>2. Good(Own(c)) /\ f = Own(c).inx
    BY <1>1, <1>2, <2>1, FoundIsGood DEF Own
  <2> QED
    BY <2>1, <2>2 DEF Good, TypeInv, Entries
<1>5. CASE /\ IsOpen(f)
           /\ FreeFile(f)
           /\ q' = [q EXCEPT ![i].status = "SUCC", ![i].file = NoFd]
           /\ k' = CompleteIoq(k, i)
           /\ Called(c, "close")
           /\ UNCHANGED <<pool, leaked, host>>
  <2>1. /\ task'[c].pc = "wait" /\ task'[c].ioq = i /\ task'[c].fd = task[c].fd /\ task'[c].todo = Left(c, "close")
        /\ \A d \in Callers \ {c} : task'[d] = task[d]
    BY <1>5, CalledIs
  <2>2. q'[i].file = NoFd /\ q'[i].status = "SUCC" /\ \A j \in Ioqs \ {i} : q'[j] = q[j]
    BY SMTT(60), <1>2, <1>5 DEF TypeInv, Requests
  <2>3. /\ TableStep(c) /\ Known(task[c].fd)' /\ Known(q[i].file)' /\ OnOwn(c)'
    BY <1>2, <1>4, <1>5, <2>1, <2>2, FreeingIs
  <2>4. /\ KernelInv(k') /\ Others(k, k', i)
        /\ c \in Asyncs => Due(k', i, {}, "user")
        /\ c \in Programs => Still(k', i, {})
    BY <1>1, <1>2, <1>5, CompletedIs DEF Rests
  <2>5. Alone(c, i)
    BY <2>1, <2>2, <2>4 DEF Alone, Others
  <2>6. CallerInv(c)'
    <3>1. Left(c, "close") = <<>>
      BY <1>1 DEF CallMade, Callers
    <3>2. c \in Asyncs => AsyncInv(c)'
      BY <2>1, <2>3, <2>4, <3>1 DEF AsyncInv, AsyncWait, Told
    <3>3. c \in Programs => ProgramInv(c)'
      BY <2>1, <2>3, <2>4, <3>1 DEF ProgramInv, ProgramWait, Rests
    <3> QED
      BY <3>2, <3>3 DEF CallerInv
  <2> HIDE DEF f, i
  <2> QED
    BY <1>2, <1>5, <2>1, <2>3, <2>5, <2>6, CallerMoves DEF i
<1>6. CASE /\ IsOpen(f) /\ Supports(desc[f].dvc, "close")
           /\ IdeCall(q, i, "close", desc[f].dvc, 0)
           /\ Called(c, "close")
           /\ UNCHANGED <<desc, free, frees, pool, leaked, host>>
  <2>1. Good(Own(c)) /\ f = Own(c).inx /\ f \in Files /\ desc[f].dvc \in Devices
    BY <1>4, <1>6
  <2>2. desc[f].dvc # "null"
    BY <1>6 DEF Supports, NullOps
  <2>3. Driven(c, "close", desc[f].dvc, Own(c))
    <3>1. [q EXCEPT ![i].file = Own(c)] = q
      BY <1>2 DEF Own, TypeInv, Requests
    <3>2. DriverCall(q, i, "close", desc[f].dvc, 0)
      BY <1>6, <2>2 DEF DriverCall
    <3> HIDE DEF f
    <3> QED
      BY <1>2, <2>1, <3>1, <3>2, DriverCallIs
  <2>4. /\ task'[c].pc = "wait" /\ task'[c].ioq = i /\ task'[c].fd = task[c].fd
        /\ \A d \in Callers \ {c} : task'[d] = task[d]
    BY <1>6, CalledIs
  <2>5. Own(c)' = Own(c) /\ q'[i].file = Own(c)
    BY <2>3, <2>4 DEF Driven, Own
  <2>6. Good(Own(c))' /\ (OnOwn(c) => OnOwn(c)')
    BY <1>6, <2>1, <2>4, <2>5 DEF Good, OnOwn
  <2>7. Alone(c, i)
    BY <2>3, <2>4 DEF Driven, Alone
  <2>8. TableStep(c)
    <3>1. \A g \in Files : HasFd(c, g)' <=> HasFd(c, g)
      BY <1>6, <2>4, <2>5 DEF HasFd, Names
    <3> QED
      BY <1>6, <3>1 DEF TableStep, TableStays
  <2>9. Known(task[c].fd)' /\ Known(q[i].file)'
    BY <1>2, <1>6, <2>4, <2>5 DEF Known
  <2>10. desc'[Own(c).inx].dvc = desc[f].dvc /\ desc[f].dvc \in Drives
    BY <1>6, <2>1, <2>2 DEF Devices
  <2> HIDE DEF f
  <2>11. CallerInv(c)'
    BY <1>1, <1>6, <2>3, <2>5, <2>6, <2>10, DrivenWaits
  <2> QED
    BY <1>2, <1>6, <2>4, <2>7, <2>8, <2>9, <2>11, CallerMoves
<1> QED
  BY <1>3, <1>5, <1>6 DEF QioClose

(* A call with a busy IOQ spoils its status. *)
LEMMA BusyKeeps ==
  ASSUME TypeInv, TypeInv', AccountInv, NEW c \in Callers, BusyCall(c)
  PROVE  AccountInv'
<1> DEFINE i == task[c].ioq
<1>1. /\ c \in Asyncs /\ c \notin Programs /\ task[c].pc = "wait" /\ HeldOnce /\ CallerInv(c) /\ KernelInv(k)
      /\ Known(task[c].fd) /\ \A j \in Ioqs : Known(q[j].file)
  BY CallersAssumption DEF BusyCall, AccountInv, CallersInv, AllKnown, CallersAssumption
<1>2. i \in Ioqs
  BY <1>1, CallerParts
<1>3. /\ UNCHANGED <<k, desc, free, frees, pool, leaked, task>>
      /\ q'[i].file = q[i].file /\ \A j \in Ioqs \ {i} : q'[j] = q[j]
  BY <1>2 DEF BusyCall, TypeInv, Requests
<1>4. Own(c)' = Own(c)
  BY <1>3 DEF Own
<1>5. Alone(c, i)
  BY <1>1, <1>3, UndisturbedSame DEF Alone
<1>6. TableStep(c)
  <2>1. \A g \in Files : HasFd(c, g)' <=> HasFd(c, g)
    BY <1>3, <1>4 DEF HasFd, Names
  <2> QED
    BY <1>3, <2>1 DEF TableStep, TableStays
<1>7. CallerInv(c)'
  <2>1. Good(Own(c))' <=> Good(Own(c))
    BY <1>3, <1>4 DEF Good
  <2>2. (OnOwn(c)' <=> OnOwn(c)) /\ (Good(task[c].fd)' <=> Good(task[c].fd))
    BY <1>3, <1>4, <2>1 DEF OnOwn, Good
  <2>3. (Served(c) => Served(c)') /\ (Told(c) => Told(c)')
    BY <1>1, <1>3, <1>4, <2>1 DEF Served, Told
  <2>4. AsyncWait(c) => AsyncWait(c)'
    BY <1>3, <2>2 DEF AsyncWait
  <2> QED
    BY <1>1, <1>3, <2>3, <2>4 DEF CallerInv, AsyncInv
<1>8. Known(task[c].fd)' /\ Known(q[i].file)'
  BY <1>1, <1>2, <1>3 DEF Known
<1> QED
  BY <1>1, <1>2, <1>3, <1>5, <1>6, <1>7, <1>8, CallerMoves

(* Every call of the QIO layer.                                            *)
LEMMA CallKeeps ==
  ASSUME TypeInv, TypeInv', AccountInv, NEW c \in Callers, Call(c)
  PROVE  AccountInv'
<1>1. ASSUME NEW op \in Ops \ {"open", "close"}, NEW need, NEW w, OnDescriptor(c, op, need, w)
      PROVE  AccountInv'
  BY <1>1, OnDescriptorKeeps
<1>2. CASE QioRead(c) \/ QioWrite(c) \/ QioFstat(c) \/ QioIoctl(c) \/ QioIsatty(c)
  BY <1>1, <1>2 DEF QioRead, QioWrite, QioFstat, QioIoctl, QioIsatty, Ops
<1>3. CASE QioReadwpos(c) \/ QioWritewpos(c) \/ QioLseek(c)
  BY <1>1, <1>3 DEF QioReadwpos, QioWritewpos, QioLseek, Ops
<1>4. CASE QioCancel(c) \/ QioReadv(c) \/ QioWritev(c)
  BY <1>1, <1>4 DEF QioCancel, QioReadv, QioWritev, Ops
<1>5. CASE QioClose(c)
  BY <1>5, CloseKeeps
<1>6. CASE QioOpen(c) \/ QioOpenspc(c)
  <2>1. c \in Asyncs => ~Good(task[c].fd)
    <3> SUFFICES ASSUME c \in Asyncs, Good(task[c].fd) PROVE FALSE
      OBVIOUS
    <3>1. Holds(c)
      <4>1. task[c].fd \in Fds /\ task[c].fd.inx \in Files /\ task[c].fd.serial = frees[task[c].fd.inx]
        BY DEF Good, TypeInv, Tasks
      <4>2. task[c].fd # NoFd
        BY <4>1, NoFdBad
      <4>3. task[c].fd = File2Fd(task[c].fd.inx)
        BY <4>1 DEF Fds, File2Fd, Gen
      <4> QED
        BY <4>2, <4>3 DEF Holds
    <3>2. QioOpen(c) /\ task[c].todo = StatCalls
      BY <1>6, <3>1 DEF QioOpen, QioOpenspc, StatCalls
    <3>3. CallMade(c, "open")
      BY <3>2, CallIsMade DEF QioOpen, OnPath, Ops
    <3>4. task[c].todo = <<>>
      BY <3>3 DEF CallMade
    <3>5. Len(StatCalls) = 3 /\ Len(<<>>) = 0
      BY DEF StatCalls
    <3> QED
      BY <3>2, <3>4, <3>5
  <2> QED
    BY <1>6, <2>1, OnPathKeeps DEF QioOpen, QioOpenspc
<1>7. CASE QioDelete(c) \/ QioRmdir(c) \/ QioMkdir(c) \/ QioFsync(c)
  BY <1>7, OnPathKeeps DEF QioDelete, QioRmdir, QioMkdir, QioFsync
<1>8. ASSUME NEW op \in Ops \ {"open", "close", "fstat"}, Calls(c, op),
             Refused(c, op, NoFd) \/ Refused(c, op, q[task[c].ioq].file)
      PROVE  AccountInv'
  <2>1. CallMade(c, op) /\ op \in Ops
    BY <1>8, CallIsMade
  <2>2. Own(c) = q[task[c].ioq].file /\ Own(c) \in Fds /\ NoFd \in Fds
    BY <2>1, NoFdType DEF Own, CallMade
  <2> QED
    BY <1>8, <2>1, <2>2, RefusedKeeps
<1>9. CASE QioRename(c)
  <2>1. CASE Calls(c, "rename") /\ Refused(c, "rename", NoFd)
    BY <1>8, <2>1 DEF Ops
  <2>2. ASSUME NEW from \in Paths, OnPath(c, "rename", from, {}) PROVE AccountInv'
    BY <2>2, OnPathKeeps
  <2> QED
    BY <1>9, <2>1, <2>2 DEF QioRename
<1>10. CASE QioStatfs(c) \/ QioOpendir(c)
  BY <1>8, <1>10 DEF QioStatfs, QioOpendir, Ops
<1>11. CASE QioReaddir(c) \/ QioRewdir(c) \/ QioClosedir(c)
  BY <1>8, <1>11 DEF QioReaddir, QioRewdir, QioClosedir, Ops
<1>12. CASE BusyCall(c)
  BY <1>12, BusyKeeps
<1> QED
  BY <1>2, <1>3, <1>4, <1>5, <1>6, <1>7, <1>9, <1>10, <1>11, <1>12 DEF Call

-----------------------------------------------------------------------------
(* What runs at AST level.                                                 *)

(* Who is behind the IOQ at the head of the AST queue. *)
LEMMA HeadIs ==
  ASSUME TypeInv, AccountInv, k.ast # <<>>
  PROVE  LET i == Head(k.ast)
         IN  /\ i \in Ioqs /\ i \in In(k.ast)
             /\ \E c \in Callers : task[c].ioq = i /\ task[c].pc = "wait"
                                   /\ \/ Served(c) /\ k.act[i] = "ide_task"
                                      \/ Told(c) /\ k.act[i] = "user" /\ c \in Asyncs
<1> DEFINE i == Head(k.ast)
<1>1. KernelInv(k) /\ HeldOnce /\ CallersInv
  BY DEF AccountInv
<1>2. i \in Ioqs /\ i \in In(k.ast)
  BY <1>1, InTail, KernelMembers DEF KernelInv
<1> HIDE DEF i
<1>3. ~Rests(i)
  BY <1>2 DEF Rests, Still, Queued
<1>4. i \notin pool \cup leaked
  BY <1>1, <1>3 DEF HeldOnce
<1>5. PICK c \in Callers : task[c].ioq = i
  BY <1>1, <1>2, <1>4 DEF HeldOnce
<1>6. task[c].pc # "idle"
  BY <1>1, <1>2, <1>5, CallerParts
<1>7. CallerInv(c) /\ c \in Asyncs \cup Programs
  BY <1>1 DEF CallersInv, Callers
<1>8. task[c].pc = "wait" /\ (Served(c) \/ (Told(c) /\ c \in Asyncs))
  BY <1>3, <1>5, <1>6, <1>7 DEF CallerInv, AsyncInv, ProgramInv
<1>9. Served(c) => k.act[i] = "ide_task"
  BY <1>5 DEF Served, Asks, Due
<1>10. Told(c) => k.act[i] = "user"
  BY <1>5 DEF Told, Due
<1> QED
  BY <1>2, <1>5, <1>8, <1>9, <1>10 DEF i

(* The task of a drive ends the work on an IOQ, and a mutex may pass.      *)
LEMMA IdeTaskKeeps ==
  ASSUME TypeInv, TypeInv', AccountInv, k.ast # <<>>, k.act[Head(k.ast)] = "ide_task",
         NEW f, f = Fd2File(q[Head(k.ast)].file), NEW outcome,
         IdeTask(Head(k.ast), f, desc[f].dvc, outcome)
  PROVE  AccountInv'
<1> DEFINE i == Head(k.ast)
           drive == desc[f].dvc
           a == Dispatched(k)
           b == FreeMutex(a, drive, i)
<1>1. PICK c \in Callers : task[c].ioq = i /\ task[c].pc = "wait" /\ Served(c)
  BY HeadIs
<1>2. i \in Ioqs /\ i \in In(k.ast) /\ KernelInv(k) /\ HeldOnce /\ OpenOnce /\ CallerInv(c)
  BY HeadIs DEF AccountInv, CallersInv
<1>3. Good(Own(c)) /\ f = Own(c).inx /\ f \in Files /\ drive \in Mutexes /\ Own(c) = q[i].file
  <2>1. Good(Own(c)) /\ desc[Own(c).inx].dvc \in Drives
    BY <1>1 DEF Served
  <2> QED
    BY <1>1, <1>2, <2>1, GoodIsFound DEF Own, Drives
<1>4. Due(k, i, {drive}, "ide_task")
  <2>1. Asks(k, i, {}, drive, "ide_task")
    BY <1>1, <1>3 DEF Served
  <2>2. i \notin In(k.wait[drive])
    BY <1>2, <1>3 DEF KernelInv
  <2>3. {} \cup {drive} = {drive}
    OBVIOUS
  <2> QED
    BY <2>1, <2>2, <2>3 DEF Asks
<1>5. KernelInv(a) /\ Still(a, i, {drive}) /\ Others(k, a, i)
  BY <1>2, <1>4, DispatchedIs
<1>6. KernelInv(b) /\ Still(b, i, {}) /\ Others(a, b, i)
  <2>1. {drive} \ {drive} = {} /\ drive \in {drive}
    OBVIOUS
  <2> HIDE DEF a, drive, i
  <2>2. KernelInv(b) /\ Still(b, i, {drive} \ {drive}) /\ Others(a, b, i)
    BY <1>2, <1>3, <1>5, <2>1, FreeMutexIs
  <2> QED
    BY <2>1, <2>2
<1>7. /\ KernelInv(k') /\ Others(b, k', i)
      /\ c \in Asyncs => Due(k', i, {}, "user")
      /\ c \in Programs => Still(k', i, {})
  <2>1. k' = CompleteIoq(b, i)
    BY DEF IdeTask
  <2> HIDE DEF b
  <2> QED
    BY <1>1, <1>2, <1>6, <2>1, CompletedIs
<1>8. \A j \in Ioqs \ {i} : Undisturbed(k, k', j)
  BY <1>5, <1>6, <1>7, UndisturbedAgain DEF Others
<1> HIDE DEF a, b
<1>9. /\ task' = task /\ pool' = pool /\ leaked' = leaked /\ Own(c)' = q'[i].file
      /\ q'[i].file = (IF q[i].op = "close" THEN NoFd ELSE q[i].file)
      /\ q'[i].status = IdeStatus(outcome) /\ \A j \in Ioqs \ {i} : q'[j] = q[j]
  BY <1>1, <1>2 DEF IdeTask, TypeInv, Requests, Own
<1>10. q'[i].status # "pending" /\ (q[i].op = "open" => q'[i].status = "SUCC")
  <2> HIDE DEF i
  <2>1. outcome \in IdeOutcomes(q[i].op, IdePosition(q[i].op, q[i].where, host[drive]))
    BY DEF IdeTask, i
  <2>2. outcome \in {"EOF", "SUCC", "no seek", "error"} /\ (q[i].op = "open" => outcome = "SUCC")
    BY <2>1 DEF IdeOutcomes, Moves, Seeks
  <2> QED
    BY <1>9, <2>2 DEF IdeStatus
<1>11. Alone(c, i)
  BY <1>7, <1>8, <1>9 DEF Alone
<1>12. /\ TableStep(c) /\ Known(task[c].fd)' /\ Known(q[task[c].ioq].file)' /\ (OnOwn(c) => OnOwn(c)')
       /\ ~Good(task[c].fd) => ~Good(task[c].fd)'
       /\ q[i].op = "close" => OnOwn(c)'
  <2>1. CASE q[i].op = "close"
    <3>1. FreeFile(Own(c).inx) /\ q'[i].file = NoFd
      BY <1>3, <1>9, <2>1 DEF IdeTask
    <3> QED
      BY <1>1, <1>2, <1>3, <1>9, <3>1, FreeingIs
  <2>2. CASE q[i].op # "close"
    <3>1. UNCHANGED <<desc, free, frees>> /\ Own(c)' = Own(c) /\ q'[i].file = q[i].file
      BY <1>3, <1>9, <2>2 DEF IdeTask
    <3>2. \A g \in Files : HasFd(c, g)' <=> HasFd(c, g)
      BY <1>9, <3>1 DEF HasFd, Names
    <3>3. TableStep(c)
      BY <3>1, <3>2 DEF TableStep, TableStays
    <3>4. (Good(task[c].fd)' <=> Good(task[c].fd)) /\ (Good(Own(c))' <=> Good(Own(c)))
      BY <1>9, <3>1 DEF Good
    <3>5. OnOwn(c) => OnOwn(c)'
      BY <1>9, <3>1, <3>4 DEF OnOwn
    <3>6. Known(task[c].fd)' /\ Known(q[task[c].ioq].file)'
      <4>1. Known(task[c].fd) /\ Known(q[i].file) /\ task'[c].ioq = i
        BY <1>1, <1>2, <1>9 DEF AccountInv, AllKnown
      <4> QED
        BY <1>9, <3>1, <4>1 DEF Known
    <3> QED
      BY <2>2, <3>3, <3>4, <3>5, <3>6
  <2> QED
    BY <2>1, <2>2
<1>13. CallerInv(c)'
  <2>1. ASSUME c \in Asyncs PROVE AsyncInv(c)'
    <3>1. AsyncWait(c)
      BY <1>1, <1>2, <2>1 DEF CallerInv, AsyncInv
    <3>2. AsyncWait(c)'
      BY <1>9, <1>12, <3>1 DEF AsyncWait
    <3> QED
      BY <1>1, <1>7, <1>9, <2>1, <3>2 DEF AsyncInv, Told
  <2>2. ASSUME c \in Programs PROVE ProgramInv(c)'
    <3>1. ProgramWait(c) /\ q[i].status = "pending"
      BY <1>1, <1>2, <2>2 DEF CallerInv, ProgramInv, Served
    <3>2. ProgramWait(c)'
      <4>1. CASE task[c].todo = <<>> /\ (OnOwn(c) \/ q[i].op = "close")
        BY <1>9, <1>12, <4>1 DEF ProgramWait
      <4>2. CASE task[c].todo = <<"open">> /\ ~Good(task[c].fd)
        BY <1>9, <1>12, <4>2 DEF ProgramWait
      <4>3. CASE task[c].todo = StatCalls /\ q[i].op = "open"
        BY <1>1, <1>9, <1>10, <4>3 DEF ProgramWait
      <4>4. CASE task[c].todo = <<"close">>
        BY <1>9, <4>4 DEF ProgramWait
      <4> QED
        BY <1>1, <3>1, <4>1, <4>2, <4>3, <4>4 DEF ProgramWait
    <3> QED
      BY <1>1, <1>7, <1>9, <2>2, <3>2 DEF ProgramInv, Rests
  <2> QED
    BY <2>1, <2>2 DEF CallerInv
<1> HIDE DEF i
<1> QED
  BY <1>1, <1>2, <1>9, <1>11, <1>12, <1>13, CallerMoves

(* A completion routine: the IOQ is reused or given back.                  *)
LEMMA UserDoneKeeps ==
  ASSUME TypeInv, TypeInv', AccountInv, k.ast # <<>>, NEW c \in Asyncs, UserDone(Head(k.ast), c),
         k.act[Head(k.ast)] = "user"
  PROVE  AccountInv'
<1> DEFINE i == Head(k.ast)
           fd == IF task[c].todo = <<"open">> THEN q[i].file ELSE task[c].fd
<1>1. /\ c \in Callers /\ c \notin Programs /\ task[c].ioq = i /\ task[c].pc = "wait"
      /\ i \in Ioqs /\ KernelInv(k) /\ HeldOnce /\ CallerInv(c) /\ AllKnown
  BY HeadIs, CallersAssumption DEF AccountInv, CallersInv, Callers, UserDone, CallersAssumption
<1>2. Told(c) /\ AsyncWait(c) /\ Own(c) = q[i].file
  <2>1. AsyncWait(c) /\ (Served(c) \/ Told(c))
    BY <1>1 DEF CallerInv, AsyncInv
  <2>2. Served(c) => k.act[i] = "ide_task"
    BY <1>1 DEF Served, Asks, Due
  <2> QED
    BY <1>1, <2>1, <2>2 DEF Own
<1>3. KernelInv(k') /\ Still(k', i, {}) /\ Others(k, k', i)
  BY <1>1, <1>2, DispatchedIs DEF UserDone, Told
<1> HIDE DEF i, fd
<1>4. /\ UNCHANGED <<desc, free, frees, pool, leaked>>
      /\ task'[c].pc = "ready" /\ task'[c].todo = <<>> /\ task'[c].ioq = i /\ task'[c].fd = fd
      /\ \A d \in Callers \ {c} : task'[d] = task[d]
      /\ q'[i].file = q[i].file /\ \A j \in Ioqs \ {i} : q'[j] = q[j]
  <2>1. task' = [task EXCEPT ![c] = [@ EXCEPT !.pc = "ready", !.todo = <<>>, !.fd = fd]]
    BY <1>1 DEF UserDone, TypeInv, i, fd
  <2>2. q' = [q EXCEPT ![i].status = "none"] /\ UNCHANGED <<desc, free, frees, pool, leaked>>
    BY DEF UserDone, i
  <2> QED
    BY <1>1, <2>1, <2>2 DEF TypeInv, Tasks, Requests
<1>5. Own(c)' = Own(c)
  BY <1>2, <1>4 DEF Own
<1>6. Alone(c, i)
  BY <1>3, <1>4 DEF Alone, Others
<1>7. OnOwn(c)' /\ \A f \in Files : (Names(Own(c), f) \/ Names(task[c].fd, f)) <=> (Names(Own(c), f) \/ Names(fd, f))
  <2>1. CASE task[c].todo = <<>> /\ OnOwn(c)
    <3>1. <<>> # <<"open">>
      OBVIOUS
    <3> QED
      BY <1>4, <1>5, <2>1, <3>1 DEF fd, OnOwn, Good
  <2>2. CASE task[c].todo = <<"open">> /\ ~Good(task[c].fd)
    <3>1. fd = Own(c)
      BY <1>2, <2>2 DEF fd
    <3>2. \A f \in Files : ~Names(task[c].fd, f)
      BY <2>2 DEF Names, Good
    <3> QED
      BY <1>4, <1>5, <3>1, <3>2 DEF OnOwn
  <2> QED
    BY <1>2, <2>1, <2>2 DEF AsyncWait
<1>8. TableStep(c)
  <2>1. ASSUME NEW f \in Files PROVE HasFd(c, f)' <=> HasFd(c, f)
    <3>1. Names(Own(c), f)' <=> Names(Own(c), f)
      BY <1>4, <1>5 DEF Names
    <3>2. Names(task[c].fd, f)' <=> Names(fd, f)
      BY <1>4 DEF Names
    <3>3. i # Nobody
      BY <1>1, NobodyAssumption DEF NobodyAssumption
    <3> QED
      BY <1>1, <1>4, <1>7, <3>1, <3>2, <3>3 DEF HasFd
  <2> QED
    BY <1>4, <2>1 DEF TableStep, TableStays
<1>9. Known(task[c].fd)' /\ Known(q[task[c].ioq].file)'
  <2>1. Known(fd) /\ Known(q[i].file)
    BY <1>1 DEF AllKnown, fd
  <2>2. q'[task'[c].ioq].file = q[i].file /\ task'[c].fd = fd
    BY <1>4
  <2> QED
    BY <1>4, <2>1, <2>2 DEF Known
<1>10. CallerInv(c)'
  BY <1>1, <1>3, <1>4, <1>7 DEF CallerInv, AsyncInv, AsyncReady, Rests
<1> QED
  BY <1>1, <1>4, <1>6, <1>8, <1>9, <1>10, CallerMoves

(* qio_run_ast: the first of the queue runs, whatever its routine.         *)
LEMMA RunAstKeeps ==
  ASSUME TypeInv, TypeInv', AccountInv, RunAst
  PROVE  AccountInv'
<1> DEFINE i == Head(k.ast)
           f == Fd2File(q[i].file)
<1>1. k.ast # <<>>
  BY DEF RunAst
<1>2. ASSUME NEW drive \in Drives, NEW outcome \in Outcomes, desc[f].dvc = drive, k.act[i] = "ide_task",
             IdeTask(i, f, drive, outcome)
      PROVE  AccountInv'
  <2>1. IdeTask(i, f, desc[f].dvc, outcome)
    BY <1>2
  <2> QED
    BY <1>1, <1>2, <2>1, IdeTaskKeeps
<1>3. ASSUME NEW c \in Asyncs, k.act[i] = "user", UserDone(i, c)
      PROVE  AccountInv'
  BY <1>1, <1>3, UserDoneKeeps
<1> QED
  BY <1>2, <1>3 DEF RunAst

-----------------------------------------------------------------------------
(* IOQs taken and given back.                                              *)

(* What all steps that take an IOQ or give it back leave alone. *)
LEMMA CallersKeep ==
  ASSUME TypeInv, TypeInv', AccountInv, NEW c \in Callers, NEW i \in Ioqs,
         UNCHANGED <<k, desc, free, frees>>,
         \A d \in Callers \ {c} : task'[d] = task[d] /\ task[d].ioq # i,
         \A j \in Ioqs \ {i} : q'[j] = q[j],
         Known(q[i].file)', Known(task[c].fd)', CallerInv(c)',
         \A f \in Files : HasFd(c, f)' <=> HasFd(c, f)
  PROVE  KernelInv(k)' /\ OpenOnce' /\ AllKnown' /\ CallersInv'
<1>1. HeldOnce /\ AllKnown /\ OpenOnce /\ CallersInv /\ KernelInv(k)
  BY DEF AccountInv
<1>2. ASSUME NEW d \in Callers \ {c}
      PROVE  CallerInv(d)' /\ Known(task[d].fd)' /\ \A f \in Files : HasFd(d, f)' <=> HasFd(d, f)
  <2>1. task'[d] = task[d] /\ CallerInv(d)
    BY <1>1 DEF CallersInv
  <2>2. task[d].ioq \in Ioqs => q'[task[d].ioq] = q[task[d].ioq] /\ Undisturbed(k, k', task[d].ioq)
    BY UndisturbedSame
  <2>3. \A f \in Files : frees'[f] >= frees[f] /\ (HasFd(d, f) => frees'[f] = frees[f] /\ desc'[f] = desc[f])
    BY DEF TypeInv
  <2> QED
    BY <1>1, <2>1, <2>2, <2>3, OtherCaller
<1>3. TableStep(c)
  BY DEF TableStep, TableStays
<1>4. OpenOnce'
  BY <1>1, <1>2, <1>3, OpenOnceKept
<1>5. AllKnown'
  <2>1. ASSUME NEW j \in Ioqs, j # i PROVE Known(q[j].file)'
    BY <1>1, <2>1 DEF Known, AllKnown
  <2> QED
    BY <1>2, <2>1 DEF AllKnown
<1> QED
  BY <1>1, <1>2, <1>4, <1>5 DEF CallersInv

(* qio_getioq: an IOQ moves from the pool to an idle caller.               *)
LEMMA TakeIoqKeeps ==
  ASSUME TypeInv, TypeInv', AccountInv, NEW c \in Callers, NEW todo,
         task[c].pc = "idle", TakeIoq(c, todo), UNCHANGED <<k, desc, free, frees, leaked, host>>,
         c \in Asyncs => todo = <<>>,
         c \in Programs => \/ \E op \in Ops : todo = <<op>> /\ (op = "open" => ~Good(task[c].fd))
                           \/ todo = StatCalls
  PROVE  AccountInv'
<1> DEFINE i == Getioq
<1>1. HeldOnce /\ AllKnown /\ i \in pool /\ i \in Ioqs /\ task[c].ioq = Nobody /\ Rests(i) /\ i # Nobody
  BY NobodyAssumption DEF AccountInv, HeldOnce, TakeIoq, Getioq, TypeInv, NobodyAssumption
<1> HIDE DEF i
<1>2. /\ q'[i].file = task[c].fd /\ \A j \in Ioqs \ {i} : q'[j] = q[j]
      /\ pool' = pool \ {i}
      /\ task'[c].pc = "ready" /\ task'[c].ioq = i /\ task'[c].todo = todo /\ task'[c].fd = task[c].fd
      /\ \A d \in Callers \ {c} : task'[d] = task[d]
  BY <1>1 DEF TakeIoq, TypeInv, Requests, Tasks, i
<1>3. Own(c)' = task[c].fd
  BY <1>2 DEF Own
<1>4. \A d \in Callers : task[d].ioq # i
  BY <1>1 DEF HeldOnce
<1>5. OnOwn(c)'
  BY <1>2, <1>3 DEF OnOwn
<1>6. Rests(task[c].ioq)'
  BY <1>1, <1>2 DEF Rests
<1>7. CallerInv(c)'
  <2>1. c \in Asyncs => AsyncInv(c)'
    BY <1>2, <1>5, <1>6 DEF AsyncInv, AsyncReady
  <2>2. ASSUME c \in Programs PROVE ProgramInv(c)'
    <3>1. Good(task[c].fd)' <=> Good(task[c].fd)
      BY <1>2 DEF Good
    <3>2. ProgramReady(c)'
      BY <1>2, <1>5, <2>2, <3>1 DEF ProgramReady
    <3> QED
      BY <1>2, <1>6, <3>2 DEF ProgramInv
  <2> QED
    BY <2>1, <2>2 DEF CallerInv
<1>8. \A f \in Files : HasFd(c, f)' <=> HasFd(c, f)
  BY <1>1, <1>2, <1>3 DEF HasFd, Names
<1>9. Known(task[c].fd)'
  <2>1. Known(task[c].fd)
    BY <1>1 DEF AllKnown
  <2> QED
    BY <1>2, <2>1 DEF Known
<1>10. \A j \in Ioqs : j = i => Known(q[j].file)'
  <2> SUFFICES ASSUME NEW j \in Ioqs, j = i PROVE Known(q[j].file)'
    OBVIOUS
  <2>1. q'[j].file = task[c].fd /\ Known(task[c].fd)
    BY <1>1, <1>2 DEF AllKnown
  <2> QED
    BY <2>1 DEF Known
<1>11. PICK j \in Ioqs : j = i
  BY <1>1
<1>12. KernelInv(k)' /\ OpenOnce' /\ AllKnown' /\ CallersInv'
  BY <1>2, <1>4, <1>7, <1>8, <1>9, <1>10, <1>11, CallersKeep
<1>13. HeldOnce'
  <2>1. \A l \in pool \cup leaked : Rests(l)'
    BY <1>1 DEF HeldOnce, Rests
  <2>2. \A d \in Callers : task'[d].ioq = (IF d = c THEN i ELSE task[d].ioq)
    BY <1>2
  <2>3. \A d \in Callers : task'[d].pc = "idle" <=> task'[d].ioq = Nobody
    BY <1>1, <1>2 DEF HeldOnce
  <2>4. \A d, e \in Callers : task'[d].ioq # Nobody /\ task'[e].ioq = task'[d].ioq => d = e
    BY <1>1, <1>4, <2>2 DEF HeldOnce
  <2>5. pool' \cap leaked' = {} /\ \A d \in Callers : task'[d].ioq \notin pool' \cup leaked'
    BY <1>1, <1>2, <2>2 DEF HeldOnce
  <2>6. \A l \in Ioqs \ (pool' \cup leaked') : \E d \in Callers : task'[d].ioq = l
    <3> SUFFICES ASSUME NEW l \in Ioqs \ (pool' \cup leaked') PROVE \E d \in Callers : task'[d].ioq = l
      OBVIOUS
    <3>1. CASE l = i
      BY <1>2, <3>1
    <3>2. CASE l # i
      <4>1. PICK d \in Callers : task[d].ioq = l
        BY <1>1, <1>2, <3>2 DEF HeldOnce
      <4>2. l # Nobody
        BY NobodyAssumption DEF NobodyAssumption
      <4>3. d # c
        BY <1>1, <4>1, <4>2
      <4> QED
        BY <2>2, <4>1, <4>3
    <3> QED
      BY <3>1, <3>2
  <2> QED
    BY <1>2, <2>1, <2>3, <2>4, <2>5, <2>6 DEF HeldOnce
<1> QED
  BY <1>12, <1>13 DEF AccountInv

(* The IOQ that is given back is at rest, and no descriptor is lost with it. *)
LEMMA GiveIoqKeeps ==
  ASSUME TypeInv, TypeInv', AccountInv, NEW c \in Callers, NEW fd \in Fds, task[c].ioq \in Ioqs,
         GiveIoq(c, fd), UNCHANGED <<k, desc, free, frees, leaked, host>>, Rests(task[c].ioq), Known(fd),
         \A f \in Files : Names(fd, f) <=> Names(task[c].fd, f) \/ Names(Own(c), f)
  PROVE  AccountInv'
<1>1. HeldOnce /\ AllKnown
  BY DEF AccountInv
<1>2. PICK i \in Ioqs : i = task[c].ioq
  OBVIOUS
<1>3. i # Nobody
  BY NobodyAssumption DEF NobodyAssumption
<1>4. /\ q'[i].file = NoFd /\ \A j \in Ioqs \ {i} : q'[j] = q[j]
      /\ pool' = pool \cup {i}
      /\ task'[c].pc = "idle" /\ task'[c].ioq = Nobody /\ task'[c].fd = fd
      /\ \A d \in Callers \ {c} : task'[d] = task[d]
  BY <1>2 DEF GiveIoq, TypeInv, Cleared, Idle
<1>5. \A d \in Callers \ {c} : task[d].ioq # i
  BY <1>1, <1>2, <1>3 DEF HeldOnce
<1>6. CallerInv(c)'
  BY <1>4 DEF CallerInv, AsyncInv, ProgramInv
<1>7. \A f \in Files : HasFd(c, f)' <=> HasFd(c, f)
  BY <1>2, <1>3, <1>4 DEF HasFd, Names
<1>8. Known(task[c].fd)' /\ Known(q[i].file)'
  BY <1>4 DEF Known
<1>9. KernelInv(k)' /\ OpenOnce' /\ AllKnown' /\ CallersInv'
  BY <1>4, <1>5, <1>6, <1>7, <1>8, CallersKeep
<1>10. HeldOnce'
  <2>1. \A l \in pool \cup leaked : Rests(l)'
    BY <1>1 DEF HeldOnce, Rests
  <2>2. \A d \in Callers : task'[d].ioq = (IF d = c THEN Nobody ELSE task[d].ioq)
    BY <1>4
  <2>3. \A d \in Callers : task'[d].pc = "idle" <=> task'[d].ioq = Nobody
    BY <1>1, <1>4 DEF HeldOnce
  <2>4. \A d, e \in Callers : task'[d].ioq # Nobody /\ task'[e].ioq = task'[d].ioq => d = e
    BY <1>1, <2>2 DEF HeldOnce
  <2>5. pool' \cap leaked' = {}
    BY <1>1, <1>2, <1>4 DEF HeldOnce
  <2>6. ASSUME NEW d \in Callers PROVE task'[d].ioq \notin pool' \cup leaked'
    <3>1. Nobody \notin pool' \cup leaked'
      BY NobodyAssumption DEF NobodyAssumption, TypeInv
    <3> QED
      BY <1>1, <1>4, <1>5, <2>2, <3>1 DEF HeldOnce
  <2>7. \A l \in Ioqs \ (pool' \cup leaked') : \E d \in Callers : task'[d].ioq = l
    BY <1>1, <1>2, <1>4, <2>2 DEF HeldOnce
  <2>8. Rests(i)' /\ leaked' = leaked
    BY <1>2 DEF Rests
  <2> QED
    BY <1>4, <2>1, <2>3, <2>4, <2>5, <2>6, <2>7, <2>8 DEF HeldOnce
<1> QED
  BY <1>9, <1>10 DEF AccountInv

(* The steps of a caller with completion routines.                         *)
LEMMA AsyncKeeps ==
  ASSUME TypeInv, TypeInv', AccountInv, NEW c \in Asyncs, AtAstLevel(c)
  PROVE  AccountInv'
<1>1. c \in Callers /\ c \notin Programs /\ HeldOnce /\ AllKnown /\ CallerInv(c) /\ task[c].fd \in Fds
  BY CallersAssumption DEF CallersAssumption, Callers, AccountInv, CallersInv, TypeInv, Tasks
<1>2. CASE AsyncGetioq(c)
  BY <1>1, <1>2, TakeIoqKeeps DEF AsyncGetioq
<1>3. CASE AsyncFreeioq(c)
  <2>1. task[c].pc = "ready" /\ task[c].ioq \in Ioqs /\ OnOwn(c) /\ Rests(task[c].ioq)
    BY <1>1, <1>3, CallerParts DEF AsyncFreeioq, CallerInv, AsyncInv, AsyncReady
  <2>2. \A f \in Files : Names(task[c].fd, f) <=> Names(task[c].fd, f) \/ Names(Own(c), f)
    BY <2>1 DEF OnOwn, Good, Names
  <2>3. Known(task[c].fd)
    BY <1>1 DEF AllKnown
  <2>4. GiveIoq(c, task[c].fd) /\ UNCHANGED <<k, desc, free, frees, leaked, host>>
    BY <1>3 DEF AsyncFreeioq
  <2> QED
    BY <1>1, <2>1, <2>2, <2>3, <2>4, GiveIoqKeeps
<1> QED
  BY <1>2, <1>3 DEF AtAstLevel

(* A shim takes an IOQ for its calls.                                      *)
LEMMA ShimKeeps ==
  ASSUME TypeInv, TypeInv', AccountInv, NEW c \in Programs, NEW calls, Shim(c, calls),
         \/ \E op \in Ops : calls = <<op>> /\ (op = "open" => ~Holds(c))
         \/ calls = StatCalls
  PROVE  AccountInv'
<1>1. c \in Callers /\ c \notin Asyncs
  BY CallersAssumption DEF CallersAssumption, Callers
<1>2. ~Holds(c) => ~Good(task[c].fd)
  <2> SUFFICES ASSUME Good(task[c].fd) PROVE Holds(c)
    OBVIOUS
  <2>1. task[c].fd \in Fds /\ task[c].fd.inx \in Files /\ task[c].fd.serial = frees[task[c].fd.inx]
    BY <1>1 DEF Good, TypeInv, Tasks
  <2>2. task[c].fd # NoFd
    BY <2>1, NoFdBad
  <2>3. task[c].fd = File2Fd(task[c].fd.inx)
    BY <2>1 DEF Fds, File2Fd, Gen
  <2> QED
    BY <2>2, <2>3 DEF Holds
<1>3. task[c].pc = "idle" /\ TakeIoq(c, calls) /\ UNCHANGED <<k, desc, free, frees, leaked, host>>
  BY DEF Shim
<1> QED
  BY <1>1, <1>2, <1>3, TakeIoqKeeps

(* The mkdir shim never gives its IOQ back.                                *)
LEMMA MkdirKeeps ==
  ASSUME TypeInv, TypeInv', AccountInv, NEW c \in Programs, Mkdir(c)
  PROVE  AccountInv'
<1>1. CASE Shim(c, <<"mkdir">>)
  BY <1>1, ShimKeeps DEF Ops
<1>2. CASE /\ pool # {}
           /\ leaked' = leaked \cup {Getioq}
           /\ pool' = pool \ {Getioq}
           /\ UNCHANGED <<k, desc, free, frees, q, host, task>>
  <2>1. Getioq \in pool
    BY <1>2 DEF Getioq
  <2>2. pool' \cup leaked' = pool \cup leaked /\ pool' \cap leaked' = (pool \cap leaked) \cup ({Getioq} \ pool)
    BY <1>2, <2>1 DEF AccountInv, HeldOnce
  <2>3. HeldOnce'
    BY <1>2, <2>1, <2>2 DEF AccountInv, HeldOnce, Rests
  <2>4. OpenOnce' /\ AllKnown'
    BY <1>2 DEF AccountInv, OpenOnce, AllKnown, HasFd, Names, Own, Known
  <2>5. CallersInv'
    <3> SUFFICES ASSUME NEW d \in Callers PROVE CallerInv(d)'
      BY DEF CallersInv
    <3>1. CallerInv(d) /\ HeldOnce /\ AllKnown
      BY DEF AccountInv, CallersInv
    <3>2. task'[d] = task[d] /\ q'[task[d].ioq] = q[task[d].ioq] /\ Undisturbed(k, k', task[d].ioq)
      BY <1>2, UndisturbedSame
    <3>3. \A f \in Files : frees'[f] >= frees[f] /\ frees'[f] = frees[f] /\ desc'[f] = desc[f]
      BY <1>2 DEF TypeInv
    <3> QED
      BY <3>1, <3>2, <3>3, OtherCaller
  <2> QED
    BY <1>2, <2>3, <2>4, <2>5 DEF AccountInv
<1> QED
  BY <1>1, <1>2 DEF Mkdir

(* A program that returns has had its answer: its IOQ is at rest. *)
LEMMA ReturnKeeps ==
  ASSUME TypeInv, TypeInv', AccountInv, NEW c \in Programs, Return(c)
  PROVE  AccountInv'
<1> DEFINE t == task[c]
           r == q[t.ioq]
           opened == t.todo # <<>> /\ Head(t.todo) = "open"
           left == IF ~opened THEN t.todo ELSE IF q[t.ioq].status = "SUCC" THEN Tail(t.todo) ELSE <<>>
           fd == IF t.todo = <<"open">> THEN q[t.ioq].file ELSE t.fd
<1>1. /\ c \in Callers /\ c \notin Asyncs /\ HeldOnce /\ AllKnown /\ CallerInv(c) /\ KernelInv(k)
      /\ t.pc = "wait" /\ r.status # "pending" /\ UNCHANGED <<k, desc, free, frees, leaked, host>>
  BY CallersAssumption DEF CallersAssumption, Callers, AccountInv, CallersInv, Return
<1>2. t.ioq \in Ioqs /\ t.fd \in Fds /\ Own(c) \in Fds /\ Own(c) = r.file
  BY <1>1, CallerParts DEF Own
<1>3. ProgramWait(c) /\ Rests(t.ioq) /\ Known(t.fd) /\ Known(Own(c))
  BY <1>1, <1>2 DEF CallerInv, ProgramInv, Served, AllKnown, Own
<1>4. fd \in Fds /\ Known(fd)
  BY <1>2, <1>3
<1>5. Len(<<>>) = 0 /\ Len(<<"open">>) = 1 /\ Len(<<"close">>) = 1 /\ Len(StatCalls) = 3
  BY DEF StatCalls
<1>6. /\ Head(<<"open">>) = "open" /\ Head(<<"close">>) = "close" /\ Head(StatCalls) = "open"
      /\ Tail(<<"open">>) = <<>>
  BY DEF StatCalls
<1>7. left = <<>> => \A f \in Files : Names(fd, f) <=> Names(t.fd, f) \/ Names(Own(c), f)
  <2> SUFFICES ASSUME left = <<>>, NEW f \in Files PROVE Names(fd, f) <=> Names(t.fd, f) \/ Names(Own(c), f)
    OBVIOUS
  <2>1. CASE t.todo = <<>> /\ OnOwn(c)
    BY <1>5, <2>1 DEF OnOwn, Good, Names
  <2>2. CASE t.todo = <<"open">> /\ ~Good(t.fd)
    BY <1>2, <2>2 DEF Good, Names
  <2>3. CASE t.todo = StatCalls /\ (r.status \notin {"pending", "SUCC"} => OnOwn(c))
    <3>1. Tail(StatCalls) # <<>>
      BY DEF StatCalls
    <3>2. r.status # "SUCC"
      BY <1>5, <1>6, <2>3, <3>1
    <3>3. OnOwn(c) /\ fd = t.fd
      BY <1>1, <1>5, <2>3, <3>2
    <3> QED
      BY <3>3 DEF OnOwn, Good, Names
  <2>4. CASE t.todo = <<"close">>
    BY <1>5, <1>6, <2>4
  <2> QED
    BY <1>1, <1>3, <2>1, <2>2, <2>3, <2>4 DEF ProgramWait
<1>8. left # <<>> => left = Tail(StatCalls) \/ left = <<"close">>
  <2>1. CASE t.todo = <<>>
    BY <2>1
  <2>2. CASE t.todo = <<"open">>
    BY <1>5, <1>6, <2>2
  <2>3. CASE t.todo = StatCalls
    BY <1>5, <1>6, <2>3
  <2>4. CASE t.todo = <<"close">>
    BY <1>5, <1>6, <2>4
  <2> QED
    BY <1>3, <2>1, <2>2, <2>3, <2>4 DEF ProgramWait
<1>9. \/ left # <<>> /\ task' = [task EXCEPT ![c].pc = "ready", ![c].todo = left] /\ UNCHANGED <<pool, q>>
      \/ left = <<>> /\ GiveIoq(c, fd)
  BY DEF Return
<1> HIDE DEF left, fd
<1>10. CASE left # <<>> /\ task' = [task EXCEPT ![c].pc = "ready", ![c].todo = left] /\ UNCHANGED <<pool, q>>
  <2>1. /\ task'[c].pc = "ready" /\ task'[c].todo = left /\ task'[c].ioq = t.ioq /\ task'[c].fd = t.fd
        /\ \A d \in Callers \ {c} : task'[d] = task[d]
    BY <1>1, <1>10 DEF TypeInv, Tasks
  <2>2. Own(c)' = Own(c)
    BY <1>10, <2>1 DEF Own
  <2>3. Alone(c, t.ioq)
    BY <1>1, <1>10, <2>1, UndisturbedSame DEF Alone
  <2>4. TableStep(c)
    <3>1. \A f \in Files : HasFd(c, f)' <=> HasFd(c, f)
      BY <1>1, <2>1, <2>2 DEF HasFd, Names
    <3> QED
      BY <1>1, <3>1 DEF TableStep, TableStays
  <2>5. Known(task[c].fd)' /\ Known(q[task[c].ioq].file)'
    BY <1>1, <1>2, <1>3, <1>10, <2>1 DEF Known
  <2>6. CallerInv(c)'
    <3>1. ProgramReady(c)'
      <4>1. CASE left = Tail(StatCalls)
        BY <2>1, <4>1 DEF ProgramReady
      <4>2. CASE left = <<"close">>
        BY <2>1, <4>2 DEF ProgramReady, Ops
      <4> QED
        BY <1>8, <1>10, <4>1, <4>2
    <3>2. Rests(task[c].ioq)'
      BY <1>1, <1>3, <2>1 DEF Rests
    <3> QED
      BY <1>1, <2>1, <3>1, <3>2 DEF CallerInv, ProgramInv
  <2>7. leaked' = leaked /\ pool' = pool /\ task'[c].pc # "idle"
    BY <1>1, <1>10, <2>1
  <2> QED
    BY <1>1, <1>2, <2>1, <2>3, <2>4, <2>5, <2>6, <2>7, CallerMoves
<1>11. CASE left = <<>> /\ GiveIoq(c, fd)
  BY <1>1, <1>2, <1>3, <1>4, <1>7, <1>11, GiveIoqKeeps
<1> QED
  BY <1>9, <1>10, <1>11

(* The steps of a program, which calls the shims and waits.                *)
LEMMA ProgramKeeps ==
  ASSUME TypeInv, TypeInv', AccountInv, NEW c \in Programs, AtBaseLevel(c)
  PROVE  AccountInv'
<1>1. CASE Mkdir(c)
  BY <1>1, MkdirKeeps
<1>2. CASE Return(c)
  BY <1>2, ReturnKeeps
<1>3. CASE Stat(c)
  BY <1>3, ShimKeeps DEF Stat, StatCalls
<1>4. CASE \E op \in Ops \ {"open"} : Shim(c, <<op>>)
  BY <1>4, ShimKeeps
<1>5. CASE Open(c)
  <2>1. "open" \in Ops
    BY DEF Ops
  <2> QED
    BY <1>5, <2>1, ShimKeeps DEF Open
<1>6. Unlink(c) \/ Rmdir(c) \/ Rename(c) \/ Close(c) \/ Lseek(c) => \E op \in Ops \ {"open"} : Shim(c, <<op>>)
  BY DEF Unlink, Rmdir, Rename, Close, Lseek, Ops
<1>7. Read(c) \/ Write(c) \/ Ioctl(c) \/ Fstat(c) \/ Statfs(c) \/ Fstatfs(c) => \E op \in Ops \ {"open"} : Shim(c, <<op>>)
  BY DEF Read, Write, Ioctl, Fstat, Statfs, Fstatfs, Ops
<1>8. Isatty(c) \/ Readv(c) \/ Writev(c) => \E op \in Ops \ {"open"} : Shim(c, <<op>>)
  BY DEF Isatty, Readv, Writev, Ops
<1> QED
  BY <1>1, <1>2, <1>3, <1>4, <1>5, <1>6, <1>7, <1>8 DEF AtBaseLevel

-----------------------------------------------------------------------------
(* The theorems.                                                           *)

(* All IOQs are in the pool and no descriptor is out.                      *)
LEMMA AccountInit == Init => AccountInv
<1> SUFFICES ASSUME Init PROVE AccountInv
  OBVIOUS
<1>1. In(<<>>) = {}
  BY DEF In
<1>2. \A i \in Ioqs : Rests(i)
  <2> SUFFICES ASSUME NEW i \in Ioqs PROVE Still(k, i, {})
    BY DEF Rests
  <2>1. ~Queued(k, i)
    BY <1>1 DEF Init, IdleKernel, Queued
  <2>2. Held(k, i) = {}
    BY NobodyAssumption DEF Init, IdleKernel, Held, NobodyAssumption
  <2>3. k.act[i] = "none"
    BY DEF Init, IdleKernel
  <2> QED
    BY <2>1, <2>2, <2>3 DEF Still
<1>3. KernelInv(k)
  <2>1. k \in Kernel
    BY TypeInit DEF TypeInv
  <2>2. IsInjective(<<>>)
    BY DEF IsInjective
  <2>3. k.ast = <<>> /\ \A m \in Mutexes : k.wait[m] = <<>>
    BY DEF Init, IdleKernel
  <2> QED
    BY <1>1, <2>1, <2>2, <2>3 DEF KernelInv
<1>4. HeldOnce
  BY <1>2, NobodyAssumption DEF Init, HeldOnce, Idle, NobodyAssumption
<1>5. OpenOnce
  BY NoFdBad DEF Init, OpenOnce, HasFd, Names, Idle
<1>6. AllKnown /\ CallersInv
  BY DEF Init, AllKnown, Known, CallersInv, CallerInv, AsyncInv, ProgramInv, Idle, Cleared
<1> QED
  BY <1>3, <1>4, <1>5, <1>6 DEF AccountInv

(* The accounts are inductive relative to the types.                       *)
LEMMA AccountStep ==
  ASSUME TypeInv, AccountInv, [Next]_vars
  PROVE  AccountInv'
<1>1. TypeInv'
  BY NextStep DEF Step
<1>2. CASE RunAst
  BY <1>1, <1>2, RunAstKeeps
<1>3. CASE \E c \in Callers : Call(c)
  BY <1>1, <1>3, CallKeeps
<1>4. CASE \E c \in Asyncs : AtAstLevel(c)
  BY <1>1, <1>4, AsyncKeeps
<1>5. CASE \E c \in Programs : AtBaseLevel(c)
  BY <1>1, <1>5, ProgramKeeps
<1>6. CASE UNCHANGED vars
  <2>1. KernelInv(k)' /\ HeldOnce'
    BY <1>6 DEF vars, AccountInv, HeldOnce, Rests
  <2>2. OpenOnce' /\ AllKnown'
    BY <1>6 DEF vars, AccountInv, OpenOnce, AllKnown, HasFd, Names, Own, Known
  <2>3. CallersInv'
    <3> SUFFICES ASSUME NEW d \in Callers PROVE CallerInv(d)'
      BY DEF CallersInv
    <3>1. CallerInv(d) /\ HeldOnce /\ AllKnown
      BY DEF AccountInv, CallersInv
    <3>2. task'[d] = task[d] /\ q'[task[d].ioq] = q[task[d].ioq] /\ Undisturbed(k, k', task[d].ioq)
      BY <1>6, UndisturbedSame DEF vars
    <3>3. \A f \in Files : frees'[f] >= frees[f] /\ frees'[f] = frees[f] /\ desc'[f] = desc[f]
      BY <1>6 DEF vars, TypeInv
    <3> QED
      BY <1>1, <3>1, <3>2, <3>3, OtherCaller
  <2> QED
    BY <2>1, <2>2, <2>3 DEF AccountInv
<1> QED
  BY <1>2, <1>3, <1>4, <1>5, <1>6 DEF Next

(* So they hold in every reachable state.                                  *)
LEMMA AccountsHold == Spec => [](TypeInv /\ AccountInv)
<1>1. TypeInv /\ AccountInv /\ [Next]_vars => (TypeInv /\ AccountInv)'
  BY NextStep, AccountStep DEF Step
<1> QED
  BY <1>1, TypeInit, AccountInit, PTL DEF Spec

(* Every table entry is in the free list or open for exactly one caller:   *)
(* none is lost, on whatever path a call fails, and none is given out twice *)
(* (qio_getfile, qio_freefile and the calls of src/qio.c between them).    *)
THEOREM FdsSafe == Spec => []FdsAccounted
<1>1. TypeInv /\ AccountInv => FdsAccounted
  <2> SUFFICES ASSUME TypeInv, AccountInv, NEW f \in Files
               PROVE  IF f \in free THEN \A c \in Callers : ~Owns(c, f)
                      ELSE Cardinality({c \in Callers : Owns(c, f)}) = 1
    BY DEF FdsAccounted
  <2>1. HeldOnce /\ OpenOnce
    BY DEF AccountInv
  <2>2. ASSUME NEW fd \in Fds PROVE fd = File2Fd(f) <=> Names(fd, f)
    BY <2>2 DEF Fds, File2Fd, Gen, Names
  <2>3. ASSUME NEW c \in Callers PROVE Owns(c, f) <=> HasFd(c, f)
    <3>1. task[c].fd \in Fds /\ (task[c].ioq # Nobody => Own(c) \in Fds) /\ f # NoFd.inx
      BY <2>1, CallerParts, NoFdBad
    <3>2. Holds(c) /\ task[c].fd.inx = f <=> task[c].fd = File2Fd(f)
      <4>1. File2Fd(f).inx = f
        BY DEF File2Fd
      <4> QED
        BY <3>1, <4>1 DEF Holds
    <3> QED
      BY <2>2, <3>1, <3>2 DEF Owns, HasFd, Own
  <2>4. CASE f \in free
    BY <2>1, <2>3, <2>4 DEF OpenOnce
  <2>5. CASE f \notin free
    <3>1. PICK e \in Callers : \A d \in Callers : HasFd(d, f) <=> d = e
      BY <2>1, <2>5 DEF OpenOnce
    <3>2. {c \in Callers : Owns(c, f)} = {e}
      BY <2>3, <3>1
    <3> QED
      BY <2>5, <3>2, FS_Singleton
  <2> QED
    BY <2>4, <2>5
<1> QED
  BY <1>1, AccountsHold, PTL

(* Every IOQ is in the pool, held by one caller or lost by mkdir, and one   *)
(* that is not held is on no queue and holds no mutex (qio_getioq,         *)
(* qio_freeioq and the shims of src/qio.c).                                *)
THEOREM IoqsSafe == Spec => []IoqsAccounted
<1>1. TypeInv /\ AccountInv => IoqsAccounted
  <2> SUFFICES ASSUME TypeInv, AccountInv PROVE IoqsAccounted
    OBVIOUS
  <2> DEFINE held == {task[c].ioq : c \in Callers} \ {Nobody}
             busy == {c \in Callers : task[c].ioq # Nobody}
  <2>1. HeldOnce
    BY DEF AccountInv
  <2>2. Cardinality(held) = Cardinality(busy)
    <3> DEFINE g == [c \in busy |-> task[c].ioq]
    <3>1. g \in [busy -> held]
      OBVIOUS
    <3>2. \A c, d \in busy : g[c] = g[d] => c = d
      BY <2>1 DEF HeldOnce
    <3>3. \A h \in held : \E c \in busy : g[c] = h
      OBVIOUS
    <3>4. g \in Bijection(busy, held)
      BY <3>1, <3>2, <3>3 DEF Bijection, Injection, Surjection, IsInjective
    <3>5. IsFiniteSet(busy)
      BY CallersAssumption, FS_Subset DEF CallersAssumption, Callers
    <3>6. ExistsBijection(busy, held)
      BY <3>4 DEF ExistsBijection
    <3> QED
      BY <3>5, <3>6, FS_Bijection
  <2>3. pool \cap held = {} /\ leaked \cap (pool \cup held) = {}
    BY <2>1 DEF HeldOnce
  <2>4. pool \cup held \cup leaked = Ioqs
    <3>1. held \subseteq Ioqs /\ pool \subseteq Ioqs /\ leaked \subseteq Ioqs
      BY DEF TypeInv, Tasks
    <3>2. Ioqs \subseteq pool \cup held \cup leaked
      BY <2>1, NobodyAssumption DEF HeldOnce, NobodyAssumption
    <3> QED
      BY <3>1, <3>2
  <2>5. \A i \in pool \cup leaked : ~Queued(k, i) /\ \A d \in Drives : k.cur[d] # i
    BY <2>1 DEF HeldOnce, Rests, Still, Held, Drives
  <2> QED
    BY <2>2, <2>3, <2>4, <2>5 DEF IoqsAccounted
<1> QED
  BY <1>1, AccountsHold, PTL
=============================================================================
