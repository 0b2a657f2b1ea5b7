------------------------------ MODULE QioKernel -----------------------------
(***************************************************************************)
(* What every queued request goes through: the AST queue of the shell      *)
(* (prc_q_ast, src/afsys.c) and the mutexes and completions of src/qio.c,  *)
(* as operators on a kernel record                                         *)
(*    ast   the IOQs queued for AST level, oldest first                    *)
(*    act   ioq->aq.action, what runs when the IOQ is taken off the queue  *)
(*    cur   mutex->current, the IOQ that holds the mutex, or Nobody        *)
(*    wait  mutex->waiting .. mutex->tail, oldest first                    *)
(* aq.que, the busy mark of an IOQ, is not kept: it is set exactly while   *)
(* the IOQ is in one of the queues.                                        *)
(***************************************************************************)
EXTENDS Sequences, Naturals

CONSTANTS
  Ioqs,     \* QioIOQ structs
  Mutexes,  \* QioMutex structs
  Nobody    \* a null pointer

ASSUME NobodyAssumption == Nobody \notin Ioqs

In(s) == {s[n] : n \in DOMAIN s}

\* What runs at AST level: the driver's task, the functions of the file system, the
\* caller's completion routine.
Actions == {"none", "user", "ide_task", "readwpos_q", "readbws_q", "read_q", "qread", "read_done",
            "write_q", "qwrite", "write_done", "lseek_q", "cancel_done", "closeq", "close_upd", "vol_op"}

Kernel == [ast : Seq(Ioqs), act : [Ioqs -> Actions],
           cur : [Mutexes -> Ioqs \cup {Nobody}], wait : [Mutexes -> Seq(Ioqs)]]

IdleKernel == [ast |-> <<>>, act |-> [i \in Ioqs |-> "none"],
               cur |-> [m \in Mutexes |-> Nobody], wait |-> [m \in Mutexes |-> <<>>]]

Queued(k, i) == i \in In(k.ast) \/ \E m \in Mutexes : i \in In(k.wait[m])

\* An IOQ that is on a queue already is refused and stays where it is.
QueueAst(k, i) == IF Queued(k, i) THEN k ELSE [k EXCEPT !.ast = Append(@, i)]

\* The action is overwritten even when the IOQ cannot be queued.
Complete(k, i, func) == QueueAst([k EXCEPT !.act[i] = func], i)

GetMutexStatus(k, m, i) ==
  CASE Queued(k, i) -> "BUSY"
    [] ~Queued(k, i) /\ k.cur[m] = i -> "NESTED"
    [] OTHER -> "OK"

\* Mutant: the newcomer is served first.
ClaimMutex_Lifo(k, m, i, func) ==
  IF k.cur[m] = Nobody
  THEN [k EXCEPT !.cur[m] = i, !.act[i] = func, !.ast = Append(@, i)]
  ELSE [k EXCEPT !.act[i] = func, !.wait[m] = <<i>> \o @]

ClaimMutex(k, m, i, func) ==
  IF k.cur[m] = Nobody
  THEN [k EXCEPT !.cur[m] = i, !.act[i] = func, !.ast = Append(@, i)]
  ELSE [k EXCEPT !.act[i] = func, !.wait[m] = Append(@, i)]

GetMutex(k, m, i, func) ==
  IF GetMutexStatus(k, m, i) = "OK" THEN ClaimMutex(k, m, i, func) ELSE k

\* Mutant: the waiter gets the mutex and its function is not queued.
HandOver_Unqueued(k, m) ==
  [k EXCEPT !.cur[m] = Head(k.wait[m]), !.wait[m] = Tail(@)]

\* The first waiter owns the mutex from here on, before its function has run.
HandOver(k, m) ==
  [k EXCEPT !.cur[m] = Head(k.wait[m]), !.wait[m] = Tail(@), !.ast = Append(@, Head(k.wait[m]))]

FreeMutex(k, m, i) ==
  IF i = Nobody \/ k.cur[m] # i THEN k
  ELSE IF k.wait[m] = <<>> THEN [k EXCEPT !.cur[m] = Nobody] ELSE HandOver(k, m)

\* fp->mutex.current = ...: what readbws_q and read_q do by hand.
PassMutex(k, m, i) == [k EXCEPT !.cur[m] = i]

\* The dispatch loop of prc_q_ast takes the oldest IOQ before it runs its action.
Dispatched(k) == [k EXCEPT !.act[Head(k.ast)] = "none", !.ast = Tail(@)]
=============================================================================
