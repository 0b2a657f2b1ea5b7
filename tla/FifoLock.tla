------------------------------ MODULE FifoLock ------------------------------
(***************************************************************************)
(* What a QioMutex promises (src/qio.c): one holder at a time, waiters     *)
(* served in the order they came, and nobody waits for ever.               *)
(***************************************************************************)
EXTENDS Sequences

CONSTANTS Users, Free

VARIABLES holder, waiting

Init == holder = Free /\ waiting = <<>>

Enter(u) == holder = Free /\ holder' = u /\ UNCHANGED waiting

Wait(u) == holder \notin {Free, u} /\ waiting' = Append(waiting, u) /\ UNCHANGED holder

Leave ==
  /\ holder # Free
  /\ IF waiting = <<>>
     THEN holder' = Free /\ UNCHANGED waiting
     ELSE holder' = Head(waiting) /\ waiting' = Tail(waiting)

Next == (\E u \in Users : Enter(u) \/ Wait(u)) \/ Leave

Spec == Init /\ [][Next]_<<holder, waiting>> /\ WF_<<holder, waiting>>(Leave)
=============================================================================
