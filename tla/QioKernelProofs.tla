--------------------------- MODULE QioKernelProofs ---------------------------
(***************************************************************************)
(* What each operator of QioKernel does to the IOQ it is called for, and   *)
(* that it leaves every other IOQ where it is.  The proofs about the       *)
(* models that use the kernel are made of these.                           *)
(***************************************************************************)
EXTENDS QioKernel, Functions, TLAPS

(* Where an IOQ is: at rest, about to run f, or after a mutex m to run f   *)
(* under it.  S are the mutexes it holds; of the last, before it gets m.   *)
Held(kk, i) == {m \in Mutexes : kk.cur[m] = i}

Still(kk, i, S) == ~Queued(kk, i) /\ kk.act[i] = "none" /\ Held(kk, i) = S

Due(kk, i, S, f) == i \in In(kk.ast) /\ kk.act[i] = f /\ Held(kk, i) = S

Asks(kk, i, S, m, f) ==
  \/ i \in In(kk.wait[m]) /\ kk.act[i] = f /\ Held(kk, i) = S
  \/ Due(kk, i, S \cup {m}, f)

(* An IOQ is in one queue, once, and waits for no mutex that it holds.     *)
KernelInv(kk) ==
  /\ kk \in Kernel
  /\ IsInjective(kk.ast)
  /\ \A m \in Mutexes : IsInjective(kk.wait[m])
  /\ \A m \in Mutexes : In(kk.wait[m]) \cap In(kk.ast) = {} /\ kk.cur[m] \notin In(kk.wait[m])
  /\ \A m, n \in Mutexes : m # n => In(kk.wait[m]) \cap In(kk.wait[n]) = {}

(* An IOQ that rests stays at rest, one that is due stays due, and one that *)
(* waits for a mutex waits on or gets it.                                   *)
Undisturbed(a, b, j) ==
  /\ \A S \in SUBSET Mutexes : Still(a, j, S) => Still(b, j, S)
  /\ \A S \in SUBSET Mutexes, f \in Actions : Due(a, j, S, f) => Due(b, j, S, f)
  /\ \A S \in SUBSET Mutexes, f \in Actions, m \in Mutexes : Asks(a, j, S, m, f) => Asks(b, j, S, m, f)

Others(a, b, i) == \A j \in Ioqs \ {i} : Undisturbed(a, b, j)

-----------------------------------------------------------------------------
(* Queues as sequences.                                                    *)

(* Appending a newcomer keeps the places distinct.                         *)
LEMMA InAppend ==
  ASSUME NEW S, NEW s \in Seq(S), NEW x \in S
  PROVE  In(Append(s, x)) = In(s) \cup {x} /\ (x \notin In(s) /\ IsInjective(s) => IsInjective(Append(s, x)))
<1>1. DOMAIN s = 1..Len(s) /\ DOMAIN Append(s, x) = 1..(Len(s) + 1) /\ Len(s) \in Nat
  OBVIOUS
<1>2. \A n \in 1..Len(s) : Append(s, x)[n] = s[n]
  OBVIOUS
<1>3. Append(s, x)[Len(s) + 1] = x
  OBVIOUS
<1>4. In(Append(s, x)) = In(s) \cup {x}
  <2>1. In(Append(s, x)) \subseteq In(s) \cup {x}
    BY <1>1, <1>2, <1>3 DEF In
  <2>2. In(s) \subseteq In(Append(s, x))
    BY <1>1, <1>2 DEF In
  <2>3. x \in In(Append(s, x))
    BY <1>1, <1>3 DEF In
  <2> QED
    BY <2>1, <2>2, <2>3
<1>5. ASSUME x \notin In(s), IsInjective(s) PROVE IsInjective(Append(s, x))
  BY <1>1, <1>2, <1>3, <1>5 DEF In, IsInjective
<1> QED
  BY <1>4, <1>5

(* Taking the first removes it and nothing else.                           *)
LEMMA InTail ==
  ASSUME NEW S, NEW s \in Seq(S), s # <<>>, IsInjective(s)
  PROVE  /\ Head(s) \in S /\ Tail(s) \in Seq(S) /\ Head(s) \in In(s)
         /\ In(Tail(s)) = In(s) \ {Head(s)} /\ IsInjective(Tail(s))
<1>1. /\ DOMAIN s = 1..Len(s) /\ Len(s) \in Nat \ {0} /\ Head(s) = s[1]
      /\ DOMAIN Tail(s) = 1..(Len(s) - 1) /\ Head(s) \in S /\ Tail(s) \in Seq(S)
  OBVIOUS
<1>2. \A n \in 1..(Len(s) - 1) : Tail(s)[n] = s[n + 1]
  OBVIOUS
<1>3. Head(s) \in In(s)
  BY <1>1 DEF In
<1>4. \A m, n \in 1..Len(s) : s[m] = s[n] => m = n
  BY <1>1 DEF IsInjective
<1>5. In(Tail(s)) \subseteq In(s) \ {Head(s)}
  <2> SUFFICES ASSUME NEW n \in 1..(Len(s) - 1) PROVE Tail(s)[n] \in In(s) \ {Head(s)}
    BY <1>1 DEF In
  <2>1. n + 1 \in 1..Len(s) /\ n + 1 # 1 /\ 1 \in 1..Len(s)
    BY <1>1
  <2> QED
    BY <1>1, <1>2, <1>4, <2>1 DEF In
<1>6. In(s) \ {Head(s)} \subseteq In(Tail(s))
  <2> SUFFICES ASSUME NEW n \in 1..Len(s), s[n] # Head(s) PROVE s[n] \in In(Tail(s))
    BY <1>1 DEF In
  <2>1. n - 1 \in 1..(Len(s) - 1) /\ (n - 1) + 1 = n
    BY <1>1
  <2>2. Tail(s)[n - 1] = s[n]
    BY <1>2, <2>1
  <2> QED
    BY <1>1, <2>1, <2>2 DEF In
<1>7. IsInjective(Tail(s))
  <2> SUFFICES ASSUME NEW m \in 1..(Len(s) - 1), NEW n \in 1..(Len(s) - 1), Tail(s)[m] = Tail(s)[n]
               PROVE  m = n
    BY <1>1 DEF IsInjective
  <2>1. m + 1 \in 1..Len(s) /\ n + 1 \in 1..Len(s)
    BY <1>1
  <2>2. s[m + 1] = s[n + 1]
    BY <1>2
  <2> QED
    BY <1>4, <2>1, <2>2
<1> QED
  BY <1>1, <1>3, <1>5, <1>6, <1>7

(* The members of a sequence.                                              *)
LEMMA InType ==
  ASSUME NEW S, NEW s \in Seq(S)
  PROVE  In(s) \subseteq S /\ (In(s) = {} <=> s = <<>>)
<1>1. DOMAIN s = 1..Len(s) /\ Len(s) \in Nat /\ \A n \in 1..Len(s) : s[n] \in S
  OBVIOUS
<1>2. s # <<>> => 1 \in 1..Len(s)
  BY <1>1
<1>3. s = <<>> => DOMAIN s = {}
  OBVIOUS
<1> QED
  BY <1>1, <1>2, <1>3 DEF In

-----------------------------------------------------------------------------
(* A kernel as the record of its members.                                  *)

(* The fields of the kernel.                                               *)
LEMMA KernelMembers ==
  ASSUME NEW kk \in Kernel
  PROVE  /\ kk.ast \in Seq(Ioqs) /\ kk.act \in [Ioqs -> Actions]
         /\ kk.cur \in [Mutexes -> Ioqs \cup {Nobody}] /\ kk.wait \in [Mutexes -> Seq(Ioqs)]
BY DEF Kernel

(* Whoever is in the same queue with the same action, and holds the same,  *)
(* is undisturbed.                                                         *)
LEMMA SamePlace ==
  ASSUME NEW a, NEW b, NEW j,
         j \in In(a.ast) <=> j \in In(b.ast),
         \A m \in Mutexes : j \in In(a.wait[m]) <=> j \in In(b.wait[m]),
         \A m \in Mutexes : a.cur[m] = j <=> b.cur[m] = j,
         a.act[j] = b.act[j]
  PROVE  Undisturbed(a, b, j)
<1>1. Held(a, j) = Held(b, j)
  BY DEF Held
<1>2. Queued(a, j) <=> Queued(b, j)
  BY DEF Queued
<1> QED
  BY <1>1, <1>2 DEF Undisturbed, Still, Due, Asks

(* Undisturbed by one step and by the next.                                *)
LEMMA UndisturbedAgain ==
  ASSUME NEW a, NEW b, NEW c, NEW j, Undisturbed(a, b, j), Undisturbed(b, c, j)
  PROVE  Undisturbed(a, c, j)
BY DEF Undisturbed

(* Nothing is disturbed where nothing changes.                             *)
LEMMA UndisturbedSame ==
  ASSUME NEW a, NEW j
  PROVE  Undisturbed(a, a, j)
BY DEF Undisturbed

(* An IOQ that holds what it holds, and its queue. *)
LEMMA HeldType ==
  ASSUME NEW kk, NEW i
  PROVE  Held(kk, i) \in SUBSET Mutexes
BY DEF Held

-----------------------------------------------------------------------------
(* The operators.                                                          *)

(* qio_complete: an IOQ at rest is due.                                    *)
LEMMA CompleteIs ==
  ASSUME NEW a, KernelInv(a), NEW i \in Ioqs, NEW f \in Actions, NEW S, Still(a, i, S)
  PROVE  LET b == Complete(a, i, f) IN KernelInv(b) /\ Due(b, i, S, f) /\ Others(a, b, i)
<1> DEFINE b == Complete(a, i, f)
<1>1. a \in Kernel
  BY DEF KernelInv
<1>2. ~Queued([a EXCEPT !.act[i] = f], i)
  BY <1>1 DEF Still, Queued, Kernel
<1>3. b = [ast |-> Append(a.ast, i), act |-> [a.act EXCEPT ![i] = f], cur |-> a.cur, wait |-> a.wait]
  BY <1>1, <1>2 DEF Complete, QueueAst, Kernel
<1>4. b.ast = Append(a.ast, i) /\ b.act = [a.act EXCEPT ![i] = f] /\ b.cur = a.cur /\ b.wait = a.wait
  BY <1>3
<1>5. i \notin In(a.ast) /\ \A m \in Mutexes : i \notin In(a.wait[m])
  BY DEF Still, Queued
<1>6. In(b.ast) = In(a.ast) \cup {i} /\ IsInjective(b.ast)
  BY <1>1, <1>4, <1>5, InAppend, KernelMembers DEF KernelInv
<1>7. b \in Kernel
  <2>1. Append(a.ast, i) \in Seq(Ioqs) /\ [a.act EXCEPT ![i] = f] \in [Ioqs -> Actions]
    BY <1>1, KernelMembers
  <2> QED
    BY <1>1, <1>3, <2>1, KernelMembers DEF Kernel
<1> HIDE DEF b
<1>8. KernelInv(b)
  BY <1>4, <1>5, <1>6, <1>7 DEF KernelInv
<1>9. Due(b, i, S, f)
  BY <1>1, <1>4, <1>6, KernelMembers DEF Due, Still, Held
<1>10. Others(a, b, i)
  <2> SUFFICES ASSUME NEW j \in Ioqs \ {i} PROVE Undisturbed(a, b, j)
    BY DEF Others
  <2>1. b.act[j] = a.act[j]
    BY <1>1, <1>4, KernelMembers
  <2> QED
    BY <1>4, <1>6, <2>1, SamePlace
<1> QED
  BY <1>8, <1>9, <1>10 DEF b

(* The dispatch loop: the oldest IOQ of the AST queue is at rest.          *)
LEMMA DispatchedIs ==
  ASSUME NEW a, KernelInv(a), a.ast # <<>>, NEW S, NEW f, Due(a, Head(a.ast), S, f)
  PROVE  LET b == Dispatched(a)
         IN  Head(a.ast) \in Ioqs /\ KernelInv(b) /\ Still(b, Head(a.ast), S) /\ Others(a, b, Head(a.ast))
<1> DEFINE b == Dispatched(a)
           i == Head(a.ast)
<1>1. a \in Kernel
  BY DEF KernelInv
<1>2. /\ i \in Ioqs /\ i \in In(a.ast) /\ Tail(a.ast) \in Seq(Ioqs)
      /\ In(Tail(a.ast)) = In(a.ast) \ {i} /\ IsInjective(Tail(a.ast))
  BY <1>1, KernelMembers, InTail DEF KernelInv
<1>3. b = [ast |-> Tail(a.ast), act |-> [a.act EXCEPT ![i] = "none"], cur |-> a.cur, wait |-> a.wait]
  <2>1. b = [[a EXCEPT !.act[i] = "none"] EXCEPT !.ast = Tail(a.ast)]
    BY <1>1 DEF Dispatched, Kernel
  <2>2. [a EXCEPT !.act[i] = "none"] = [a EXCEPT !.act = [a.act EXCEPT ![i] = "none"]]
    BY <1>1 DEF Kernel
  <2> HIDE DEF i
  <2> QED
    BY <1>1, <2>1, <2>2 DEF Kernel
<1>4. b.ast = Tail(a.ast) /\ b.act = [a.act EXCEPT ![i] = "none"] /\ b.cur = a.cur /\ b.wait = a.wait
  BY <1>3
<1>5. b \in Kernel
  <2>1. [a.act EXCEPT ![i] = "none"] \in [Ioqs -> Actions]
    BY <1>1, <1>2, KernelMembers DEF Actions
  <2> QED
    BY <1>1, <1>2, <1>3, <2>1, KernelMembers DEF Kernel
<1> HIDE DEF b, i
<1>6. KernelInv(b)
  BY <1>2, <1>4, <1>5 DEF KernelInv
<1>7. Still(b, i, S)
  <2>1. ~Queued(b, i)
    BY <1>2, <1>4 DEF KernelInv, Queued
  <2>2. b.act[i] = "none"
    BY <1>1, <1>2, <1>4, KernelMembers
  <2> QED
    BY <1>4, <2>1, <2>2 DEF Still, Due, Held, i
<1>8. Others(a, b, i)
  <2> SUFFICES ASSUME NEW j \in Ioqs \ {i} PROVE Undisturbed(a, b, j)
    BY DEF Others
  <2>1. b.act[j] = a.act[j]
    BY <1>1, <1>4, KernelMembers
  <2> QED
    BY <1>2, <1>4, <2>1, SamePlace
<1> QED
  BY <1>2, <1>6, <1>7, <1>8 DEF b, i

(* qio_getmutex: an IOQ at rest gets the mutex or waits for it.            *)
LEMMA GetMutexIs ==
  ASSUME NEW a, KernelInv(a), NEW m \in Mutexes, NEW i \in Ioqs, NEW f \in Actions,
         NEW S, Still(a, i, S), m \notin S
  PROVE  LET b == GetMutex(a, m, i, f) IN KernelInv(b) /\ Asks(b, i, S, m, f) /\ Others(a, b, i)
<1> DEFINE b == GetMutex(a, m, i, f)
<1>1. a \in Kernel
  BY DEF KernelInv
<1>2. i \notin In(a.ast) /\ (\A n \in Mutexes : i \notin In(a.wait[n])) /\ a.cur[m] # i
  BY DEF Still, Queued, Held
<1>3. b = ClaimMutex(a, m, i, f)
  BY <1>2 DEF GetMutex, GetMutexStatus, Still
<1>4. CASE a.cur[m] = Nobody
  <2>1. b = [ast |-> Append(a.ast, i), act |-> [a.act EXCEPT ![i] = f],
             cur |-> [a.cur EXCEPT ![m] = i], wait |-> a.wait]
    BY <1>1, <1>3, <1>4 DEF ClaimMutex, Kernel
  <2>2. /\ b.ast = Append(a.ast, i) /\ b.act = [a.act EXCEPT ![i] = f]
        /\ b.cur = [a.cur EXCEPT ![m] = i] /\ b.wait = a.wait
    BY <2>1
  <2>3. In(b.ast) = In(a.ast) \cup {i} /\ IsInjective(b.ast)
    BY <1>1, <1>2, <2>2, InAppend, KernelMembers DEF KernelInv
  <2>4. b \in Kernel
    <3>1. /\ Append(a.ast, i) \in Seq(Ioqs) /\ [a.act EXCEPT ![i] = f] \in [Ioqs -> Actions]
          /\ [a.cur EXCEPT ![m] = i] \in [Mutexes -> Ioqs \cup {Nobody}]
      BY <1>1, KernelMembers
    <3> QED
      BY <1>1, <2>1, <3>1, KernelMembers DEF Kernel
  <2> HIDE DEF b
  <2>5. b.cur[m] = i /\ \A n \in Mutexes \ {m} : b.cur[n] = a.cur[n]
    BY <1>1, <2>2, KernelMembers
  <2>6. KernelInv(b)
    BY ZenonT(60), <1>2, <2>2, <2>3, <2>4, <2>5 DEF KernelInv
  <2>7. Asks(b, i, S, m, f)
    <3>1. b.act[i] = f
      BY <1>1, <2>2, KernelMembers
    <3>2. Held(b, i) = S \cup {m}
      BY <2>5 DEF Held, Still
    <3> QED
      BY <2>3, <3>1, <3>2 DEF Asks, Due
  <2>8. Others(a, b, i)
    <3> SUFFICES ASSUME NEW j \in Ioqs \ {i} PROVE Undisturbed(a, b, j)
      BY DEF Others
    <3>1. b.act[j] = a.act[j]
      BY <1>1, <2>2, KernelMembers
    <3>2. j # Nobody
      BY NobodyAssumption DEF NobodyAssumption
    <3>3. \A n \in Mutexes : a.cur[n] = j <=> b.cur[n] = j
      BY <1>4, <2>5, <3>2
    <3> QED
      BY <2>2, <2>3, <3>1, <3>3, SamePlace
  <2> QED
    BY <2>6, <2>7, <2>8 DEF b
<1>5. CASE a.cur[m] # Nobody
  <2>1. b = [ast |-> a.ast, act |-> [a.act EXCEPT ![i] = f],
             cur |-> a.cur, wait |-> [a.wait EXCEPT ![m] = Append(a.wait[m], i)]]
    BY <1>1, <1>3, <1>5 DEF ClaimMutex, Kernel
  <2>2. /\ b.ast = a.ast /\ b.act = [a.act EXCEPT ![i] = f] /\ b.cur = a.cur
        /\ b.wait = [a.wait EXCEPT ![m] = Append(a.wait[m], i)]
    BY <2>1
  <2>3. /\ a.wait[m] \in Seq(Ioqs) /\ In(Append(a.wait[m], i)) = In(a.wait[m]) \cup {i}
        /\ IsInjective(Append(a.wait[m], i))
    BY <1>1, <1>2, InAppend, KernelMembers DEF KernelInv
  <2>4. b \in Kernel
    <3>1. /\ [a.wait EXCEPT ![m] = Append(a.wait[m], i)] \in [Mutexes -> Seq(Ioqs)]
          /\ [a.act EXCEPT ![i] = f] \in [Ioqs -> Actions]
      BY <1>1, KernelMembers
    <3> QED
      BY <1>1, <2>1, <3>1, KernelMembers DEF Kernel
  <2>5. b.wait[m] = Append(a.wait[m], i) /\ \A n \in Mutexes \ {m} : b.wait[n] = a.wait[n]
    BY <1>1, <2>2, KernelMembers
  <2> HIDE DEF b
  <2>6. KernelInv(b)
    <3>1. \A n \in Mutexes : IsInjective(b.wait[n])
      BY <2>3, <2>5 DEF KernelInv
    <3>2. \A n \in Mutexes : In(b.wait[n]) \cap In(b.ast) = {} /\ b.cur[n] \notin In(b.wait[n])
      BY <1>2, <2>2, <2>3, <2>5 DEF KernelInv
    <3>3. \A l, n \in Mutexes : l # n => In(b.wait[l]) \cap In(b.wait[n]) = {}
      <4>1. \A l \in Mutexes \ {m} : In(b.wait[l]) \cap In(b.wait[m]) = {}
        BY SMTT(60), <1>2, <2>3, <2>5 DEF KernelInv
      <4>2. \A l, n \in Mutexes \ {m} : l # n => In(b.wait[l]) \cap In(b.wait[n]) = {}
        BY <2>5 DEF KernelInv
      <4> QED
        BY <4>1, <4>2
    <3> QED
      BY <2>2, <2>4, <3>1, <3>2, <3>3 DEF KernelInv
  <2>7. Asks(b, i, S, m, f)
    <3>1. b.act[i] = f
      BY <1>1, <2>2, KernelMembers
    <3>2. Held(b, i) = S
      BY <2>2 DEF Held, Still
    <3> QED
      BY <2>3, <2>5, <3>1, <3>2 DEF Asks
  <2>8. Others(a, b, i)
    <3> SUFFICES ASSUME NEW j \in Ioqs \ {i} PROVE Undisturbed(a, b, j)
      BY DEF Others
    <3>1. b.act[j] = a.act[j]
      BY <1>1, <2>2, KernelMembers
    <3>2. \A n \in Mutexes : j \in In(a.wait[n]) <=> j \in In(b.wait[n])
      BY <2>3, <2>5
    <3> QED
      BY <2>2, <3>1, <3>2, SamePlace
  <2> QED
    BY <2>6, <2>7, <2>8 DEF b
<1> QED
  BY <1>4, <1>5

(* qio_freemutex: an IOQ lets go a mutex it holds, and the first that waits *)
(* for it is due.                                                          *)
LEMMA FreeMutexIs ==
  ASSUME NEW a, KernelInv(a), NEW m \in Mutexes, NEW i \in Ioqs, NEW S, Still(a, i, S), m \in S
  PROVE  LET b == FreeMutex(a, m, i) IN KernelInv(b) /\ Still(b, i, S \ {m}) /\ Others(a, b, i)
<1> DEFINE b == FreeMutex(a, m, i)
<1>1. a \in Kernel /\ i # Nobody
  BY NobodyAssumption DEF KernelInv, NobodyAssumption
<1>2. i \notin In(a.ast) /\ (\A n \in Mutexes : i \notin In(a.wait[n])) /\ a.cur[m] = i
  BY DEF Still, Queued, Held
<1>3. CASE a.wait[m] = <<>>
  <2>1. b = [ast |-> a.ast, act |-> a.act, cur |-> [a.cur EXCEPT ![m] = Nobody], wait |-> a.wait]
    BY <1>1, <1>2, <1>3 DEF FreeMutex, Kernel
  <2>2. b.ast = a.ast /\ b.act = a.act /\ b.cur = [a.cur EXCEPT ![m] = Nobody] /\ b.wait = a.wait
    BY <2>1
  <2>3. b \in Kernel
    BY <1>1, <2>1 DEF Kernel
  <2>4. b.cur[m] = Nobody /\ \A n \in Mutexes \ {m} : b.cur[n] = a.cur[n]
    BY <1>1, <2>2, KernelMembers
  <2> HIDE DEF b
  <2>5. KernelInv(b)
    <3>1. In(a.wait[m]) = {}
      BY <1>1, <1>3, InType, KernelMembers
    <3> QED
      BY <2>2, <2>3, <2>4, <3>1 DEF KernelInv
  <2>6. Still(b, i, S \ {m})
    <3>1. Held(b, i) = S \ {m}
      BY <1>1, <2>4 DEF Held, Still
    <3> QED
      BY <1>2, <2>2, <3>1 DEF Still, Queued
  <2>7. Others(a, b, i)
    <3> SUFFICES ASSUME NEW j \in Ioqs \ {i} PROVE Undisturbed(a, b, j)
      BY DEF Others
    <3>1. j # Nobody
      BY NobodyAssumption DEF NobodyAssumption
    <3>2. \A n \in Mutexes : a.cur[n] = j <=> b.cur[n] = j
      BY <1>2, <2>4, <3>1
    <3> QED
      BY <2>2, <3>2, SamePlace
  <2> QED
    BY <2>5, <2>6, <2>7 DEF b
<1>4. CASE a.wait[m] # <<>>
  <2> DEFINE h == Head(a.wait[m])
  <2>1. b = [ast |-> Append(a.ast, h), act |-> a.act, cur |-> [a.cur EXCEPT ![m] = h],
             wait |-> [a.wait EXCEPT ![m] = Tail(a.wait[m])]]
    BY <1>1, <1>2, <1>4 DEF FreeMutex, HandOver, Kernel
  <2>2. /\ b.ast = Append(a.ast, h) /\ b.act = a.act /\ b.cur = [a.cur EXCEPT ![m] = h]
        /\ b.wait = [a.wait EXCEPT ![m] = Tail(a.wait[m])]
    BY <2>1
  <2>3. /\ h \in Ioqs /\ h \in In(a.wait[m]) /\ Tail(a.wait[m]) \in Seq(Ioqs)
        /\ In(Tail(a.wait[m])) = In(a.wait[m]) \ {h} /\ IsInjective(Tail(a.wait[m]))
    BY <1>1, <1>4, InTail, KernelMembers DEF KernelInv
  <2> HIDE DEF h
  <2>4. h # i /\ h \notin In(a.ast) /\ a.cur[m] # h /\ \A n \in Mutexes \ {m} : h \notin In(a.wait[n])
    BY <1>2, <2>3 DEF KernelInv
  <2>5. In(b.ast) = In(a.ast) \cup {h} /\ IsInjective(b.ast)
    BY <1>1, <2>2, <2>3, <2>4, InAppend, KernelMembers DEF KernelInv
  <2>6. b \in Kernel
    <3>1. /\ Append(a.ast, h) \in Seq(Ioqs) /\ [a.cur EXCEPT ![m] = h] \in [Mutexes -> Ioqs \cup {Nobody}]
          /\ [a.wait EXCEPT ![m] = Tail(a.wait[m])] \in [Mutexes -> Seq(Ioqs)]
      BY <1>1, <2>3, KernelMembers
    <3> QED
      BY <1>1, <2>1, <3>1, KernelMembers DEF Kernel
  <2>7. /\ b.cur[m] = h /\ b.wait[m] = Tail(a.wait[m])
        /\ \A n \in Mutexes \ {m} : b.cur[n] = a.cur[n] /\ b.wait[n] = a.wait[n]
    BY <1>1, <2>2, KernelMembers
  <2> HIDE DEF b
  <2>8. KernelInv(b)
    <3>1. \A n \in Mutexes : IsInjective(b.wait[n])
      BY <2>3, <2>7 DEF KernelInv
    <3>2. \A n \in Mutexes : In(b.wait[n]) \cap In(b.ast) = {} /\ b.cur[n] \notin In(b.wait[n])
      <4> SUFFICES ASSUME NEW n \in Mutexes
                   PROVE  In(b.wait[n]) \cap In(b.ast) = {} /\ b.cur[n] \notin In(b.wait[n])
        OBVIOUS
      <4>1. CASE n = m
        BY <2>3, <2>5, <2>7, <4>1 DEF KernelInv
      <4>2. CASE n # m
        BY <2>4, <2>5, <2>7, <4>2 DEF KernelInv
      <4> QED
        BY <4>1, <4>2
    <3>3. \A l, n \in Mutexes : l # n => In(b.wait[l]) \cap In(b.wait[n]) = {}
      BY SMTT(60), <2>3, <2>7 DEF KernelInv
    <3> QED
      BY <2>5, <2>6, <3>1, <3>2, <3>3 DEF KernelInv
  <2>9. Still(b, i, S \ {m})
    <3>1. Held(b, i) = S \ {m}
      BY <2>4, <2>7 DEF Held, Still
    <3>2. ~Queued(b, i)
      BY <1>2, <2>3, <2>4, <2>5, <2>7 DEF Queued
    <3> QED
      BY <2>2, <3>1, <3>2 DEF Still
  <2>10. Undisturbed(a, b, h)
    <3>1. Held(b, h) = Held(a, h) \cup {m}
      BY <2>7 DEF Held
    <3>2. \A T : ~Still(a, h, T)
      BY <2>3 DEF Still, Queued
    <3>3. \A T, f : ~Due(a, h, T, f)
      BY <2>4 DEF Due
    <3>4. ASSUME NEW T, NEW f, NEW n \in Mutexes, Asks(a, h, T, n, f) PROVE Asks(b, h, T, n, f)
      <4>1. h \in In(a.wait[n]) /\ a.act[h] = f /\ Held(a, h) = T
        BY <3>3, <3>4 DEF Asks
      <4>2. n = m
        BY <2>4, <4>1
      <4> QED
        BY <2>2, <2>5, <3>1, <4>1, <4>2 DEF Asks, Due
    <3> QED
      BY <3>2, <3>3, <3>4 DEF Undisturbed
  <2>11. Others(a, b, i)
    <3> SUFFICES ASSUME NEW j \in Ioqs \ {i}, j # h PROVE Undisturbed(a, b, j)
      BY <2>10 DEF Others
    <3>1. \A n \in Mutexes : a.cur[n] = j <=> b.cur[n] = j
      BY <1>2, <2>7
    <3>2. \A n \in Mutexes : j \in In(a.wait[n]) <=> j \in In(b.wait[n])
      BY <2>3, <2>7
    <3> QED
      BY <2>2, <2>5, <3>1, <3>2, SamePlace
  <2> QED
    BY <2>8, <2>9, <2>11 DEF b
<1> QED
  BY <1>3, <1>4

(* The hand-over of a mutex from one IOQ at rest to another.               *)
LEMMA PassMutexIs ==
  ASSUME NEW a, KernelInv(a), NEW m \in Mutexes, NEW i \in Ioqs, NEW j \in Ioqs, i # j,
         NEW S, Still(a, i, S), m \in S, NEW T, Still(a, j, T)
  PROVE  LET b == PassMutex(a, m, j)
         IN  /\ KernelInv(b) /\ Still(b, i, S \ {m}) /\ Still(b, j, T \cup {m})
             /\ \A l \in Ioqs \ {i, j} : Undisturbed(a, b, l)
<1> DEFINE b == PassMutex(a, m, j)
<1>1. a \in Kernel
  BY DEF KernelInv
<1>2. b = [ast |-> a.ast, act |-> a.act, cur |-> [a.cur EXCEPT ![m] = j], wait |-> a.wait]
  <2>1. b = [a EXCEPT !.cur = [a.cur EXCEPT ![m] = j]]
    BY <1>1 DEF PassMutex, Kernel
  <2> HIDE DEF b
  <2> QED
    BY <1>1, <2>1 DEF Kernel
<1>3. b.ast = a.ast /\ b.act = a.act /\ b.cur = [a.cur EXCEPT ![m] = j] /\ b.wait = a.wait
  BY <1>2
<1>4. b \in Kernel
  BY <1>1, <1>2 DEF Kernel
<1>5. b.cur[m] = j /\ \A n \in Mutexes \ {m} : b.cur[n] = a.cur[n]
  BY <1>1, <1>3, KernelMembers
<1>6. a.cur[m] = i
  BY DEF Still, Held
<1> HIDE DEF b
<1>7. KernelInv(b)
  <2>1. \A n \in Mutexes : j \notin In(a.wait[n])
    BY DEF Still, Queued
  <2> QED
    BY <1>3, <1>4, <1>5, <2>1 DEF KernelInv
<1>8. Still(b, i, S \ {m}) /\ Still(b, j, T \cup {m})
  <2>1. Held(b, i) = S \ {m} /\ Held(b, j) = T \cup {m}
    BY <1>5 DEF Held, Still
  <2> QED
    BY <1>3, <2>1 DEF Still, Queued
<1>9. ASSUME NEW l \in Ioqs \ {i, j} PROVE Undisturbed(a, b, l)
  <2>1. \A n \in Mutexes : a.cur[n] = l <=> b.cur[n] = l
    BY <1>5, <1>6
  <2> QED
    BY <1>3, <2>1, SamePlace
<1> QED
  BY <1>7, <1>8, <1>9 DEF b

(* Who holds nothing or another mutex has none to let go.                  *)
LEMMA FreeMutexElse ==
  ASSUME NEW a, NEW m \in Mutexes, NEW i, m \notin Held(a, i)
  PROVE  FreeMutex(a, m, i) = a
BY DEF FreeMutex, Held
=============================================================================
