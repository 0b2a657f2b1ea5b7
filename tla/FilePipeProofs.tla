--------------------------- MODULE FilePipeProofs ----------------------------
(***************************************************************************)
(* The types of FilePipe, the requests of a descriptor in their turn, and  *)
(* the pools, for any callers, descriptors, copies and calls.  First, what *)
(* a step of a transfer keeps of the invariant: a request is moved and the *)
(* others are left where they are.                                         *)
(***************************************************************************)
EXTENDS FilePipeInv, FiniteSetTheorems, WellFoundedInduction, TLAPS

-----------------------------------------------------------------------------
(* Numbers and sequences.                                                  *)

(* The smaller and the larger of two numbers.                              *)
LEMMA MinTwo ==
  ASSUME NEW a \in Int, NEW b \in Int
  PROVE  /\ Min({a, b}) \in {a, b} /\ Min({a, b}) <= a /\ Min({a, b}) <= b
         /\ Max({a, b}) \in {a, b} /\ Max({a, b}) >= a /\ Max({a, b}) >= b
<1>1. PICK x \in {a, b} : \A y \in {a, b} : x <= y
  OBVIOUS
<1>2. PICK z \in {a, b} : \A y \in {a, b} : z >= y
  OBVIOUS
<1>3. Min({a, b}) \in {a, b} /\ \A y \in {a, b} : Min({a, b}) <= y
  BY <1>1 DEF Min
<1>4. Max({a, b}) \in {a, b} /\ \A y \in {a, b} : Max({a, b}) >= y
  BY <1>2 DEF Max
<1> QED
  BY <1>3, <1>4

(* The smallest of a set of numbers is one of them.                        *)
LEMMA MinOf ==
  ASSUME NEW S \in SUBSET Nat, S # {}
  PROVE  Min(S) \in S
<1> DEFINE R == OpToRel(<, Nat)
<1>1. IsWellFoundedOn(R, Nat)
  BY NatLessThanWellFounded
<1>2. \A x, y \in Nat : x < y => <<x, y>> \in R
  BY DEF OpToRel
<1> HIDE DEF R
<1>3. PICK x \in S : \A y \in S : ~(<<y, x>> \in R)
  <2>1. S \subseteq Nat
    OBVIOUS
  <2> QED
    BY <1>1, <2>1, WFMin
<1>4. \A y \in S : x <= y
  <2>1. \A y \in S : y \in Nat /\ x \in Nat /\ ~(y < x)
    BY <1>2, <1>3
  <2> QED
    BY <2>1
<1> QED
  BY <1>4 DEF Min

(* A position is a sector and a unit in it.                                *)
LEMMA PositionType ==
  ASSUME NEW p \in Nat
  PROVE  Sect(p) \in Nat /\ Bws(p) \in 0..1 /\ Bws(p) <= p
BY DEF Sect, Bws, BytPSect

(* The last of a sequence.                                                 *)
LEMMA LastIs ==
  ASSUME NEW S, NEW s \in Seq(S), s # <<>>
  PROVE  Last(s) \in S /\ Last(s) \in In(s)
<1>1. Len(s) \in 1..Len(s) /\ DOMAIN s = 1..Len(s)
  OBVIOUS
<1> QED
  BY <1>1 DEF Last, In

(* What a pool looks like after one more was freed: the end stays.         *)
LEMMA FreeQioIs ==
  ASSUME NEW p \in Seq(Fqs), IsInjective(p), NEW i \in Fqs, i \notin In(p)
  PROVE  LET r == FreeQio(p, i)
         IN  /\ r \in Seq(Fqs) /\ IsInjective(r) /\ In(r) = In(p) \cup {i}
             /\ Last(r) = IF p = <<>> THEN i ELSE Last(p)
<1> DEFINE r == <<i>> \o p
<1>1. FreeQio(p, i) = r
  BY DEF FreeQio
<1>2. /\ r \in Seq(Fqs) /\ DOMAIN r = 1..(Len(p) + 1) /\ Len(r) = Len(p) + 1 /\ r[1] = i
      /\ DOMAIN p = 1..Len(p) /\ Len(p) \in Nat
  OBVIOUS
<1>3. \A n \in 1..Len(p) : r[n + 1] = p[n]
  OBVIOUS
<1>4. \A n \in DOMAIN r : n = 1 \/ (n - 1 \in DOMAIN p /\ r[n] = p[n - 1])
  BY <1>2, <1>3
<1> HIDE DEF r
<1>5. In(r) = In(p) \cup {i}
  <2>1. In(r) \subseteq In(p) \cup {i}
    BY <1>2, <1>4 DEF In
  <2>2. i \in In(r)
    BY <1>2 DEF In
  <2>3. In(p) \subseteq In(r)
    <3> SUFFICES ASSUME NEW n \in DOMAIN p PROVE p[n] \in In(r)
      BY DEF In
    <3>1. n + 1 \in DOMAIN r /\ r[n + 1] = p[n]
      BY <1>2, <1>3
    <3> QED
      BY <3>1 DEF In
  <2> QED
    BY <2>1, <2>2, <2>3
<1>6. IsInjective(r)
  <2> SUFFICES ASSUME NEW m \in DOMAIN r, NEW n \in DOMAIN r, r[m] = r[n] PROVE m = n
    BY DEF IsInjective
  <2>1. \A l \in DOMAIN p : p[l] # i
    BY DEF In
  <2>2. CASE m = 1 \/ n = 1
    BY <1>2, <1>4, <2>1, <2>2
  <2>3. CASE m # 1 /\ n # 1
    <3>1. m - 1 \in DOMAIN p /\ n - 1 \in DOMAIN p /\ p[m - 1] = p[n - 1]
      BY <1>4, <2>3
    <3>2. m - 1 = n - 1
      BY <3>1 DEF IsInjective
    <3> QED
      BY <1>2, <3>2
  <2> QED
    BY <2>2, <2>3
<1>7. Last(r) = IF p = <<>> THEN i ELSE Last(p)
  <2>1. CASE p = <<>>
    BY <1>2, <2>1 DEF Last
  <2>2. CASE p # <<>>
    <3>1. Len(p) \in 1..Len(p) /\ Len(r) = Len(p) + 1
      BY <1>2, <2>2
    <3> QED
      BY <1>3, <2>2, <3>1 DEF Last
  <2> QED
    BY <2>1, <2>2
<1> QED
  BY <1>1, <1>2, <1>5, <1>6, <1>7

(* One that is in the pool, but for its last, is seen to be free.          *)
LEMMA FreeQioAgain ==
  ASSUME NEW p, NEW i, i \in In(p), Last(p) # i
  PROVE  FreeQio(p, i) = p
BY DEF FreeQio

(* Taking the first of the pool; the end stays for all others.             *)
LEMMA TailIs ==
  ASSUME NEW p \in Seq(Fqs), IsInjective(p), p # <<>>
  PROVE  /\ Head(p) \in Fqs /\ Head(p) \in In(p) /\ Tail(p) \in Seq(Fqs) /\ IsInjective(Tail(p))
         /\ In(Tail(p)) = In(p) \ {Head(p)}
         /\ Tail(p) # <<>> => Last(Tail(p)) = Last(p)
<1>1. Tail(p) # <<>> => Last(Tail(p)) = Last(p)
  <2>1. Len(p) \in Nat /\ Len(Tail(p)) = Len(p) - 1 /\ \A n \in 1..(Len(p) - 1) : Tail(p)[n] = p[n + 1]
    OBVIOUS
  <2> SUFFICES ASSUME Tail(p) # <<>> PROVE Tail(p)[Len(Tail(p))] = p[Len(p)]
    BY DEF Last
  <2>2. Len(Tail(p)) \in 1..(Len(p) - 1)
    BY <2>1
  <2>3. Tail(p)[Len(p) - 1] = p[Len(p) - 1 + 1]
    BY <2>1, <2>2
  <2> QED
    BY <2>1, <2>3
<1> QED
  BY <1>1, InTail

-----------------------------------------------------------------------------
(* Transfers.                                                              *)

(* Room is left in an extent for as long as the copy has sectors.          *)
LEMMA ContiguousType ==
  ASSUME NEW e \in Extents, NEW s \in Nat
  PROVE  Contiguous(e, s) \in Nat
<1>1. Allocated(e) \in Nat /\ Allocated(e) \in In(e) /\ In(e) \subseteq Nat
  BY LastIs, InType DEF Extents, Allocated
<1>2. CASE s >= Allocated(e)
  BY <1>2 DEF Contiguous
<1>3. CASE ~(s >= Allocated(e))
  <2> DEFINE S == {end \in In(e) : end > s}
  <2>1. S \in SUBSET Nat /\ Allocated(e) \in S
    BY <1>1, <1>3
  <2>2. Min(S) \in S
    BY <2>1, MinOf
  <2>3. Contiguous(e, s) = Min(S) - s
    BY <1>3 DEF Contiguous
  <2> QED
    BY <2>1, <2>2, <2>3
<1> QED
  BY <1>2, <1>3

(* A transfer is not longer than what is left of the request.              *)
LEMMA ChunkType ==
  ASSUME TypeInv, NEW r \in FsysQio, r.fd \in Fds
  PROVE  Room(r) \in Nat /\ Chunk(r) \in Nat /\ Chunk(r) <= r.uLen
<1>1. file[r.fd].extents[r.which] \in Extents /\ r.sector \in Nat /\ r.uLen \in Nat
  BY DEF TypeInv, FileInv, RamFH, FsysQio
<1>2. Room(r) \in Nat
  BY <1>1, ContiguousType DEF Room
<1> DEFINE n == Room(r) * BytPSect
           len == Min({n, r.uLen})
<1>3. n \in Nat
  BY <1>2 DEF BytPSect
<1>4. len \in Nat /\ len <= r.uLen
  <2>1. n \in Int /\ r.uLen \in Int /\ r.uLen \in Nat
    BY <1>1, <1>3
  <2> HIDE DEF n
  <2>2. len \in {n, r.uLen} /\ len <= r.uLen
    BY <2>1, MinTwo
  <2> QED
    BY <1>3, <2>1, <2>2
<1> HIDE DEF n, len
<1>5. Chunk(r) = IF len > BytPSect THEN len - Bws(len) ELSE len
  BY DEF Chunk, len, n
<1> QED
  BY <1>1, <1>2, <1>4, <1>5, PositionType

(* What is the same of a FsysQio for as long as it serves one request.     *)
SameJob(a, b) == a.kind = b.kind /\ a.caller = b.caller /\ a.fd = b.fd

(* What a transfer moved is no longer asked for.                           *)
LEMMA AdvancedIs ==
  ASSUME NEW r \in FsysQio, Amounts(r), r.state = 2
  PROVE  Advanced(r) \in FsysQio /\ SameJob(Advanced(r), r) /\ Advanced(r).oLen = r.oLen
         /\ Advanced(r).total + Advanced(r).uLen = r.oLen /\ Advanced(r).bws = r.bws
<1>1. /\ r.total + r.cnt \in Nat /\ r.uLen - r.cnt \in Nat /\ r.buff + r.cnt \in Nat
      /\ r.sector + (r.cnt + BytPSect - 1) \div BytPSect \in Nat
      /\ r.total + r.cnt + (r.uLen - r.cnt) = r.oLen
  BY DEF FsysQio, Amounts, BytPSect
<1>2. Advanced(r) = [r EXCEPT !.total = r.total + r.cnt, !.uLen = r.uLen - r.cnt, !.buff = r.buff + r.cnt,
                              !.sector = r.sector + (r.cnt + BytPSect - 1) \div BytPSect]
  BY DEF Advanced
<1> QED
  BY ZenonT(60), <1>1, <1>2 DEF FsysQio, SameJob

(* What the next copy is to read is what was not read of this one.         *)
LEMMA RetriedIs ==
  ASSUME NEW r \in FsysQio, Amounts(r), r.which < NCopies
  PROVE  Retried(r) \in FsysQio /\ SameJob(Retried(r), r) /\ Retried(r).oLen = r.oLen - r.total
         /\ Retried(r).total + Retried(r).uLen = Retried(r).oLen
<1> DEFINE nxt == r.oWhere * BytPSect + r.oBws + r.total
<1>1. nxt \in Nat
  BY DEF FsysQio, BytPSect
<1>2. Sect(nxt) \in Nat /\ Bws(nxt) \in 0..1
  BY <1>1, PositionType
<1> HIDE DEF nxt
<1>3. r.oLen - r.total \in Nat /\ r.which + 1 \in Copies
  BY CopiesAssumption DEF CopiesAssumption, FsysQio, Amounts, Copies
<1>4. Retried(r) = [r EXCEPT !.which = r.which + 1, !.oWhere = Sect(nxt), !.sector = Sect(nxt),
                             !.bws = Bws(nxt), !.oBws = Bws(nxt), !.oLen = r.oLen - r.total,
                             !.uLen = r.oLen - r.total, !.total = 0]
  BY DEF Retried, nxt
<1> HIDE DEF nxt
<1>5. Retried(r) \in FsysQio
  <2> DEFINE s1 == [r EXCEPT !.which = r.which + 1, !.oWhere = Sect(nxt), !.sector = Sect(nxt)]
             s2 == [s1 EXCEPT !.bws = Bws(nxt), !.oBws = Bws(nxt), !.oLen = r.oLen - r.total]
             s3 == [s2 EXCEPT !.uLen = r.oLen - r.total, !.total = 0]
  <2>1. Retried(r) = s3
    BY <1>4, Zenon
  <2>2. s1 \in FsysQio
    BY <1>2, <1>3 DEF FsysQio
  <2> HIDE DEF s1
  <2>3. s2 \in FsysQio
    BY <1>2, <1>3, <2>2 DEF FsysQio
  <2> HIDE DEF s2
  <2>4. s3 \in FsysQio
    BY <1>3, <2>3 DEF FsysQio
  <2> QED
    BY <2>1, <2>4
<1>6. SameJob(Retried(r), r)
  BY <1>4 DEF SameJob, FsysQio
<1>7. /\ Retried(r).oLen = r.oLen - r.total /\ Retried(r).uLen = r.oLen - r.total
      /\ Retried(r).total = 0
  BY <1>4 DEF FsysQio
<1> QED
  BY <1>3, <1>5, <1>6, <1>7

(* The next copy takes the whole write again.                              *)
LEMMA NextCopyIs ==
  ASSUME NEW r \in FsysQio, r.which < NCopies
  PROVE  NextCopy(r) \in FsysQio /\ SameJob(NextCopy(r), r) /\ NextCopy(r).oLen = r.oLen
         /\ NextCopy(r).total + NextCopy(r).uLen = r.oLen
<1>1. r.which + 1 \in Copies
  BY CopiesAssumption DEF CopiesAssumption, FsysQio, Copies
<1>2. NextCopy(r) = [r EXCEPT !.which = r.which + 1, !.sector = r.oWhere, !.uLen = r.oLen, !.buff = 0, !.total = 0]
  BY DEF NextCopy
<1>3. NextCopy(r) \in FsysQio
  <2> DEFINE s1 == [r EXCEPT !.which = r.which + 1, !.sector = r.oWhere, !.uLen = r.oLen]
             s2 == [s1 EXCEPT !.buff = 0, !.total = 0]
  <2>1. NextCopy(r) = s2
    BY <1>2, Zenon
  <2>2. s1 \in FsysQio
    BY <1>1 DEF FsysQio
  <2> HIDE DEF s1
  <2>3. s2 \in FsysQio
    BY <2>2 DEF FsysQio
  <2> QED
    BY <2>1, <2>3
<1>4. SameJob(NextCopy(r), r)
  BY <1>2 DEF SameJob, FsysQio
<1>5. NextCopy(r).oLen = r.oLen /\ NextCopy(r).uLen = r.oLen /\ NextCopy(r).total = 0 /\ r.oLen \in Nat
  BY <1>2 DEF FsysQio
<1> QED
  BY <1>3, <1>4, <1>5

(* A FsysQio that is free, and one that was filled in.                     *)
LEMMA NoFqType == NoFq \in FsysQio /\ NoFq.caller = Nobody /\ Nobody \notin Fqs /\ Nobody \notin Callers
<1>1. 1 \in Copies
  BY CopiesAssumption DEF CopiesAssumption, Copies
<1>2. Nobody \notin Fqs /\ Nobody \notin Callers
  BY NobodyAssumption, IoqsAssumption DEF NobodyAssumption, IoqsAssumption, Callers
<1> QED
  BY <1>1, <1>2 DEF NoFq, FsysQio, Statuses

(* A FsysQio filled in for a read, and one for a write.                    *)
LEMMA ReadFqIs ==
  ASSUME NEW c \in Callers, NEW fd \in Fds, NEW where \in Nat, NEW len \in Nat
  PROVE  LET r == ReadFq(c, fd, where, len)
         IN  /\ r \in FsysQio /\ r.kind = "read" /\ r.caller = c /\ r.fd = fd /\ r.oLen = len /\ r.uLen = len
             /\ r.total = 0 /\ r.state = 0
<1>1. NoFq \in FsysQio
  BY NoFqType
<1>2. Sect(where) \in Nat /\ Bws(where) \in 0..1
  BY PositionType
<1>3. NoFq.total = 0 /\ NoFq.state = 0
  BY DEF NoFq
<1> QED
  BY <1>1, <1>2, <1>3 DEF ReadFq, FsysQio

(* And its data comes from the call.                                       *)
LEMMA WriteFqIs ==
  ASSUME NEW c \in Users, NEW x \in Calls, NEW where \in Nat
  PROVE  LET r == WriteFq(c, x, where)
         IN  /\ r \in FsysQio /\ r.kind = "write" /\ r.caller = c /\ r.fd = x.fd /\ r.oLen = x.len
             /\ r.uLen = x.len /\ r.total = 0 /\ r.state = 0
<1>1. c \in Callers /\ x.fd \in Fds /\ x.len \in Nat
  BY CallsAssumption DEF CallsAssumption, Callers
<1> DEFINE s == ReadFq(c, x.fd, where, x.len)
<1>2. s \in FsysQio /\ s.caller = c /\ s.fd = x.fd /\ s.oLen = x.len /\ s.uLen = x.len /\ s.total = 0 /\ s.state = 0
  BY <1>1, ReadFqIs
<1> HIDE DEF s
<1>3. WriteFq(c, x, where) = [s EXCEPT !.kind = "write", !.val = x]
  BY DEF WriteFq, s
<1> QED
  BY ZenonT(60), <1>2, <1>3 DEF FsysQio

-----------------------------------------------------------------------------
(* A transfer begins or ends.                                              *)

(* What a step does that moves one FsysQio on: kk is the kernel and r the  *)
(* FsysQio as the caller left them.                                        *)
Moved(i, r, kk) ==
  /\ q'[i] \in FsysQio /\ SameJob(q'[i], r) /\ Amounts(q'[i]) /\ q'[i].oLen = r.oLen
  /\ q' = [q EXCEPT ![i] = q'[i]]
  /\ io' \in SUBSET Fqs /\ \A l \in Fqs \ {i} : l \in io' <=> l \in io
  /\ KernelInv(k') /\ Others(kk, k', i)

(* The drive is given a transfer.                                          *)
LEMMA StartIoIs ==
  ASSUME TypeInv, NEW i \in Fqs, NEW r \in FsysQio, r.total + r.uLen = r.oLen,
         NEW kk, KernelInv(kk), StartIo(i, r, kk)
  PROVE  Moved(i, r, kk) /\ q'[i].state = 2 /\ i \in io' /\ k' = kk
<1> DEFINE s == [r EXCEPT !.state = 2, !.status = "none", !.cnt = 0]
<1>1. s \in FsysQio /\ SameJob(s, r) /\ Amounts(s) /\ s.oLen = r.oLen /\ s.state = 2
  <2>1. s \in FsysQio
    BY DEF FsysQio, Statuses
  <2>2. /\ s.kind = r.kind /\ s.caller = r.caller /\ s.fd = r.fd /\ s.oLen = r.oLen /\ s.state = 2
        /\ s.total = r.total /\ s.uLen = r.uLen /\ s.cnt = 0 /\ 0 <= r.uLen
    BY DEF FsysQio
  <2> HIDE DEF s
  <2> QED
    BY <2>1, <2>2 DEF SameJob, Amounts
<1>2. q' = [q EXCEPT ![i] = s] /\ io' = io \cup {i} /\ k' = kk
  BY DEF StartIo
<1> HIDE DEF s
<1>3. q'[i] = s
  BY <1>2 DEF TypeInv
<1>4. Others(kk, k', i)
  BY <1>2, UndisturbedSame DEF Others
<1> QED
  BY <1>1, <1>2, <1>3, <1>4 DEF Moved, TypeInv

(* The request is told of the end.                                         *)
LEMMA FinishIoIs ==
  ASSUME TypeInv, NEW i \in Fqs, NEW r \in FsysQio, r.total + r.uLen = r.oLen, i \notin io,
         NEW kk, KernelInv(kk), NEW S, Still(kk, i, S), FinishIo(i, r, kk)
  PROVE  /\ Moved(i, r, kk) /\ q'[i].state = 0 /\ i \notin io'
         /\ Due(k', i, S, IF r.kind = "read" THEN "read_done" ELSE "write_done")
<1> DEFINE s == [r EXCEPT !.state = 0, !.cnt = IF r.kind = "read" THEN r.total ELSE r.cnt]
           f == IF r.kind = "read" THEN "read_done" ELSE "write_done"
<1>1. s \in FsysQio /\ SameJob(s, r) /\ Amounts(s) /\ s.oLen = r.oLen /\ s.state = 0
  <2>1. s \in FsysQio
    BY DEF FsysQio
  <2>2. /\ s.kind = r.kind /\ s.caller = r.caller /\ s.fd = r.fd /\ s.oLen = r.oLen /\ s.state = 0
        /\ s.total = r.total /\ s.uLen = r.uLen
    BY DEF FsysQio
  <2> HIDE DEF s
  <2> QED
    BY <2>1, <2>2 DEF SameJob, Amounts
<1>2. q' = [q EXCEPT ![i] = s] /\ io' = io /\ k' = Complete(kk, i, f)
  BY DEF FinishIo
<1> HIDE DEF s
<1>3. q'[i] = s
  BY <1>2 DEF TypeInv
<1>4. i \in Ioqs /\ f \in Actions
  BY IoqsAssumption DEF IoqsAssumption, Actions
<1> HIDE DEF f
<1>5. KernelInv(k') /\ Others(kk, k', i) /\ Due(k', i, S, f)
  BY <1>2, <1>4, CompleteIs
<1> QED
  BY <1>1, <1>2, <1>3, <1>5 DEF Moved, TypeInv, f

(* Moving on with another status or state is moving on.                    *)
LEMMA MovedAs ==
  ASSUME NEW i, NEW kk, NEW r, NEW s, SameJob(s, r), s.oLen = r.oLen, Moved(i, s, kk)
  PROVE  Moved(i, r, kk)
BY DEF Moved, SameJob

(* fsys_qread from state 1: whatever comes of it, the read is on its way.  *)
LEMMA ReadOnIs ==
  ASSUME TypeInv, NEW i \in Fqs, NEW r \in FsysQio, r.total + r.uLen = r.oLen, i \notin io,
         r.kind = "read", NEW kk, KernelInv(kk), Still(kk, i, {}), ReadOn(i, r, kk)
  PROVE  Moved(i, r, kk) /\ ReadsOn(i)'
<1>1. CASE FinishIo(i, r, kk)
  <2>1. Moved(i, r, kk) /\ q'[i].state = 0 /\ i \notin io' /\ Due(k', i, {}, "read_done")
    BY <1>1, FinishIoIs
  <2> QED
    BY <2>1 DEF ReadsOn, Moved, SameJob
<1>2. CASE StartIo(i, r, kk)
  <2>1. Moved(i, r, kk) /\ q'[i].state = 2 /\ i \in io' /\ k' = kk
    BY <1>2, StartIoIs
  <2>2. q'[i].kind = "read" /\ Still(k', i, {})
    BY <2>1 DEF Moved, SameJob
  <2> QED
    BY <2>1, <2>2 DEF ReadsOn
<1>3. CASE FinishIo(i, [r EXCEPT !.status = IF r.cnt = 0 THEN "EOF" ELSE r.status], kk)
  <2> DEFINE s == [r EXCEPT !.status = IF r.cnt = 0 THEN "EOF" ELSE r.status]
  <2>1. s \in FsysQio /\ SameJob(s, r) /\ s.oLen = r.oLen /\ s.total + s.uLen = s.oLen /\ s.kind = "read"
    BY DEF FsysQio, SameJob, Statuses
  <2>2. FinishIo(i, s, kk)
    BY <1>3
  <2> HIDE DEF s
  <2>3. Moved(i, s, kk) /\ q'[i].state = 0 /\ i \notin io' /\ Due(k', i, {}, "read_done")
    BY <2>1, <2>2, FinishIoIs
  <2> QED
    BY <2>1, <2>3, MovedAs DEF ReadsOn, Moved, SameJob
<1> QED
  BY <1>1, <1>2, <1>3 DEF ReadOn

(* fsys_qwrite from state 1 and from its entry.                            *)
LEMMA WriteOnIs ==
  ASSUME TypeInv, NEW i \in Fqs, NEW r \in FsysQio, r.total + r.uLen = r.oLen, i \notin io,
         r.kind = "write", r.fd \in Fds, NEW kk, KernelInv(kk), Still(kk, i, {r.fd}), WriteOn(i, r, kk)
  PROVE  Moved(i, r, kk) /\ WritesOn(i, r.fd)'
<1>1. CASE FinishIo(i, r, kk)
  <2>1. Moved(i, r, kk) /\ q'[i].state = 0 /\ i \notin io' /\ Due(k', i, {r.fd}, "write_done")
    BY <1>1, FinishIoIs
  <2> QED
    BY <2>1 DEF WritesOn, Moved, SameJob
<1>2. CASE StartIo(i, r, kk)
  <2>1. Moved(i, r, kk) /\ q'[i].state = 2 /\ i \in io' /\ k' = kk
    BY <1>2, StartIoIs
  <2>2. q'[i].kind = "write" /\ Still(k', i, {r.fd})
    BY <2>1 DEF Moved, SameJob
  <2> QED
    BY <2>1, <2>2 DEF WritesOn
<1>3. CASE /\ q' = [q EXCEPT ![i] = [r EXCEPT !.state = 3]]
           /\ k' = GetMutex(kk, "vol", i, "qwrite")
           /\ io' = io
  <2> DEFINE s == [r EXCEPT !.state = 3]
  <2>1. s \in FsysQio /\ SameJob(s, r) /\ s.oLen = r.oLen /\ Amounts(s) /\ s.kind = "write" /\ s.state = 3
    BY DEF FsysQio, SameJob, Amounts
  <2>2. q' = [q EXCEPT ![i] = s]
    BY <1>3
  <2> HIDE DEF s
  <2>3. q'[i] = s
    BY <2>2 DEF TypeInv
  <2>4. i \in Ioqs /\ "qwrite" \in Actions /\ "vol" \in Mutexes /\ "vol" \notin {r.fd}
    BY IoqsAssumption, MutexesAssumption DEF IoqsAssumption, MutexesAssumption, Actions
  <2>5. KernelInv(k') /\ Others(kk, k', i) /\ Asks(k', i, {r.fd}, "vol", "qwrite")
    BY <1>3, <2>4, GetMutexIs
  <2>6. Moved(i, r, kk)
    BY <1>3, <2>1, <2>2, <2>3, <2>5 DEF Moved, TypeInv
  <2> QED
    BY <1>3, <2>1, <2>3, <2>5, <2>6 DEF WritesOn
<1> QED
  BY <1>1, <1>2, <1>3 DEF WriteOn

(* A write that starts within a sector ends at once.                       *)
LEMMA WriteFromIs ==
  ASSUME TypeInv, NEW i \in Fqs, NEW r \in FsysQio, r.total + r.uLen = r.oLen, i \notin io,
         r.kind = "write", r.fd \in Fds, NEW kk, KernelInv(kk), Still(kk, i, {r.fd}), WriteFrom(i, r, kk)
  PROVE  Moved(i, r, kk) /\ WritesOn(i, r.fd)'
<1>1. CASE WriteOn(i, r, kk)
  BY <1>1, WriteOnIs
<1>2. CASE FinishIo(i, [r EXCEPT !.status = "ERR"], kk)
  <2> DEFINE s == [r EXCEPT !.status = "ERR"]
  <2>1. s \in FsysQio /\ SameJob(s, r) /\ s.oLen = r.oLen /\ s.total + s.uLen = s.oLen /\ s.kind = "write"
    BY DEF FsysQio, SameJob, Statuses
  <2>2. FinishIo(i, s, kk)
    BY <1>2
  <2> HIDE DEF s
  <2>3. Moved(i, s, kk) /\ q'[i].state = 0 /\ i \notin io' /\ Due(k', i, {r.fd}, "write_done")
    BY <2>1, <2>2, FinishIoIs
  <2> QED
    BY <2>1, <2>3, MovedAs DEF WritesOn, Moved, SameJob
<1> QED
  BY <1>1, <1>2 DEF WriteFrom

-----------------------------------------------------------------------------
(* A step of one request leaves the others alone.                          *)

(* M has every part of the requests it has a part of.                      *)
Closed(M) ==
  /\ M \subseteq Ioqs
  /\ \A i \in Fqs \ In(pool) : q[i].caller \in M <=> i \in M
  /\ \A j \in MIoqs \ mpool : req[j].for \in M <=> j \in M

(* Outside of M nothing is moved.                                          *)
Apart(M) ==
  /\ \A a \in Callers \ M : req'[a] = req[a]
  /\ \A i \in Fqs \ M : q'[i] = q[i] /\ (i \in io' <=> i \in io) /\ (i \in In(pool') <=> i \in In(pool))
  /\ \A j \in MIoqs \ M : j \in mpool' <=> j \in mpool
  /\ \A x \in Ioqs \ M : Undisturbed(k, k', x)
  /\ ro' = ro

(* The file of a filler that has its mutex; cancel and close are called    *)
(* when no filler is between two functions.                                *)
FilesKept(M) ==
  \A fd \in Fds : k.cur[fd] \in MIoqs \ M =>
     fp'[fd].hold = fp[fd].hold /\ (fp'[fd].cancel = fp[fd].cancel \/ k.ast = <<>>)

PoolKept(M) ==
  \A j \in MIoqs \ M : j \notin mpool /\ Sated(j) => req[j].fq \in In(pool') /\ Last(pool') # req[j].fq

Joined(M) == \A j \in MIoqs \cap M : j \notin mpool' => req'[j].for \in M

HoldKept(M) ==
  \A fd \in Fds : fp'[fd].hold =>
     \/ /\ fp[fd].hold
        /\ \A j \in MIoqs \cap M : j \notin mpool => req[j].fd # fd \/ req[j].state # 2
     \/ \E j \in MIoqs \cap M : j \notin mpool' /\ req'[j].fd = fd /\ req'[j].state = 2

StepOf(M) == Closed(M) /\ Apart(M) /\ FilesKept(M) /\ PoolKept(M) /\ Joined(M) /\ HoldKept(M)

(* The IOQs are of four kinds.                                             *)
LEMMA Kinds ==
  /\ Users \cap Fqs = {} /\ Users \cap MIoqs = {} /\ Fqs \cap MIoqs = {}
  /\ VolOp \notin Users /\ VolOp \notin Fqs /\ VolOp \notin MIoqs /\ VolOp \in Ioqs
  /\ Users \subseteq Ioqs /\ Fqs \subseteq Ioqs /\ MIoqs \subseteq Ioqs
  /\ Callers \subseteq Ioqs /\ Callers \cap Fqs = {} /\ VolOp \notin Callers
  /\ Nobody \notin Ioqs /\ Users \subseteq Callers /\ MIoqs \subseteq Callers
BY IoqsAssumption, NobodyAssumption DEF IoqsAssumption, NobodyAssumption, Callers

(* The mutexes are of three kinds.                                         *)
LEMMA Places ==
  /\ Fds \subseteq Mutexes /\ "filep" \in Mutexes /\ "vol" \in Mutexes
  /\ "filep" \notin Fds /\ "vol" \notin Fds /\ "none" \notin Fds
BY MutexesAssumption DEF MutexesAssumption

(* The parts of an undisturbed IOQ.                                        *)
LEMMA StillKept ==
  ASSUME NEW x, NEW S \in SUBSET Mutexes, Undisturbed(k, k', x), Still(k, x, S)
  PROVE  Still(k, x, S)'
BY DEF Undisturbed

(* What is due stays due.                                                  *)
LEMMA DueKept ==
  ASSUME NEW x, NEW S \in SUBSET Mutexes, NEW f \in Actions, Undisturbed(k, k', x), Due(k, x, S, f)
  PROVE  Due(k, x, S, f)'
BY DEF Undisturbed

(* What waits for a mutex waits on, or gets it.                            *)
LEMMA AsksKept ==
  ASSUME NEW x, NEW S \in SUBSET Mutexes, NEW f \in Actions, NEW m \in Mutexes, Undisturbed(k, k', x),
         Asks(k, x, S, m, f)
  PROVE  Asks(k, x, S, m, f)'
BY DEF Undisturbed

(* A FsysQio of a request that is left alone.                              *)
LEMMA OwnsKept ==
  ASSUME NEW M, Closed(M), Apart(M), NEW a \in Callers \ M, NEW i, Owns(a, i)
  PROVE  /\ i \in Fqs \ M /\ Owns(a, i)' /\ q'[i] = q[i] /\ req'[a] = req[a]
         /\ (i \in io' <=> i \in io) /\ Undisturbed(k, k', i)
<1>1. i \in Fqs \ M
  BY DEF Owns, Closed
<1>2. i \in Ioqs
  BY <1>1, Kinds
<1> QED
  BY <1>1, <1>2 DEF Owns, Apart

(* A FsysQio that is left alone goes on as it was: it waits,               *)
LEMMA SpareKept ==
  ASSUME NEW i, q'[i] = q[i], i \in io' <=> i \in io, Undisturbed(k, k', i), Spare(i)
  PROVE  Spare(i)'
<1>1. Still(k, i, {})'
  BY StillKept DEF Spare
<1> QED
  BY <1>1 DEF Spare

(* it reads,                                                               *)
LEMMA ReadsOnKept ==
  ASSUME NEW i, q'[i] = q[i], i \in io' <=> i \in io, Undisturbed(k, k', i), ReadsOn(i)
  PROVE  ReadsOn(i)'
<1>1. "qread" \in Actions /\ "read_done" \in Actions
  BY DEF Actions
<1>2. Still(k, i, {}) => Still(k, i, {})'
  BY StillKept
<1>3. Due(k, i, {}, "qread") => Due(k, i, {}, "qread")'
  BY <1>1, DueKept
<1>4. Due(k, i, {}, "read_done") => Due(k, i, {}, "read_done")'
  BY <1>1, DueKept
<1> QED
  BY <1>2, <1>3, <1>4 DEF ReadsOn

(* it writes,                                                              *)
LEMMA WritesOnKept ==
  ASSUME NEW i, q'[i] = q[i], i \in io' <=> i \in io, Undisturbed(k, k', i), NEW fd \in Fds, WritesOn(i, fd)
  PROVE  WritesOn(i, fd)'
<1>1. "qwrite" \in Actions /\ "write_done" \in Actions /\ {fd} \in SUBSET Mutexes /\ "vol" \in Mutexes
  BY Places DEF Actions
<1>2. Still(k, i, {fd}) => Still(k, i, {fd})'
  BY <1>1, StillKept
<1>3. Due(k, i, {fd}, "qwrite") => Due(k, i, {fd}, "qwrite")'
  BY <1>1, DueKept
<1>4. Due(k, i, {fd}, "write_done") => Due(k, i, {fd}, "write_done")'
  BY <1>1, DueKept
<1>5. Asks(k, i, {fd}, "vol", "qwrite") => Asks(k, i, {fd}, "vol", "qwrite")'
  BY <1>1, AsksKept
<1> QED
  BY <1>2, <1>3, <1>4, <1>5 DEF WritesOn

(* it is to write.                                                         *)
LEMMA ToWriteKept ==
  ASSUME NEW i, q'[i] = q[i], i \in io' <=> i \in io, Undisturbed(k, k', i), NEW fd \in Fds, ToWrite(i, fd)
  PROVE  ToWrite(i, fd)'
<1>1. "qwrite" \in Actions /\ "write_q" \in Actions /\ fd \in Mutexes /\ {} \in SUBSET Mutexes
  BY Places DEF Actions
<1>2. Asks(k, i, {}, fd, "qwrite") => Asks(k, i, {}, fd, "qwrite")'
  BY <1>1, AsksKept
<1>3. Asks(k, i, {}, fd, "write_q") => Asks(k, i, {}, fd, "write_q")'
  BY <1>1, AsksKept
<1> QED
  BY <1>2, <1>3 DEF ToWrite

(* The caller that a filler works for stays behind it.                     *)
LEMMA FilledKept ==
  ASSUME NEW M, Closed(M), Apart(M), NEW c \in Callers \ M, Filled(c)
  PROVE  Filled(c)' /\ q'[req[c].fq] = q[req[c].fq] /\ req'[c] = req[c]
<1>1. c \in Ioqs /\ Undisturbed(k, k', c)
  BY Kinds DEF Apart
<1>2. Still(k, c, {})'
  BY <1>1, StillKept DEF Filled
<1>0. PICK i : i = req[c].fq
  OBVIOUS
<1>3. /\ Owns(c, i)' /\ q'[i] = q[i] /\ req'[c] = req[c]
      /\ (i \in io' <=> i \in io) /\ Undisturbed(k, k', i) /\ Spare(i)
  BY <1>0, OwnsKept DEF Filled
<1>4. Spare(i)'
  BY <1>3, SpareKept
<1>5. req'[c].fq = i
  BY <1>3, <1>0
<1> QED
  BY <1>2, <1>3, <1>4, <1>5, <1>0 DEF Filled

(* The caller of a transfer stays behind its transfer.                     *)
LEMMA TransfersKept ==
  ASSUME NEW M, Closed(M), Apart(M), NEW c \in Callers \ M, req[c].fd \in Fds, Transfers(c)
  PROVE  Transfers(c)'
<1>0. PICK i, fd : i = req[c].fq /\ fd = req[c].fd
  OBVIOUS
<1>1. c \in Ioqs /\ Undisturbed(k, k', c) /\ fd \in Mutexes /\ {fd} \in SUBSET Mutexes /\ fd \in Fds
  BY <1>0, Kinds, Places DEF Apart
<1>2. "readwpos_q" \in Actions /\ "read_q" \in Actions
  BY DEF Actions
<1>3. /\ Owns(c, i)' /\ q'[i] = q[i] /\ req'[c] = req[c]
      /\ (i \in io' <=> i \in io) /\ Undisturbed(k, k', i)
  BY <1>0, OwnsKept DEF Transfers
<1>4. req'[c].fq = i /\ req'[c].fd = fd
  BY <1>0, <1>3
<1>5. /\ Spare(i) => Spare(i)'
      /\ ReadsOn(i) => ReadsOn(i)'
      /\ ToWrite(i, fd) => ToWrite(i, fd)'
      /\ WritesOn(i, fd) => WritesOn(i, fd)'
  BY <1>1, <1>3, SpareKept, ReadsOnKept, ToWriteKept, WritesOnKept
<1>6. /\ Still(k, c, {}) => Still(k, c, {})'
      /\ Still(k, c, {fd}) => Still(k, c, {fd})'
      /\ Asks(k, c, {}, fd, "readwpos_q") => Asks(k, c, {}, fd, "readwpos_q")'
      /\ Asks(k, c, {}, fd, "read_q") => Asks(k, c, {}, fd, "read_q")'
  BY <1>1, <1>2, StillKept, AsksKept
<1> QED
  BY <1>0, <1>3, <1>4, <1>5, <1>6 DEF Transfers

(* A filler that is left alone goes on as it was.                          *)
LEMMA FillerKept ==
  ASSUME NEW M, StepOf(M), NEW j \in MIoqs \ M, j \notin mpool, FillerInv(j),
         req[j].for \in Users, req[j].fd \in Fds
  PROVE  FillerInv(j)'
<1>0. PICK c, fd, i : c = req[j].for /\ fd = req[j].fd /\ i = req[j].fq
  OBVIOUS
<1>1. /\ Closed(M) /\ Apart(M) /\ c \in Callers \ M /\ req'[j] = req[j] /\ j \in Callers \ M
      /\ Undisturbed(k, k', j) /\ j \in Ioqs
  BY <1>0, Kinds DEF StepOf, Closed, Apart
<1>2. Filled(c)' /\ q'[req[c].fq] = q[req[c].fq] /\ req'[c] = req[c]
  BY <1>0, <1>1, FilledKept DEF FillerInv
<1>3. /\ fd \in Fds /\ fd \in Mutexes /\ {} \in SUBSET Mutexes /\ {fd} \in SUBSET Mutexes
      /\ {fd, "filep"} \in SUBSET Mutexes /\ "filep" \in Mutexes
  BY <1>0, Places
<1>4. "readbws_q" \in Actions /\ "readwpos_q" \in Actions
  BY DEF Actions
<1>5. req'[j].fd = fd /\ req'[j].fq = i /\ req'[j].for = c
  BY <1>0, <1>1
<1>6. /\ Asks(k, j, {}, fd, "readbws_q") => Asks(k, j, {}, fd, "readbws_q")'
      /\ Asks(k, j, {fd}, "filep", "readbws_q") => Asks(k, j, {fd}, "filep", "readbws_q")'
      /\ Due(k, j, {fd, "filep"}, "readwpos_q") => Due(k, j, {fd, "filep"}, "readwpos_q")'
      /\ Due(k, j, {fd, "filep"}, "readbws_q") => Due(k, j, {fd, "filep"}, "readbws_q")'
      /\ Still(k, j, {fd, "filep"}) => Still(k, j, {fd, "filep"})'
  BY <1>1, <1>3, <1>4, StillKept, AsksKept, DueKept
<1>7. ASSUME ToRead(j) \/ Reading(j) \/ Sated(j)
      PROVE  k.cur[fd] = j /\ fp'[fd].hold = fp[fd].hold
  <2>1. Held(k, j) = {fd, "filep"}
    BY <1>0, <1>7 DEF ToRead, Reading, Sated, Due, Still
  <2>2. k.cur[fd] = j
    BY <2>1 DEF Held
  <2> QED
    BY <1>3, <2>2 DEF StepOf, FilesKept
<1>8. ASSUME ToRead(j) PROVE ToRead(j)'
  <2>1. k.ast # <<>>
    BY <1>8 DEF ToRead, Due, In
  <2>2. fp'[fd].cancel = fp[fd].cancel
    BY <1>3, <1>7, <1>8, <2>1 DEF StepOf, FilesKept
  <2>3. /\ Owns(j, i)' /\ q'[i] = q[i] /\ (i \in io' <=> i \in io) /\ Undisturbed(k, k', i)
        /\ Spare(i)
    BY <1>0, <1>1, <1>8, OwnsKept DEF ToRead
  <2>4. Spare(i)'
    BY <2>3, SpareKept
  <2> QED
    BY <1>0, <1>5, <1>6, <1>8, <2>2, <2>3, <2>4 DEF ToRead
<1>9. ASSUME Reading(j) PROVE Reading(j)'
  <2>3. /\ Owns(j, i)' /\ q'[i] = q[i] /\ (i \in io' <=> i \in io) /\ Undisturbed(k, k', i)
        /\ ReadsOn(i)
    BY <1>0, <1>1, <1>9, OwnsKept DEF Reading
  <2>4. ReadsOn(i)'
    BY <2>3, ReadsOnKept
  <2> QED
    BY <1>0, <1>5, <1>6, <1>9, <2>3, <2>4 DEF Reading
<1>10. ASSUME Sated(j) PROVE Sated(j)'
  <2>1. k.ast # <<>>
    BY <1>10 DEF Sated, Due, In
  <2>2. fp'[fd].cancel = fp[fd].cancel
    BY <1>3, <1>7, <1>10, <2>1 DEF StepOf, FilesKept
  <2>3. i \in In(pool') /\ Last(pool') # i
    BY <1>0, <1>10 DEF StepOf, PoolKept
  <2> QED
    BY <1>0, <1>1, <1>5, <1>6, <1>10, <2>2, <2>3 DEF Sated
<1>11. Fills(j)'
  <2>1. CASE req[j].state = 2
    BY <1>0, <1>1, <1>5, <1>7, <1>8, <1>9, <1>10, <2>1 DEF FillerInv, Fills
  <2>2. CASE req[j].state # 2
    BY <1>0, <1>1, <1>5, <1>6, <2>2 DEF FillerInv, Fills
  <2> QED
    BY <2>1, <2>2
<1> QED
  BY <1>0, <1>1, <1>2, <1>5, <1>11 DEF FillerInv

(* So does one that closes.                                                *)
LEMMA CloserKept ==
  ASSUME NEW M, StepOf(M), NEW j \in MIoqs \ M, j \notin mpool, CloserInv(j),
         req[j].for \in Users, req[j].fd \in Fds
  PROVE  CloserInv(j)'
<1>0. PICK c, fd : c = req[j].for /\ fd = req[j].fd
  OBVIOUS
<1>1. /\ c \in Ioqs \ M /\ req'[j] = req[j] /\ req'[c] = req[c]
      /\ Undisturbed(k, k', j) /\ Undisturbed(k, k', c)
  BY <1>0, Kinds DEF StepOf, Closed, Apart
<1>2. fd \in Mutexes /\ {} \in SUBSET Mutexes /\ "cancel_done" \in Actions /\ "closeq" \in Actions
  BY <1>0, Places DEF Actions
<1>3. Still(k, c, {})'
  BY <1>0, <1>1, StillKept DEF CloserInv, Closing
<1>4. /\ Asks(k, j, {}, fd, "cancel_done") => Asks(k, j, {}, fd, "cancel_done")'
      /\ Due(k, j, {}, "closeq") => Due(k, j, {}, "closeq")'
  BY <1>1, <1>2, AsksKept, DueKept
<1> QED
  BY <1>0, <1>1, <1>3, <1>4 DEF CloserInv, Closing

(* Both, and one that is in the pool.                                      *)
LEMMA ServiceKept ==
  ASSUME PipeInv, NEW M, StepOf(M), NEW j \in MIoqs \ M
  PROVE  ServiceInv(j)'
<1>1. /\ req'[j] = req[j] /\ (j \in mpool' <=> j \in mpool) /\ Undisturbed(k, k', j)
      /\ ServiceInv(j) /\ (req[j].op # "none" => req[j].fd \in Fds)
  BY Kinds DEF StepOf, Apart, PipeInv, CallerInv
<1>2. CASE j \in mpool
  BY <1>1, <1>2, StillKept DEF ServiceInv
<1>3. CASE j \notin mpool
  <2>0. PICK c : c = req[j].for
    OBVIOUS
  <2>1. c \in Users \ M /\ c \in Callers \ M /\ req'[c] = req[c] /\ req[c].fd = req[j].fd
    BY <1>1, <1>3, <2>0, Kinds DEF ServiceInv, StepOf, Closed, Apart
  <2>2. FillerInv(j)' \/ CloserInv(j)'
    <3>1. FillerInv(j) \/ CloserInv(j)
      BY <1>1, <1>3 DEF ServiceInv
    <3>2. req[j].fd \in Fds
      BY <1>1, <3>1 DEF FillerInv, CloserInv
    <3> QED
      BY <1>3, <2>0, <2>1, <3>1, <3>2, FillerKept, CloserKept
  <2>3. ASSUME NEW l \in MIoqs \ mpool', req'[l].for = c PROVE l = j
    <3>1. CASE l \in M
      BY <2>1, <2>3, <3>1 DEF StepOf, Joined
    <3>2. CASE l \notin M
      BY <1>1, <1>3, <2>0, <2>3, <3>2, Kinds DEF StepOf, Apart, ServiceInv
    <3> QED
      BY <3>1, <3>2
  <2> QED
    BY <1>1, <1>3, <2>0, <2>1, <2>2, <2>3 DEF ServiceInv
<1> QED
  BY <1>2, <1>3

(* So does a caller.                                                       *)
LEMMA CallerKept ==
  ASSUME PipeInv, NEW M, StepOf(M), NEW c \in Callers \ M
  PROVE  CallerInv(c)'
<1>1. /\ req'[c] = req[c] /\ Undisturbed(k, k', c) /\ CallerInv(c) /\ ro' = ro
      /\ Closed(M) /\ Apart(M)
  BY Kinds DEF StepOf, Apart, PipeInv
<1>2. CASE c \in MIoqs
  <2>1. ServiceInv(c)' /\ c \notin Users
    BY <1>2, ServiceKept, Kinds
  <2> QED
    BY <1>1, <1>2, <2>1 DEF CallerInv
<1>3. CASE c \in Users
  <2>0. PICK fd : fd = req[c].fd
    OBVIOUS
  <2>1. ASSUME Quiet(c) PROVE Quiet(c)'
    <3>1. Still(k, c, {})'
      BY <1>1, <2>1, StillKept DEF Quiet
    <3> QED
      BY <1>1, <2>1, <3>1 DEF Quiet
  <2>2. ASSUME Answered(c) PROVE Answered(c)'
    <3>1. "user" \in Actions
      BY DEF Actions
    <3>2. Due(k, c, {}, "user")'
      BY <1>1, <2>2, <3>1, DueKept DEF Answered
    <3> QED
      BY <1>1, <2>2, <3>2 DEF Answered
  <2>3. ASSUME InTurn(c) PROVE InTurn(c)'
    <3>1. fd \in Mutexes /\ "vol" \in Mutexes
      BY <1>1, <2>0, <2>3, Places DEF CallerInv, InTurn
    <3>2. "lseek_q" \in Actions /\ "cancel_done" \in Actions /\ "close_upd" \in Actions
      BY DEF Actions
    <3>3. /\ Asks(k, c, {}, fd, "lseek_q") => Asks(k, c, {}, fd, "lseek_q")'
          /\ Asks(k, c, {}, fd, "cancel_done") => Asks(k, c, {}, fd, "cancel_done")'
          /\ Asks(k, c, {}, "vol", "close_upd") => Asks(k, c, {}, "vol", "close_upd")'
      BY <1>1, <3>1, <3>2, AsksKept
    <3> QED
      BY <1>1, <2>0, <2>3, <3>3 DEF InTurn
  <2>4. ASSUME Transfers(c) PROVE Transfers(c)'
    <3>1. req[c].fd \in Fds
      <4>2. Owns(c, req[c].fq) /\ QioInv(req[c].fq)
        BY <2>4 DEF Transfers, Owns, PipeInv
      <4>3. req[c].op \in {"read", "readwpos", "write", "writewpos"}
        BY <1>3, <4>2 DEF QioInv, Owned, Owns
      <4> QED
        BY <1>1, <4>3 DEF CallerInv
    <3> QED
      BY <1>1, <2>4, <3>1, TransfersKept
  <2>5. ASSUME Waits(c) PROVE Waits(c)'
    <3>1. PICK j \in MIoqs \ mpool : req[j].for = c
      BY <2>5 DEF Waits
    <3>2. j \notin M
      BY <1>1, <3>1 DEF Closed
    <3>3. j \notin mpool' /\ req'[j] = req[j]
      BY <1>1, <3>1, <3>2, Kinds DEF Apart
    <3> QED
      BY <3>1, <3>3 DEF Waits
  <2>6. ASSUME Forgotten(c) PROVE Forgotten(c)'
    <3>1. Still(k, c, {})'
      BY <1>1, <2>6, StillKept DEF Forgotten, Closing
    <3> QED
      BY <1>1, <2>6, <3>1 DEF Forgotten, Closing
  <2>7. Told(c)'
    BY <1>1, <1>3 DEF CallerInv, Told
  <2>8. c \notin MIoqs
    BY <1>3, Kinds
  <2>9. Quiet(c)' \/ Answered(c)' \/ InTurn(c)' \/ Transfers(c)' \/ Waits(c)' \/ Forgotten(c)'
    BY <1>1, <1>3, <2>1, <2>2, <2>3, <2>4, <2>5, <2>6 DEF CallerInv
  <2> QED
    BY <1>1, <1>3, <2>7, <2>8, <2>9 DEF CallerInv
<1> QED
  BY <1>2, <1>3 DEF Callers

(* And a FsysQio.                                                          *)
LEMMA QioKept ==
  ASSUME PipeInv, NEW M, StepOf(M), NEW i \in Fqs \ M
  PROVE  QioInv(i)'
<1>1. /\ q'[i] = q[i] /\ (i \in io' <=> i \in io) /\ (i \in In(pool') <=> i \in In(pool))
      /\ Undisturbed(k, k', i) /\ QioInv(i) /\ Closed(M) /\ Apart(M)
  BY Kinds DEF StepOf, Apart, PipeInv
<1>2. CASE i \in In(pool)
  BY <1>1, <1>2, StillKept DEF QioInv
<1>3. CASE i \notin In(pool)
  <2>0. PICK a : a = q[i].caller
    OBVIOUS
  <2>1. a \in Callers \ M /\ Owns(a, i) /\ Owned(i)
    BY <1>1, <1>3, <2>0 DEF QioInv, Owned, Closed
  <2>2. Owns(a, i)' /\ req'[a] = req[a] /\ (a \in MIoqs => (a \in mpool' <=> a \in mpool))
    BY <1>1, <2>1, OwnsKept DEF Apart
  <2>3. a \in Users => req[a].fd \in Fds
    BY <2>0, <2>1 DEF Owned, PipeInv, CallerInv
  <2>4. a \in Users => Transfers(a)' \/ Filled(a)'
    BY <1>1, <2>0, <2>1, <2>3, TransfersKept, FilledKept DEF Owned
  <2> QED
    BY <1>1, <1>3, <2>0, <2>1, <2>2, <2>4 DEF QioInv, Owned
<1> QED
  BY <1>2, <1>3

(* Hence a step keeps the invariant if it keeps it where it acts.          *)
LEMMA PipeKept ==
  ASSUME PipeInv, NEW M, StepOf(M), TypeInv', KernelInv(k)',
         \A a \in Callers \cap M : CallerInv(a)',
         \A i \in Fqs \cap M : QioInv(i)',
         VolOp \in M => VolOpInv'
  PROVE  PipeInv'
<1>1. \A a \in Callers : CallerInv(a)'
  BY CallerKept
<1>2. \A i \in Fqs : QioInv(i)'
  BY QioKept
<1>3. HoldInv'
  <2> SUFFICES ASSUME NEW fd \in Fds, fp'[fd].hold
               PROVE  \E j \in MIoqs \ mpool' : req'[j].fd = fd /\ req'[j].state = 2
    BY DEF HoldInv
  <2>1. CASE \E j \in MIoqs \cap M : j \notin mpool' /\ req'[j].fd = fd /\ req'[j].state = 2
    BY <2>1
  <2>2. CASE /\ fp[fd].hold
             /\ \A j \in MIoqs \cap M : j \notin mpool => req[j].fd # fd \/ req[j].state # 2
    <3>1. PICK j \in MIoqs \ mpool : req[j].fd = fd /\ req[j].state = 2
      BY <2>2 DEF PipeInv, HoldInv
    <3>2. j \notin M
      BY <2>2, <3>1
    <3>3. req'[j] = req[j] /\ j \notin mpool'
      BY <3>1, <3>2, Kinds DEF StepOf, Apart
    <3> QED
      BY <3>1, <3>3
  <2> QED
    BY <2>1, <2>2 DEF StepOf, HoldKept
<1>4. VolOpInv'
  <2>1. CASE VolOp \in M
    BY <2>1
  <2>2. CASE VolOp \notin M
    <3>1. Undisturbed(k, k', VolOp)
      BY <2>2, Kinds DEF StepOf, Apart
    <3>2. {} \in SUBSET Mutexes /\ {"vol"} \in SUBSET Mutexes /\ "vol" \in Mutexes /\ "vol_op" \in Actions
      BY Places DEF Actions
    <3>3. /\ Still(k, VolOp, {}) => Still(k, VolOp, {})'
          /\ Still(k, VolOp, {"vol"}) => Still(k, VolOp, {"vol"})'
          /\ Asks(k, VolOp, {}, "vol", "vol_op") => Asks(k, VolOp, {}, "vol", "vol_op")'
      BY <3>1, <3>2, StillKept, AsksKept
    <3> QED
      BY <3>3 DEF PipeInv, VolOpInv
  <2> QED
    BY <2>1, <2>2
<1> QED
  BY <1>1, <1>2, <1>3, <1>4 DEF PipeInv

-----------------------------------------------------------------------------
(* The parts of a request.                                                 *)

(* The caller of a filler or of a close is at rest.                        *)
LEMMA ServedRests ==
  ASSUME PipeInv, NEW j \in MIoqs, j \notin mpool
  PROVE  /\ req[j].for \in Users /\ Still(k, req[j].for, {}) /\ req[req[j].for].fd = req[j].fd
         /\ req[j].fd \in Fds /\ ServiceInv(j) /\ (FillerInv(j) \/ CloserInv(j))
<1>1. CallerInv(j) /\ ServiceInv(j)
  BY Kinds DEF PipeInv, CallerInv
<1>2. FillerInv(j) \/ CloserInv(j)
  BY <1>1 DEF ServiceInv
<1> QED
  BY <1>1, <1>2 DEF CallerInv, ServiceInv, FillerInv, CloserInv, Filled, Closing

(* What is not in the pool is owned.                                       *)
LEMMA OwnerIs ==
  ASSUME PipeInv, NEW i \in Fqs, i \notin In(pool)
  PROVE  /\ Owned(i) /\ q[i].caller \in Callers /\ Owns(q[i].caller, i) /\ q[i].fd \in Fds
         /\ req[q[i].caller].fq = i
<1>1. Owned(i)
  BY DEF PipeInv, QioInv
<1>2. q[i].caller \in Callers /\ CallerInv(q[i].caller) /\ req[q[i].caller].op # "none"
  BY <1>1 DEF PipeInv, Owned, Callers
<1> QED
  BY <1>1, <1>2 DEF Owned, Owns, CallerInv

(* A request of one QioIOQ, and one of a QioIOQ and a FsysQio.             *)
LEMMA ClosedOne ==
  ASSUME PipeInv, NEW c \in Users, ~Waits(c), \A i \in Fqs \ In(pool) : ~Owns(c, i)
  PROVE  Closed({c})
<1>1. \A i \in Fqs \ In(pool) : q[i].caller # c /\ i # c
  BY OwnerIs, Kinds
<1>2. \A j \in MIoqs \ mpool : req[j].for # c /\ j # c
  BY Kinds DEF Waits
<1> QED
  BY <1>1, <1>2, Kinds DEF Closed

(* A caller without a helper and its FsysQio are a whole request.          *)
LEMMA ClosedTwo ==
  ASSUME PipeInv, NEW c \in Users, ~Waits(c), NEW i, Owns(c, i)
  PROVE  Closed({c, i})
<1>1. i \in Fqs \ In(pool) /\ q[i].caller = c /\ req[c].fq = i
  BY DEF Owns
<1>2. \A l \in Fqs \ In(pool) : (q[l].caller = c => l = i) /\ l # c /\ q[l].caller # i
  BY <1>1, OwnerIs, Kinds
<1>3. \A j \in MIoqs \ mpool : req[j].for # c /\ j # c /\ j # i /\ req[j].for # i
  BY <1>1, ServedRests, Kinds DEF Waits
<1> QED
  BY <1>1, <1>2, <1>3, Kinds DEF Closed

(* A close with its helper.                                                *)
LEMMA ClosedClose ==
  ASSUME PipeInv, NEW j \in MIoqs, j \notin mpool, CloserInv(j)
  PROVE  Closed({req[j].for, j})
<1>0. PICK c : c = req[j].for
  OBVIOUS
<1>1. c \in Users /\ req[c].op = "close" /\ req[j].op = "closer"
  BY <1>0, ServedRests DEF CloserInv, Closing
<1>2. ASSUME NEW l \in Fqs \ In(pool) PROVE q[l].caller # c /\ q[l].caller # j /\ l # c /\ l # j
  BY <1>1, OwnerIs, Kinds DEF Owned
<1>3. ASSUME NEW l \in MIoqs \ mpool PROVE (req[l].for = c => l = j) /\ l # c /\ req[l].for # j
  BY <1>0, <1>1, ServedRests, Kinds DEF ServiceInv
<1> QED
  BY <1>0, <1>1, <1>2, <1>3, Kinds DEF Closed

(* A filler and its caller, with or without the filler's own FsysQio.      *)
LEMMA ClosedFill ==
  ASSUME PipeInv, NEW j \in MIoqs, j \notin mpool, FillerInv(j)
  PROVE  LET c == req[j].for
             i == req[c].fq
             l == req[j].fq
         IN  /\ c \in Users /\ Owns(c, i) /\ i \in Fqs /\ i \notin In(pool)
             /\ ~Owns(j, l) => Closed({c, i, j})
             /\ Owns(j, l) => Closed({c, i, j, l}) /\ l # i /\ l \in Fqs
<1>0. PICK c, i, l : c = req[j].for /\ i = req[c].fq /\ l = req[j].fq
  OBVIOUS
<1>1. c \in Users /\ Owns(c, i) /\ q[i].caller = c /\ i \in Fqs /\ i \notin In(pool)
  BY <1>0, ServedRests DEF FillerInv, Filled, Owns
<1>2. ASSUME NEW n \in Fqs \ In(pool)
      PROVE  /\ q[n].caller = c => n = i
             /\ q[n].caller = j => n = l /\ Owns(j, l)
             /\ q[n].caller # i /\ q[n].caller # l /\ n # c /\ n # j
  <2>1. q[n].caller \in Callers /\ Owns(q[n].caller, n) /\ req[q[n].caller].fq = n
    BY OwnerIs
  <2>2. l \in Fqs \/ l = Nobody
    BY <1>0, Kinds DEF PipeInv, TypeInv, QioIOQ
  <2> QED
    BY <1>0, <1>1, <2>1, <2>2, Kinds
<1>3. ASSUME NEW n \in MIoqs \ mpool
      PROVE  (req[n].for = c => n = j) /\ n # c /\ req[n].for # j /\ req[n].for # i /\ n # i
             /\ (l \in Fqs => n # l /\ req[n].for # l)
  BY <1>0, <1>1, ServedRests, Kinds DEF ServiceInv
<1>4. ASSUME ~Owns(j, l) PROVE Closed({c, i, j})
  <2>1. \A n \in Fqs \ In(pool) : q[n].caller \in {c, i, j} <=> n \in {c, i, j}
    BY <1>1, <1>2, <1>4
  <2>2. \A n \in MIoqs \ mpool : req[n].for \in {c, i, j} <=> n \in {c, i, j}
    BY <1>0, <1>3
  <2> QED
    BY <1>1, <2>1, <2>2, Kinds DEF Closed
<1>5. ASSUME Owns(j, l) PROVE Closed({c, i, j, l}) /\ l # i /\ l \in Fqs
  <2>0. l \in Fqs /\ q[l].caller = j
    BY <1>5 DEF Owns
  <2>1. \A n \in Fqs \ In(pool) : q[n].caller \in {c, i, j, l} <=> n \in {c, i, j, l}
    BY <1>1, <1>2, <2>0
  <2>2. \A n \in MIoqs \ mpool : req[n].for \in {c, i, j, l} <=> n \in {c, i, j, l}
    BY <1>0, <1>3, <2>0
  <2> QED
    BY <1>1, <2>0, <2>1, <2>2, Kinds DEF Closed
<1> QED
  BY <1>0, <1>1, <1>4, <1>5

(* What is taken from the pools was nobody's.                              *)
LEMMA ClosedMore ==
  ASSUME PipeInv, NEW M, Closed(M), NEW X \in SUBSET (In(pool) \cup mpool \cup {VolOp}), X \subseteq Ioqs
  PROVE  Closed(M \cup X)
<1>1. \A i \in Fqs \ In(pool) : q[i].caller \notin X /\ i \notin X
  <2> SUFFICES ASSUME NEW i \in Fqs \ In(pool) PROVE q[i].caller \notin X /\ i \notin X
    OBVIOUS
  <2>1. q[i].caller \in Callers /\ q[i].caller \notin mpool
    BY OwnerIs, Kinds DEF Owned, Callers, PipeInv, TypeInv
  <2>2. In(pool) \subseteq Fqs
    BY InType DEF PipeInv, TypeInv
  <2> QED
    BY <2>1, <2>2, Kinds DEF PipeInv, TypeInv
<1>2. \A j \in MIoqs \ mpool : req[j].for \notin X /\ j \notin X
  <2>1. In(pool) \subseteq Fqs /\ mpool \subseteq MIoqs
    BY InType DEF PipeInv, TypeInv
  <2> QED
    BY <2>1, ServedRests, Kinds
<1> QED
  BY <1>1, <1>2 DEF Closed

-----------------------------------------------------------------------------
(* Who runs.                                                               *)

(* Outside of M the kernel disturbs nobody.                                *)
Beside(a, b, M) == \A x \in Ioqs \ M : Undisturbed(a, b, x)

(* An IOQ that runs or is about to is in no other place.                   *)
LEMMA RunsIs ==
  ASSUME KernelInv(k), NEW x \in Ioqs, x \in In(k.ast)
  PROVE  /\ \A S : ~Still(k, x, S)
         /\ \A S, f : Due(k, x, S, f) => k.act[x] = f
         /\ \A S, f, m \in Mutexes : Asks(k, x, S, m, f) => k.act[x] = f /\ Due(k, x, S \cup {m}, f)
BY DEF KernelInv, Still, Queued, Due, Asks

(* Who asked for a mutex and is on the AST queue has it.                   *)
LEMMA AsksRuns ==
  ASSUME KernelInv(k), NEW x \in Ioqs, x \in In(k.ast), NEW m \in Mutexes, NEW S, NEW g, Asks(k, x, S, m, g)
  PROVE  k.act[x] = g /\ Due(k, x, S \cup {m}, k.act[x])
BY DEF KernelInv, Asks, Due

(* What runs is the head of the AST queue.                                 *)
LEMMA HeadRuns ==
  ASSUME KernelInv(k), NEW x, NEW f, Runs(x, f)
  PROVE  x \in In(k.ast) /\ x \in Ioqs /\ k.act[x] = f /\ k.ast # <<>> /\ x = Head(k.ast)
<1>1. k.ast \in Seq(Ioqs) /\ k.ast # <<>>
  BY DEF KernelInv, Kernel, Runs
<1>2. 1 \in DOMAIN k.ast /\ Head(k.ast) = k.ast[1]
  BY <1>1
<1> QED
  BY <1>1, <1>2 DEF Runs, In

(* The dispatch loop takes it off the queue.                               *)
LEMMA TakenOff ==
  ASSUME KernelInv(k), NEW x, NEW f, Runs(x, f), NEW S, Due(k, x, S, f)
  PROVE  KernelInv(D) /\ Still(D, x, S) /\ Others(k, D, x)
<1>1. Head(k.ast) = x /\ k.ast # <<>>
  BY DEF Runs
<1> QED
  BY <1>1, DispatchedIs DEF D

(* A caller with a helper is at rest, and owns no FsysQio at work.         *)
LEMMA WaitsIs ==
  ASSUME PipeInv, NEW c \in Users, Waits(c)
  PROVE  Still(k, c, {}) /\ (req[c].op = "close" \/ (Owns(c, req[c].fq) /\ Spare(req[c].fq)))
<1>1. PICK j \in MIoqs \ mpool : req[j].for = c
  BY DEF Waits
<1> QED
  BY <1>1, ServedRests DEF FillerInv, CloserInv, Filled, Closing

(* The caller that runs, and what it runs.                                 *)
UserDoes(c, f) ==
  LET fd == req[c].fd
      i == req[c].fq
  IN  /\ ~Waits(c)
      /\ \/ f = "user" /\ Answered(c)
         \/ f = "lseek_q" /\ req[c].op = "lseek" /\ i = Nobody /\ Due(k, c, {fd}, f)
         \/ f = "cancel_done" /\ req[c].op = "cancel" /\ i = Nobody /\ Due(k, c, {fd}, f)
         \/ f = "close_upd" /\ req[c].op = "close" /\ i = Nobody /\ Due(k, c, {"vol"}, f)
         \/ /\ f \in {"readwpos_q", "read_q"} /\ Owns(c, i) /\ Spare(i) /\ Due(k, c, {fd}, f)
            /\ f = "read_q" => req[c].cnt = 0

(* What runs of a caller is what it is waiting for.                        *)
LEMMA UserRuns ==
  ASSUME PipeInv, NEW c \in Users, NEW f, Runs(c, f)
  PROVE  UserDoes(c, f)
<1>0. PICK fd, i : fd = req[c].fd /\ i = req[c].fq
  OBVIOUS
<1>1. c \in In(k.ast) /\ c \in Ioqs /\ k.act[c] = f /\ KernelInv(k)
  BY HeadRuns DEF PipeInv
<1>2. /\ \A S : ~Still(k, c, S)
      /\ \A S, g : Due(k, c, S, g) => f = g
      /\ \A S, g, m \in Mutexes : Asks(k, c, S, m, g) => f = g /\ Due(k, c, S \cup {m}, g)
  BY <1>1, RunsIs
<1>3. ~Waits(c)
  BY <1>2, WaitsIs
<1>4. c \in Callers /\ CallerInv(c)
  BY Kinds DEF PipeInv
<1>5. Answered(c) \/ InTurn(c) \/ Transfers(c)
  BY <1>2, <1>3, <1>4 DEF CallerInv, Quiet, Forgotten, Closing
<1>6. CASE Answered(c)
  BY <1>2, <1>3, <1>6 DEF Answered, UserDoes
<1>7. CASE InTurn(c)
  <2>1. fd \in Mutexes /\ "vol" \in Mutexes
    BY <1>0, <1>4, <1>7, Places DEF CallerInv, InTurn
  <2>2. ASSUME NEW m \in Mutexes, NEW g, Asks(k, c, {}, m, g) PROVE f = g /\ Due(k, c, {m}, f)
    <3>1. {} \cup {m} = {m}
      OBVIOUS
    <3> QED
      BY <1>1, <2>2, <3>1, AsksRuns
  <2> QED
    BY <1>0, <1>3, <1>7, <2>1, <2>2 DEF InTurn, UserDoes
<1>8. CASE Transfers(c)
  <2>1. Owns(c, i)
    BY <1>0, <1>8 DEF Transfers
  <2>2. fd \in Mutexes
    <3>1. i \in Fqs /\ i \notin In(pool) /\ q[i].caller = c
      BY <2>1 DEF Owns
    <3> QED
      BY <1>0, <2>1, <3>1, OwnerIs, Places DEF Owns
  <2>3. ASSUME NEW g, Asks(k, c, {}, fd, g) PROVE f = g /\ Due(k, c, {fd}, f)
    <3>1. {} \cup {fd} = {fd}
      OBVIOUS
    <3> QED
      BY <1>1, <2>2, <2>3, <3>1, AsksRuns
  <2>4. /\ Spare(i)
        /\ Asks(k, c, {}, fd, "readwpos_q") \/ (Asks(k, c, {}, fd, "read_q") /\ req[c].cnt = 0)
    BY <1>0, <1>2, <1>8 DEF Transfers
  <2> QED
    BY <1>0, <1>3, <2>1, <2>3, <2>4 DEF UserDoes
<1> QED
  BY <1>5, <1>6, <1>7, <1>8

(* Unless it starts a transfer, the request of a caller is of one QioIOQ.  *)
LEMMA UserAlone ==
  ASSUME PipeInv, NEW c \in Users, NEW f, Runs(c, f), f \notin {"readwpos_q", "read_q"}
  PROVE  Closed({c})
<1>1. c \in In(k.ast) /\ c \in Ioqs /\ k.act[c] = f /\ KernelInv(k)
  BY HeadRuns DEF PipeInv
<1>2. ~Waits(c)
  BY UserRuns DEF UserDoes
<1>3. ASSUME NEW i \in Fqs \ In(pool), Owns(c, i) PROVE FALSE
  <2>1. q[i].caller = c /\ req[c].fq = i /\ req[c].fd = q[i].fd /\ q[i].fd \in Mutexes
    BY <1>3, OwnerIs, Places DEF Owns
  <2>2. Owned(i)
    BY OwnerIs
  <2>3. Transfers(c) \/ Filled(c)
    BY <2>1, <2>2 DEF Owned
  <2>4. \A S : ~Still(k, c, S)
    BY <1>1, RunsIs
  <2>5. ~Asks(k, c, {}, req[c].fd, "readwpos_q") /\ ~Asks(k, c, {}, req[c].fd, "read_q")
    <3>1. ASSUME NEW m \in Mutexes, NEW g, Asks(k, c, {}, m, g) PROVE g = f
      BY <1>1, <3>1, AsksRuns
    <3> QED
      BY <2>1, <3>1
  <2> QED
    BY <2>3, <2>4, <2>5 DEF Transfers, Filled
<1> QED
  BY <1>2, <1>3, ClosedOne

(* The helper that runs, and what it runs.                                 *)
Helps(j, f) ==
  LET fd == req[j].fd
  IN  /\ j \notin mpool
      /\ \/ f = "cancel_done" /\ CloserInv(j) /\ Due(k, j, {fd}, f)
         \/ f = "closeq" /\ CloserInv(j) /\ Due(k, j, {}, f)
         \/ f = "readwpos_q" /\ FillerInv(j) /\ req[j].state = 2 /\ fp[fd].hold /\ ToRead(j)
         \/ /\ f = "readbws_q" /\ FillerInv(j)
            /\ \/ req[j].state = 0 /\ req[j].fq = Nobody /\ req[j].cnt = 0 /\ Due(k, j, {fd}, f)
               \/ req[j].state = 1 /\ req[j].fq = Nobody /\ req[j].cnt = 0 /\ Due(k, j, {fd, "filep"}, f)
               \/ req[j].state = 2 /\ fp[fd].hold /\ Sated(j)

(* So it is with a QioIOQ of the pool.                                     *)
LEMMA HelperRuns ==
  ASSUME PipeInv, NEW j \in MIoqs, NEW f, Runs(j, f)
  PROVE  Helps(j, f)
<1>0. PICK fd : fd = req[j].fd
  OBVIOUS
<1>1. j \in In(k.ast) /\ j \in Ioqs /\ k.act[j] = f /\ KernelInv(k)
  BY HeadRuns DEF PipeInv
<1>2. /\ \A S : ~Still(k, j, S)
      /\ \A S, g : Due(k, j, S, g) => f = g
      /\ \A S, g, m \in Mutexes : Asks(k, j, S, m, g) => f = g /\ Due(k, j, S \cup {m}, g)
  BY <1>1, RunsIs
<1>3. j \in Callers /\ CallerInv(j) /\ ServiceInv(j)
  BY Kinds DEF PipeInv, CallerInv
<1>4. j \notin mpool
  BY <1>2, <1>3 DEF ServiceInv
<1>5. fd \in Mutexes /\ "filep" \in Mutexes /\ (FillerInv(j) \/ CloserInv(j))
  BY <1>0, <1>4, ServedRests, Places
<1>6. ASSUME NEW S, NEW m \in Mutexes, NEW g, Asks(k, j, S, m, g) PROVE f = g /\ Due(k, j, S \cup {m}, f)
  BY <1>1, <1>6, AsksRuns
<1>10. {} \cup {fd} = {fd} /\ {fd} \cup {"filep"} = {fd, "filep"}
  OBVIOUS
<1>11. Asks(k, j, {}, fd, "cancel_done") => f = "cancel_done" /\ Due(k, j, {fd}, f)
  BY <1>5, <1>6, <1>10
<1>12. Asks(k, j, {}, fd, "readbws_q") => f = "readbws_q" /\ Due(k, j, {fd}, f)
  BY <1>5, <1>6, <1>10
<1>13. Asks(k, j, {fd}, "filep", "readbws_q") => f = "readbws_q" /\ Due(k, j, {fd, "filep"}, f)
  BY <1>5, <1>6, <1>10
<1>7. Due(k, j, {}, "closeq") => f = "closeq" /\ Due(k, j, {}, f)
  BY <1>2
<1>8. CASE CloserInv(j)
  BY <1>0, <1>4, <1>7, <1>8, <1>11 DEF CloserInv, Helps
<1>9. CASE FillerInv(j)
  <2>1. ~Reading(j)
    BY <1>2 DEF Reading
  <2>2. ToRead(j) => f = "readwpos_q"
    BY <1>2 DEF ToRead
  <2>3. Sated(j) => f = "readbws_q"
    BY <1>2 DEF Sated
  <2> QED
    BY <1>0, <1>4, <1>9, <1>12, <1>13, <2>1, <2>2, <2>3 DEF FillerInv, Fills, Helps
<1> QED
  BY <1>5, <1>8, <1>9

(* The request of a FsysQio that runs or is at the drive.                  *)
LEMMA FqRuns ==
  ASSUME PipeInv, NEW i \in Fqs, i \in io \/ i \in In(k.ast)
  PROVE  LET a == q[i].caller
             fd == q[i].fd
         IN  /\ i \notin In(pool) /\ Owned(i) /\ Owns(a, i) /\ fd \in Fds /\ req[a].fd = fd /\ req[a].fq = i
             /\ \/ a \in Users /\ ~Waits(a) /\ ReadsOn(i) /\ Still(k, a, {fd})
                \/ a \in Users /\ ~Waits(a) /\ (ToWrite(i, fd) \/ WritesOn(i, fd)) /\ Still(k, a, {})
                \/ /\ a \in MIoqs /\ a \notin mpool /\ FillerInv(a) /\ req[a].state = 2 /\ fp[fd].hold
                   /\ ReadsOn(i) /\ Still(k, a, {fd, "filep"})
<1>0. PICK a, fd : a = q[i].caller /\ fd = q[i].fd
  OBVIOUS
<1>1. i \in Ioqs /\ KernelInv(k)
  BY Kinds DEF PipeInv
<1>2. ~Spare(i)
  BY <1>1, RunsIs DEF Spare
<1>3. i \notin In(pool)
  BY <1>1, RunsIs DEF PipeInv, QioInv
<1>4. Owned(i) /\ a \in Callers /\ Owns(a, i) /\ fd \in Fds /\ req[a].fd = fd /\ req[a].fq = i
  BY <1>0, <1>3, OwnerIs DEF Owns
<1>5. CASE a \in Users
  <2>1. Transfers(a) /\ req[a].op # "close"
    BY <1>0, <1>2, <1>4, <1>5 DEF Owned, Filled
  <2>2. ~Waits(a)
    BY <1>2, <1>4, <1>5, <2>1, WaitsIs
  <2>3. \/ ReadsOn(i) /\ Still(k, a, {fd})
        \/ (ToWrite(i, fd) \/ WritesOn(i, fd)) /\ Still(k, a, {})
    BY <1>2, <1>4, <2>1 DEF Transfers
  <2> QED
    BY <1>0, <1>3, <1>4, <1>5, <2>2, <2>3
<1>6. CASE a \in MIoqs
  <2>1. a \notin mpool /\ req[a].op = "filler" /\ req[a].state = 2
    BY <1>0, <1>4, <1>6 DEF Owned
  <2>2. FillerInv(a)
    BY <1>6, <2>1, ServedRests DEF CloserInv
  <2>3. fp[fd].hold /\ Reading(a)
    BY <1>2, <1>3, <1>4, <2>1, <2>2 DEF FillerInv, Fills, ToRead, Sated
  <2> QED
    BY <1>0, <1>3, <1>4, <1>6, <2>1, <2>2, <2>3 DEF Reading
<1> QED
  BY <1>4, <1>5, <1>6 DEF Callers

-----------------------------------------------------------------------------
(* A transfer of a request ends, and the next begins or the last is told.  *)

(* One after the other, and what disturbs fewer.                           *)
LEMMA BesideAgain ==
  ASSUME NEW a, NEW b, NEW c, NEW M, Beside(a, b, M), Beside(b, c, M)
  PROVE  Beside(a, c, M)
BY UndisturbedAgain DEF Beside

(* Leaving all but one alone is leaving the others alone.                  *)
LEMMA BesideOthers ==
  ASSUME NEW a, NEW b, NEW M, NEW x \in M, Others(a, b, x)
  PROVE  Beside(a, b, M)
BY DEF Beside, Others

(* One step of the kernel after the other.                                 *)
LEMMA OthersAgain ==
  ASSUME NEW a, NEW b, NEW c, NEW x, Others(a, b, x), Others(b, c, x)
  PROVE  Others(a, c, x)
BY UndisturbedAgain DEF Others

(* The files and the pools as they were.                                   *)
LEMMA FilesSame ==
  ASSUME NEW M, Closed(M), fp' = fp, pool' = pool, mpool' = mpool,
         \A j \in MIoqs \cap M : req'[j].fd = req[j].fd /\ req'[j].state = req[j].state /\ req'[j].for = req[j].for
  PROVE  FilesKept(M) /\ PoolKept(M) /\ Joined(M) /\ HoldKept(M)
<1>1. FilesKept(M)
  BY DEF FilesKept
<1>2. PoolKept(M)
  BY DEF PoolKept, Sated
<1>3. Joined(M)
  BY DEF Joined, Closed
<1>4. HoldKept(M)
  BY DEF HoldKept
<1> QED
  BY <1>1, <1>2, <1>3, <1>4

(* What a step may do to a request whose transfer has ended: count it.     *)
Counted(a, i) ==
  /\ req' \in [Callers -> QioIOQ]
  /\ \A b \in Callers \ {a} : req'[b] = req[b]
  /\ req'[a] = [req[a] EXCEPT !.cnt = req'[a].cnt]
  /\ req'[a].cnt + q'[i].oLen <= req[a].cnt + q[i].oLen

(* The request of a caller goes on if its FsysQio does.                    *)
LEMMA UserOn ==
  ASSUME PipeInv, NEW c \in Users, NEW i, Owns(c, i), ~Waits(c),
         KernelInv(k'), Beside(k, k', {c, i}), TypeInv',
         q'[i].caller = c, Amounts(q'[i]), \A l \in Fqs \ {i} : q'[l] = q[l] /\ (l \in io' <=> l \in io),
         req'[c].op = req[c].op, req'[c].fd = req[c].fd, req'[c].status = req[c].status, req'[c].len = req[c].len,
         req'[c].where >= 0, req'[c].cnt + q'[i].oLen <= req[c].len,
         \A b \in Callers \ {c} : req'[b] = req[b],
         pool' = pool, mpool' = mpool, ro' = ro, Transfers(c)', req'[c].fq = i,
         \A fd \in Fds : fp'[fd].hold = fp[fd].hold /\ fp'[fd].cancel = fp[fd].cancel
  PROVE  PipeInv'
<1> DEFINE M == {c, i}
<1>1. i \in Fqs /\ i \notin In(pool) /\ q[i].caller = c /\ Owned(i) /\ Closed(M)
  BY OwnerIs, ClosedTwo DEF Owns
<1>2. M \cap MIoqs = {} /\ Callers \cap M = {c} /\ Fqs \cap M = {i} /\ VolOp \notin M /\ c \in Callers /\ c \notin MIoqs
  BY <1>1, Kinds
<1>3. Apart(M)
  BY DEF Apart, Beside
<1>4. StepOf(M)
  <2>1. FilesKept(M) /\ HoldKept(M) /\ Joined(M) /\ PoolKept(M)
    BY <1>2 DEF FilesKept, HoldKept, Joined, PoolKept, Sated
  <2> QED
    BY <1>1, <1>3, <2>1 DEF StepOf
<1>5. /\ req[c].op \in {"read", "readwpos", "write", "writewpos"} /\ req[c].status = "none" /\ CallerInv(c)
  BY <1>1, <1>2 DEF Owned, PipeInv
<1>6. Owns(c, i)'
  BY DEF Transfers
<1>7. QioInv(i)'
  <2>1. Owned(i)'
    BY <1>2, <1>5, <1>6 DEF Owned
  <2> QED
    BY <1>1, <2>1 DEF QioInv
<1>8. CallerInv(c)'
  <2>1. Told(c)'
    <3>1. req'[c].cnt \in Nat /\ q'[i].oLen \in Nat /\ req[c].len \in Nat
      BY <1>1, <1>2 DEF PipeInv, TypeInv, QioIOQ, FsysQio
    <3> QED
      BY <3>1 DEF Told
  <2> QED
    BY <1>2, <1>5, <2>1 DEF CallerInv
<1> QED
  BY <1>2, <1>4, <1>7, <1>8, PipeKept

(* And the part that a filler reads.                                       *)
LEMMA FillerOn ==
  ASSUME PipeInv, NEW a \in MIoqs, a \notin mpool, FillerInv(a), req[a].state = 2, fp[req[a].fd].hold,
         NEW i, Owns(a, i),
         KernelInv(k'), Beside(k, k', {a, i}), Still(k', a, {req[a].fd, "filep"}), TypeInv', ReadsOn(i)',
         q'[i].caller = a, q'[i].fd = req[a].fd, Amounts(q'[i]),
         \A l \in Fqs \ {i} : q'[l] = q[l] /\ (l \in io' <=> l \in io),
         req'[a].op = req[a].op, req'[a].fd = req[a].fd, req'[a].fq = i, req'[a].where = req[a].where,
         req'[a].for = req[a].for, req'[a].state = 2, \A b \in Callers \ {a} : req'[b] = req[b],
         pool' = pool, mpool' = mpool, fp' = fp, ro' = ro
  PROVE  PipeInv'
<1>0. PICK c, i0, fd : c = req[a].for /\ i0 = req[c].fq /\ fd = req[a].fd
  OBVIOUS
<1> DEFINE M == {c, i0, a, i}
<1>1. /\ i \in Fqs /\ i \notin In(pool) /\ q[i].caller = a /\ Owned(i) /\ fd \in Fds /\ req[a].fq = i
  BY <1>0, OwnerIs DEF Owns
<1>2. Closed(M) /\ c \in Users /\ Owns(c, i0) /\ i # i0 /\ i0 \in Fqs /\ i0 \notin In(pool)
  BY <1>0, <1>1, ClosedFill
<1>3. /\ M \cap MIoqs = {a} /\ M \cap Users = {c} /\ c \in Callers \ {a} /\ a \in Callers
      /\ Callers \cap M = {a, c} /\ Fqs \cap M = {i, i0} /\ VolOp \notin M /\ a # i /\ c # i
      /\ c \in Ioqs /\ i0 \in Ioqs /\ a # i0
  BY <1>1, <1>2, Kinds
<1>4. Apart(M)
  BY <1>3 DEF Apart, Beside
<1>5. StepOf(M)
  BY <1>2, <1>3, <1>4, FilesSame DEF StepOf
<1>6. Filled(c)' /\ q'[i0] = q[i0] /\ req'[c] = req[c]
  <2>1. Undisturbed(k, k', c) /\ Undisturbed(k, k', i0)
    BY <1>2, <1>3 DEF Beside
  <2>2. Filled(c)
    BY <1>0 DEF FillerInv
  <2>3. q'[i0] = q[i0] /\ req'[c] = req[c] /\ (i0 \in io' <=> i0 \in io)
    BY <1>2, <1>3
  <2>4. Still(k, c, {})' /\ Spare(i0)'
    BY <1>0, <2>1, <2>2, <2>3, StillKept, SpareKept DEF Filled
  <2>5. Owns(c, i0)'
    BY <1>2, <2>3 DEF Owns
  <2> QED
    BY <1>0, <2>3, <2>4, <2>5 DEF Filled
<1>7. FillerInv(a)'
  <2>1. Owns(a, i)'
    BY <1>0, <1>1 DEF Owns
  <2>2. Reading(a)'
    BY <1>0, <2>1 DEF Reading
  <2>3. Fills(a)'
    BY <1>0, <2>2 DEF Fills
  <2> QED
    BY <1>0, <1>6, <2>3 DEF FillerInv
<1>8. CallerInv(a)'
  <2>1. ServiceInv(a) /\ CallerInv(a) /\ a \notin Users
    BY <1>3, ServedRests, Kinds DEF PipeInv
  <2>2. \A l \in MIoqs \ mpool' : req'[l].for = req[l].for /\ l \in MIoqs \ mpool
    BY Kinds
  <2>3. req'[c].fd = fd
    BY <1>0, <1>6, <2>1 DEF ServiceInv
  <2>4. ServiceInv(a)'
    BY <1>0, <1>2, <1>7, <2>1, <2>2, <2>3 DEF ServiceInv
  <2> QED
    BY <1>0, <1>1, <2>1, <2>4 DEF CallerInv, FillerInv
<1>9. CallerInv(c)'
  <2>1. CallerInv(c) /\ c \notin MIoqs
    BY <1>2, Kinds DEF PipeInv
  <2>2. Waits(c)'
    BY <1>0 DEF Waits
  <2>3. Told(c)'
    BY <1>2, <1>6, <2>1 DEF CallerInv, Told
  <2> QED
    BY <1>2, <1>6, <2>1, <2>2, <2>3 DEF CallerInv
<1>10. QioInv(i)'
  <2>1. Owned(i)'
    BY <1>1, <1>3, <1>7, Kinds DEF Owned, FillerInv, Fills, Reading, Owns
  <2> QED
    BY <1>1, <2>1 DEF QioInv
<1>11. QioInv(i0)'
  <2>1. Owned(i0) /\ q[i0].caller = c
    BY <1>2, OwnerIs DEF Owns
  <2>2. Owned(i0)'
    <3>1. Owns(c, i0)'
      BY <1>0, <1>6 DEF Filled
    <3> QED
      BY <1>2, <1>6, <2>1, <3>1, Kinds DEF Owned
  <2> QED
    BY <1>2, <2>2 DEF QioInv
<1> QED
  BY <1>3, <1>5, <1>8, <1>9, <1>10, <1>11, PipeKept

(* The request goes on if its FsysQio does.                                *)
LEMMA GoesOn ==
  ASSUME PipeInv, NEW i \in Fqs, i \in io \/ i \in In(k.ast),
         NEW kk, Others(k, kk, i), NEW r, SameJob(r, q[i]), Moved(i, r, kk), Counted(q[i].caller, i),
         pool' = pool, mpool' = mpool, fp' = fp, ro' = ro, FileInv',
         q[i].kind = "read" => ReadsOn(i)', q[i].kind = "write" => WritesOn(i, q[i].fd)'
  PROVE  PipeInv'
<1>0. PICK a, fd : a = q[i].caller /\ fd = q[i].fd
  OBVIOUS
<1>1. /\ i \notin In(pool) /\ Owned(i) /\ Owns(a, i) /\ fd \in Fds /\ req[a].fd = fd /\ req[a].fq = i
      /\ \/ a \in Users /\ ~Waits(a) /\ ReadsOn(i) /\ Still(k, a, {fd})
         \/ a \in Users /\ ~Waits(a) /\ (ToWrite(i, fd) \/ WritesOn(i, fd)) /\ Still(k, a, {})
         \/ /\ a \in MIoqs /\ a \notin mpool /\ FillerInv(a) /\ req[a].state = 2 /\ fp[fd].hold
            /\ ReadsOn(i) /\ Still(k, a, {fd, "filep"})
  BY <1>0, FqRuns
<1>2. /\ a \in Callers /\ a # i /\ i \in Ioqs /\ a \in Ioqs
      /\ fd \in Mutexes /\ {fd} \in SUBSET Mutexes /\ {fd, "filep"} \in SUBSET Mutexes
  BY <1>1, Kinds, Places DEF Callers
<1>3. Others(k, k', i) /\ KernelInv(k')
  BY OthersAgain DEF Moved
<1>4. TypeInv'
  <2>1. q' \in [Fqs -> FsysQio]
    BY DEF Moved, PipeInv, TypeInv
  <2> QED
    BY <2>1 DEF Moved, Counted, PipeInv, TypeInv
<1>5. /\ q'[i].caller = a /\ q'[i].fd = fd /\ q'[i].kind = q[i].kind /\ Amounts(q'[i])
      /\ \A l \in Fqs \ {i} : q'[l] = q[l] /\ (l \in io' <=> l \in io)
  BY <1>0 DEF Moved, SameJob, PipeInv, TypeInv
<1>6. /\ req'[a].op = req[a].op /\ req'[a].fd = fd /\ req'[a].fq = i /\ req'[a].status = req[a].status
      /\ req'[a].len = req[a].len /\ req'[a].where = req[a].where /\ req'[a].for = req[a].for
      /\ req'[a].state = req[a].state /\ req'[a].cnt \in Nat
      /\ \A b \in Callers \ {a} : req'[b] = req[b]
  <2>1. req[a] \in QioIOQ /\ req'[a] \in QioIOQ /\ req'[a] = [req[a] EXCEPT !.cnt = req'[a].cnt]
    BY <1>0, <1>2 DEF Counted, PipeInv, TypeInv
  <2>2. PICK n \in Nat : req'[a] = [req[a] EXCEPT !.cnt = n]
    BY <2>1 DEF QioIOQ
  <2> QED
    BY <1>0, <1>1, <2>1, <2>2 DEF QioIOQ, Counted
<1>7. Owns(a, i)'
  BY <1>1, <1>5, <1>6 DEF Owns
<1>8. Undisturbed(k, k', a)
  BY <1>2, <1>3 DEF Others
<1>9. Beside(k, k', {a, i})
  BY <1>3 DEF Beside, Others
<1>10. CASE a \in Users
  <2>1. Transfers(a)'
    <3>1. Still(k, a, {fd}) => Still(k, a, {fd})'
      BY <1>2, <1>8, StillKept
    <3>2. Still(k, a, {}) => Still(k, a, {})'
      BY <1>8, StillKept
    <3>3. ReadsOn(i) => ReadsOn(i)'
      BY DEF ReadsOn
    <3>4. ToWrite(i, fd) \/ WritesOn(i, fd) => WritesOn(i, fd)'
      BY <1>0, <1>5 DEF ToWrite, WritesOn
    <3> QED
      BY <1>1, <1>6, <1>7, <1>10, <3>1, <3>2, <3>3, <3>4, Kinds DEF Transfers
  <2>2. req'[a].cnt + q'[i].oLen <= req[a].len /\ req'[a].where >= 0
    <3>1. /\ req[a].cnt \in Nat /\ q[i].oLen \in Nat /\ req[a].len \in Nat /\ req'[a].cnt \in Nat /\ q'[i].oLen \in Nat
      BY <1>2, <1>4, <1>6 DEF PipeInv, TypeInv, QioIOQ, FsysQio
    <3>2. req'[a].cnt + q'[i].oLen <= req[a].cnt + q[i].oLen
      BY <1>0 DEF Counted
    <3>3. req[a].cnt + q[i].oLen <= req[a].len /\ req[a].op # "lseek"
      BY <1>0, <1>1, <1>10 DEF Owned
    <3>4. req[a].where >= 0
      BY <1>2, <3>3 DEF PipeInv, CallerInv
    <3> QED
      BY <1>6, <3>1, <3>2, <3>3, <3>4
  <2> QED
    BY <1>1, <1>3, <1>4, <1>5, <1>6, <1>9, <1>10, <2>1, <2>2, UserOn, Kinds
<1>11. CASE a \in MIoqs
  <2>1. Still(k', a, {fd, "filep"}) /\ ReadsOn(i)'
    BY <1>1, <1>2, <1>8, <1>11, StillKept, Kinds DEF ReadsOn
  <2> QED
    BY <1>1, <1>3, <1>4, <1>5, <1>6, <1>9, <1>11, <2>1, FillerOn, Kinds
<1> QED
  BY <1>1, <1>10, <1>11

(* What the FsysQio that runs was waiting for, and what it holds.          *)
Taken(i, f) ==
  LET a == q[i].caller
      fd == q[i].fd
  IN  /\ KernelInv(D) /\ Others(k, D, i) /\ i \notin io
      /\ \/ f = "qread" /\ q[i].kind = "read" /\ Still(D, i, {}) /\ q[i].state = 2
         \/ f = "read_done" /\ q[i].kind = "read" /\ Still(D, i, {}) /\ q[i].state = 0
         \/ f = "write_q" /\ q[i].kind = "write" /\ Still(D, i, {fd}) /\ q[i].state = 0 /\ a \in Users
         \/ f = "write_done" /\ q[i].kind = "write" /\ Still(D, i, {fd}) /\ q[i].state = 0 /\ a \in Users
         \/ /\ f = "qwrite" /\ q[i].kind = "write" /\ a \in Users
            /\ \/ q[i].state \in {0, 2} /\ Still(D, i, {fd})
               \/ q[i].state = 3 /\ Still(D, i, {fd, "vol"})

(* What runs of a FsysQio was taken off the AST queue and has the mutexes. *)
LEMMA FqTaken ==
  ASSUME PipeInv, NEW i \in Fqs, NEW f, Runs(i, f)
  PROVE  Taken(i, f)
<1>0. PICK a, fd : a = q[i].caller /\ fd = q[i].fd
  OBVIOUS
<1>1. KernelInv(k) /\ i \in In(k.ast) /\ i \in Ioqs /\ k.act[i] = f
  BY HeadRuns DEF PipeInv
<1>2. ASSUME NEW S, NEW g, Due(k, i, S, g) PROVE f = g /\ KernelInv(D) /\ Still(D, i, S) /\ Others(k, D, i)
  <2>1. f = g
    BY <1>1, <1>2 DEF Due
  <2> QED
    BY <1>1, <1>2, <2>1, TakenOff
<1>3. ASSUME NEW S, NEW T, NEW m \in Mutexes, NEW g, Asks(k, i, S, m, g), S \cup {m} = T
      PROVE  f = g /\ KernelInv(D) /\ Still(D, i, T) /\ Others(k, D, i)
  <2>1. f = g /\ Due(k, i, T, f)
    BY <1>1, <1>3, AsksRuns
  <2> QED
    BY <1>2, <2>1
<1>4. \A S : ~Still(k, i, S)
  BY <1>1, RunsIs
<1>5. /\ fd \in Fds /\ fd \in Mutexes /\ "vol" \in Mutexes
      /\ \/ ReadsOn(i)
         \/ a \in Users /\ (ToWrite(i, fd) \/ WritesOn(i, fd))
  BY <1>0, <1>1, FqRuns, Places
<1>6. CASE ReadsOn(i)
  BY <1>0, <1>2, <1>4, <1>6 DEF ReadsOn, Taken
<1>7. CASE a \in Users /\ ToWrite(i, fd)
  <2>1. {} \cup {fd} = {fd}
    OBVIOUS
  <2> QED
    BY <1>0, <1>3, <1>5, <1>7, <2>1 DEF ToWrite, Taken
<1>8. CASE a \in Users /\ WritesOn(i, fd)
  <2>1. {fd} \cup {"vol"} = {fd, "vol"}
    OBVIOUS
  <2>2. ~(i \in io /\ Still(k, i, {fd}))
    BY <1>4
  <2>3. CASE i \notin io /\ Due(k, i, {fd}, "qwrite") /\ q[i].state = 2
    BY <1>0, <1>2, <1>8, <2>3 DEF WritesOn, Taken
  <2>4. CASE i \notin io /\ Asks(k, i, {fd}, "vol", "qwrite") /\ q[i].state = 3
    BY <1>0, <1>3, <1>5, <1>8, <2>1, <2>4 DEF WritesOn, Taken
  <2>5. CASE i \notin io /\ Due(k, i, {fd}, "write_done") /\ q[i].state = 0
    BY <1>0, <1>2, <1>8, <2>5 DEF WritesOn, Taken
  <2> QED
    BY <1>8, <2>2, <2>3, <2>4, <2>5 DEF WritesOn
<1> QED
  BY <1>5, <1>6, <1>7, <1>8

(* Nothing was counted.                                                    *)
LEMMA CountedSame ==
  ASSUME PipeInv, NEW i, NEW a \in Callers, req' = req, q'[i].oLen = q[i].oLen, q[i].oLen \in Nat
  PROVE  Counted(a, i)
<1>1. req[a] \in QioIOQ /\ req \in [Callers -> QioIOQ]
  BY DEF PipeInv, TypeInv
<1>2. req[a] = [req[a] EXCEPT !.cnt = req[a].cnt] /\ req[a].cnt \in Nat
  BY <1>1 DEF QioIOQ
<1> QED
  BY <1>1, <1>2 DEF Counted

(* The drive ends a transfer.                                              *)
LEMMA DiskDoneSafe ==
  ASSUME PipeInv, NEW i \in Fqs, DiskDone(i)
  PROVE  PipeInv'
<1>0. PICK a, fd, r : a = q[i].caller /\ fd = q[i].fd /\ r = q[i]
  OBVIOUS
<1>1. i \in io
  BY Zenon DEF DiskDone
<1>2. /\ Owned(i) /\ fd \in Fds /\ a \in Callers
      /\ \/ ReadsOn(i)
         \/ ToWrite(i, fd) \/ WritesOn(i, fd)
  BY <1>0, <1>1, FqRuns, Kinds
<1>3. r \in FsysQio /\ Amounts(r) /\ KernelInv(k) /\ i \in Ioqs /\ TypeInv
  BY <1>0, <1>2, Kinds DEF Owned, PipeInv, TypeInv
<1> DEFINE S == IF r.kind = "read" THEN {} ELSE {fd}
           f == IF r.kind = "read" THEN "qread" ELSE "qwrite"
<1>4. Still(k, i, S) /\ r.state = 2 /\ r.kind \in {"read", "write"}
  BY <1>0, <1>1, <1>2 DEF ReadsOn, WritesOn, ToWrite
<1>5. k' = Complete(k, i, f) /\ io' = io \ {i} /\ f \in Actions
  BY <1>0, Zenon DEF DiskDone, Actions
<1>6. KernelInv(k') /\ Due(k', i, S, f) /\ Others(k, k', i)
  BY <1>3, <1>4, <1>5, CompleteIs
<1>7. PICK s \in FsysQio : /\ q' = [q EXCEPT ![i] = s] /\ SameJob(s, r) /\ s.oLen = r.oLen /\ s.state = 2
                           /\ Amounts(s)
  <2>1. ASSUME q' = [q EXCEPT ![i].status = "ERR"]
        PROVE  \E s \in FsysQio : /\ q' = [q EXCEPT ![i] = s] /\ SameJob(s, r) /\ s.oLen = r.oLen /\ s.state = 2
                                  /\ Amounts(s)
    <3> DEFINE s == [r EXCEPT !.status = "ERR"]
    <3>1. s \in FsysQio
      BY <1>3 DEF FsysQio, Statuses
    <3>2. SameJob(s, r) /\ s.oLen = r.oLen /\ s.state = 2 /\ Amounts(s)
      BY <1>3, <1>4 DEF FsysQio, SameJob, Amounts
    <3>3. q' = [q EXCEPT ![i] = s]
      BY <1>0, <2>1
    <3> HIDE DEF s
    <3> QED
      BY <3>1, <3>2, <3>3
  <2>2. ASSUME q' = [q EXCEPT ![i].status = "SUCC", ![i].cnt = Chunk(r)]
        PROVE  \E s \in FsysQio : /\ q' = [q EXCEPT ![i] = s] /\ SameJob(s, r) /\ s.oLen = r.oLen /\ s.state = 2
                                  /\ Amounts(s)
    <3>0. PICK n \in Nat : n = Chunk(r) /\ n <= r.uLen
      BY <1>0, <1>2, <1>3, ChunkType
    <3> DEFINE s == [r EXCEPT !.status = "SUCC", !.cnt = n]
    <3>1. s \in FsysQio
      BY <1>3 DEF FsysQio, Statuses
    <3>2. SameJob(s, r) /\ s.oLen = r.oLen /\ s.state = 2 /\ Amounts(s)
      BY <1>3, <1>4, <3>0 DEF FsysQio, SameJob, Amounts
    <3>3. q' = [q EXCEPT ![i] = s]
      <4>1. q' = [q EXCEPT ![i].status = "SUCC", ![i].cnt = n]
        BY <2>2, <3>0
      <4> QED
        BY <1>0, <1>3, <4>1 DEF TypeInv
    <3> HIDE DEF s
    <3> QED
      BY <3>1, <3>2, <3>3
  <2>3. q' = [q EXCEPT ![i].status = "ERR"] \/ q' = [q EXCEPT ![i].status = "SUCC", ![i].cnt = Chunk(r)]
    BY <1>0, Zenon DEF DiskDone
  <2> QED
    BY <2>1, <2>2, <2>3
<1>8. q'[i] = s
  BY <1>3, <1>7 DEF TypeInv
<1>9. Moved(i, r, k)
  BY <1>3, <1>5, <1>6, <1>7, <1>8 DEF Moved, TypeInv
<1>10. q[i].kind = "read" => ReadsOn(i)'
  BY <1>0, <1>5, <1>6, <1>7, <1>8 DEF ReadsOn, SameJob
<1>11. q[i].kind = "write" => WritesOn(i, q[i].fd)'
  BY <1>0, <1>5, <1>6, <1>7, <1>8 DEF WritesOn, SameJob
<1>12. /\ req' = req /\ pool' = pool /\ mpool' = mpool /\ fp' = fp /\ file' = file /\ ro' = ro
  BY Zenon DEF DiskDone
<1>13. FileInv'
  BY <1>3, <1>12 DEF TypeInv, FileInv
<1>14. Counted(a, i)
  BY <1>0, <1>2, <1>3, <1>7, <1>8, <1>12, CountedSame DEF FsysQio
<1>15. Others(k, k, i) /\ SameJob(r, q[i])
  BY <1>0, UndisturbedSame DEF Others, SameJob
<1> QED
  BY <1>0, <1>1, <1>9, <1>10, <1>11, <1>12, <1>13, <1>14, <1>15, GoesOn

(* fsys_qread.                                                             *)
LEMMA QreadSafe ==
  ASSUME PipeInv, NEW i \in Fqs, Qread(i)
  PROVE  PipeInv'
<1>0. PICK a, r : a = q[i].caller /\ r = q[i]
  OBVIOUS
<1>1. Runs(i, "qread") /\ i \in In(k.ast)
  BY HeadRuns DEF Qread, PipeInv
<1>2. KernelInv(D) /\ Others(k, D, i) /\ i \notin io /\ r.kind = "read" /\ Still(D, i, {}) /\ r.state = 2
  <2>1. Taken(i, "qread")
    BY <1>1, FqTaken
  <2> QED
    BY <1>0, <2>1 DEF Taken
<1>3. Owned(i) /\ q[i].fd \in Fds /\ a \in Callers /\ r \in FsysQio /\ Amounts(r) /\ TypeInv
  BY <1>0, <1>1, FqRuns, Kinds DEF Owned, PipeInv, TypeInv
<1>4. PICK s : SameJob(s, r) /\ s.oLen = r.oLen /\ Moved(i, s, D) /\ ReadsOn(i)'
  <2>1. CASE FinishIo(i, r, D)
    <3>1. Moved(i, r, D) /\ q'[i].state = 0 /\ i \notin io' /\ Due(k', i, {}, "read_done")
      BY <1>2, <1>3, <2>1, FinishIoIs DEF Amounts
    <3>2. ReadsOn(i)' /\ SameJob(r, r)
      BY <1>2, <3>1 DEF ReadsOn, Moved, SameJob
    <3> QED
      BY <3>1, <3>2
  <2>2. CASE ReadOn(i, Advanced(r), D)
    <3>1. /\ Advanced(r) \in FsysQio /\ SameJob(Advanced(r), r) /\ Advanced(r).oLen = r.oLen
          /\ Advanced(r).total + Advanced(r).uLen = r.oLen
      BY <1>2, <1>3, AdvancedIs
    <3> DEFINE s == Advanced(r)
    <3>2. s \in FsysQio /\ SameJob(s, r) /\ s.oLen = r.oLen /\ s.total + s.uLen = s.oLen /\ s.kind = "read"
      BY <1>2, <3>1 DEF SameJob
    <3> HIDE DEF s
    <3>3. ReadOn(i, s, D)
      BY <2>2 DEF s
    <3>4. Moved(i, s, D) /\ ReadsOn(i)'
      BY <1>2, <1>3, <3>2, <3>3, ReadOnIs
    <3> QED
      BY <3>2, <3>4
  <2> QED
    BY <1>0, <2>1, <2>2 DEF Qread
<1>5. /\ req' = req /\ pool' = pool /\ mpool' = mpool /\ fp' = fp /\ file' = file /\ ro' = ro
  BY DEF Qread
<1>6. FileInv'
  BY <1>3, <1>5 DEF TypeInv, FileInv
<1>7. Counted(a, i)
  BY <1>0, <1>3, <1>4, <1>5, CountedSame DEF FsysQio, Moved
<1> QED
  BY <1>0, <1>1, <1>2, <1>4, <1>5, <1>6, <1>7, GoesOn

(* Every copy of a file stays within the sectors that are counted.         *)
LEMMA ExtendedIs ==
  ASSUME TypeInv, NEW i \in Fqs, q[i].fd \in Fds, NEW gets, NEW joined
  PROVE  LET f == Extended(i, gets, joined)
         IN  f \in RamFH /\ \A c \in Copies : Allocated(f.extents[c]) <= f.clusters
<1>0. PICK g, n : g = file[q[i].fd] /\ n = Max({0, q[i].sector - g.clusters}) + DefExtend
  OBVIOUS
<1>1. g \in RamFH /\ g.clusters \in Nat /\ g.extents \in [Copies -> Extents] /\ q[i].sector \in Nat
      /\ \A c \in Copies : Allocated(g.extents[c]) <= g.clusters
  BY <1>0 DEF TypeInv, FileInv, RamFH, FsysQio
<1>2. n \in Nat
  <2>1. PICK z \in Int : z = q[i].sector - g.clusters
    BY <1>1
  <2>2. Max({0, z}) \in Nat
    <3>1. 0 \in Int /\ 0 \in Nat
      OBVIOUS
    <3>2. Max({0, z}) \in {0, z} /\ Max({0, z}) >= 0
      BY <3>1, MinTwo
    <3> QED
      BY <2>1, <3>2
  <2> QED
    BY <1>0, <2>1, <2>2, CopiesAssumption DEF CopiesAssumption
<1> DEFINE more(e, c) == IF c \notin gets THEN e
                         ELSE IF c \in joined THEN [e EXCEPT ![Len(e)] = @ + n] ELSE Append(e, Allocated(e) + n)
           x == [c \in Copies |-> more(g.extents[c], c)]
<1>3. Extended(i, gets, joined) = [g EXCEPT !.clusters = g.clusters + n, !.extents = x]
  BY <1>0 DEF Extended
<1>4. ASSUME NEW c \in Copies
      PROVE  x[c] \in Extents /\ Allocated(x[c]) <= g.clusters + n
  <2>1. PICK e \in Extents : e = g.extents[c]
    BY <1>1
  <2>2. x[c] = more(e, c)
    BY <2>1
  <2>3. Allocated(e) \in Nat /\ Allocated(e) <= g.clusters /\ e \in Seq(Nat) /\ e # <<>>
    BY <1>1, <2>1, LastIs DEF Extents, Allocated
  <2>4. CASE c \notin gets
    BY <1>1, <1>2, <2>2, <2>3, <2>4 DEF Extents
  <2>5. CASE c \in gets /\ c \in joined
    <3>1. Len(e) \in 1..Len(e) /\ e[Len(e)] = Allocated(e)
      BY <2>3 DEF Allocated, Last
    <3> DEFINE s == [e EXCEPT ![Len(e)] = Allocated(e) + n]
    <3>2. x[c] = s
      BY <2>2, <2>5, <3>1
    <3>3. s \in Seq(Nat) /\ Len(s) = Len(e) /\ s[Len(e)] = Allocated(e) + n
      BY <1>2, <2>3, <3>1
    <3> HIDE DEF s, x
    <3>4. s # <<>> /\ Allocated(s) = Allocated(e) + n
      BY <3>1, <3>3 DEF Allocated, Last
    <3> QED
      <4>1. s \in Extents
        BY <3>3, <3>4 DEF Extents
      <4>2. Allocated(e) + n <= g.clusters + n
        BY <1>1, <1>2, <2>3
      <4> QED
        BY <3>2, <3>4, <4>1, <4>2
  <2>6. CASE c \in gets /\ c \notin joined
    <3> DEFINE s == Append(e, Allocated(e) + n)
    <3>1. x[c] = s
      BY <2>2, <2>6
    <3>2. Allocated(e) + n \in Nat
      BY <1>2, <2>3
    <3>3. s \in Seq(Nat) /\ Len(s) = Len(e) + 1 /\ s[Len(e) + 1] = Allocated(e) + n /\ Len(e) \in Nat
      BY <2>3, <3>2
    <3> HIDE DEF s, x
    <3>4. s # <<>> /\ Allocated(s) = Allocated(e) + n
      BY <3>3 DEF Allocated, Last
    <3> QED
      <4>1. s \in Extents
        BY <3>3, <3>4 DEF Extents
      <4>2. Allocated(e) + n <= g.clusters + n
        BY <1>1, <1>2, <2>3
      <4> QED
        BY <3>1, <3>4, <4>1, <4>2
  <2> QED
    BY <2>4, <2>5, <2>6
<1>5. x \in [Copies -> Extents]
  <2>1. \A c \in Copies : x[c] = more(g.extents[c], c)
    OBVIOUS
  <2>2. \A c \in Copies : more(g.extents[c], c) \in Extents
    BY <1>4, <2>1
  <2> QED
    BY <2>2
<1> HIDE DEF x, more
<1>6. [g EXCEPT !.clusters = g.clusters + n, !.extents = x] \in RamFH
  <2>1. PICK m \in Nat : m = g.clusters + n
    BY <1>1, <1>2
  <2>2. [g EXCEPT !.clusters = m, !.extents = x] \in RamFH
    BY <1>1, <1>5 DEF RamFH
  <2> QED
    BY <2>1, <2>2
<1>7. /\ [g EXCEPT !.clusters = g.clusters + n, !.extents = x].clusters = g.clusters + n
      /\ [g EXCEPT !.clusters = g.clusters + n, !.extents = x].extents = x
  BY <1>1 DEF RamFH
<1> QED
  BY <1>3, <1>4, <1>6, <1>7

(* write_q, and fsys_qwrite under the mutex of the descriptor.             *)
LEMMA WriteFromSafe ==
  ASSUME PipeInv, NEW i \in Fqs, i \in In(k.ast), NEW r \in FsysQio, r.total + r.uLen = r.oLen,
         SameJob(r, q[i]), r.oLen = q[i].oLen, q[i].kind = "write", i \notin io,
         NEW kk, KernelInv(kk), Others(k, kk, i), Still(kk, i, {q[i].fd}), WriteFrom(i, r, kk),
         req' = req, pool' = pool, mpool' = mpool, fp' = fp, file' = file, ro' = ro
  PROVE  PipeInv'
<1>1. Owned(i) /\ q[i].fd \in Fds /\ q[i].caller \in Callers /\ q[i] \in FsysQio /\ TypeInv
  <2>1. Owned(i) /\ q[i].fd \in Fds
    BY FqRuns
  <2> QED
    BY <2>1 DEF Owned, PipeInv, TypeInv
<1>2. r.kind = "write" /\ r.fd = q[i].fd
  BY DEF SameJob
<1>3. Moved(i, r, kk) /\ WritesOn(i, r.fd)'
  BY <1>1, <1>2, WriteFromIs
<1>4. q'[i].fd = q[i].fd /\ q'[i].oLen = q[i].oLen /\ q[i].oLen \in Nat
  BY <1>1, <1>2, <1>3 DEF Moved, SameJob, FsysQio
<1>5. WritesOn(i, q[i].fd)'
  BY <1>2, <1>3, <1>4 DEF Moved, WritesOn, SameJob
<1>6. Counted(q[i].caller, i)
  BY <1>1, <1>4, CountedSame
<1>7. FileInv'
  BY <1>1 DEF TypeInv, FileInv
<1> QED
  BY <1>3, <1>5, <1>6, <1>7, GoesOn

(* write_q: the position is known now, and the write begins.               *)
LEMMA WriteQSafe ==
  ASSUME PipeInv, NEW i \in Fqs, WriteQ(i)
  PROVE  PipeInv'
<1>1. Runs(i, "write_q") /\ i \in In(k.ast)
  BY HeadRuns DEF WriteQ, PipeInv
<1>2. /\ KernelInv(D) /\ Others(k, D, i) /\ i \notin io /\ q[i].kind = "write" /\ Still(D, i, {q[i].fd})
  <2>1. Taken(i, "write_q")
    BY <1>1, FqTaken
  <2> QED
    BY <2>1 DEF Taken
<1>3. Owned(i) /\ q[i].fd \in Fds /\ q[i] \in FsysQio /\ Amounts(q[i])
  BY <1>1, FqRuns DEF Owned, PipeInv, TypeInv
<1>4. PICK pos \in Nat : pos = fp[q[i].fd].pos
  BY <1>3 DEF PipeInv, TypeInv, QioFile
<1> DEFINE r == [q[i] EXCEPT !.oWhere = Sect(pos), !.sector = Sect(pos), !.oBws = Bws(pos)]
<1>5. /\ r \in FsysQio /\ SameJob(r, q[i]) /\ r.oLen = q[i].oLen /\ r.total = q[i].total /\ r.uLen = q[i].uLen
  BY <1>3, PositionType DEF FsysQio, SameJob
<1>6. WriteFrom(i, r, D)
  BY <1>4 DEF WriteQ, WriteBegins
<1> HIDE DEF r
<1>7. r.total + r.uLen = r.oLen
  BY <1>3, <1>5 DEF Amounts
<1>8. req' = req /\ pool' = pool /\ mpool' = mpool /\ fp' = fp /\ file' = file /\ ro' = ro
  BY DEF WriteQ, WriteBegins
<1> QED
  BY <1>1, <1>2, <1>5, <1>6, <1>7, <1>8, WriteFromSafe

(* State 3: the file was extended, or not.                                 *)
LEMMA WrExtFileSafe ==
  ASSUME PipeInv, NEW i \in Fqs, Qwrite(i), q[i].state = 3
  PROVE  PipeInv'
<1>0. PICK r, fd, kk : r = q[i] /\ fd = q[i].fd /\ kk = FreeMutex(D, "vol", i)
  OBVIOUS
<1>1. Runs(i, "qwrite") /\ i \in In(k.ast)
  BY HeadRuns DEF Qwrite, PipeInv
<1>2. /\ KernelInv(D) /\ Others(k, D, i) /\ i \notin io /\ r.kind = "write" /\ Still(D, i, {fd, "vol"})
  <2>1. Taken(i, "qwrite")
    BY <1>1, FqTaken
  <2> QED
    BY <1>0, <2>1 DEF Taken
<1>3. Owned(i) /\ fd \in Fds /\ r.caller \in Callers /\ r \in FsysQio /\ Amounts(r) /\ TypeInv /\ i \in Ioqs
  BY <1>0, <1>1, FqRuns, Kinds DEF Owned, PipeInv, TypeInv
<1>4. KernelInv(kk) /\ Others(k, kk, i) /\ Still(kk, i, {fd})
  <2>1. "vol" \in Mutexes /\ "vol" \in {fd, "vol"} /\ {fd, "vol"} \ {"vol"} = {fd}
    BY <1>3, Places
  <2> QED
    BY <1>0, <1>2, <1>3, <2>1, FreeMutexIs, OthersAgain
<1>5. WrExtFile(i) /\ req' = req /\ pool' = pool /\ mpool' = mpool /\ fp' = fp /\ ro' = ro
  BY DEF Qwrite, WriteBegins
<1>6. r.total + r.uLen = r.oLen
  BY <1>3 DEF Amounts
<1>7. \/ file' = file
      \/ \E f \in RamFH : /\ file' = [file EXCEPT ![fd] = f]
                          /\ \A c \in Copies : Allocated(f.extents[c]) <= f.clusters
  <2>1. \/ file' = file
        \/ \E gets, joined : file' = [file EXCEPT ![fd] = Extended(i, gets, joined)]
    BY <1>0, <1>5 DEF WrExtFile
  <2> QED
    BY <1>0, <1>3, <2>1, ExtendedIs
<1>8. FileInv'
  <2>1. CASE file' = file
    BY <1>3, <2>1 DEF TypeInv, FileInv
  <2>2. ASSUME NEW f \in RamFH, file' = [file EXCEPT ![fd] = f],
               \A c \in Copies : Allocated(f.extents[c]) <= f.clusters
        PROVE  FileInv'
    <3>1. file' \in [Fds -> RamFH] /\ file'[fd] = f /\ \A x \in Fds \ {fd} : file'[x] = file[x]
      BY <1>3, <2>2 DEF TypeInv, FileInv
    <3> QED
      BY <1>3, <2>2, <3>1 DEF TypeInv, FileInv
  <2> QED
    BY <1>7, <2>1, <2>2
<1>9. \/ \E status \in Statuses : FinishIo(i, [r EXCEPT !.status = status], kk)
      \/ StartIo(i, r, kk)
      \/ q' = q /\ io' = io /\ k' = GetMutex(kk, "vol", i, "qwrite")
  <2>1. r.status \in Statuses /\ "ERR" \in Statuses
    BY <1>3 DEF FsysQio, Statuses
  <2> QED
    BY <1>0, <1>5, <2>1 DEF WrExtFile
<1>10. PICK s : SameJob(s, r) /\ s.oLen = r.oLen /\ Moved(i, s, kk) /\ WritesOn(i, fd)'
  <2>1. ASSUME NEW status \in Statuses, FinishIo(i, [r EXCEPT !.status = status], kk)
        PROVE  \E s : SameJob(s, r) /\ s.oLen = r.oLen /\ Moved(i, s, kk) /\ WritesOn(i, fd)'
    <3> DEFINE s == [r EXCEPT !.status = status]
    <3>1. s \in FsysQio /\ SameJob(s, r) /\ s.oLen = r.oLen /\ s.total + s.uLen = s.oLen /\ s.kind = "write"
      BY <1>2, <1>3, <1>6 DEF FsysQio, SameJob
    <3>2. FinishIo(i, s, kk)
      BY <2>1
    <3> HIDE DEF s
    <3>3. Moved(i, s, kk) /\ q'[i].state = 0 /\ i \notin io' /\ Due(k', i, {fd}, "write_done")
      BY <1>2, <1>3, <1>4, <3>1, <3>2, FinishIoIs
    <3>4. WritesOn(i, fd)'
      BY <3>1, <3>3 DEF WritesOn, Moved, SameJob
    <3> QED
      BY <3>1, <3>3, <3>4
  <2>2. CASE StartIo(i, r, kk)
    <3>1. Moved(i, r, kk) /\ q'[i].state = 2 /\ i \in io' /\ k' = kk
      BY <1>3, <1>4, <1>6, <2>2, StartIoIs
    <3>2. q'[i].kind = "write" /\ Still(k', i, {fd})
      BY <1>2, <1>4, <3>1 DEF Moved, SameJob
    <3>3. WritesOn(i, fd)' /\ SameJob(r, r)
      BY <3>1, <3>2 DEF WritesOn, SameJob
    <3> QED
      BY <3>1, <3>3
  <2>3. CASE q' = q /\ io' = io /\ k' = GetMutex(kk, "vol", i, "qwrite")
    <3>1. "qwrite" \in Actions /\ "vol" \in Mutexes /\ "vol" \notin {fd}
      BY <1>3, Places DEF Actions
    <3>2. KernelInv(k') /\ Others(kk, k', i) /\ Asks(k', i, {fd}, "vol", "qwrite")
      BY <1>3, <1>4, <2>3, <3>1, GetMutexIs
    <3>3. q' = [q EXCEPT ![i] = q'[i]] /\ q'[i] = r
      BY <1>0, <1>3, <2>3 DEF TypeInv
    <3>4. Moved(i, r, kk) /\ SameJob(r, r)
      BY <1>3, <2>3, <3>2, <3>3 DEF Moved, SameJob, TypeInv
    <3>5. WritesOn(i, fd)'
      BY <1>0, <1>2, <2>3, <3>2, <3>3 DEF WritesOn
    <3> QED
      BY <3>4, <3>5
  <2> QED
    BY <1>9, <2>1, <2>2, <2>3
<1>11. q'[i].fd = fd /\ q'[i].oLen = r.oLen
  BY <1>0, <1>10 DEF Moved, SameJob
<1>12. WritesOn(i, q[i].fd)'
  BY <1>0, <1>10, <1>11 DEF WritesOn
<1>13. Counted(q[i].caller, i)
  BY <1>0, <1>3, <1>5, <1>11, CountedSame DEF FsysQio
<1> QED
  BY <1>0, <1>1, <1>2, <1>4, <1>5, <1>8, <1>10, <1>12, <1>13, GoesOn

(* fsys_qwrite: a transfer, an extension or the end of a copy.             *)
LEMMA QwriteSafe ==
  ASSUME PipeInv, NEW i \in Fqs, Qwrite(i)
  PROVE  PipeInv'
<1>1. Runs(i, "qwrite") /\ i \in In(k.ast)
  BY HeadRuns DEF Qwrite, PipeInv
<1>2. /\ KernelInv(D) /\ Others(k, D, i) /\ i \notin io /\ q[i].kind = "write"
      /\ q[i].state # 3 => Still(D, i, {q[i].fd})
  <2>1. Taken(i, "qwrite")
    BY <1>1, FqTaken
  <2> QED
    BY <2>1 DEF Taken
<1>3. Owned(i) /\ q[i].fd \in Fds /\ q[i] \in FsysQio /\ Amounts(q[i]) /\ SameJob(q[i], q[i])
      /\ q[i].total + q[i].uLen = q[i].oLen
  BY <1>1, FqRuns DEF Owned, PipeInv, TypeInv, SameJob, Amounts
<1>4. CASE q[i].state = 3
  BY <1>4, WrExtFileSafe
<1>5. CASE q[i].state # 3
  <2>1. req' = req /\ pool' = pool /\ mpool' = mpool /\ fp' = fp /\ file' = file /\ ro' = ro
    BY <1>5 DEF Qwrite, WriteBegins
  <2>2. CASE WriteFrom(i, q[i], D)
    BY <1>1, <1>2, <1>3, <1>5, <2>1, <2>2, WriteFromSafe
  <2>3. CASE q[i].state = 2 /\ WriteFrom(i, Advanced(q[i]), D)
    <3>1. /\ Advanced(q[i]) \in FsysQio /\ SameJob(Advanced(q[i]), q[i]) /\ Advanced(q[i]).oLen = q[i].oLen
          /\ Advanced(q[i]).total + Advanced(q[i]).uLen = q[i].oLen
      BY <1>3, <2>3, AdvancedIs
    <3> QED
      BY <1>1, <1>2, <1>5, <2>1, <2>3, <3>1, WriteFromSafe
  <2>4. CASE FinishIo(i, q[i], D)
    <3>0. PICK fd : fd = q[i].fd
      OBVIOUS
    <3>1. Moved(i, q[i], D) /\ q'[i].state = 0 /\ i \notin io' /\ Due(k', i, {fd}, "write_done")
      BY <1>2, <1>3, <1>5, <2>4, <3>0, FinishIoIs DEF PipeInv
    <3>2. q'[i].fd = fd /\ q'[i].kind = "write" /\ q'[i].oLen = q[i].oLen
      BY <1>2, <3>0, <3>1 DEF Moved, SameJob
    <3>3. WritesOn(i, q[i].fd)'
      BY <3>1, <3>2 DEF WritesOn
    <3>4. Counted(q[i].caller, i)
      BY <1>3, <2>1, <3>2, CountedSame DEF FsysQio, Owned
    <3>5. FileInv'
      BY <2>1 DEF PipeInv, TypeInv, FileInv
    <3> QED
      BY <1>1, <1>2, <1>3, <2>1, <3>1, <3>3, <3>4, <3>5, GoesOn
  <2> QED
    BY <1>5, <2>2, <2>3, <2>4 DEF Qwrite, WriteBegins
<1> QED
  BY <1>4, <1>5

-----------------------------------------------------------------------------
(* A request ends.                                                         *)

(* What a caller is told, and that nothing else of it changes.             *)
LEMMA AnswerIs ==
  ASSUME NEW rr \in [Callers -> QioIOQ], NEW c \in Callers, NEW status \in Statuses, NEW cnt \in Nat,
         Answer(rr, c, status, cnt)
  PROVE  /\ req' \in [Callers -> QioIOQ] /\ \A b \in Callers \ {c} : req'[b] = rr[b]
         /\ req'[c].status = status /\ req'[c].cnt = cnt /\ req'[c].op = rr[c].op /\ req'[c].fd = rr[c].fd
         /\ req'[c].len = rr[c].len /\ req'[c].where = rr[c].where /\ req'[c].fq = rr[c].fq
         /\ req'[c].for = rr[c].for /\ req'[c].state = rr[c].state
<1> DEFINE s == [rr[c] EXCEPT !.status = status, !.cnt = cnt]
<1>1. req' = [rr EXCEPT ![c] = s]
  BY DEF Answer, QioIOQ
<1>2. rr[c] \in QioIOQ
  OBVIOUS
<1>3. s \in QioIOQ
  BY <1>2 DEF QioIOQ
<1>4. /\ s.status = status /\ s.cnt = cnt /\ s.op = rr[c].op /\ s.fd = rr[c].fd
      /\ s.len = rr[c].len /\ s.where = rr[c].where /\ s.fq = rr[c].fq /\ s.for = rr[c].for /\ s.state = rr[c].state
  BY <1>2 DEF QioIOQ
<1> HIDE DEF s
<1>5. req' \in [Callers -> QioIOQ] /\ req'[c] = s /\ \A b \in Callers \ {c} : req'[b] = rr[b]
  BY <1>1, <1>3
<1> QED
  BY <1>4, <1>5

(* A FsysQio goes back to the pool.                                        *)
LEMMA GivenBack ==
  ASSUME PipeInv, NEW i \in Fqs, i \notin In(pool), pool' = FreeQio(pool, i)
  PROVE  /\ pool' \in Seq(Fqs) /\ IsInjective(pool') /\ In(pool') = In(pool) \cup {i}
         /\ pool # <<>> => Last(pool') = Last(pool)
         /\ \A M : PoolKept(M)
<1>1. /\ pool' \in Seq(Fqs) /\ IsInjective(pool') /\ In(pool') = In(pool) \cup {i}
      /\ pool # <<>> => Last(pool') = Last(pool)
  BY FreeQioIs DEF PipeInv, TypeInv
<1>2. \A x \in In(pool) : pool # <<>>
  BY DEF In
<1> QED
  BY <1>1, <1>2 DEF PoolKept, Sated

(* A step of a caller that has no helper.                                  *)
LEMMA UserStep ==
  ASSUME NEW M, Closed(M), Apart(M), PoolKept(M), M \cap MIoqs = {},
         \A fd \in Fds : fp'[fd].hold = fp[fd].hold /\ fp'[fd].cancel = fp[fd].cancel
  PROVE  StepOf(M)
<1>1. FilesKept(M) /\ HoldKept(M) /\ Joined(M)
  BY DEF FilesKept, HoldKept, Joined
<1> QED
  BY <1>1 DEF StepOf

(* The caller was told, and the FsysQio is free.                           *)
LEMMA RequestEnds ==
  ASSUME PipeInv, NEW c \in Users, NEW i, Owns(c, i), ~Waits(c), i \notin io, io' = io, ro' = ro,
         KernelInv(k'), Beside(k, k', {c, i}), Due(k', c, {}, "user"), Still(k', i, {}),
         req' \in [Callers -> QioIOQ], \A b \in Callers \ {c} : req'[b] = req[b],
         req'[c].op = req[c].op, req'[c].fd = req[c].fd, req'[c].len = req[c].len, req'[c].where >= 0,
         req'[c].cnt <= req[c].len,
         q' \in [Fqs -> FsysQio], q'[i] = NoFq, \A l \in Fqs \ {i} : q'[l] = q[l],
         pool' = FreeQio(pool, i), mpool' = mpool, FileInv',
         fp' \in [Fds -> QioFile], \A fd \in Fds : fp'[fd].hold = fp[fd].hold /\ fp'[fd].cancel = fp[fd].cancel
  PROVE  PipeInv'
<1> DEFINE M == {c, i}
<1>1. i \in Fqs /\ i \notin In(pool) /\ q[i].caller = c /\ Owned(i) /\ Closed(M)
  BY OwnerIs, ClosedTwo DEF Owns
<1>2. M \cap MIoqs = {} /\ Callers \cap M = {c} /\ Fqs \cap M = {i} /\ VolOp \notin M /\ c \in Callers /\ c \notin MIoqs
  BY <1>1, Kinds
<1>3. /\ pool' \in Seq(Fqs) /\ IsInjective(pool') /\ In(pool') = In(pool) \cup {i} /\ PoolKept(M)
  BY <1>1, GivenBack
<1>4. TypeInv'
  BY <1>3 DEF PipeInv, TypeInv
<1>5. Apart(M)
  BY <1>1, <1>3 DEF Apart, Beside
<1>6. StepOf(M)
  BY <1>1, <1>2, <1>3, <1>5, UserStep
<1>7. CallerInv(c)'
  <2>1. req[c].op \in {"read", "readwpos", "write", "writewpos"} /\ CallerInv(c)
    BY <1>1, <1>2 DEF Owned, PipeInv
  <2>2. Answered(c)'
    BY <2>1 DEF Answered
  <2>3. Told(c)'
    BY DEF Told
  <2> QED
    BY <1>2, <2>1, <2>2, <2>3 DEF CallerInv
<1>8. QioInv(i)'
  BY <1>3 DEF QioInv
<1> QED
  BY <1>2, <1>4, <1>6, <1>7, <1>8, PipeKept

(* What it was asked for: the types and the bounds of a caller's request.  *)
LEMMA AskedFor ==
  ASSUME PipeInv, NEW i \in Fqs, i \notin In(pool)
  PROVE  LET a == q[i].caller
         IN  /\ q[i] \in FsysQio /\ req[a] \in QioIOQ /\ q[i].oLen \in Nat /\ q[i].total \in Nat /\ q[i].total <= q[i].oLen
             /\ req[a].cnt \in Nat /\ req[a].len \in Nat /\ req[a].where \in Int
             /\ a \in Users => req[a].cnt + q[i].oLen <= req[a].len /\ req[a].where >= 0
<1>0. PICK a : a = q[i].caller
  OBVIOUS
<1>1. Owned(i) /\ a \in Callers /\ CallerInv(a)
  BY <1>0, OwnerIs DEF PipeInv
<1>2. q[i] \in FsysQio /\ req[a] \in QioIOQ
  BY <1>1 DEF PipeInv, TypeInv
<1>3. /\ q[i].oLen \in Nat /\ q[i].total \in Nat /\ q[i].uLen \in Nat
      /\ req[a].cnt \in Nat /\ req[a].len \in Nat /\ req[a].where \in Int
  BY <1>2 DEF FsysQio, QioIOQ
<1>4. q[i].total <= q[i].oLen
  BY <1>1, <1>3 DEF Owned, Amounts
<1>5. a \in Users => req[a].cnt + q[i].oLen <= req[a].len /\ req[a].where >= 0
  BY <1>0, <1>1 DEF Owned, CallerInv
<1> QED
  BY <1>0, <1>2, <1>3, <1>4, <1>5

(* The position of a descriptor is set.                                    *)
LEMMA PosSet ==
  ASSUME fp \in [Fds -> QioFile], NEW fd \in Fds, NEW n \in Nat, fp' = [fp EXCEPT ![fd].pos = n]
  PROVE  /\ fp' \in [Fds -> QioFile]
         /\ \A x \in Fds : fp'[x].hold = fp[x].hold /\ fp'[x].cancel = fp[x].cancel
<1>1. PICK g \in QioFile : g = fp[fd]
  OBVIOUS
<1>2. PICK s : s = [g EXCEPT !.pos = n]
  OBVIOUS
<1>3. s \in QioFile /\ s.hold = g.hold /\ s.cancel = g.cancel
  BY <1>2 DEF QioFile
<1>4. fp' = [fp EXCEPT ![fd] = s]
  BY <1>1, <1>2
<1> QED
  BY <1>1, <1>3, <1>4

(* A mutex is let go by the one that holds no other.                       *)
LEMMA LetGo ==
  ASSUME NEW kk, KernelInv(kk), NEW x \in Ioqs, NEW m \in Mutexes, Still(kk, x, {m}), NEW ka, ka = FreeMutex(kk, m, x)
  PROVE  KernelInv(ka) /\ Still(ka, x, {}) /\ Others(kk, ka, x)
<1>1. {m} \ {m} = {} /\ m \in {m}
  OBVIOUS
<1> QED
  BY <1>1, FreeMutexIs

(* The mutex of the descriptor is let go, then the caller is told.         *)
LEMMA LetGoAndTell ==
  ASSUME KernelInv(k), NEW kk, KernelInv(kk), NEW x \in Ioqs, NEW fd \in Mutexes, Others(k, kk, x), Still(kk, x, {fd}),
         NEW c \in Users, c # x => Still(k, c, {}), k' = Tell(FreeMutex(kk, fd, x), c)
  PROVE  KernelInv(k') /\ Beside(k, k', {c, x}) /\ Due(k', c, {}, "user") /\ (c # x => Still(k', x, {}))
<1>1. c \in Ioqs /\ "user" \in Actions
  BY Kinds DEF Actions
<1>2. PICK ka : ka = FreeMutex(kk, fd, x)
  OBVIOUS
<1>3. KernelInv(ka) /\ Still(ka, x, {}) /\ Others(kk, ka, x)
  BY <1>2, LetGo
<1>4. Others(k, ka, x)
  BY <1>3, OthersAgain
<1>5. Still(ka, c, {})
  <2>1. CASE c # x
    BY <1>1, <1>4, <2>1 DEF Others, Undisturbed
  <2> QED
    BY <1>3, <2>1
<1>6. k' = Complete(ka, c, "user")
  BY <1>2 DEF Tell
<1>7. KernelInv(k') /\ Due(k', c, {}, "user") /\ Others(ka, k', c)
  BY <1>1, <1>3, <1>5, <1>6, CompleteIs
<1>8. Beside(k, k', {c, x})
  BY <1>4, <1>7, BesideOthers, BesideAgain
<1>9. c # x => Still(k', x, {})
  BY <1>3, <1>7 DEF Others, Undisturbed
<1> QED
  BY <1>7, <1>8, <1>9

(* fsys_write_done: the next copy, or the end.                             *)
LEMMA WriteDoneSafe ==
  ASSUME PipeInv, NEW i \in Fqs, WriteDone(i)
  PROVE  PipeInv'
<1> DEFINE r == [q[i] EXCEPT !.oStatus = IF Err(q[i].status) THEN q[i].status ELSE @]
           lim == Min({r.total, r.oLen})
           npos == r.oWhere * BytPSect + r.oBws + lim
           size == Max({file[r.fd].size, npos})
<1>10. \/ /\ r.which < NCopies /\ WriteFrom(i, NextCopy(r), D)
          /\ req' = req /\ pool' = pool /\ fp' = fp /\ file' = file
       \/ /\ Answer(req, r.caller, IF r.oStatus # "none" THEN r.oStatus ELSE r.status, lim)
          /\ file' = [file EXCEPT ![r.fd].size = size]
          /\ fp' = [fp EXCEPT ![r.fd].pos = npos, ![r.fd].size = size]
          /\ q' = [q EXCEPT ![i] = NoFq]
          /\ pool' = FreeQio(pool, i)
          /\ k' = Tell(FreeMutex(D, r.fd, i), r.caller) /\ io' = io
  BY DEF WriteDone
<1> HIDE DEF r, lim, npos, size
<1>0. PICK a, fd : a = q[i].caller /\ fd = q[i].fd
  OBVIOUS
<1>1. Runs(i, "write_done") /\ i \in In(k.ast)
  BY HeadRuns DEF WriteDone, PipeInv
<1>2. /\ KernelInv(D) /\ Others(k, D, i) /\ i \notin io /\ q[i].kind = "write" /\ Still(D, i, {fd}) /\ a \in Users
      /\ q[i].state = 0
  <2>1. Taken(i, "write_done")
    BY <1>1, FqTaken
  <2> QED
    BY <1>0, <2>1 DEF Taken
<1>3. i \notin In(pool) /\ Owned(i) /\ Owns(a, i) /\ fd \in Fds /\ ~Waits(a) /\ Still(k, a, {})
  BY <1>0, <1>1, <1>2, FqRuns, Kinds DEF ReadsOn
<1>4. /\ q[i] \in FsysQio /\ q[i].oLen \in Nat /\ q[i].total \in Nat /\ req[a].cnt \in Nat /\ req[a].len \in Nat
      /\ req[a].cnt + q[i].oLen <= req[a].len /\ req[a].where >= 0
  BY <1>0, <1>2, <1>3, AskedFor
<1>5. /\ r \in FsysQio /\ SameJob(r, q[i]) /\ r.oLen = q[i].oLen /\ r.total = q[i].total /\ r.oWhere = q[i].oWhere
      /\ r.oBws = q[i].oBws /\ r.which = q[i].which /\ r.oStatus \in Statuses /\ r.status \in Statuses
  BY <1>0, <1>4 DEF FsysQio, SameJob, r
<1>6. mpool' = mpool /\ ro' = ro
  BY DEF WriteDone
<1>7. CASE r.which < NCopies /\ WriteFrom(i, NextCopy(r), D) /\ req' = req /\ pool' = pool /\ fp' = fp /\ file' = file
  <2>1. /\ NextCopy(r) \in FsysQio /\ SameJob(NextCopy(r), r) /\ NextCopy(r).oLen = r.oLen
        /\ NextCopy(r).total + NextCopy(r).uLen = r.oLen
    BY <1>5, <1>7, NextCopyIs
  <2>2. SameJob(NextCopy(r), q[i])
    BY <1>5, <2>1 DEF SameJob
  <2> QED
    BY <1>0, <1>1, <1>2, <1>5, <1>6, <1>7, <2>1, <2>2, WriteFromSafe
<1>9. r.caller = a /\ r.fd = fd
  BY <1>0, <1>5 DEF SameJob
<1>8. ASSUME Answer(req, a, IF r.oStatus # "none" THEN r.oStatus ELSE r.status, lim),
             file' = [file EXCEPT ![fd].size = size],
             fp' = [fp EXCEPT ![fd].pos = npos, ![fd].size = size],
             q' = [q EXCEPT ![i] = NoFq],
             pool' = FreeQio(pool, i),
             k' = Tell(FreeMutex(D, fd, i), a), io' = io
      PROVE  PipeInv'
  <2>1. lim \in Nat /\ lim <= r.oLen
    <3>1. r.total \in Int /\ r.oLen \in Int /\ r.total \in Nat /\ r.oLen \in Nat
      BY <1>4, <1>5
    <3>2. lim \in {r.total, r.oLen} /\ lim <= r.oLen
      BY <3>1, MinTwo DEF lim
    <3> QED
      BY <3>1, <3>2
  <2>2. npos \in Nat
    BY <1>5, <2>1 DEF FsysQio, BytPSect, npos
  <2>3. size \in Nat \ {0}
    <3>1. file[fd].size \in Nat \ {0}
      BY <1>3 DEF PipeInv, TypeInv, FileInv, RamFH
    <3>0. PICK x \in Int : x = file[fd].size
      BY <3>1
    <3>2. size \in {file[fd].size, npos} /\ size >= file[fd].size
      <4>1. npos \in Int /\ size = Max({x, npos})
        BY <1>9, <2>2, <3>0 DEF size
      <4> QED
        BY <3>0, <4>1, MinTwo
    <3> QED
      BY <2>2, <3>1, <3>2
  <2>4. FileInv'
    <3>1. PICK g \in RamFH : g = file[fd]
      BY <1>3 DEF PipeInv, TypeInv, FileInv
    <3>2. [g EXCEPT !.size = size] \in RamFH
      BY <2>3 DEF RamFH
    <3>3. [g EXCEPT !.size = size].extents = g.extents /\ [g EXCEPT !.size = size].clusters = g.clusters
      BY DEF RamFH
    <3>4. file' = [file EXCEPT ![fd] = [g EXCEPT !.size = size]]
      BY <1>8, <3>1
    <3> QED
      BY <1>3, <3>1, <3>2, <3>3, <3>4 DEF PipeInv, TypeInv, FileInv
  <2>5. fp' \in [Fds -> QioFile] /\ \A x \in Fds : fp'[x].hold = fp[x].hold /\ fp'[x].cancel = fp[x].cancel
    <3>1. PICK g \in QioFile : g = fp[fd]
      BY <1>3 DEF PipeInv, TypeInv
    <3>2. PICK s : s = [g EXCEPT !.pos = npos, !.size = size]
      OBVIOUS
    <3>3. s \in QioFile /\ s.hold = g.hold /\ s.cancel = g.cancel
      BY <2>2, <2>3, <3>2 DEF QioFile
    <3>4. fp' = [fp EXCEPT ![fd] = s]
      BY <1>3, <1>8, <3>1, <3>2 DEF PipeInv, TypeInv
    <3> QED
      BY <1>3, <3>1, <3>3, <3>4 DEF PipeInv, TypeInv
  <2>6. /\ req' \in [Callers -> QioIOQ] /\ \A b \in Callers \ {a} : req'[b] = req[b]
        /\ req'[a].cnt = lim /\ req'[a].op = req[a].op /\ req'[a].fd = req[a].fd
        /\ req'[a].len = req[a].len /\ req'[a].where = req[a].where
    <3>1. PICK status \in Statuses : status = IF r.oStatus # "none" THEN r.oStatus ELSE r.status
      BY <1>5
    <3>2. req \in [Callers -> QioIOQ] /\ a \in Callers /\ Answer(req, a, status, lim)
      BY <1>2, <1>8, <3>1, Kinds DEF PipeInv, TypeInv
    <3> QED
      BY <2>1, <3>2, AnswerIs
  <2>7. KernelInv(k') /\ Beside(k, k', {a, i}) /\ Due(k', a, {}, "user") /\ Still(k', i, {})
    <3>1. KernelInv(k) /\ i \in Ioqs /\ fd \in Mutexes /\ a # i
      BY <1>2, <1>3, Kinds, Places DEF PipeInv
    <3> QED
      BY <1>2, <1>3, <1>8, <3>1, LetGoAndTell
  <2>8. q' \in [Fqs -> FsysQio] /\ q'[i] = NoFq /\ \A l \in Fqs \ {i} : q'[l] = q[l]
    BY <1>8, NoFqType DEF PipeInv, TypeInv
  <2>9. req'[a].cnt <= req[a].len /\ req'[a].where >= 0
    BY <1>4, <1>5, <2>1, <2>6
  <2> QED
    BY <1>2, <1>3, <1>6, <1>8, <2>4, <2>5, <2>6, <2>7, <2>8, <2>9, RequestEnds
<1> QED
  BY <1>7, <1>8, <1>9, <1>10

(* Each caller, and whoever has the buffer, owns one FsysQio at most.      *)
LEMMA PoolNotEmpty ==
  ASSUME PipeInv, EnoughQios
  PROVE  pool # <<>>
<1> SUFFICES ASSUME pool = <<>> PROVE FALSE
  OBVIOUS
<1>1. In(pool) = {}
  BY DEF In
<1> DEFINE f == [i \in Fqs |-> IF q[i].caller \in Users THEN q[i].caller ELSE VolOp]
<1>2. ASSUME NEW i \in Fqs
      PROVE  /\ req[q[i].caller].fq = i /\ q[i].caller \in Callers
             /\ q[i].caller \in MIoqs => k.cur["filep"] = q[i].caller
  <2>0. PICK a : a = q[i].caller
    OBVIOUS
  <2>1. Owned(i) /\ a \in Callers /\ req[a].fq = i
    BY <1>1, <2>0, OwnerIs
  <2>2. ASSUME a \in MIoqs PROVE k.cur["filep"] = a
    <3>1. a \notin mpool /\ req[a].op = "filler" /\ req[a].state = 2
      BY <2>0, <2>1, <2>2 DEF Owned
    <3>2. FillerInv(a)
      BY <2>2, <3>1, ServedRests DEF CloserInv
    <3>3. Held(k, a) = {req[a].fd, "filep"}
      BY <3>1, <3>2 DEF FillerInv, Fills, ToRead, Reading, Sated, Due, Still
    <3> QED
      BY <3>3 DEF Held
  <2> QED
    BY <2>0, <2>1, <2>2
<1>3. f \in Injection(Fqs, Users \cup {VolOp})
  <2>1. f \in [Fqs -> Users \cup {VolOp}]
    OBVIOUS
  <2>2. ASSUME NEW i \in Fqs, NEW l \in Fqs, f[i] = f[l] PROVE i = l
    <3>1. q[i].caller = q[l].caller
      BY <1>2, <2>2, Kinds DEF Callers
    <3> QED
      BY <1>2, <3>1
  <2> HIDE DEF f
  <2> QED
    BY <2>1, <2>2 DEF Injection, IsInjective
<1> HIDE DEF f
<1>4. IsFiniteSet(Users \cup {VolOp}) /\ Cardinality(Users \cup {VolOp}) = Cardinality(Users) + 1
  BY FS_AddElement, Kinds DEF EnoughQios
<1>5. Cardinality(Fqs) <= Cardinality(Users) + 1
  BY <1>3, <1>4, FS_Injection
<1>6. Cardinality(Fqs) \in Nat /\ Cardinality(Users) \in Nat
  BY FS_CardinalityType, IoqsAssumption DEF IoqsAssumption, EnoughQios
<1> QED
  BY <1>5, <1>6 DEF EnoughQios

(* fsys_read_done goes to the next copy.                                   *)
LEMMA ReadDoneRetries ==
  ASSUME PipeInv, NEW i \in Fqs, Runs(i, "read_done"), q[i].which < NCopies,
         file' = [file EXCEPT ![q[i].fd].active = q[i].which + 1],
         req' = [req EXCEPT ![q[i].caller].cnt = @ + q[i].total],
         ReadOn(i, Retried(q[i]), D), pool' = pool, mpool' = mpool, fp' = fp, ro' = ro
  PROVE  PipeInv'
<1>0. PICK a, fd, r : a = q[i].caller /\ fd = q[i].fd /\ r = q[i]
  OBVIOUS
<1>1. i \in In(k.ast)
  BY HeadRuns DEF PipeInv
<1>2. KernelInv(D) /\ Others(k, D, i) /\ i \notin io /\ r.kind = "read" /\ Still(D, i, {}) /\ r.state = 0
  <2>1. Taken(i, "read_done")
    BY FqTaken
  <2> QED
    BY <1>0, <2>1 DEF Taken
<1>3. i \notin In(pool) /\ Owned(i) /\ fd \in Fds /\ a \in Callers /\ r \in FsysQio /\ Amounts(r) /\ TypeInv
  BY <1>0, <1>1, FqRuns DEF Owned, PipeInv, TypeInv
<1>4. /\ r.oLen \in Nat /\ r.total \in Nat /\ r.total <= r.oLen /\ req[a].cnt \in Nat /\ req[a] \in QioIOQ
  BY <1>0, <1>3, AskedFor
<1>5. /\ Retried(r) \in FsysQio /\ SameJob(Retried(r), r) /\ Retried(r).oLen = r.oLen - r.total
      /\ Retried(r).total + Retried(r).uLen = Retried(r).oLen
  BY <1>0, <1>3, RetriedIs
<1>6. PICK s \in FsysQio : /\ s = Retried(r) /\ SameJob(s, r) /\ s.oLen = r.oLen - r.total /\ s.total + s.uLen = s.oLen
                           /\ s.kind = "read"
  BY <1>2, <1>5 DEF SameJob
<1>7. Moved(i, s, D) /\ ReadsOn(i)'
  BY <1>0, <1>2, <1>3, <1>6, ReadOnIs
<1>8. FileInv'
  <2>1. PICK g \in RamFH : g = file[fd]
    BY <1>3 DEF TypeInv, FileInv
  <2>2. r.which + 1 \in Copies
    BY <1>0, <1>3, CopiesAssumption DEF CopiesAssumption, Copies, FsysQio
  <2>3. PICK n \in Copies : n = r.which + 1
    BY <2>2
  <2>4. [g EXCEPT !.active = n] \in RamFH
    BY DEF RamFH
  <2>5. [g EXCEPT !.active = n].extents = g.extents /\ [g EXCEPT !.active = n].clusters = g.clusters
    BY DEF RamFH
  <2>6. file' = [file EXCEPT ![fd] = [g EXCEPT !.active = n]]
    BY <1>0, <2>1, <2>3
  <2> QED
    BY ZenonT(60), <1>3, <2>1, <2>4, <2>5, <2>6 DEF TypeInv, FileInv
<1>9. Counted(a, i)
  <2>1. PICK n \in Nat : n = req[a].cnt + r.total
    BY <1>4
  <2>2. req' = [req EXCEPT ![a] = [req[a] EXCEPT !.cnt = n]]
    BY <1>0, <2>1
  <2>3. PICK t : t = [req[a] EXCEPT !.cnt = n]
    OBVIOUS
  <2>4. t \in QioIOQ /\ t.cnt = n
    BY <1>4, <2>3 DEF QioIOQ
  <2>5. req' \in [Callers -> QioIOQ] /\ req'[a] = t /\ \A b \in Callers \ {a} : req'[b] = req[b]
    BY <1>3, <2>2, <2>3, <2>4 DEF TypeInv
  <2>6. q'[i].oLen = r.oLen - r.total
    BY <1>6, <1>7 DEF Moved
  <2>7. n + q'[i].oLen = req[a].cnt + r.oLen
    BY <1>4, <2>1, <2>6
  <2>8. req'[a] = [req[a] EXCEPT !.cnt = req'[a].cnt]
    BY <2>3, <2>4, <2>5
  <2>9. req'[a].cnt + q'[i].oLen <= req[a].cnt + q[i].oLen
    <3>1. PICK x \in Nat : x = req[a].cnt + r.oLen
      BY <1>4
    <3>2. req'[a].cnt + q'[i].oLen = x /\ req[a].cnt + q[i].oLen = x
      BY <1>0, <2>4, <2>5, <2>7, <3>1
    <3> QED
      BY <3>2
  <2> QED
    BY <2>5, <2>8, <2>9 DEF Counted
<1>10. q[i].kind # "write"
  BY <1>0, <1>2
<1> QED
  BY <1>0, <1>1, <1>2, <1>6, <1>7, <1>8, <1>9, <1>10, GoesOn

(* The file of a read without a filler is not kept.                        *)
LEMMA NotKept ==
  ASSUME PipeInv, NEW x \in Ioqs, x \notin MIoqs, NEW fd \in Fds, fd \in Held(k, x)
  PROVE  ~fp[fd].hold
<1> SUFFICES ASSUME fp[fd].hold PROVE FALSE
  OBVIOUS
<1>1. PICK j \in MIoqs \ mpool : req[j].fd = fd /\ req[j].state = 2
  BY DEF PipeInv, HoldInv
<1>2. FillerInv(j)
  BY <1>1, ServedRests DEF CloserInv
<1>3. Held(k, j) = {fd, "filep"}
  BY <1>1, <1>2 DEF FillerInv, Fills, ToRead, Reading, Sated, Due, Still
<1> QED
  BY <1>3 DEF Held

(* fsys_read_done ends the request of a caller.                            *)
LEMMA ReadDoneTells ==
  ASSUME PipeInv, NEW i \in Fqs, Runs(i, "read_done"), q[i].caller \in Users, NEW status \in Statuses,
         Answer(req, q[i].caller, status, req[q[i].caller].cnt + q[i].total),
         fp' = [fp EXCEPT ![q[i].fd].pos = q[i].oWhere * BytPSect + q[i].total + q[i].oBws],
         q' = [q EXCEPT ![i] = NoFq], pool' = FreeQio(pool, i),
         k' = Tell(ReadDoneFrees(D, q[i].fd, q[i].caller), q[i].caller),
         file' = file, io' = io, mpool' = mpool, ro' = ro
  PROVE  PipeInv'
<1>0. PICK a, fd, r : a = q[i].caller /\ fd = q[i].fd /\ r = q[i]
  OBVIOUS
<1>1. i \in In(k.ast) /\ i \in Ioqs /\ KernelInv(k)
  BY HeadRuns DEF PipeInv
<1>2. KernelInv(D) /\ Others(k, D, i) /\ i \notin io /\ r.kind = "read" /\ Still(D, i, {}) /\ r.state = 0
  <2>1. Taken(i, "read_done")
    BY FqTaken
  <2> QED
    BY <1>0, <2>1 DEF Taken
<1>3. i \notin In(pool) /\ Owned(i) /\ Owns(a, i) /\ fd \in Fds /\ ~Waits(a) /\ Still(k, a, {fd}) /\ TypeInv
  BY <1>0, <1>1, <1>2, FqRuns, Kinds DEF ToWrite, WritesOn, PipeInv
<1>4. /\ r \in FsysQio /\ r.oLen \in Nat /\ r.total \in Nat /\ r.total <= r.oLen /\ req[a].cnt \in Nat /\ req[a].len \in Nat
      /\ req[a].cnt + r.oLen <= req[a].len /\ req[a].where >= 0
  BY <1>0, <1>3, AskedFor
<1>5. fp' \in [Fds -> QioFile] /\ \A x \in Fds : fp'[x].hold = fp[x].hold /\ fp'[x].cancel = fp[x].cancel
  <2>1. PICK n \in Nat : n = r.oWhere * BytPSect + r.total + r.oBws
    BY <1>4 DEF FsysQio, BytPSect
  <2>2. fp' = [fp EXCEPT ![fd].pos = n]
    BY <1>0, <2>1
  <2> QED
    BY <1>3, <2>2, PosSet DEF TypeInv
<1>6. PICK cnt \in Nat : cnt = req[a].cnt + r.total /\ cnt <= req[a].len
  BY <1>4
<1>7. /\ req' \in [Callers -> QioIOQ] /\ \A b \in Callers \ {a} : req'[b] = req[b]
      /\ req'[a].cnt = cnt /\ req'[a].op = req[a].op /\ req'[a].fd = req[a].fd
      /\ req'[a].len = req[a].len /\ req'[a].where = req[a].where
  <2>1. req \in [Callers -> QioIOQ] /\ a \in Callers /\ Answer(req, a, status, cnt)
    BY <1>0, <1>3, <1>6, Kinds DEF TypeInv
  <2> QED
    BY <2>1, AnswerIs
<1>8. KernelInv(k') /\ Beside(k, k', {a, i}) /\ Due(k', a, {}, "user") /\ Still(k', i, {})
  <2>1. a \in Ioqs /\ fd \in Mutexes /\ a # i /\ a \notin MIoqs /\ "user" \in Actions
    BY <1>0, <1>3, Kinds, Places DEF Actions
  <2>2. ~fp[fd].hold
    BY <1>3, <2>1, NotKept DEF Still
  <2>3. PICK ka : ka = FreeMutex(D, fd, a)
    OBVIOUS
  <2>4. k' = Complete(ka, a, "user")
    BY <1>0, <2>2, <2>3 DEF ReadDoneFrees, Tell
  <2>5. Still(D, a, {fd})
    BY <1>2, <1>3, <2>1, Places DEF Others, Undisturbed
  <2>6. KernelInv(ka) /\ Still(ka, a, {}) /\ Others(D, ka, a)
    BY <1>2, <2>1, <2>3, <2>5, LetGo
  <2>7. KernelInv(k') /\ Due(k', a, {}, "user") /\ Others(ka, k', a)
    BY <2>1, <2>4, <2>6, CompleteIs
  <2>8. Beside(k, k', {a, i})
    <3>1. Beside(k, D, {a, i}) /\ Beside(D, ka, {a, i}) /\ Beside(ka, k', {a, i})
      BY <1>2, <2>6, <2>7 DEF Beside, Others
    <3> QED
      BY <3>1, BesideAgain
  <2>9. Still(k', i, {})
    BY <1>1, <1>2, <2>1, <2>6, <2>7 DEF Others, Undisturbed
  <2> QED
    BY <2>7, <2>8, <2>9
<1>9. q' \in [Fqs -> FsysQio] /\ q'[i] = NoFq /\ \A l \in Fqs \ {i} : q'[l] = q[l]
  BY NoFqType DEF PipeInv, TypeInv
<1>10. FileInv' /\ req'[a].cnt <= req[a].len /\ req'[a].where >= 0
  BY <1>3, <1>4, <1>6, <1>7 DEF TypeInv, FileInv
<1> QED
  BY <1>0, <1>2, <1>3, <1>5, <1>7, <1>8, <1>9, <1>10, RequestEnds

(* fsys_read_done ends the part that the filler read.                      *)
LEMMA ReadDoneFills ==
  ASSUME PipeInv, EnoughQios, NEW i \in Fqs, Runs(i, "read_done"), q[i].caller \in MIoqs, NEW status \in Statuses,
         fp[q[i].fd].cancel => status = "CANCELLED",
         Answer(req, q[i].caller, status, req[q[i].caller].cnt + q[i].total),
         fp' = [fp EXCEPT ![q[i].fd].pos = q[i].oWhere * BytPSect + q[i].total + q[i].oBws],
         q' = [q EXCEPT ![i] = NoFq], pool' = FreeQio(pool, i),
         k' = Tell(ReadDoneFrees(D, q[i].fd, q[i].caller), q[i].caller),
         file' = file, io' = io, mpool' = mpool, ro' = ro
  PROVE  PipeInv'
<1>0. PICK a, fd, r : a = q[i].caller /\ fd = q[i].fd /\ r = q[i]
  OBVIOUS
<1>1. i \in In(k.ast) /\ i \in Ioqs /\ KernelInv(k)
  BY HeadRuns DEF PipeInv
<1>2. KernelInv(D) /\ Others(k, D, i) /\ i \notin io /\ r.kind = "read" /\ Still(D, i, {}) /\ r.state = 0
  <2>1. Taken(i, "read_done")
    BY FqTaken
  <2> QED
    BY <1>0, <2>1 DEF Taken
<1>3. /\ i \notin In(pool) /\ Owned(i) /\ Owns(a, i) /\ fd \in Fds /\ req[a].fd = fd /\ TypeInv
      /\ a \in MIoqs /\ a \notin mpool /\ FillerInv(a) /\ req[a].state = 2 /\ fp[fd].hold
      /\ Still(k, a, {fd, "filep"}) /\ req[a].fq = i
  BY <1>0, <1>1, FqRuns, Kinds DEF PipeInv
<1>4. /\ r \in FsysQio /\ r.total \in Nat /\ req[a].cnt \in Nat
  BY <1>0, <1>3, AskedFor
<1>5. PICK c, i0 : c = req[a].for /\ i0 = req[c].fq
  OBVIOUS
<1> DEFINE M == {c, i0, a, i}
<1>6. Closed(M) /\ c \in Users /\ Owns(c, i0) /\ i # i0 /\ i0 \in Fqs /\ i0 \notin In(pool)
  BY <1>0, <1>3, <1>5, ClosedFill
<1>7. /\ M \cap MIoqs = {a} /\ M \cap Users = {c} /\ c \in Callers \ {a} /\ a \in Callers
      /\ Callers \cap M = {a, c} /\ Fqs \cap M = {i, i0} /\ VolOp \notin M /\ a # i /\ c # i
      /\ a \in Ioqs /\ c \in Ioqs /\ i0 \in Ioqs /\ a # i0
  BY <1>3, <1>6, Kinds
<1>8. fp' \in [Fds -> QioFile] /\ \A x \in Fds : fp'[x].hold = fp[x].hold /\ fp'[x].cancel = fp[x].cancel
  <2>1. PICK n \in Nat : n = r.oWhere * BytPSect + r.total + r.oBws
    BY <1>4 DEF FsysQio, BytPSect
  <2>2. fp' = [fp EXCEPT ![fd].pos = n]
    BY <1>0, <2>1
  <2> QED
    BY <1>3, <2>2, PosSet DEF TypeInv
<1>9. /\ req' \in [Callers -> QioIOQ] /\ \A b \in Callers \ {a} : req'[b] = req[b]
      /\ req'[a].op = req[a].op /\ req'[a].fd = fd /\ req'[a].status = status
      /\ req'[a].where = req[a].where /\ req'[a].for = c /\ req'[a].fq = i /\ req'[a].state = 2
  <2>1. PICK cnt \in Nat : cnt = req[a].cnt + r.total
    BY <1>4
  <2>2. req \in [Callers -> QioIOQ] /\ a \in Callers /\ Answer(req, a, status, cnt)
    BY <1>0, <1>3, <1>7, <2>1 DEF TypeInv
  <2> QED
    BY <1>3, <1>5, <2>2, AnswerIs
<1>10. /\ KernelInv(k') /\ Beside(k, k', {a, i}) /\ Due(k', a, {fd, "filep"}, "readbws_q") /\ Still(k', i, {})
  <2>1. k' = Complete(D, a, "readbws_q")
    BY <1>0, <1>3, <1>7, Kinds DEF ReadDoneFrees, Tell
  <2>2. Still(D, a, {fd, "filep"})
    <3>1. {fd, "filep"} \in SUBSET Mutexes
      BY <1>3, Places
    <3> QED
      BY <1>2, <1>3, <1>7, <3>1 DEF Others, Undisturbed
  <2>3. "readbws_q" \in Actions
    BY DEF Actions
  <2>4. KernelInv(k') /\ Due(k', a, {fd, "filep"}, "readbws_q") /\ Others(D, k', a)
    BY <1>2, <1>7, <2>1, <2>2, <2>3, CompleteIs
  <2>5. Beside(k, k', {a, i})
    BY <1>2, <2>4, BesideOthers, BesideAgain
  <2>6. Still(k', i, {})
    BY <1>1, <1>2, <1>7, <2>4 DEF Others, Undisturbed
  <2> QED
    BY <2>4, <2>5, <2>6
<1>11. /\ pool' \in Seq(Fqs) /\ IsInjective(pool') /\ In(pool') = In(pool) \cup {i} /\ PoolKept(M)
       /\ Last(pool') # i
  <2>1. pool # <<>> /\ pool \in Seq(Fqs)
    BY <1>3, PoolNotEmpty DEF TypeInv
  <2>2. Last(pool) \in In(pool)
    BY <2>1, LastIs
  <2> QED
    BY <1>3, <2>1, <2>2, GivenBack
<1>12. q' \in [Fqs -> FsysQio] /\ q'[i] = NoFq /\ \A l \in Fqs \ {i} : q'[l] = q[l]
  BY NoFqType DEF PipeInv, TypeInv
<1>13. TypeInv'
  BY <1>3, <1>8, <1>9, <1>11, <1>12 DEF TypeInv, FileInv
<1>14. Apart(M)
  BY <1>9, <1>10, <1>11, <1>12 DEF Apart, Beside
<1>15. StepOf(M)
  <2>1. FilesKept(M) /\ HoldKept(M)
    <3>1. FilesKept(M)
      BY <1>8 DEF FilesKept
    <3>2. M \cap MIoqs = {a} /\ a \notin mpool' /\ req'[a].fd = fd /\ req'[a].state = 2
      BY <1>3, <1>7, <1>9
    <3>3. HoldKept(M)
      BY SMTT(60), <1>3, <1>8, <3>2 DEF HoldKept
    <3> QED
      BY <3>1, <3>3
  <2>2. Joined(M)
    BY <1>7, <1>9 DEF Joined
  <2> QED
    BY <1>6, <1>11, <1>14, <2>1, <2>2 DEF StepOf
<1>16. Filled(c)' /\ q'[i0] = q[i0] /\ req'[c] = req[c]
  <2>1. Undisturbed(k, k', c) /\ Undisturbed(k, k', i0)
    BY <1>6, <1>7, <1>10 DEF Beside
  <2>2. Filled(c)
    BY <1>3, <1>5 DEF FillerInv
  <2>3. q'[i0] = q[i0] /\ req'[c] = req[c] /\ i0 \notin In(pool')
    BY <1>6, <1>7, <1>9, <1>11, <1>12
  <2>4. Still(k, c, {})' /\ Spare(i0)'
    BY <1>5, <2>1, <2>2, <2>3, StillKept, SpareKept DEF Filled
  <2>5. Owns(c, i0)'
    BY <1>6, <2>3 DEF Owns
  <2> QED
    BY <1>5, <2>3, <2>4, <2>5 DEF Filled
<1>17. FillerInv(a)'
  <2>1. Sated(a)'
    <3>1. fp'[fd].cancel => status = "CANCELLED"
      BY <1>0, <1>3, <1>8
    <3> QED
      BY <1>9, <1>10, <1>11, <3>1 DEF Sated, Err
  <2>2. Fills(a)'
    BY <1>3, <1>8, <1>9, <2>1 DEF Fills
  <2> QED
    BY ZenonT(60), <1>3, <1>5, <1>9, <1>16, <2>2 DEF FillerInv
<1>18. CallerInv(a)'
  <2>1. ServiceInv(a) /\ CallerInv(a) /\ a \notin Users
    BY <1>3, <1>7, ServedRests, Kinds DEF PipeInv
  <2>2. \A l \in MIoqs \ mpool' : req'[l].for = req[l].for /\ l \in MIoqs \ mpool
    BY <1>5, <1>9, Kinds
  <2>3. req'[c].fd = fd
    BY <1>3, <1>5, <1>16, <2>1 DEF ServiceInv
  <2>4. ServiceInv(a)'
    BY <1>3, <1>5, <1>6, <1>9, <1>17, <2>1, <2>2, <2>3 DEF ServiceInv
  <2> QED
    BY <1>3, <1>9, <2>1, <2>4 DEF CallerInv
<1>19. CallerInv(c)'
  <2>1. CallerInv(c) /\ c \notin MIoqs
    BY <1>6, Kinds DEF PipeInv
  <2>2. Waits(c)'
    BY <1>3, <1>9 DEF Waits
  <2>3. Told(c)'
    BY <1>6, <1>16, <2>1 DEF CallerInv, Told
  <2> QED
    BY <1>6, <1>16, <2>1, <2>2, <2>3 DEF CallerInv
<1>20. QioInv(i)'
  BY <1>2, <1>10, <1>11, <1>12 DEF QioInv
<1>21. QioInv(i0)'
  <2>1. Owned(i0) /\ q[i0].caller = c
    BY <1>6, OwnerIs DEF Owns
  <2>2. Owned(i0)'
    <3>1. Owns(c, i0)'
      BY <1>5, <1>16 DEF Filled
    <3> QED
      BY <1>6, <1>16, <2>1, <3>1, Kinds DEF Owned
  <2> QED
    BY <1>6, <1>11, <2>2 DEF QioInv
<1> QED
  BY <1>7, <1>10, <1>13, <1>15, <1>18, <1>19, <1>20, <1>21, PipeKept

(* fsys_read_done: the next copy is read, or the end is told.              *)
LEMMA ReadDoneSafe ==
  ASSUME PipeInv, EnoughQios, NEW i \in Fqs, ReadDone(i)
  PROVE  PipeInv'
<1> DEFINE status == IF fp[q[i].fd].cancel THEN "CANCELLED" ELSE q[i].status
<1>1. /\ Runs(i, "read_done") /\ mpool' = mpool /\ ro' = ro
      /\ \/ /\ q[i].which < NCopies
            /\ file' = [file EXCEPT ![q[i].fd].active = q[i].which + 1]
            /\ req' = [req EXCEPT ![q[i].caller].cnt = @ + q[i].total]
            /\ ReadOn(i, Retried(q[i]), D) /\ pool' = pool /\ fp' = fp
         \/ /\ Answer(req, q[i].caller, status, req[q[i].caller].cnt + q[i].total)
            /\ fp' = [fp EXCEPT ![q[i].fd].pos = q[i].oWhere * BytPSect + q[i].total + q[i].oBws]
            /\ q' = [q EXCEPT ![i] = NoFq] /\ pool' = FreeQio(pool, i)
            /\ k' = Tell(ReadDoneFrees(D, q[i].fd, q[i].caller), q[i].caller)
            /\ file' = file /\ io' = io
  BY DEF ReadDone
<1>2. status \in Statuses
  BY DEF PipeInv, TypeInv, FsysQio, Statuses
<1>3. fp[q[i].fd].cancel => status = "CANCELLED"
  OBVIOUS
<1> HIDE DEF status
<1>4. q[i].caller \in Callers
  <2>1. i \in In(k.ast)
    BY <1>1, HeadRuns DEF PipeInv
  <2> QED
    BY <2>1, FqRuns, Kinds
<1> QED
  BY <1>1, <1>2, <1>3, <1>4, ReadDoneRetries, ReadDoneTells, ReadDoneFills DEF Callers

-----------------------------------------------------------------------------
(* A read begins.                                                          *)

(* A read is cut off at the end of the file, and is never made longer.     *)
LEMMA ClippedIs ==
  ASSUME NEW fd \in Fds, file[fd].size \in Nat, NEW where \in Nat, where < file[fd].size, NEW len \in Nat
  PROVE  /\ Clipped(fd, where, len) \in Nat /\ Clipped(fd, where, len) <= len
         /\ len > 0 => Clipped(fd, where, len) > 0
<1>1. PICK left \in Nat \ {0} : left = file[fd].size - where
  OBVIOUS
<1>2. Clipped(fd, where, len) = Min({len, left})
  BY <1>1 DEF Clipped
<1>3. PICK n : n = Min({len, left})
  OBVIOUS
<1>4. n \in {len, left} /\ n <= len
  <2>1. len \in Int /\ left \in Int
    OBVIOUS
  <2> QED
    BY <1>3, <2>1, MinTwo
<1> QED
  BY <1>1, <1>2, <1>3, <1>4

(* A FsysQio as it goes to the drive first.                                *)
Starts(s, r, len, n) == s = [r EXCEPT !.oLen = len, !.uLen = len, !.which = n]

(* A read of no more than the file has, from the copy that worked last.    *)
LEMMA StartIs ==
  ASSUME NEW r \in FsysQio, NEW len \in Nat, NEW n \in Copies, r.total = 0,
         NEW s, Starts(s, r, len, n)
  PROVE  s \in FsysQio /\ SameJob(s, r) /\ s.oLen = len /\ s.total + s.uLen = s.oLen
<1>1. s \in FsysQio
  BY ZenonT(60) DEF FsysQio, Starts
<1>2. SameJob(s, r) /\ s.oLen = len /\ s.uLen = len /\ s.total = 0
  BY DEF FsysQio, SameJob, Starts
<1> QED
  BY <1>1, <1>2

(* What the caller that begins to read holds.                              *)
ReadBegins(c, rr, qq) ==
  LET fd == req[c].fd
      i == req[c].fq
  IN  /\ KernelInv(D) /\ Others(k, D, c) /\ Still(D, c, {fd}) /\ ~Waits(c) /\ Owns(c, i) /\ Spare(i) /\ fd \in Fds
      /\ rr \in [Callers -> QioIOQ] /\ \A b \in Callers \ {c} : rr[b] = req[b]
      /\ rr[c].op = req[c].op /\ rr[c].fd = fd /\ rr[c].status = req[c].status /\ rr[c].len = req[c].len
      /\ rr[c].cnt = req[c].cnt /\ rr[c].fq = i /\ rr[c].where >= 0
      /\ qq \in [Fqs -> FsysQio] /\ \A l \in Fqs \ {i} : qq[l] = q[l]
      /\ qq[i].kind = "read" /\ qq[i].caller = c /\ qq[i].fd = fd /\ qq[i].total = 0
      /\ req[c].cnt + qq[i].oLen <= req[c].len

(* A read that needs no transfer.                                          *)
LEMMA NoTransferSafe ==
  ASSUME PipeInv, NEW c \in Users, NEW rr, NEW qq, ReadBegins(c, rr, qq),
         NEW status \in Statuses, NEW cnt \in Nat, cnt <= req[c].len, NoTransfer(c, rr, status, cnt),
         fp' \in [Fds -> QioFile], \A x \in Fds : fp'[x].hold = fp[x].hold /\ fp'[x].cancel = fp[x].cancel,
         mpool' = mpool, file' = file, ro' = ro
  PROVE  PipeInv'
<1>0. PICK fd, i : fd = req[c].fd /\ i = req[c].fq
  OBVIOUS
<1>1. /\ KernelInv(D) /\ Others(k, D, c) /\ Still(D, c, {fd}) /\ ~Waits(c) /\ Owns(c, i) /\ Spare(i) /\ fd \in Fds
      /\ rr \in [Callers -> QioIOQ] /\ (\A b \in Callers \ {c} : rr[b] = req[b])
      /\ rr[c].op = req[c].op /\ rr[c].fd = fd /\ rr[c].len = req[c].len /\ rr[c].fq = i /\ rr[c].where >= 0
  BY <1>0 DEF ReadBegins
<1>2. c \in Callers /\ c \in Ioqs /\ fd \in Mutexes /\ KernelInv(k) /\ i \in Fqs /\ i # c /\ i \in Ioqs
  BY <1>1, Kinds, Places DEF PipeInv, Owns
<1>3. /\ req' \in [Callers -> QioIOQ] /\ \A b \in Callers \ {c} : req'[b] = req[b]
      /\ req'[c].cnt = cnt /\ req'[c].op = req[c].op /\ req'[c].fd = req[c].fd
      /\ req'[c].len = req[c].len /\ req'[c].where >= 0
  <2>1. Answer(rr, c, status, cnt)
    BY DEF NoTransfer
  <2> QED
    BY <1>0, <1>1, <1>2, <2>1, AnswerIs
<1>4. /\ q' = [q EXCEPT ![i] = NoFq] /\ pool' = FreeQio(pool, i) /\ k' = Tell(FreeMutex(D, fd, c), c) /\ io' = io
  BY <1>1 DEF NoTransfer
<1>5. KernelInv(k') /\ Beside(k, k', {c, c}) /\ Due(k', c, {}, "user")
  BY <1>1, <1>2, <1>4, LetGoAndTell
<1>6. Beside(k, k', {c, i})
  BY <1>5 DEF Beside
<1>7. Still(k', i, {})
  BY <1>1, <1>2, <1>5 DEF Beside, Undisturbed, Spare
<1>8. q' \in [Fqs -> FsysQio] /\ q'[i] = NoFq /\ \A l \in Fqs \ {i} : q'[l] = q[l]
  BY <1>2, <1>4, NoFqType DEF PipeInv, TypeInv
<1>9. FileInv' /\ i \notin io
  BY <1>1 DEF PipeInv, TypeInv, FileInv, Spare
<1> QED
  BY <1>1, <1>3, <1>4, <1>5, <1>6, <1>7, <1>8, <1>9, RequestEnds

(* A read that does.                                                       *)
LEMMA ReadStarts ==
  ASSUME PipeInv, NEW c \in Users, NEW rr, NEW qq, ReadBegins(c, rr, qq), NEW len \in Nat, NEW n \in Copies,
         len <= qq[req[c].fq].oLen,
         ReadOn(req[c].fq, [qq[req[c].fq] EXCEPT !.oLen = len, !.uLen = len, !.which = n], D), req' = rr,
         pool' = pool, mpool' = mpool, fp' = fp, file' = file, ro' = ro
  PROVE  PipeInv'
<1>0. PICK fd, i : fd = req[c].fd /\ i = req[c].fq
  OBVIOUS
<1>1. /\ KernelInv(D) /\ Others(k, D, c) /\ Still(D, c, {fd}) /\ ~Waits(c) /\ Owns(c, i) /\ Spare(i) /\ fd \in Fds
      /\ rr \in [Callers -> QioIOQ] /\ (\A b \in Callers \ {c} : rr[b] = req[b])
      /\ rr[c].op = req[c].op /\ rr[c].fd = fd /\ rr[c].status = req[c].status /\ rr[c].len = req[c].len
      /\ rr[c].cnt = req[c].cnt /\ rr[c].fq = i /\ rr[c].where >= 0
      /\ qq \in [Fqs -> FsysQio]
      /\ qq[i].kind = "read" /\ qq[i].caller = c /\ qq[i].fd = fd /\ qq[i].total = 0
      /\ req[c].cnt + qq[i].oLen <= req[c].len
  BY <1>0 DEF ReadBegins
<1>2. c \in Callers /\ c \in Ioqs /\ fd \in Mutexes /\ KernelInv(k) /\ i \in Fqs /\ i # c /\ i \in Ioqs /\ TypeInv
      /\ i \notin io /\ Still(k, i, {}) /\ i \notin In(pool)
  BY <1>1, Kinds, Places DEF PipeInv, Owns, Spare
<1>3. qq[i] \in FsysQio
  BY <1>1, <1>2
<1>4. PICK s \in FsysQio : /\ s = [qq[i] EXCEPT !.oLen = len, !.uLen = len, !.which = n]
                           /\ SameJob(s, qq[i]) /\ s.oLen = len /\ s.total + s.uLen = s.oLen
  <2>1. PICK g \in FsysQio : g = qq[i] /\ g.total = 0
    BY <1>1, <1>3
  <2>2. PICK t : Starts(t, g, len, n)
    BY DEF Starts
  <2>3. t \in FsysQio /\ SameJob(t, g) /\ t.oLen = len /\ t.total + t.uLen = t.oLen
    BY <2>1, <2>2, StartIs
  <2> QED
    BY <2>1, <2>2, <2>3 DEF Starts
<1>5. s.kind = "read" /\ s.caller = c /\ s.fd = fd
  BY <1>1, <1>4 DEF SameJob
<1>6. Still(D, i, {})
  BY <1>1, <1>2 DEF Others, Undisturbed
<1>7. Moved(i, s, D) /\ ReadsOn(i)'
  <2>1. ReadOn(i, s, D)
    BY <1>0, <1>4
  <2> QED
    BY <1>1, <1>2, <1>4, <1>5, <1>6, <2>1, ReadOnIs
<1>8. KernelInv(k') /\ Others(D, k', i)
  BY <1>7 DEF Moved
<1>9. Beside(k, k', {c, i})
  <2>1. Beside(k, D, {c, i}) /\ Beside(D, k', {c, i})
    BY <1>1, <1>8 DEF Beside, Others
  <2> QED
    BY <2>1, BesideAgain
<1>10. /\ q'[i].caller = c /\ q'[i].fd = fd /\ Amounts(q'[i]) /\ q'[i].oLen = len
       /\ \A l \in Fqs \ {i} : q'[l] = q[l] /\ (l \in io' <=> l \in io)
  <2>1. SameJob(q'[i], s) /\ Amounts(q'[i]) /\ q'[i].oLen = s.oLen
    BY <1>7 DEF Moved
  <2>2. \A l \in Fqs \ {i} : q'[l] = q[l] /\ (l \in io' <=> l \in io)
    BY <1>2, <1>7 DEF Moved, TypeInv
  <2> QED
    BY <1>4, <1>5, <2>1, <2>2 DEF SameJob
<1>11. TypeInv'
  <2>1. q' \in [Fqs -> FsysQio] /\ io' \in SUBSET Fqs
    BY <1>2, <1>7 DEF Moved, TypeInv
  <2> QED
    BY <1>1, <1>2, <2>1 DEF TypeInv, FileInv
<1>12. Transfers(c)'
  <2>1. Owns(c, i)'
    BY <1>1, <1>2, <1>10 DEF Owns
  <2>2. Still(k', c, {fd})
    BY <1>1, <1>2, <1>8 DEF Others, Undisturbed
  <2> QED
    BY <1>1, <1>7, <2>1, <2>2 DEF Transfers
<1>13. req'[c].cnt + q'[i].oLen <= req[c].len
  <2>1. req[c].cnt \in Nat /\ req[c].len \in Nat /\ qq[i].oLen \in Nat
    BY <1>2, <1>3 DEF TypeInv, QioIOQ, FsysQio
  <2> QED
    BY <1>0, <1>1, <1>10, <2>1
<1> QED
  BY <1>0, <1>1, <1>8, <1>9, <1>10, <1>11, <1>12, <1>13, UserOn

(* readwpos_q for a caller.                                                *)
LEMMA ReadwposQUser ==
  ASSUME PipeInv, NEW c \in Users, NEW rr, NEW qq, ReadBegins(c, rr, qq), ReadwposQ(c, rr, qq)
  PROVE  PipeInv'
<1>0. PICK fd, i : fd = req[c].fd /\ i = req[c].fq
  OBVIOUS
<1> DEFINE len == Clipped(fd, rr[c].where, qq[i].oLen)
           done == IF rr[c].status = "none" THEN "SUCC" ELSE rr[c].status
<1>1. /\ rr[c].fd = fd /\ rr[c].fq = i /\ rr[c].cnt = req[c].cnt /\ rr[c].where >= 0 /\ rr \in [Callers -> QioIOQ]
      /\ qq \in [Fqs -> FsysQio] /\ fd \in Fds /\ i \in Fqs /\ req[c].cnt + qq[i].oLen <= req[c].len
  BY <1>0 DEF ReadBegins, Owns
<1>2. /\ \/ NoTransfer(c, rr, "CANCELLED", rr[c].cnt) /\ fp' = fp
         \/ NoTransfer(c, rr, "EOF", 0) /\ fp' = [fp EXCEPT ![fd].pos = file[fd].size]
         \/ NoTransfer(c, rr, done, 0) /\ fp' = fp
         \/ /\ rr[c].where < file[fd].size
            /\ ReadOn(i, [qq[i] EXCEPT !.oLen = len, !.uLen = len, !.which = file[fd].active], D)
            /\ req' = rr /\ pool' = pool /\ fp' = fp
      /\ mpool' = mpool /\ file' = file /\ ro' = ro
  BY <1>1 DEF ReadwposQ
<1>3. /\ file[fd].size \in Nat \ {0} /\ file[fd].active \in Copies /\ fp \in [Fds -> QioFile]
      /\ req[c].cnt \in Nat /\ req[c].len \in Nat /\ rr[c].where \in Nat /\ qq[i].oLen \in Nat
      /\ rr[c].status \in Statuses
  <2>1. file[fd] \in RamFH /\ req[c] \in QioIOQ /\ rr[c] \in QioIOQ /\ qq[i] \in FsysQio
    BY <1>1, Kinds DEF PipeInv, TypeInv, FileInv
  <2>2. file[fd].size \in Nat \ {0} /\ file[fd].active \in Copies
    BY <2>1 DEF RamFH
  <2>3. req[c].cnt \in Nat /\ req[c].len \in Nat
    BY <2>1 DEF QioIOQ
  <2>4. rr[c].where \in Int /\ rr[c].status \in Statuses
    BY <2>1 DEF QioIOQ
  <2>5. qq[i].oLen \in Nat
    BY <2>1 DEF FsysQio
  <2>6. fp \in [Fds -> QioFile]
    BY DEF PipeInv, TypeInv
  <2> QED
    BY <1>1, <2>2, <2>3, <2>4, <2>5, <2>6
<1>4. rr[c].where < file[fd].size => len \in Nat /\ len <= qq[i].oLen
  BY <1>1, <1>3, ClippedIs
<1> HIDE DEF len
<1>5. done \in Statuses
  BY <1>3 DEF Statuses
<1> HIDE DEF done
<1>6. "CANCELLED" \in Statuses /\ "EOF" \in Statuses /\ req[c].cnt <= req[c].len /\ 0 <= req[c].len
  BY <1>1, <1>3 DEF Statuses
<1>7. CASE NoTransfer(c, rr, "CANCELLED", rr[c].cnt) /\ fp' = fp
  BY <1>1, <1>2, <1>3, <1>6, <1>7, NoTransferSafe
<1>8. CASE NoTransfer(c, rr, "EOF", 0) /\ fp' = [fp EXCEPT ![fd].pos = file[fd].size]
  <2>1. fp' \in [Fds -> QioFile] /\ \A x \in Fds : fp'[x].hold = fp[x].hold /\ fp'[x].cancel = fp[x].cancel
    BY <1>1, <1>3, <1>8, PosSet
  <2> QED
    BY <1>2, <1>6, <1>8, <2>1, NoTransferSafe
<1>9. CASE NoTransfer(c, rr, done, 0) /\ fp' = fp
  BY <1>2, <1>3, <1>5, <1>6, <1>9, NoTransferSafe
<1>10. CASE /\ rr[c].where < file[fd].size
            /\ ReadOn(i, [qq[i] EXCEPT !.oLen = len, !.uLen = len, !.which = file[fd].active], D)
            /\ req' = rr /\ pool' = pool /\ fp' = fp
  BY <1>0, <1>2, <1>3, <1>4, <1>10, ReadStarts, Zenon
<1> QED
  BY <1>2, <1>7, <1>8, <1>9, <1>10

(* A caller that runs readwpos_q or read_q begins to read.                 *)
LEMMA BeginsIs ==
  ASSUME PipeInv, NEW c \in Users, NEW f \in {"readwpos_q", "read_q"}, Runs(c, f)
  PROVE  ReadBegins(c, req, q) /\ (f = "read_q" => req[c].cnt = 0)
<1>0. PICK fd, i : fd = req[c].fd /\ i = req[c].fq
  OBVIOUS
<1>1. ~Waits(c) /\ Owns(c, i) /\ Spare(i) /\ Due(k, c, {fd}, f) /\ (f = "read_q" => req[c].cnt = 0)
  BY <1>0, UserRuns DEF UserDoes
<1>2. KernelInv(D) /\ Still(D, c, {fd}) /\ Others(k, D, c)
  BY <1>1, TakenOff DEF PipeInv
<1>3. i \in Fqs /\ i \notin In(pool) /\ q[i].caller = c /\ q[i].fd = fd
  BY <1>0, <1>1 DEF Owns
<1>4. fd \in Fds
  BY <1>0, <1>1, <1>3, OwnerIs
<1>5. req[c].cnt + q[i].oLen <= req[c].len /\ req[c].where >= 0
  BY <1>3, AskedFor
<1>6. req \in [Callers -> QioIOQ] /\ q \in [Fqs -> FsysQio]
  BY DEF PipeInv, TypeInv
<1> QED
  BY <1>0, <1>1, <1>2, <1>3, <1>4, <1>5, <1>6 DEF ReadBegins, Spare

(* readwpos_q for the helper that fills the buffer.                        *)
LEMMA ReadwposQFiller ==
  ASSUME PipeInv, NEW a \in MIoqs, Runs(a, "readwpos_q"), ReadwposQ(a, req, q)
  PROVE  PipeInv'
<1>0. PICK fd, i : fd = req[a].fd /\ i = req[a].fq
  OBVIOUS
<1> DEFINE len == Clipped(fd, req[a].where, q[i].oLen)
<1>1. a \notin mpool /\ FillerInv(a) /\ req[a].state = 2 /\ fp[fd].hold /\ ToRead(a)
  <2>1. Helps(a, "readwpos_q")
    BY HelperRuns
  <2> QED
    BY <1>0, <2>1 DEF Helps
<1>2. /\ Owns(a, i) /\ Spare(i) /\ q[i].oLen > 0 /\ Due(k, a, {fd, "filep"}, "readwpos_q") /\ ~fp[fd].cancel
      /\ req[a].where = 0 /\ fd \in Fds
  BY <1>0, <1>1, ServedRests DEF ToRead, FillerInv
<1>3. /\ i \in Fqs /\ i \notin In(pool) /\ i \notin io /\ Still(k, i, {}) /\ q[i].kind = "read" /\ q[i].caller = a
      /\ q[i].fd = fd /\ q[i].total = 0 /\ a \in Callers /\ a \in Ioqs /\ i \in Ioqs /\ a # i /\ TypeInv /\ KernelInv(k)
  BY <1>0, <1>2, Kinds DEF Owns, Spare, PipeInv
<1>4. /\ file[fd].size \in Nat \ {0} /\ file[fd].active \in Copies /\ q[i] \in FsysQio /\ q[i].oLen \in Nat
  <2>1. file[fd] \in RamFH /\ q[i] \in FsysQio
    BY <1>2, <1>3 DEF TypeInv, FileInv
  <2> QED
    BY <2>1 DEF RamFH, FsysQio
<1>5. len \in Nat /\ len <= q[i].oLen /\ len > 0
  <2>1. PICK size, want : size = file[fd].size /\ want = q[i].oLen
    OBVIOUS
  <2>2. 0 \in Nat /\ 0 < size /\ size \in Nat /\ want \in Nat /\ want > 0
    BY <1>2, <1>4, <2>1
  <2>3. Clipped(fd, 0, want) \in Nat /\ Clipped(fd, 0, want) <= want /\ Clipped(fd, 0, want) > 0
    BY <1>2, <2>1, <2>2, ClippedIs
  <2> QED
    BY <1>2, <2>1, <2>3
<1>6. /\ ReadOn(i, [q[i] EXCEPT !.oLen = len, !.uLen = len, !.which = file[fd].active], D)
      /\ req' = req /\ pool' = pool /\ fp' = fp /\ mpool' = mpool /\ file' = file /\ ro' = ro
  <2>1. ~(req[a].where >= file[fd].size)
    BY <1>2, <1>4
  <2>2. ~(len = 0)
    BY <1>5
  <2> HIDE DEF len
  <2> QED
    BY SMTT(60), <1>0, <1>2, <2>1, <2>2 DEF ReadwposQ, len
<1> HIDE DEF len
<1>7. PICK s \in FsysQio : /\ s = [q[i] EXCEPT !.oLen = len, !.uLen = len, !.which = file[fd].active]
                           /\ SameJob(s, q[i]) /\ s.oLen = len /\ s.total + s.uLen = s.oLen
  <2>1. PICK g \in FsysQio : g = q[i] /\ g.total = 0
    BY <1>3, <1>4
  <2>2. PICK n \in Copies : n = file[fd].active
    BY <1>4
  <2>3. PICK t : Starts(t, g, len, n)
    BY DEF Starts
  <2>4. t \in FsysQio /\ SameJob(t, g) /\ t.oLen = len /\ t.total + t.uLen = t.oLen
    BY <1>5, <2>1, <2>3, StartIs
  <2> QED
    BY <2>1, <2>2, <2>3, <2>4 DEF Starts
<1>8. s.kind = "read" /\ s.caller = a /\ s.fd = fd
  BY <1>3, <1>7 DEF SameJob
<1>9. KernelInv(D) /\ Still(D, a, {fd, "filep"}) /\ Others(k, D, a)
  BY <1>2, <1>3, TakenOff
<1>10. Still(D, i, {})
  BY <1>3, <1>9 DEF Others, Undisturbed
<1>11. Moved(i, s, D) /\ ReadsOn(i)'
  BY <1>3, <1>6, <1>7, <1>8, <1>9, <1>10, ReadOnIs
<1>12. KernelInv(k') /\ Others(D, k', i)
  BY <1>11 DEF Moved
<1>13. Beside(k, k', {a, i})
  <2>1. Beside(k, D, {a, i}) /\ Beside(D, k', {a, i})
    BY <1>9, <1>12 DEF Beside, Others
  <2> QED
    BY <2>1, BesideAgain
<1>14. Still(k', a, {fd, "filep"})
  <2>1. {fd, "filep"} \in SUBSET Mutexes
    BY <1>2, Places
  <2> QED
    BY <1>3, <1>9, <1>12, <2>1 DEF Others, Undisturbed
<1>15. /\ q'[i].caller = a /\ q'[i].fd = fd /\ Amounts(q'[i])
       /\ \A l \in Fqs \ {i} : q'[l] = q[l] /\ (l \in io' <=> l \in io)
  BY <1>3, <1>8, <1>11 DEF Moved, SameJob, TypeInv
<1>16. TypeInv'
  <2>1. q' \in [Fqs -> FsysQio] /\ io' \in SUBSET Fqs
    BY <1>3, <1>11 DEF Moved, TypeInv
  <2> QED
    BY <1>3, <1>6, <2>1 DEF TypeInv, FileInv
<1> QED
  BY SMTT(60), <1>0, <1>1, <1>2, <1>6, <1>11, <1>12, <1>13, <1>14, <1>15, <1>16, FillerOn

-----------------------------------------------------------------------------
(* The helper that fills the buffer.                                       *)

(* It lets both mutexes go, the file's in the name of the caller, and      *)
(* tells the caller.                                                       *)
LEMMA CleanupKernel ==
  ASSUME NEW kk, KernelInv(kk), NEW c \in Users, NEW j \in MIoqs, NEW fd \in Fds,
         NEW S, S = {fd} \/ S = {fd, "filep"}, Still(kk, j, S), Still(kk, c, {}),
         k' = Tell(FreeMutex(PassMutex(FreeMutex(kk, "filep", j), fd, c), fd, c), c)
  PROVE  KernelInv(k') /\ Beside(kk, k', {c, j}) /\ Due(k', c, {}, "user") /\ Still(k', j, {})
<1>1. /\ c \in Ioqs /\ j \in Ioqs /\ c # j /\ fd \in Mutexes /\ "filep" \in Mutexes /\ fd # "filep"
      /\ "user" \in Actions
  BY Kinds, Places DEF Actions
<1>2. PICK ka : ka = FreeMutex(kk, "filep", j)
  OBVIOUS
<1>3. KernelInv(ka) /\ Still(ka, j, {fd}) /\ Still(ka, c, {}) /\ Beside(kk, ka, {c, j})
  <2>1. CASE S = {fd}
    <3>1. "filep" \notin Held(kk, j)
      BY <1>1, <2>1 DEF Still
    <3>2. ka = kk
      BY <1>1, <1>2, <3>1, FreeMutexElse
    <3> QED
      BY <2>1, <3>2, UndisturbedSame DEF Beside
  <2>2. CASE S = {fd, "filep"}
    <3>1. "filep" \in S /\ S \ {"filep"} = {fd}
      BY <1>1, <2>2
    <3>2. KernelInv(ka) /\ Still(ka, j, {fd}) /\ Others(kk, ka, j)
      BY <1>1, <1>2, <3>1, FreeMutexIs
    <3>3. Still(ka, c, {})
      BY <1>1, <3>2 DEF Others, Undisturbed
    <3> QED
      BY <3>2, <3>3 DEF Beside, Others
  <2> QED
    BY <2>1, <2>2
<1>4. PICK kb : kb = PassMutex(ka, fd, c)
  OBVIOUS
<1>5. KernelInv(kb) /\ Still(kb, j, {}) /\ Still(kb, c, {fd}) /\ Beside(ka, kb, {c, j})
  <2>1. fd \in {fd} /\ {fd} \ {fd} = {} /\ {} \cup {fd} = {fd}
    OBVIOUS
  <2>2. /\ KernelInv(kb) /\ Still(kb, j, {fd} \ {fd}) /\ Still(kb, c, {} \cup {fd})
        /\ \A l \in Ioqs \ {j, c} : Undisturbed(ka, kb, l)
    BY <1>1, <1>3, <1>4, <2>1, PassMutexIs
  <2> QED
    BY <2>1, <2>2 DEF Beside
<1>6. PICK kc : kc = FreeMutex(kb, fd, c)
  OBVIOUS
<1>7. KernelInv(kc) /\ Still(kc, c, {}) /\ Others(kb, kc, c)
  BY <1>1, <1>5, <1>6, LetGo
<1>8. k' = Complete(kc, c, "user")
  BY <1>2, <1>4, <1>6 DEF Tell
<1>9. KernelInv(k') /\ Due(k', c, {}, "user") /\ Others(kc, k', c)
  BY <1>1, <1>7, <1>8, CompleteIs
<1>10. Beside(kk, k', {c, j})
  <2>1. Beside(kb, kc, {c, j}) /\ Beside(kc, k', {c, j})
    BY <1>7, <1>9 DEF Beside, Others
  <2> QED
    BY <1>3, <1>5, <2>1, BesideAgain
<1>11. Still(k', j, {})
  BY <1>1, <1>5, <1>7, <1>9 DEF Others, Undisturbed
<1> QED
  BY <1>9, <1>10, <1>11

(* The helper is back in the pool.                                         *)
LEMMA HelperLeaves ==
  ASSUME PipeInv, NEW c \in Users, NEW j \in MIoqs, NEW i \in Fqs, NEW fd \in Fds, Closed({c, i, j}),
         TypeInv', KernelInv(k'), Beside(k, k', {c, i, j}), Still(k', j, {}),
         \A b \in Callers \ {c, j} : req'[b] = req[b], req'[j] = NoRequest,
         \A l \in Fqs \ {i} : q'[l] = q[l] /\ (l \in io' <=> l \in io) /\ (l \in In(pool') <=> l \in In(pool)),
         PoolKept({c, i, j}), mpool' = mpool \cup {j}, ro' = ro,
         \A x \in Fds : fp'[x].cancel = fp[x].cancel /\ (x # fd => fp'[x].hold = fp[x].hold),
         ~fp'[fd].hold, k.cur[fd] \notin MIoqs \ {j}, j \notin mpool => req[j].fd = fd,
         CallerInv(c)', QioInv(i)'
  PROVE  PipeInv'
<1> DEFINE M == {c, i, j}
<1>1. /\ M \cap MIoqs = {j} /\ Callers \cap M = {c, j} /\ Fqs \cap M = {i} /\ VolOp \notin M
      /\ j \in Callers /\ j \notin Users /\ c # j
  BY Kinds
<1>2. Apart(M)
  BY <1>1 DEF Apart, Beside
<1>3. FilesKept(M)
  BY <1>1 DEF FilesKept
<1>4. HoldKept(M)
  BY <1>1 DEF HoldKept
<1>5. Joined(M)
  BY <1>1 DEF Joined
<1>6. StepOf(M)
  BY <1>2, <1>3, <1>4, <1>5 DEF StepOf
<1>7. CallerInv(j)'
  <2>1. ServiceInv(j)'
    BY DEF ServiceInv
  <2>2. req'[j].op = "none" /\ req'[j].where = 0
    BY DEF NoRequest
  <2> QED
    BY <1>1, <2>1, <2>2 DEF CallerInv
<1> QED
  BY <1>1, <1>6, <1>7, PipeKept

(* A caller c that is served by the helper j, which has the file's mutex:  *)
(* kk, rr and qq are the kernel, the requests and the FsysQios as the      *)
(* running function has them.                                              *)
Served(j, c, i, fd, S, kk, rr, qq) ==
  /\ c \in Users /\ j \in MIoqs /\ i \in Fqs /\ i \notin In(pool) /\ fd \in Fds
  /\ Closed({c, i, j}) /\ Owns(c, i) /\ Spare(i)
  /\ KernelInv(kk) /\ Beside(k, kk, {c, j}) /\ Still(kk, j, S) /\ Still(kk, c, {})
  /\ S = {fd} \/ S = {fd, "filep"}
  /\ k.cur[fd] \notin MIoqs \ {j} /\ (j \notin mpool => req[j].fd = fd)
  /\ rr \in [Callers -> QioIOQ] /\ \A b \in Callers \ {c, j} : rr[b] = req[b]
  /\ rr[c].op = req[c].op /\ rr[c].status = "none" /\ rr[c].len = req[c].len /\ rr[c].cnt = req[c].cnt
  /\ rr[c].fd = fd /\ rr[c].fq = i /\ rr[c].where >= 0
  /\ rr[j].op = "filler" /\ rr[j].fd = fd /\ rr[j].for = c /\ rr[j].where = 0
  /\ qq \in [Fqs -> FsysQio] /\ \A l \in Fqs \ {i} : qq[l] = q[l]
  /\ qq[i].kind = "read" /\ qq[i].caller = c /\ qq[i].fd = fd /\ qq[i].total = 0 /\ qq[i].state = 0
  /\ qq[i].uLen = qq[i].oLen /\ req[c].cnt + qq[i].oLen <= req[c].len /\ (req[c].len > 0 => qq[i].oLen > 0)

(* What follows of the caller's FsysQio and of the types.                  *)
LEMMA ServedIs ==
  ASSUME PipeInv, NEW j, NEW c, NEW i, NEW fd, NEW S, NEW kk, NEW rr, NEW qq, Served(j, c, i, fd, S, kk, rr, qq)
  PROVE  /\ c \in Callers /\ j \in Callers /\ c # j /\ c # i /\ i # j /\ c \in Ioqs /\ j \in Ioqs /\ i \in Ioqs
         /\ c \notin MIoqs /\ j \notin Users /\ i \notin io /\ Still(kk, i, {}) /\ Beside(k, kk, {c, i, j})
         /\ req[c].op \in {"read", "readwpos", "write", "writewpos"} /\ CallerInv(c)
         /\ req[c].len \in Nat /\ req[c].cnt \in Nat /\ qq[i].oLen \in Nat /\ qq[i].oBws \in 0..1 /\ rr[c].where \in Nat
         /\ rr[j].cnt \in Nat /\ TypeInv /\ fp[fd].pos \in Nat /\ fp[fd].size \in Nat
<1>1. /\ c \in Callers /\ j \in Callers /\ c # j /\ c # i /\ i # j /\ c \in Ioqs /\ j \in Ioqs /\ i \in Ioqs
      /\ c \notin MIoqs /\ j \notin Users
  BY Kinds DEF Served
<1>2. /\ i \notin io /\ Still(k, i, {}) /\ Beside(k, kk, {c, j}) /\ Owns(c, i)
      /\ i \in Fqs /\ i \notin In(pool) /\ c \in Users
      /\ rr \in [Callers -> QioIOQ] /\ qq \in [Fqs -> FsysQio] /\ rr[c].where >= 0 /\ fd \in Fds
  BY DEF Served, Spare
<1>3. Still(kk, i, {}) /\ Beside(k, kk, {c, i, j})
  BY <1>1, <1>2 DEF Beside, Undisturbed
<1>4. Owned(i) /\ q[i].caller = c
  BY <1>2, OwnerIs DEF Owns
<1>5. req[c].op \in {"read", "readwpos", "write", "writewpos"} /\ CallerInv(c) /\ TypeInv
  BY <1>1, <1>2, <1>4 DEF Owned, PipeInv
<1>6. req[c] \in QioIOQ /\ rr[c] \in QioIOQ /\ rr[j] \in QioIOQ /\ qq[i] \in FsysQio /\ fp[fd] \in QioFile
  BY <1>1, <1>2, <1>5 DEF TypeInv
<1>7. req[c].len \in Nat /\ req[c].cnt \in Nat /\ rr[c].where \in Int /\ rr[j].cnt \in Nat
  BY <1>6 DEF QioIOQ
<1>8. qq[i].oLen \in Nat /\ qq[i].oBws \in 0..1
  BY <1>6 DEF FsysQio
<1>9. fp[fd].pos \in Nat /\ fp[fd].size \in Nat
  BY <1>6 DEF QioFile
<1> QED
  BY <1>1, <1>2, <1>3, <1>5, <1>7, <1>8, <1>9

(* The end of the service: the caller is told.                             *)
LEMMA CleanupSafe ==
  ASSUME PipeInv, NEW j, NEW c, NEW i, NEW fd, NEW S, NEW kk, NEW rr, NEW qq, Served(j, c, i, fd, S, kk, rr, qq),
         NEW status \in Statuses, NEW cnt \in Nat, NEW pos \in Nat, Cleanup(j, kk, rr, qq, status, cnt, pos),
         rr[j].fq = Nobody \/ (rr[j].fq \in In(pool) /\ Last(pool) # rr[j].fq),
         \/ Err(status) \/ req[c].len = 0
         \/ IF cnt = 0 THEN rr[j].cnt <= req[c].len ELSE cnt <= req[c].len,
         io' = io, file' = file, ro' = ro
  PROVE  PipeInv'
<1> DEFINE n == IF cnt = 0 THEN rr[j].cnt ELSE cnt
           s == [rr[c] EXCEPT !.status = status, !.cnt = n]
<1>1. /\ c \in Callers /\ j \in Callers /\ c # j /\ c # i /\ i # j /\ c \in Ioqs /\ j \in Ioqs /\ i \in Ioqs
      /\ c \notin MIoqs /\ j \notin Users /\ i \notin io /\ Still(kk, i, {}) /\ Beside(k, kk, {c, i, j})
      /\ req[c].op \in {"read", "readwpos", "write", "writewpos"} /\ CallerInv(c) /\ TypeInv
      /\ req[c].len \in Nat /\ rr[j].cnt \in Nat
  BY ServedIs
<1>2. /\ c \in Users /\ j \in MIoqs /\ i \in Fqs /\ i \notin In(pool) /\ fd \in Fds /\ Closed({c, i, j})
      /\ KernelInv(kk) /\ Still(kk, j, S) /\ Still(kk, c, {}) /\ (S = {fd} \/ S = {fd, "filep"})
      /\ k.cur[fd] \notin MIoqs \ {j} /\ (j \notin mpool => req[j].fd = fd)
      /\ rr \in [Callers -> QioIOQ] /\ (\A b \in Callers \ {c, j} : rr[b] = req[b])
      /\ rr[c].op = req[c].op /\ rr[c].status = "none" /\ rr[c].len = req[c].len
      /\ rr[c].fd = fd /\ rr[c].fq = i /\ rr[c].where >= 0 /\ rr[j].fd = fd /\ rr[j].for = c
      /\ qq \in [Fqs -> FsysQio] /\ (\A l \in Fqs \ {i} : qq[l] = q[l])
  BY DEF Served
<1>3. /\ k' = Tell(FreeMutex(PassMutex(FreeMutex(kk, "filep", j), fd, c), fd, c), c)
      /\ q' = [qq EXCEPT ![i] = NoFq] /\ mpool' = mpool \cup {j}
      /\ fp' = [fp EXCEPT ![fd].hold = FALSE, ![fd].pos = pos]
  BY <1>2 DEF Cleanup
<1>4. pool' = FreeQio(pool, i)
  <2>1. CASE rr[j].fq = Nobody
    BY <1>2, <2>1 DEF Cleanup
  <2>2. CASE rr[j].fq \in In(pool) /\ Last(pool) # rr[j].fq
    <3>1. FreeQio(pool, rr[j].fq) = pool
      BY <2>2, FreeQioAgain
    <3> QED
      BY <1>2, <3>1 DEF Cleanup
  <2> QED
    BY <2>1, <2>2
<1>5. req' = [rr EXCEPT ![c] = s, ![j] = NoRequest]
  <2>1. req' = [rr EXCEPT ![c].status = IF @ = "none" THEN status ELSE @,
                          ![c].cnt = IF cnt = 0 THEN rr[j].cnt ELSE cnt,
                          ![j] = NoRequest]
    BY <1>2 DEF Cleanup
  <2> QED
    BY <1>1, <1>2, <2>1
<1>6. s \in QioIOQ /\ s.status = status /\ s.cnt = n /\ s.op = req[c].op /\ s.fd = fd /\ s.len = req[c].len /\ s.where >= 0
  <2>1. rr[c] \in QioIOQ /\ n \in Nat
    BY <1>1, <1>2
  <2> HIDE DEF n
  <2> QED
    BY <1>2, <2>1 DEF QioIOQ
<1>7. n <= req[c].len \/ Err(status) \/ req[c].len = 0
  OBVIOUS
<1> HIDE DEF s, n
<1>8. NoRequest \in QioIOQ
  BY NoFqType DEF NoRequest, QioIOQ, Statuses, Ops, Whences
<1>9. /\ req' \in [Callers -> QioIOQ] /\ req'[c] = s /\ req'[j] = NoRequest
      /\ \A b \in Callers \ {c, j} : req'[b] = req[b]
  BY <1>1, <1>2, <1>5, <1>6, <1>8
<1>10. q' \in [Fqs -> FsysQio] /\ q'[i] = NoFq /\ \A l \in Fqs \ {i} : q'[l] = q[l]
  BY <1>2, <1>3, NoFqType
<1>11. /\ pool' \in Seq(Fqs) /\ IsInjective(pool') /\ In(pool') = In(pool) \cup {i} /\ PoolKept({c, i, j})
  BY <1>2, <1>4, GivenBack
<1>12. /\ fp' \in [Fds -> QioFile] /\ ~fp'[fd].hold
       /\ \A x \in Fds : fp'[x].cancel = fp[x].cancel /\ (x # fd => fp'[x].hold = fp[x].hold)
  <2>1. PICK g \in QioFile : g = fp[fd]
    BY <1>1, <1>2 DEF TypeInv
  <2>2. PICK t : t = [g EXCEPT !.hold = FALSE, !.pos = pos]
    OBVIOUS
  <2>3. t \in QioFile /\ ~t.hold /\ t.cancel = g.cancel
    BY <2>2 DEF QioFile
  <2>4. fp' = [fp EXCEPT ![fd] = t]
    BY <1>1, <1>2, <1>3, <2>1, <2>2 DEF TypeInv
  <2> QED
    BY <1>1, <1>2, <2>1, <2>3, <2>4 DEF TypeInv
<1>13. TypeInv'
  BY <1>1, <1>2, <1>3, <1>9, <1>10, <1>11, <1>12 DEF TypeInv, FileInv
<1>14. KernelInv(k') /\ Beside(kk, k', {c, j}) /\ Due(k', c, {}, "user") /\ Still(k', j, {})
  BY <1>2, <1>3, CleanupKernel
<1>15. Beside(k, k', {c, i, j})
  <2>1. Beside(kk, k', {c, i, j})
    BY <1>14 DEF Beside
  <2> QED
    BY <1>1, <2>1, BesideAgain
<1>16. CallerInv(c)'
  <2>1. Answered(c)'
    BY <1>1, <1>6, <1>9, <1>14 DEF Answered
  <2>2. Told(c)'
    <3>1. Err(status) => status \notin {"none", "SUCC"}
      BY DEF Err
    <3> QED
      BY <1>6, <1>7, <1>9, <3>1 DEF Told
  <2> QED
    BY <1>1, <1>2, <1>6, <1>9, <2>1, <2>2 DEF CallerInv
<1>17. QioInv(i)'
  <2>1. Still(k', i, {})
    BY <1>1, <1>14 DEF Beside, Undisturbed
  <2> QED
    BY <1>1, <1>10, <1>11, <2>1 DEF QioInv
<1>18. \A l \in Fqs \ {i} : q'[l] = q[l] /\ (l \in io' <=> l \in io) /\ (l \in In(pool') <=> l \in In(pool))
  BY <1>10, <1>11
<1>19. /\ c \in Users /\ j \in MIoqs /\ i \in Fqs /\ fd \in Fds /\ Closed({c, i, j})
       /\ k.cur[fd] \notin MIoqs \ {j} /\ (j \notin mpool => req[j].fd = fd)
  BY <1>2
<1>20. KernelInv(k') /\ Still(k', j, {}) /\ req'[j] = NoRequest /\ PoolKept({c, i, j}) /\ mpool' = mpool \cup {j}
  BY <1>3, <1>9, <1>11, <1>14
<1>21. \A b \in Callers \ {c, j} : req'[b] = req[b]
  BY <1>9
<1> QED
  BY <1>12, <1>13, <1>15, <1>16, <1>17, <1>18, <1>19, <1>20, <1>21, HelperLeaves

(* The helper stays with the caller.                                       *)
LEMMA HelperStays ==
  ASSUME PipeInv, NEW M, StepOf(M), TypeInv', KernelInv(k'), NEW c \in Users, NEW j \in MIoqs, Callers \cap M = {c, j},
         VolOp \notin M, j \notin mpool', FillerInv(j)', NEW fd \in Fds, NEW i \in Fqs,
         req'[j].for = c, req'[j].fd = fd, req'[c].fd = fd, req'[c].fq = i, i \notin In(pool'),
         q'[i].caller = c, Amounts(q'[i]), req'[c].cnt + q'[i].oLen <= req'[c].len,
         req'[c].op \in {"read", "readwpos", "write", "writewpos"}, req'[c].status = "none", req'[c].where >= 0,
         \A l \in (Fqs \cap M) \ {i} : QioInv(l)'
  PROVE  PipeInv'
<1>1. c \in Callers /\ c \notin MIoqs /\ j \in Callers /\ j \notin Users /\ c # j
  BY Kinds
<1>2. Filled(c)' /\ Owns(c, i)'
  BY DEF FillerInv, Filled
<1>3. CallerInv(j)'
  <2>1. \A l \in MIoqs \ mpool' : req'[l].for = c => l = j
    <3> SUFFICES ASSUME NEW l \in MIoqs \ mpool', req'[l].for = c, l # j PROVE FALSE
      OBVIOUS
    <3>1. l \notin M /\ l \in Callers
      BY Kinds
    <3>2. l \notin mpool /\ req[l].for = c
      BY <3>1 DEF StepOf, Apart
    <3> QED
      BY <3>1, <3>2 DEF StepOf, Closed
  <2>2. ServiceInv(j)'
    BY <2>1 DEF ServiceInv
  <2>3. req'[j].op = "filler" /\ req'[j].where = 0
    BY DEF FillerInv
  <2> QED
    BY <1>1, <2>2, <2>3 DEF CallerInv
<1>4. CallerInv(c)'
  <2>1. Waits(c)'
    BY DEF Waits
  <2>2. Told(c)'
    <3>1. req'[c].cnt \in Nat /\ req'[c].len \in Nat /\ q'[i].oLen \in Nat
      <4>1. req'[c] \in QioIOQ /\ q'[i] \in FsysQio
        BY <1>1 DEF TypeInv
      <4> QED
        BY <4>1 DEF QioIOQ, FsysQio
    <3> QED
      BY <3>1 DEF Told
  <2> QED
    BY <1>1, <2>1, <2>2 DEF CallerInv
<1>5. QioInv(i)'
  <2>1. Owned(i)'
    BY <1>1, <1>2 DEF Owned
  <2> QED
    BY <2>1 DEF QioInv
<1>6. \A a \in Callers \cap M : CallerInv(a)'
  BY <1>3, <1>4
<1>7. \A l \in Fqs \cap M : QioInv(l)'
  BY <1>5
<1> QED
  BY <1>6, <1>7, PipeKept

(* State 0: the read is cut off, and the buffer is waited for.             *)
LEMMA FillerWaitsSafe ==
  ASSUME PipeInv, NEW j, NEW c, NEW i, NEW fd, NEW kk, NEW rr, NEW qq, Served(j, c, i, fd, {fd}, kk, rr, qq),
         rr[j].fq = Nobody, rr[j].cnt = 0, rr[j].state = 0, j \notin mpool => req[j].state = 0,
         FillerWaits(j, kk, rr, qq), io' = io, file' = file, ro' = ro
  PROVE  PipeInv'
<1> DEFINE left == fp[fd].size - rr[c].where
           n == Min({qq[i].oLen, left})
           s == [rr[j] EXCEPT !.state = 1]
           t == [qq[i] EXCEPT !.oLen = n, !.uLen = n]
           M == {c, i, j}
<1>1. /\ c \in Callers /\ j \in Callers /\ c # j /\ c # i /\ i # j /\ c \in Ioqs /\ j \in Ioqs /\ i \in Ioqs
      /\ c \notin MIoqs /\ j \notin Users /\ i \notin io /\ Still(kk, i, {}) /\ Beside(k, kk, {c, i, j})
      /\ req[c].op \in {"read", "readwpos", "write", "writewpos"} /\ TypeInv
      /\ req[c].len \in Nat /\ req[c].cnt \in Nat /\ qq[i].oLen \in Nat /\ rr[c].where \in Nat /\ fp[fd].size \in Nat
  BY ServedIs
<1>2. /\ c \in Users /\ j \in MIoqs /\ i \in Fqs /\ i \notin In(pool) /\ fd \in Fds /\ Closed(M)
      /\ KernelInv(kk) /\ Still(kk, j, {fd}) /\ Still(kk, c, {})
      /\ k.cur[fd] \notin MIoqs \ {j} /\ (j \notin mpool => req[j].fd = fd)
      /\ rr \in [Callers -> QioIOQ] /\ (\A b \in Callers \ {c, j} : rr[b] = req[b])
      /\ rr[c].op = req[c].op /\ rr[c].status = "none" /\ rr[c].len = req[c].len /\ rr[c].cnt = req[c].cnt
      /\ rr[c].fd = fd /\ rr[c].fq = i /\ rr[c].where >= 0
      /\ rr[j].op = "filler" /\ rr[j].fd = fd /\ rr[j].for = c /\ rr[j].where = 0
      /\ qq \in [Fqs -> FsysQio] /\ (\A l \in Fqs \ {i} : qq[l] = q[l])
  BY DEF Served
<1>3. /\ qq[i].kind = "read" /\ qq[i].caller = c /\ qq[i].fd = fd /\ qq[i].total = 0 /\ qq[i].state = 0
      /\ req[c].cnt + qq[i].oLen <= req[c].len /\ (req[c].len > 0 => qq[i].oLen > 0)
  BY DEF Served
<1>4. \/ Cleanup(j, kk, rr, qq, "EOF", 0, fp[fd].size)
      \/ /\ left > 0
         /\ q' = [qq EXCEPT ![i] = t]
         /\ req' = [rr EXCEPT ![j] = s]
         /\ mpool' = mpool \ {j} /\ k' = GetMutex(kk, "filep", j, "readbws_q") /\ pool' = pool /\ fp' = fp
  <2>1. \/ Cleanup(j, kk, rr, qq, "EOF", 0, fp[fd].size)
        \/ /\ left > 0
           /\ q' = [qq EXCEPT ![i].oLen = Min({@, left}), ![i].uLen = Min({@, left})]
           /\ req' = [rr EXCEPT ![j].state = 1]
           /\ mpool' = mpool \ {j} /\ k' = GetMutex(kk, "filep", j, "readbws_q") /\ pool' = pool /\ fp' = fp
    BY <1>2 DEF FillerWaits
  <2>2. qq[i].uLen = qq[i].oLen
    BY DEF Served
  <2>3. ASSUME q' = [qq EXCEPT ![i].oLen = Min({@, left}), ![i].uLen = Min({@, left})] PROVE q' = [qq EXCEPT ![i] = t]
    <3>1. PICK g \in FsysQio : g = qq[i]
      BY <1>2
    <3>2. PICK x : x = Min({g.oLen, left}) /\ x = Min({g.uLen, left})
      BY <2>2, <3>1
    <3>3. q' = [qq EXCEPT ![i] = [[g EXCEPT !.oLen = x] EXCEPT !.uLen = x]]
      <4> HIDE DEF left
      <4> QED
        BY ZenonT(60), <1>2, <2>3, <3>1, <3>2 DEF FsysQio
    <3>4. t = [[g EXCEPT !.oLen = x] EXCEPT !.uLen = x]
      BY <3>1, <3>2
    <3> QED
      BY <3>3, <3>4
  <2>4. ASSUME req' = [rr EXCEPT ![j].state = 1] PROVE req' = [rr EXCEPT ![j] = s]
    BY <2>4
  <2> QED
    BY <2>1, <2>3, <2>4
<1>5. CASE Cleanup(j, kk, rr, qq, "EOF", 0, fp[fd].size)
  <2>1. "EOF" \in Statuses /\ Err("EOF")
    BY DEF Statuses, Err
  <2> QED
    BY <1>1, <1>5, <2>1, CleanupSafe
<1>6. ASSUME left > 0, q' = [qq EXCEPT ![i] = t], req' = [rr EXCEPT ![j] = s], mpool' = mpool \ {j},
             k' = GetMutex(kk, "filep", j, "readbws_q"), pool' = pool, fp' = fp
      PROVE  PipeInv'
  <2>1. n \in Nat /\ n <= qq[i].oLen /\ (req[c].len > 0 => n > 0)
    <3>1. PICK x \in Nat, y \in Nat : x = qq[i].oLen /\ y = left /\ y > 0
      BY <1>1, <1>6
    <3>2. x \in Int /\ y \in Int /\ n = Min({x, y})
      BY <3>1
    <3>3. n \in {x, y} /\ n <= x
      BY <3>2, MinTwo
    <3> HIDE DEF n
    <3> QED
      BY <1>3, <3>1, <3>3
  <2>2. /\ t \in FsysQio /\ t.oLen = n /\ t.uLen = n /\ t.kind = "read" /\ t.caller = c /\ t.fd = fd /\ t.total = 0
        /\ t.state = 0
    <3>1. qq[i] \in FsysQio
      BY <1>2
    <3> HIDE DEF n
    <3> QED
      BY <1>3, <2>1, <3>1 DEF FsysQio
  <2>3. s \in QioIOQ /\ s.state = 1 /\ s.op = "filler" /\ s.fd = fd /\ s.for = c /\ s.where = 0 /\ s.fq = Nobody /\ s.cnt = 0
    <3>1. rr[j] \in QioIOQ
      BY <1>1, <1>2
    <3> QED
      BY <1>2, <3>1 DEF QioIOQ
  <2> HIDE DEF n, s, t, left
  <2>4. /\ req' \in [Callers -> QioIOQ] /\ req'[j] = s /\ req'[c] = rr[c]
        /\ \A b \in Callers \ {c, j} : req'[b] = req[b]
    BY <1>1, <1>2, <1>6, <2>3
  <2>5. q' \in [Fqs -> FsysQio] /\ q'[i] = t /\ \A l \in Fqs \ {i} : q'[l] = q[l]
    BY <1>2, <1>6, <2>2
  <2>6. TypeInv'
    BY <1>1, <1>6, <2>4, <2>5 DEF TypeInv, FileInv
  <2>7. KernelInv(k') /\ Asks(k', j, {fd}, "filep", "readbws_q") /\ Others(kk, k', j)
    <3>1. "filep" \in Mutexes /\ "filep" \notin {fd} /\ "readbws_q" \in Actions
      BY <1>2, Places DEF Actions
    <3> QED
      BY <1>1, <1>2, <1>6, <3>1, GetMutexIs
  <2>8. Beside(k, k', M)
    <3>1. Beside(kk, k', M)
      BY <2>7 DEF Beside, Others
    <3> QED
      BY <1>1, <3>1, BesideAgain
  <2>9. M \cap MIoqs = {j} /\ Callers \cap M = {c, j} /\ Fqs \cap M = {i} /\ VolOp \notin M
    BY <1>1, <1>2, Kinds
  <2>10. Apart(M)
    BY <1>1, <1>2, <1>6, <2>4, <2>5, <2>8 DEF Apart, Beside
  <2>11. StepOf(M)
    <3>1. FilesKept(M) /\ PoolKept(M)
      BY <1>6 DEF FilesKept, PoolKept, Sated
    <3>2. Joined(M)
      BY <2>3, <2>4, <2>9 DEF Joined
    <3>3. HoldKept(M)
      BY <1>6, <2>9 DEF HoldKept
    <3> QED
      BY <1>2, <2>10, <3>1, <3>2, <3>3 DEF StepOf
  <2>12. FillerInv(j)'
    <3>1. Still(k', i, {}) /\ Still(k', c, {})
      BY <1>1, <1>2, <2>7 DEF Others, Undisturbed
    <3>2. Spare(i)'
      BY <1>1, <2>2, <2>5, <3>1 DEF Spare
    <3>3. Owns(c, i)'
      BY <1>2, <1>6, <2>2, <2>4, <2>5 DEF Owns
    <3>4. Filled(c)'
      BY <1>2, <2>4, <3>1, <3>2, <3>3 DEF Filled
    <3>5. Fills(j)'
      BY <2>3, <2>4, <2>7 DEF Fills
    <3>6. req'[c].len > 0 => q'[req'[c].fq].oLen > 0
      BY <1>2, <2>1, <2>2, <2>4, <2>5
    <3> QED
      BY <2>3, <2>4, <3>4, <3>5, <3>6 DEF FillerInv
  <2>13. Amounts(q'[i]) /\ req'[c].cnt + q'[i].oLen <= req'[c].len
    <3>1. Amounts(t)
      BY <2>1, <2>2 DEF Amounts
    <3>2. req[c].cnt + n <= req[c].len
      BY <1>1, <1>3, <2>1
    <3> QED
      BY <1>2, <2>2, <2>4, <2>5, <3>1, <3>2
  <2>14. /\ j \notin mpool' /\ req'[j].for = c /\ req'[j].fd = fd /\ req'[c].fd = fd /\ req'[c].fq = i /\ i \notin In(pool')
         /\ q'[i].caller = c /\ req'[c].status = "none" /\ req'[c].where >= 0
         /\ req'[c].op \in {"read", "readwpos", "write", "writewpos"}
    BY <1>1, <1>2, <1>6, <2>2, <2>3, <2>4, <2>5
  <2>15. \A l \in (Fqs \cap M) \ {i} : QioInv(l)'
    BY <2>9
  <2> QED
    BY <1>2, <2>6, <2>7, <2>9, <2>11, <2>12, <2>13, <2>14, <2>15, HelperStays
<1> HIDE DEF t, s, left
<1> QED
  BY <1>4, <1>5, <1>6

(* What the helper that runs readbws_q was waiting for, and what it holds. *)
FillerRuns(j) ==
  LET c == req[j].for
      i == req[c].fq
      fd == req[j].fd
  IN  /\ FillerInv(j) /\ j \notin mpool /\ k.cur[fd] = j
      /\ \/ /\ req[j].state = 0 /\ req[j].fq = Nobody /\ req[j].cnt = 0
            /\ Served(j, c, i, fd, {fd}, D, req, q)
         \/ /\ req[j].state = 1 /\ req[j].fq = Nobody /\ req[j].cnt = 0 /\ k.cur["filep"] = j
            /\ Served(j, c, i, fd, {fd, "filep"}, D, req, q)
         \/ /\ req[j].state = 2 /\ req[j].fq \in In(pool) /\ Last(pool) # req[j].fq
            /\ fp[fd].cancel => Err(req[j].status)
            /\ Served(j, c, i, fd, {fd, "filep"}, D, req, q)

(* What runs of a filler was taken off the AST queue and has its mutexes.  *)
LEMMA FillerTaken ==
  ASSUME PipeInv, NEW j \in MIoqs, Runs(j, "readbws_q")
  PROVE  FillerRuns(j)
<1>0. PICK c, i, fd : c = req[j].for /\ i = req[c].fq /\ fd = req[j].fd
  OBVIOUS
<1>1. /\ j \notin mpool /\ FillerInv(j)
      /\ \/ req[j].state = 0 /\ req[j].fq = Nobody /\ req[j].cnt = 0 /\ Due(k, j, {fd}, "readbws_q")
         \/ req[j].state = 1 /\ req[j].fq = Nobody /\ req[j].cnt = 0 /\ Due(k, j, {fd, "filep"}, "readbws_q")
         \/ req[j].state = 2 /\ fp[fd].hold /\ Sated(j)
  <2>1. Helps(j, "readbws_q")
    BY HelperRuns
  <2> QED
    BY <1>0, <2>1 DEF Helps
<1>2. /\ c \in Users /\ Owns(c, i) /\ i \in Fqs /\ i \notin In(pool) /\ fd \in Fds /\ req[c].fd = fd /\ KernelInv(k)
  BY <1>0, <1>1, ClosedFill, ServedRests DEF PipeInv
<1>3. ~Owns(j, req[j].fq)
  BY <1>1, Kinds DEF Sated, Owns
<1>4. Closed({c, i, j})
  BY <1>0, <1>1, <1>3, ClosedFill
<1>5. PICK S : /\ S = {fd} \/ S = {fd, "filep"}
               /\ Due(k, j, S, "readbws_q")
               /\ req[j].state = 0 => S = {fd}
               /\ req[j].state # 0 => S = {fd, "filep"}
  <2>1. req[j].state = 2 => Due(k, j, {fd, "filep"}, "readbws_q")
    BY <1>0, <1>1 DEF Sated
  <2>2. CASE req[j].state = 0
    BY <1>1, <2>2
  <2>3. CASE req[j].state # 0
    BY <1>1, <2>1, <2>3
  <2> QED
    BY <2>2, <2>3
<1>6. KernelInv(D) /\ Still(D, j, S) /\ Others(k, D, j)
  BY <1>2, <1>5, TakenOff
<1>7. Filled(c) /\ Still(k, c, {}) /\ Spare(i) /\ req[j].op = "filler" /\ req[j].where = 0
      /\ (req[c].len > 0 => q[i].oLen > 0)
  BY <1>0, <1>1 DEF FillerInv, Filled
<1>8. Beside(k, D, {c, j}) /\ Still(D, c, {})
  <2>1. c \in Ioqs /\ c # j
    BY <1>2, Kinds
  <2> QED
    BY <1>6, <1>7, <2>1 DEF Beside, Others, Undisturbed
<1>9. k.cur[fd] = j /\ (req[j].state # 0 => k.cur["filep"] = j)
  BY <1>5 DEF Due, Held
<1>10. /\ q[i].kind = "read" /\ q[i].caller = c /\ q[i].fd = fd /\ q[i].total = 0 /\ q[i].state = 0
       /\ q[i].uLen = q[i].oLen
  <2>1. Owned(i) /\ q[i] \in FsysQio
    BY <1>2, OwnerIs, AskedFor
  <2>2. q[i].total + q[i].uLen = q[i].oLen /\ q[i].uLen \in Nat
    BY <2>1 DEF Owned, Amounts, FsysQio
  <2> QED
    BY <1>2, <1>7, <2>2 DEF Owns, Spare
<1>11. req[c].status = "none" /\ req[c].cnt + q[i].oLen <= req[c].len /\ req[c].where >= 0
  <2>1. Owned(i)
    BY <1>2, OwnerIs
  <2> QED
    BY <1>2, <1>10, <2>1, AskedFor DEF Owned
<1>12. Served(j, c, i, fd, S, D, req, q)
  <2>1. req \in [Callers -> QioIOQ] /\ q \in [Fqs -> FsysQio]
    BY DEF PipeInv, TypeInv
  <2> QED
    BY <1>0, <1>2, <1>4, <1>5, <1>6, <1>7, <1>8, <1>9, <1>10, <1>11, <2>1, Zenon DEF Served
<1>13. req[j].state = 2 =>
         req[j].fq \in In(pool) /\ Last(pool) # req[j].fq /\ (fp[fd].cancel => Err(req[j].status))
  BY <1>0, <1>1 DEF Sated
<1> QED
  BY <1>0, <1>1, <1>5, <1>9, <1>12, <1>13 DEF FillerRuns

(* The caller a filler works for, its FsysQio and the file of both.         *)
Party(j, c, i, fd) == c = req[j].for /\ fd = req[j].fd /\ i = req[c].fq

(* State 1: the sector is to be read.                                      *)
LEMMA FillerReadsSafe ==
  ASSUME PipeInv, NEW j \in MIoqs, NEW c, NEW i, NEW fd, Party(j, c, i, fd),
         FillerInv(j), j \notin mpool, k.cur[fd] = j, k.cur["filep"] = j, req[j].state = 1, req[j].fq = Nobody, req[j].cnt = 0,
         Served(j, c, i, fd, {fd, "filep"}, D, req, q), ~fp[fd].cancel,
         FillerReads(j), io' = io, file' = file, ro' = ro
  PROVE  PipeInv'
<1>1. /\ c \in Callers /\ j \in Callers /\ c # j /\ c # i /\ i # j /\ c \in Ioqs /\ j \in Ioqs /\ i \in Ioqs
      /\ c \notin MIoqs /\ j \notin Users /\ i \notin io /\ Still(D, i, {}) /\ Beside(k, D, {c, i, j})
      /\ req[c].op \in {"read", "readwpos", "write", "writewpos"} /\ TypeInv /\ fp[fd].pos \in Nat /\ req[c].len \in Nat
  BY ZenonT(60), ServedIs
<1>2. /\ c \in Users /\ i \in Fqs /\ i \notin In(pool) /\ fd \in Fds /\ Closed({c, i, j})
      /\ KernelInv(D) /\ Still(D, j, {fd, "filep"}) /\ Still(D, c, {})
      /\ req[c].status = "none" /\ req[c].fd = fd /\ req[c].where >= 0
      /\ req[j].op = "filler" /\ req[j].where = 0
      /\ q[i].kind = "read" /\ q[i].caller = c /\ q[i].fd = fd /\ q[i].total = 0 /\ q[i].state = 0
      /\ q[i].uLen = q[i].oLen /\ req[c].cnt + q[i].oLen <= req[c].len /\ (req[c].len > 0 => q[i].oLen > 0)
      /\ Owns(c, i) /\ Spare(i)
  BY Zenon DEF Served
<1>0. PICK l, w : l = Head(pool) /\ w = q[i].oWhere * BytPSect
  OBVIOUS
<1> DEFINE r == ReadFq(j, fd, w, BytPSect)
           s == [req[j] EXCEPT !.state = 2, !.fq = l]
           M == {c, i, j} \cup {l}
<1>3. \/ Cleanup(j, D, req, q, "ERR", 0, fp[fd].pos)
      \/ /\ pool # <<>> /\ q' = [q EXCEPT ![l] = r] /\ pool' = Tail(pool)
         /\ req' = [req EXCEPT ![j] = s]
         /\ fp' = [fp EXCEPT ![fd].hold = TRUE] /\ k' = Complete(D, j, "readwpos_q") /\ mpool' = mpool
  BY ZenonT(60), <1>0 DEF FillerReads, Party
<1>4. CASE Cleanup(j, D, req, q, "ERR", 0, fp[fd].pos)
  <2>1. "ERR" \in Statuses /\ Err("ERR")
    BY DEF Statuses, Err
  <2> QED
    BY <1>1, <1>4, <2>1, CleanupSafe
<1>5. ASSUME pool # <<>>, q' = [q EXCEPT ![l] = r], pool' = Tail(pool), req' = [req EXCEPT ![j] = s],
             fp' = [fp EXCEPT ![fd].hold = TRUE], k' = Complete(D, j, "readwpos_q"), mpool' = mpool
      PROVE  PipeInv'
  <2>1. /\ l \in Fqs /\ l \in In(pool) /\ Tail(pool) \in Seq(Fqs) /\ IsInjective(Tail(pool))
        /\ In(Tail(pool)) = In(pool) \ {l} /\ (Tail(pool) # <<>> => Last(Tail(pool)) = Last(pool))
    BY <1>0, <1>1, <1>5, TailIs DEF TypeInv
  <2>2. l # i /\ l # c /\ l # j /\ l \in Ioqs
    BY <1>1, <1>2, <2>1, Kinds
  <2>3. l \notin io /\ Still(k, l, {})
    BY <2>1 DEF PipeInv, QioInv
  <2>4. Still(D, l, {})
    BY <1>1, <2>2, <2>3 DEF Beside, Undisturbed
  <2>5. /\ r \in FsysQio /\ r.kind = "read" /\ r.caller = j /\ r.fd = fd /\ r.oLen = 2 /\ r.uLen = 2
        /\ r.total = 0 /\ r.state = 0
    <3>1. q[i] \in FsysQio
      BY <1>1, <1>2 DEF TypeInv
    <3>2. w \in Nat /\ BytPSect = 2 /\ BytPSect \in Nat
      BY SMTT(60), <1>0, <3>1 DEF FsysQio, BytPSect
    <3>3. j \in Callers /\ fd \in Fds
      BY <1>1, <1>2, Zenon
    <3> QED
      BY SMTT(60), <3>2, <3>3, ReadFqIs
  <2>6. s \in QioIOQ /\ s.state = 2 /\ s.fq = l /\ s.op = "filler" /\ s.fd = fd /\ s.for = c /\ s.where = 0
    <3>1. req[j] \in QioIOQ
      BY <1>1 DEF TypeInv
    <3>2. PICK g \in QioIOQ : g = req[j]
      BY <3>1
    <3>3. PICK t : t = [g EXCEPT !.state = 2, !.fq = l]
      OBVIOUS
    <3>4. t \in QioIOQ
      <4>1. PICK n \in 0..2, m \in Fqs \cup {Nobody} : n = 2 /\ m = l
        BY <2>1
      <4>2. [g EXCEPT !.state = n, !.fq = m] \in QioIOQ
        BY ZenonT(60) DEF QioIOQ
      <4> QED
        BY <3>3, <4>1, <4>2
    <3>5. t.state = 2 /\ t.fq = l /\ t.op = g.op /\ t.fd = g.fd /\ t.for = g.for /\ t.where = g.where
      BY <3>3 DEF QioIOQ
    <3> QED
      BY <1>2, <3>2, <3>3, <3>4, <3>5 DEF Party
  <2> HIDE DEF r, s
  <2>7. /\ req' \in [Callers -> QioIOQ] /\ req'[j] = s /\ \A b \in Callers \ {j} : req'[b] = req[b]
    BY <1>1, <1>5, <2>6 DEF TypeInv
  <2>8. q' \in [Fqs -> FsysQio] /\ q'[l] = r /\ q'[i] = q[i] /\ \A m \in Fqs \ {l} : q'[m] = q[m]
    BY <1>1, <1>2, <1>5, <2>1, <2>2, <2>5 DEF TypeInv
  <2>9. /\ fp' \in [Fds -> QioFile] /\ fp'[fd].hold
        /\ \A x \in Fds : fp'[x].cancel = fp[x].cancel /\ (x # fd => fp'[x].hold = fp[x].hold)
    <3>1. PICK g \in QioFile : g = fp[fd]
      BY <1>1, <1>2 DEF TypeInv
    <3>2. PICK t : t = [g EXCEPT !.hold = TRUE]
      OBVIOUS
    <3>3. t \in QioFile /\ t.hold /\ t.cancel = g.cancel
      BY <3>2 DEF QioFile
    <3>4. fp' = [fp EXCEPT ![fd] = t]
      BY <1>5, <3>1, <3>2
    <3> QED
      BY <1>1, <1>2, <3>1, <3>3, <3>4 DEF TypeInv
  <2>10. TypeInv'
    BY <1>1, <1>5, <2>1, <2>7, <2>8, <2>9 DEF TypeInv, FileInv
  <2>11. KernelInv(k') /\ Due(k', j, {fd, "filep"}, "readwpos_q") /\ Others(D, k', j)
    <3>1. "readwpos_q" \in Actions
      BY DEF Actions
    <3> QED
      BY <1>1, <1>2, <1>5, <3>1, CompleteIs, Zenon
  <2>12. Beside(k, k', M)
    <3>1. Beside(D, k', M) /\ Beside(k, D, M)
      BY <1>1, <2>11 DEF Beside, Others
    <3> QED
      BY <3>1, BesideAgain
  <2>13. M \cap MIoqs = {j} /\ Callers \cap M = {c, j} /\ Fqs \cap M = {i, l} /\ VolOp \notin M
    <3>1. l \notin Callers /\ i \notin Callers /\ l \notin MIoqs /\ i \notin MIoqs /\ c \notin Fqs /\ j \notin Fqs
      BY <1>1, <1>2, <2>1, Kinds
    <3>2. VolOp \notin Users /\ VolOp \notin Fqs /\ VolOp \notin MIoqs
      BY Kinds
    <3> QED
      BY ZenonT(60), <1>1, <1>2, <2>1, <3>1, <3>2
  <2>14. Apart(M)
    BY ZenonT(60), <1>1, <1>2, <1>5, <2>1, <2>7, <2>8, <2>12 DEF Apart, Beside
  <2>15. Closed(M)
    <3>1. {l} \in SUBSET (In(pool) \cup mpool \cup {VolOp}) /\ {l} \subseteq Ioqs
      BY <2>1, <2>2
    <3> QED
      BY <1>2, <3>1, ClosedMore
  <2>16. StepOf(M)
    <3>1. FilesKept(M)
      BY <2>9 DEF FilesKept
    <3>2. PoolKept(M)
      <4> SUFFICES ASSUME NEW m \in MIoqs \ M, m \notin mpool, Sated(m) PROVE FALSE
        BY DEF PoolKept
      <4>1. k.cur["filep"] = m
        BY DEF Sated, Due, Held
      <4> QED
        BY <4>1
    <3>3. Joined(M)
      BY <2>6, <2>7, <2>13 DEF Joined
    <3>4. HoldKept(M)
      <4>1. j \in MIoqs \cap M /\ j \notin mpool' /\ req'[j].fd = fd /\ req'[j].state = 2 /\ req[j].fd = fd
        BY <1>5, <2>6, <2>7, <2>13 DEF Party
      <4> SUFFICES ASSUME NEW x \in Fds, fp'[x].hold
                   PROVE  \/ /\ fp[x].hold
                             /\ \A m \in MIoqs \cap M : m \notin mpool => req[m].fd # x \/ req[m].state # 2
                          \/ \E m \in MIoqs \cap M : m \notin mpool' /\ req'[m].fd = x /\ req'[m].state = 2
        BY DEF HoldKept
      <4>2. CASE x = fd
        BY <4>1, <4>2
      <4>3. CASE x # fd
        BY <2>9, <2>13, <4>1, <4>3
      <4> QED
        BY <4>2, <4>3
    <3> QED
      BY <2>14, <2>15, <3>1, <3>2, <3>3, <3>4 DEF StepOf
  <2>17. FillerInv(j)'
    <3>1. Still(k', i, {}) /\ Still(k', c, {}) /\ Still(k', l, {})
      BY <1>1, <1>2, <2>2, <2>4, <2>11 DEF Others, Undisturbed
    <3>a. i \notin io' /\ l \notin io'
      BY <1>1, <2>3
    <3>b. q'[i].kind = "read" /\ q'[i].state = 0 /\ q'[i].total = 0
      BY <1>2, <2>8
    <3>c. q'[l].kind = "read" /\ q'[l].state = 0 /\ q'[l].total = 0
      BY <2>5, <2>8
    <3>2. Spare(i)' /\ Spare(l)'
      BY <3>a, <3>b, <3>c, <3>1 DEF Spare
    <3>3. Owns(c, i)'
      BY <1>1, <1>2, <1>5, <2>1, <2>7, <2>8 DEF Owns
    <3>4. Filled(c)'
      BY <1>1, <2>7, <3>1, <3>2, <3>3 DEF Filled, Party
    <3>5. Owns(j, l)'
      BY <1>5, <2>1, <2>5, <2>6, <2>7, <2>8 DEF Owns
    <3>6. ToRead(j)'
      <4>1. req'[j].fq = l /\ req'[j].fd = fd
        BY <2>6, <2>7
      <4>2. q'[l].oLen > 0
        BY <2>5, <2>8
      <4>3. fd \in Fds /\ ~fp[fd].cancel
        BY <1>2
      <4>4. ~fp'[fd].cancel
        BY <2>9, <4>3
      <4> QED
        BY <2>11, <3>2, <3>5, <4>1, <4>2, <4>4 DEF ToRead
    <3>7. Fills(j)'
      BY <2>6, <2>7, <2>9, <3>6 DEF Fills
    <3>8. req'[c].len > 0 => q'[req'[c].fq].oLen > 0
      BY ZenonT(60), <1>1, <1>2, <2>7, <2>8 DEF Party
    <3> QED
      BY <2>6, <2>7, <3>4, <3>7, <3>8 DEF FillerInv
  <2>18. QioInv(l)'
    <3>1. Owns(j, l)'
      BY <1>5, <2>1, <2>5, <2>6, <2>7, <2>8 DEF Owns
    <3>2. Amounts(q'[l])
      BY <2>5, <2>8 DEF Amounts
    <3>3. Owned(l)'
      BY <1>1, <1>5, <2>5, <2>6, <2>7, <2>8, <3>1, <3>2 DEF Owned
    <3> QED
      BY <1>5, <2>1, <3>3 DEF QioInv
  <2>19. Amounts(q'[i]) /\ req'[c].cnt + q'[i].oLen <= req'[c].len
    <3>1. Owned(i)
      BY <1>2, OwnerIs
    <3> QED
      BY ZenonT(60), <1>1, <1>2, <2>7, <2>8, <3>1 DEF Owned
  <2>20. /\ j \notin mpool' /\ req'[j].for = c /\ req'[j].fd = fd /\ req'[c].fd = fd /\ req'[c].fq = i /\ i \notin In(pool')
         /\ q'[i].caller = c /\ req'[c].status = "none" /\ req'[c].where >= 0
         /\ req'[c].op \in {"read", "readwpos", "write", "writewpos"}
    <3>1. req'[c] = req[c] /\ req'[j] = s /\ q'[i] = q[i]
      BY <1>1, <2>7, <2>8
    <3>2. req[c].fq = i /\ req[j].for = c
      BY DEF Party
    <3>3. i \notin In(pool') /\ j \notin mpool'
      BY <1>2, <1>5, <2>1
    <3> QED
      BY <1>1, <1>2, <2>6, <3>1, <3>2, <3>3, Zenon
  <2>21. \A m \in (Fqs \cap M) \ {i} : QioInv(m)'
    BY <2>13, <2>18
  <2>22. c \in Users /\ j \in MIoqs /\ fd \in Fds /\ i \in Fqs
    BY <1>2
  <2> HIDE DEF M
  <2> QED
    BY SMTT(60), <2>22, <2>10, <2>11, <2>13, <2>16, <2>17, <2>19, <2>20, <2>21, HelperStays
<1> QED
  BY <1>3, <1>4, <1>5

(* State 2: the caller gets its part of the sector.                        *)
LEMMA FillerCopiesSafe ==
  ASSUME PipeInv, NEW j \in MIoqs, NEW c, NEW i, NEW fd, Party(j, c, i, fd),
         j \notin mpool, req[j].fq \in In(pool), Last(pool) # req[j].fq,
         Served(j, c, i, fd, {fd, "filep"}, D, req, q),
         FillerCopies(j), io' = io, file' = file, ro' = ro
  PROVE  PipeInv'
<1>1. /\ c \in Callers /\ j \in Callers /\ c # j /\ c # i /\ i # j /\ c \in Ioqs /\ j \in Ioqs /\ i \in Ioqs
      /\ c \notin MIoqs /\ j \notin Users /\ i \notin io /\ Still(D, i, {}) /\ Beside(k, D, {c, i, j})
      /\ req[c].op \in {"read", "readwpos", "write", "writewpos"} /\ TypeInv /\ fp[fd].pos \in Nat /\ req[c].len \in Nat
      /\ req[c].cnt \in Nat /\ q[i].oLen \in Nat /\ q[i].oBws \in 0..1 /\ req[c].where \in Nat
  BY ServedIs, Zenon
<1>2. /\ c \in Users /\ i \in Fqs /\ i \notin In(pool) /\ fd \in Fds /\ Closed({c, i, j})
      /\ KernelInv(D) /\ Still(D, j, {fd, "filep"}) /\ Still(D, c, {})
      /\ k.cur[fd] \notin MIoqs \ {j}
      /\ req[c].status = "none" /\ req[c].fd = fd /\ req[c].where >= 0
      /\ q[i].kind = "read" /\ q[i].caller = c /\ q[i].fd = fd /\ q[i].total = 0 /\ q[i].state = 0
      /\ q[i].uLen = q[i].oLen /\ req[c].cnt + q[i].oLen <= req[c].len /\ (req[c].len > 0 => q[i].oLen > 0)
      /\ Owns(c, i) /\ Spare(i)
  BY Zenon DEF Served
<1> DEFINE amt == Min({BytPSect - q[i].oBws, q[i].oLen})
           next == Sect(fp[fd].pos)
           t == Rest(q[i], amt, next)
           s == [req[c] EXCEPT !.cnt = amt, !.where = fp[fd].pos]
           M == {c, i, j}
<1>3. \/ Cleanup(j, D, req, q, req[j].status, amt, req[c].where + amt)
      \/ /\ q[i].oLen > amt
         /\ q' = [q EXCEPT ![i] = t]
         /\ req' = [req EXCEPT ![c].cnt = amt, ![c].where = fp[fd].pos, ![j] = NoRequest]
         /\ fp' = [fp EXCEPT ![fd].hold = FALSE]
         /\ k' = Complete(FreeMutex(PassMutex(D, fd, c), "filep", j), c, "readwpos_q")
         /\ mpool' = mpool \cup {j} /\ pool' = pool
  BY Zenon DEF FillerCopies, Party
<1>4. amt \in Nat /\ amt <= q[i].oLen /\ (amt = 0 => q[i].oLen = 0)
  <2>1. PICK x \in Nat, y \in Nat : x = q[i].oLen /\ y = BytPSect - q[i].oBws /\ y > 0
    BY SMTT(60), <1>1 DEF BytPSect
  <2>2. x \in Int /\ y \in Int /\ amt = Min({y, x})
    BY SMTT(60), <2>1
  <2>3. amt \in {x, y} /\ amt <= x
    BY <2>2, MinTwo
  <2> HIDE DEF amt
  <2> QED
    BY SMTT(60), <2>1, <2>3
<1>5. next \in Nat
  BY <1>1, PositionType
<1> HIDE DEF amt, next
<1>6. CASE Cleanup(j, D, req, q, req[j].status, amt, req[c].where + amt)
  <2>1. req[j].status \in Statuses /\ req[c].where + amt \in Nat
    BY SMTT(60), <1>1, <1>4 DEF TypeInv, QioIOQ
  <2>2. PICK pos \in Nat : pos = req[c].where + amt
    BY <2>1
  <2>3. req[c].len = 0 \/ IF amt = 0 THEN req[j].cnt <= req[c].len ELSE amt <= req[c].len
    <3>1. PICK x \in Nat, n \in Nat, l \in Nat : x = q[i].oLen /\ n = req[c].cnt /\ l = req[c].len
      BY <1>1
    <3>2. n + x <= l /\ amt <= x /\ (l > 0 => x > 0) /\ (amt = 0 => x = 0)
      BY <1>2, <1>4, <3>1
    <3>3. l = 0 \/ (amt # 0 /\ amt <= l)
      BY SMTT(60), <1>4, <3>1, <3>2
    <3> QED
      BY <3>1, <3>3
  <2> QED
    BY <1>4, <1>6, <2>1, <2>2, <2>3, CleanupSafe
<1>7. ASSUME q[i].oLen > amt, q' = [q EXCEPT ![i] = t],
             req' = [req EXCEPT ![c].cnt = amt, ![c].where = fp[fd].pos, ![j] = NoRequest],
             fp' = [fp EXCEPT ![fd].hold = FALSE],
             k' = Complete(FreeMutex(PassMutex(D, fd, c), "filep", j), c, "readwpos_q"),
             mpool' = mpool \cup {j}, pool' = pool
      PROVE  PipeInv'
  <2>1. req' = [req EXCEPT ![c] = s, ![j] = NoRequest]
    BY <1>1, <1>7 DEF TypeInv
  <2>2. /\ s \in QioIOQ /\ s.cnt = amt /\ s.where >= 0 /\ s.op = req[c].op /\ s.fd = fd /\ s.len = req[c].len
        /\ s.status = "none" /\ s.fq = i
    <3>1. req[c] \in QioIOQ
      BY <1>1 DEF TypeInv
    <3>2. PICK n \in Int : n = fp[fd].pos /\ n >= 0
      BY <1>1
    <3>3. [req[c] EXCEPT !.cnt = amt, !.where = n] \in QioIOQ
      BY <1>4, <3>1 DEF QioIOQ
    <3>4. /\ s.cnt = amt /\ s.where = n /\ s.op = req[c].op /\ s.fd = req[c].fd /\ s.len = req[c].len
          /\ s.status = req[c].status /\ s.fq = req[c].fq
      BY <3>1, <3>2 DEF QioIOQ
    <3> QED
      BY <1>2, <3>2, <3>3, <3>4, Zenon DEF Party
  <2>3. /\ t \in FsysQio /\ t.kind = "read" /\ t.caller = c /\ t.fd = fd /\ t.total = 0 /\ t.state = 0
        /\ t.uLen = t.oLen /\ t.oLen = q[i].oLen - amt
    <3>1. PICK g \in FsysQio : g = q[i]
      BY <1>1, <1>2 DEF TypeInv
    <3>2. PICK n \in Nat : n = g.oLen - amt /\ n = g.uLen - amt
      <4>1. PICK x \in Nat : x = q[i].oLen
        BY <1>1
      <4>2. x = g.oLen /\ x = g.uLen
        BY <1>2, <3>1, <4>1
      <4>3. x - amt \in Nat
        BY SMTT(60), <1>4, <1>7, <4>1
      <4> QED
        BY <4>2, <4>3
    <3>a. PICK z \in 0..1 : z = 0
      OBVIOUS
    <3> DEFINE s1 == [g EXCEPT !.buff = amt, !.oLen = n, !.uLen = n]
               s2 == [s1 EXCEPT !.oBws = z, !.bws = z]
               s3 == [s2 EXCEPT !.oWhere = next, !.sector = next]
    <3>3. t = s3
      <4>1. t = [g EXCEPT !.buff = amt, !.oLen = n, !.uLen = n, !.oBws = z, !.bws = z, !.oWhere = next, !.sector = next]
        BY <3>1, <3>2, <3>a DEF Rest
      <4> QED
        BY <4>1, Zenon
    <3>4. s1 \in FsysQio
      BY <1>4, <3>2 DEF FsysQio
    <3>5. s1.kind = g.kind /\ s1.caller = g.caller /\ s1.fd = g.fd /\ s1.total = g.total /\ s1.state = g.state
          /\ s1.uLen = n /\ s1.oLen = n
      BY DEF FsysQio
    <3> HIDE DEF s1
    <3>6. s2 \in FsysQio
      BY <3>4 DEF FsysQio
    <3>7. s2.kind = s1.kind /\ s2.caller = s1.caller /\ s2.fd = s1.fd /\ s2.total = s1.total /\ s2.state = s1.state
          /\ s2.uLen = s1.uLen /\ s2.oLen = s1.oLen
      BY <3>4 DEF FsysQio
    <3> HIDE DEF s2
    <3>8. s3 \in FsysQio
      BY <1>5, <3>6 DEF FsysQio
    <3>9. s3.kind = s2.kind /\ s3.caller = s2.caller /\ s3.fd = s2.fd /\ s3.total = s2.total /\ s3.state = s2.state
          /\ s3.uLen = s2.uLen /\ s3.oLen = s2.oLen
      BY <3>6 DEF FsysQio
    <3> HIDE DEF s3, t
    <3>10. s3.kind = g.kind /\ s3.caller = g.caller /\ s3.fd = g.fd /\ s3.total = g.total /\ s3.state = g.state
          /\ s3.uLen = n /\ s3.oLen = n
      BY <3>5, <3>7, <3>9
    <3>11. n = q[i].oLen - amt
      BY <3>1, <3>2
    <3>12. g.kind = "read" /\ g.caller = c /\ g.fd = fd /\ g.total = 0 /\ g.state = 0
      BY <1>2, <3>1
    <3> QED
      BY <3>3, <3>8, <3>10, <3>11, <3>12
  <2> HIDE DEF s, t
  <2>4. NoRequest \in QioIOQ
    BY NoFqType DEF NoRequest, QioIOQ, Statuses, Ops, Whences
  <2>5. /\ req' \in [Callers -> QioIOQ] /\ req'[c] = s /\ req'[j] = NoRequest
        /\ \A b \in Callers \ {c, j} : req'[b] = req[b]
    BY <1>1, <2>1, <2>2, <2>4 DEF TypeInv
  <2>6. q' \in [Fqs -> FsysQio] /\ q'[i] = t /\ \A l \in Fqs \ {i} : q'[l] = q[l]
    <3>1. q \in [Fqs -> FsysQio] /\ i \in Fqs /\ t \in FsysQio
      BY <1>1, <1>2, <2>3 DEF TypeInv
    <3> QED
      BY <1>7, <3>1
  <2>7. /\ fp' \in [Fds -> QioFile] /\ ~fp'[fd].hold
        /\ \A x \in Fds : fp'[x].cancel = fp[x].cancel /\ (x # fd => fp'[x].hold = fp[x].hold)
    <3>1. PICK g \in QioFile : g = fp[fd]
      BY <1>1, <1>2 DEF TypeInv
    <3>2. PICK x : x = [g EXCEPT !.hold = FALSE]
      OBVIOUS
    <3>3. x \in QioFile /\ ~x.hold /\ x.cancel = g.cancel
      BY <3>2 DEF QioFile
    <3>4. fp' = [fp EXCEPT ![fd] = x]
      BY <1>7, <3>1, <3>2
    <3> QED
      BY <1>1, <1>2, <3>1, <3>3, <3>4 DEF TypeInv
  <2>8. TypeInv'
    BY <1>1, <1>7, <2>5, <2>6, <2>7, Zenon DEF TypeInv, FileInv
  <2>9. /\ KernelInv(k') /\ Beside(D, k', {c, j}) /\ Due(k', c, {fd}, "readwpos_q") /\ Still(k', j, {})
    <3>1. /\ fd \in Mutexes /\ "filep" \in Mutexes /\ fd # "filep" /\ "readwpos_q" \in Actions
          /\ {fd, "filep"} \ {fd} = {"filep"} /\ {} \cup {fd} = {fd} /\ fd \in {fd, "filep"}
      BY <1>2, Places DEF Actions
    <3>2. PICK kb : kb = PassMutex(D, fd, c)
      OBVIOUS
    <3>3. KernelInv(kb) /\ Still(kb, j, {"filep"}) /\ Still(kb, c, {fd}) /\ Beside(D, kb, {c, j})
      <4>1. /\ KernelInv(kb) /\ Still(kb, j, {fd, "filep"} \ {fd}) /\ Still(kb, c, {} \cup {fd})
            /\ \A l \in Ioqs \ {j, c} : Undisturbed(D, kb, l)
        BY <1>1, <1>2, <3>1, <3>2, PassMutexIs, Zenon
      <4> QED
        BY <3>1, <4>1 DEF Beside
    <3>4. PICK kc : kc = FreeMutex(kb, "filep", j)
      OBVIOUS
    <3>5. KernelInv(kc) /\ Still(kc, j, {}) /\ Others(kb, kc, j)
      BY <1>1, <3>1, <3>3, <3>4, LetGo
    <3>6. Still(kc, c, {fd})
      BY <1>1, <3>1, <3>3, <3>5 DEF Others, Undisturbed
    <3>7. KernelInv(k') /\ Due(k', c, {fd}, "readwpos_q") /\ Others(kc, k', c)
      BY <1>1, <1>7, <3>1, <3>2, <3>4, <3>5, <3>6, CompleteIs
    <3>8. Still(k', j, {})
      BY <1>1, <3>5, <3>7 DEF Others, Undisturbed
    <3>9. Beside(D, k', {c, j})
      <4>1. Beside(kb, kc, {c, j}) /\ Beside(kc, k', {c, j})
        BY <3>5, <3>7 DEF Beside, Others
      <4> QED
        BY <3>3, <4>1, BesideAgain
    <3> QED
      BY <3>7, <3>8, <3>9
  <2>10. Beside(k, k', M)
    <3>1. Beside(D, k', M)
      BY <2>9 DEF Beside
    <3> QED
      BY <1>1, <3>1, BesideAgain
  <2>11. Spare(i)'
    <3>1. Still(k', i, {})
      BY <1>1, <2>9 DEF Beside, Undisturbed
    <3> QED
      BY <1>1, <2>3, <2>6, <3>1 DEF Spare
  <2>12. Transfers(c)'
    <3>1. Owns(c, i)'
      BY <1>2, <1>7, <2>2, <2>3, <2>5, <2>6, Zenon DEF Owns
    <3>2. Asks(k', c, {}, fd, "readwpos_q")
      <4>1. {} \cup {fd} = {fd}
        OBVIOUS
      <4> QED
        BY <2>9, <4>1 DEF Asks
    <3> QED
      BY <2>2, <2>5, <2>11, <3>1, <3>2 DEF Transfers
  <2>13. req'[c].cnt + q'[i].oLen <= req[c].len
    <3>1. PICK x \in Nat, n \in Nat, l \in Nat : x = q[i].oLen /\ n = req[c].cnt /\ l = req[c].len
      BY <1>1
    <3>2. n + x <= l /\ req'[c].cnt = amt /\ q'[i].oLen = x - amt
      <4>1. req'[c] = s /\ q'[i] = t
        BY <2>5, <2>6
      <4>2. s.cnt = amt /\ t.oLen = x - amt
        BY <2>2, <2>3, <3>1
      <4>3. n + x <= l
        BY <1>2, <3>1
      <4> QED
        BY <4>1, <4>2, <4>3
    <3>3. amt + (x - amt) <= l
      BY SMTT(60), <1>4, <3>1, <3>2
    <3> QED
      BY <3>1, <3>2, <3>3
  <2>14. QioInv(i)'
    <3>1. Amounts(q'[i])
      <4>1. q'[i].oLen \in Nat
        BY <2>3, <2>6 DEF FsysQio
      <4> QED
        BY <2>3, <2>6, <4>1 DEF Amounts
    <3>2. Owns(c, i)'
      BY <2>2, <2>5, <2>12 DEF Transfers
    <3>3. Owned(i)'
      <4>1. q'[i].caller = c /\ req'[c] = s /\ s.op = req[c].op /\ s.status = "none" /\ s.len = req[c].len
        BY <2>2, <2>3, <2>5, <2>6
      <4> QED
        BY <1>1, <1>2, <2>12, <2>13, <3>1, <3>2, <4>1, Zenon DEF Owned
    <3> QED
      BY <1>2, <1>7, <3>3, Zenon DEF QioInv
  <2>15. CallerInv(c)'
    <3>1. Told(c)'
      <4>1. q'[i].oLen \in Nat /\ req'[c].cnt \in Nat
        <5>1. req'[c] = s /\ s.cnt = amt /\ q'[i] = t /\ t \in FsysQio
          BY <2>2, <2>3, <2>5, <2>6
        <5> QED
          BY <1>4, <5>1 DEF FsysQio
      <4> QED
        BY SMTT(60), <1>1, <2>2, <2>5, <2>13, <4>1 DEF Told
    <3> QED
      <4>1. req'[c] = s /\ s.fd = fd /\ s.where >= 0 /\ s.op = req[c].op
        BY <2>2, <2>5
      <4>2. req'[c].op \notin {"filler", "closer"}
        BY <1>1, <4>1
      <4> QED
        BY <1>1, <1>2, <2>12, <3>1, <4>1, <4>2 DEF CallerInv
  <2>16. PoolKept(M)
    BY <1>7 DEF PoolKept, Sated
  <2>17. \A l \in Fqs \ {i} : q'[l] = q[l] /\ (l \in io' <=> l \in io) /\ (l \in In(pool') <=> l \in In(pool))
    BY <1>7, <2>6
  <2>18. c \in Users /\ i \in Fqs /\ fd \in Fds /\ Closed(M) /\ k.cur[fd] \notin MIoqs \ {j}
    BY <1>2
  <2>19. (j \notin mpool => req[j].fd = fd) /\ mpool' = mpool \cup {j} /\ req'[j] = NoRequest
    BY <1>7, <2>5 DEF Party
  <2>20. \A b \in Callers \ {c, j} : req'[b] = req[b]
    BY <2>5
  <2>21. KernelInv(k') /\ Still(k', j, {})
    BY <2>9
  <2> QED
    BY <2>7, <2>8, <2>10, <2>14, <2>15, <2>16, <2>17, <2>18, <2>19, <2>20, <2>21, HelperLeaves
<1> HIDE DEF t, s
<1> QED
  BY <1>3, <1>6, <1>7

(* readbws_q.                                                              *)
LEMMA ReadbwsQSafe ==
  ASSUME PipeInv, NEW j \in MIoqs, ReadbwsQ(j)
  PROVE  PipeInv'
<1>0. PICK c, i, fd : c = req[j].for /\ i = req[c].fq /\ fd = req[j].fd
  OBVIOUS
<1>1. /\ Runs(j, "readbws_q") /\ io' = io /\ file' = file /\ ro' = ro
      /\ \/ /\ fp[fd].cancel \/ Err(req[j].status)
            /\ Cleanup(j, D, req, q, req[j].status, 0, fp[fd].pos)
         \/ /\ ~fp[fd].cancel
            /\ \/ req[j].state = 0 /\ FillerWaits(j, D, req, q)
               \/ req[j].state = 1 /\ FillerReads(j)
               \/ req[j].state = 2 /\ FillerCopies(j)
  BY <1>0 DEF ReadbwsQ
<1>2. FillerRuns(j)
  BY <1>1, FillerTaken
<1>3. FillerInv(j) /\ j \notin mpool /\ k.cur[fd] = j
  BY <1>0, <1>2 DEF FillerRuns
<1>4. PICK S : /\ Served(j, c, i, fd, S, D, req, q)
               /\ \/ req[j].state = 0 /\ req[j].fq = Nobody /\ req[j].cnt = 0 /\ S = {fd}
                  \/ /\ req[j].state = 1 /\ req[j].fq = Nobody /\ req[j].cnt = 0 /\ k.cur["filep"] = j
                     /\ S = {fd, "filep"}
                  \/ /\ req[j].state = 2 /\ req[j].fq \in In(pool) /\ Last(pool) # req[j].fq
                     /\ fp[fd].cancel => Err(req[j].status)
                     /\ S = {fd, "filep"}
  BY <1>0, <1>2 DEF FillerRuns
<1>5. CASE /\ fp[fd].cancel \/ Err(req[j].status)
           /\ Cleanup(j, D, req, q, req[j].status, 0, fp[fd].pos)
  <2>1. req[c].len \in Nat /\ fp[fd].pos \in Nat /\ j \in Callers /\ TypeInv
    BY <1>4, ServedIs
  <2>2. req[j].status \in Statuses
    BY <2>1 DEF TypeInv, QioIOQ
  <2>3. req[j].fq = Nobody \/ (req[j].fq \in In(pool) /\ Last(pool) # req[j].fq)
    BY <1>4
  <2>4. Err(req[j].status) \/ req[j].cnt <= req[c].len
    BY <1>4, <1>5, <2>1
  <2>5. 0 \in Nat
    OBVIOUS
  <2> QED
    BY <1>1, <1>4, <1>5, <2>1, <2>2, <2>3, <2>4, <2>5, CleanupSafe
<1>6. CASE req[j].state = 0 /\ FillerWaits(j, D, req, q)
  <2>1. S = {fd} /\ req[j].fq = Nobody /\ req[j].cnt = 0
    BY <1>4, <1>6
  <2> QED
    BY <1>1, <1>4, <1>6, <2>1, FillerWaitsSafe
<1>7. CASE ~fp[fd].cancel /\ req[j].state = 1 /\ FillerReads(j)
  <2>1. S = {fd, "filep"} /\ req[j].fq = Nobody /\ req[j].cnt = 0 /\ k.cur["filep"] = j
    BY <1>4, <1>7
  <2> QED
    BY <1>0, <1>1, <1>3, <1>4, <1>7, <2>1, FillerReadsSafe DEF Party
<1>8. CASE req[j].state = 2 /\ FillerCopies(j)
  <2>1. S = {fd, "filep"} /\ req[j].fq \in In(pool) /\ Last(pool) # req[j].fq
    BY <1>4, <1>8
  <2> QED
    BY <1>0, <1>1, <1>3, <1>4, <1>8, <2>1, FillerCopiesSafe DEF Party
<1> QED
  BY <1>1, <1>5, <1>6, <1>7, <1>8

-----------------------------------------------------------------------------
(* What the calls write into the QioIOQs.                                  *)

(* A QioIOQ that asks for nothing.                                         *)
LEMMA NoRequestType == NoRequest \in QioIOQ
BY NoFqType DEF NoRequest, QioIOQ, Statuses, Ops, Whences

(* The QioIOQ that fills the buffer for a caller.                          *)
LEMMA FillerIs ==
  ASSUME NEW c \in Users, NEW fd \in Fds
  PROVE  LET r == Filler(c, fd)
         IN  /\ r \in QioIOQ /\ r.op = "filler" /\ r.fd = fd /\ r.for = c /\ r.where = 0 /\ r.fq = Nobody
             /\ r.cnt = 0 /\ r.state = 0
<1>1. PICK n \in QioIOQ : n = NoRequest /\ n.where = 0 /\ n.fq = Nobody /\ n.cnt = 0 /\ n.state = 0
  BY NoRequestType DEF NoRequest
<1>2. PICK o \in Ops : o = "filler"
  BY DEF Ops
<1>3. Filler(c, fd) = [n EXCEPT !.op = o, !.fd = fd, !.for = c]
  BY <1>1, <1>2 DEF Filler
<1>4. [n EXCEPT !.op = o, !.fd = fd, !.for = c] \in QioIOQ
  BY DEF QioIOQ
<1> QED
  BY <1>1, <1>2, <1>3, <1>4 DEF QioIOQ

(* One of the pool is taken.                                               *)
LEMMA AnyMIoqIs ==
  ASSUME mpool # {}
  PROVE  AnyMIoq \in mpool
BY DEF AnyMIoq

(* A position that is set when the read begins.                            *)
ReadsFrom(s, r, n) == s = [r EXCEPT !.where = n, !.from = n]

(* Nothing else of the request changes.                                    *)
LEMMA WhereSet ==
  ASSUME NEW r \in QioIOQ, NEW n \in Nat, NEW s, ReadsFrom(s, r, n)
  PROVE  /\ s \in QioIOQ /\ s.where = n /\ s.op = r.op /\ s.fd = r.fd /\ s.len = r.len /\ s.status = r.status
         /\ s.cnt = r.cnt /\ s.fq = r.fq
<1>1. PICK m \in Int : m = n
  OBVIOUS
<1>2. s = [r EXCEPT !.where = m, !.from = m]
  BY <1>1 DEF ReadsFrom
<1>3. [r EXCEPT !.where = m, !.from = m] \in QioIOQ
  BY DEF QioIOQ
<1>4. /\ s.where = m /\ s.op = r.op /\ s.fd = r.fd /\ s.len = r.len /\ s.status = r.status
      /\ s.cnt = r.cnt /\ s.fq = r.fq
  BY <1>2 DEF QioIOQ
<1> QED
  BY <1>1, <1>2, <1>3, <1>4

(* read_q.                                                                 *)
LEMMA ReadQSafe ==
  ASSUME PipeInv, NEW c \in Users, ReadQ(c)
  PROVE  PipeInv'
<1>0. PICK fd, i : fd = req[c].fd /\ i = req[c].fq
  OBVIOUS
<1>1. Runs(c, "read_q")
  BY DEF ReadQ
<1>2. ReadBegins(c, req, q) /\ req[c].cnt = 0
  BY <1>1, BeginsIs
<1>3. /\ KernelInv(D) /\ Others(k, D, c) /\ Still(D, c, {fd}) /\ ~Waits(c) /\ Owns(c, i) /\ Spare(i) /\ fd \in Fds
      /\ req \in [Callers -> QioIOQ] /\ q \in [Fqs -> FsysQio] /\ i \in Fqs /\ i \notin In(pool)
      /\ q[i].caller = c /\ Closed({c, i})
  BY <1>0, <1>2, ClosedTwo DEF ReadBegins, Owns
<1>4. k.cur[fd] = c
  <2>1. Due(k, c, {fd}, "read_q")
    <3>1. UserDoes(c, "read_q")
      BY <1>1, UserRuns
    <3> QED
      BY <1>0, <3>1 DEF UserDoes
  <2> QED
    BY <2>1 DEF Due, Held
<1>5. /\ c \in Callers /\ c \in Ioqs /\ c \notin MIoqs /\ i \in Ioqs /\ c # i /\ fd \in Mutexes
      /\ TypeInv /\ KernelInv(k) /\ req[c] \in QioIOQ
  BY <1>3, Kinds, Places DEF PipeInv, TypeInv
<1>6. PICK pos \in Nat, len \in Nat : pos = fp[fd].pos /\ len = req[c].len
  <2>1. fp[fd] \in QioFile
    BY <1>3, <1>5 DEF TypeInv
  <2> QED
    BY <1>5, <2>1 DEF QioFile, QioIOQ
<1>7. req[c].status = "none"
  <2>1. Owned(i)
    BY <1>3, OwnerIs
  <2> QED
    BY <1>3, <2>1 DEF Owned
<1> DEFINE rr == [req EXCEPT ![c].where = pos, ![c].from = pos]
           qq == [q EXCEPT ![i] = ReadFq(c, fd, pos, len)]
<1>8. /\ rr \in [Callers -> QioIOQ] /\ (\A b \in Callers \ {c} : rr[b] = req[b])
      /\ rr[c].op = req[c].op /\ rr[c].fd = fd /\ rr[c].status = req[c].status /\ rr[c].len = len
      /\ rr[c].cnt = 0 /\ rr[c].fq = i /\ rr[c].where = pos
  <2>1. PICK s : ReadsFrom(s, req[c], pos)
    BY DEF ReadsFrom
  <2>2. /\ s \in QioIOQ /\ s.where = pos /\ s.op = req[c].op /\ s.fd = fd /\ s.len = len /\ s.status = req[c].status
        /\ s.cnt = 0 /\ s.fq = i
    BY <1>0, <1>2, <1>5, <1>6, <2>1, WhereSet
  <2>3. rr = [req EXCEPT ![c] = s]
    BY <1>3, <1>5, <2>1 DEF ReadsFrom
  <2> HIDE DEF rr
  <2> QED
    BY <1>3, <1>5, <2>2, <2>3
<1>9. /\ qq \in [Fqs -> FsysQio] /\ (\A l \in Fqs \ {i} : qq[l] = q[l])
      /\ qq[i].kind = "read" /\ qq[i].caller = c /\ qq[i].fd = fd /\ qq[i].total = 0 /\ qq[i].state = 0
      /\ qq[i].oLen = len /\ qq[i].uLen = len
  <2>1. PICK r : r = ReadFq(c, fd, pos, len)
    OBVIOUS
  <2>2. /\ r \in FsysQio /\ r.kind = "read" /\ r.caller = c /\ r.fd = fd /\ r.oLen = len /\ r.uLen = len
        /\ r.total = 0 /\ r.state = 0
    BY <1>3, <1>5, <1>6, <2>1, ReadFqIs
  <2>3. qq = [q EXCEPT ![i] = r]
    BY <2>1
  <2> HIDE DEF qq
  <2> QED
    BY <1>3, <2>2, <2>3
<1>10. /\ io' = io \/ Bws(pos) = 0
       /\ \/ Bws(pos) = 0 /\ ReadwposQ(c, rr, qq)
          \/ NoTransfer(c, rr, "ERR", 0) /\ fp' = fp /\ mpool' = mpool /\ file' = file /\ ro' = ro
          \/ /\ mpool # {} /\ io' = io /\ file' = file /\ ro' = ro
             /\ \/ Cleanup(AnyMIoq, PassMutex(D, fd, AnyMIoq), [rr EXCEPT ![AnyMIoq] = Filler(c, fd)], qq, "none", 0, pos)
                \/ FillerWaits(AnyMIoq, PassMutex(D, fd, AnyMIoq), [rr EXCEPT ![AnyMIoq] = Filler(c, fd)], qq)
  <2>1. /\ \/ Bws(pos) = 0 /\ ReadwposQ(c, rr, qq)
           \/ NoTransfer(c, rr, "ERR", 0) /\ fp' = fp /\ mpool' = mpool /\ file' = file /\ ro' = ro
           \/ /\ mpool # {} /\ io' = io /\ file' = file /\ ro' = ro
              /\ \/ Cleanup(AnyMIoq, PassMutex(D, fd, AnyMIoq), [rr EXCEPT ![AnyMIoq] = Filler(c, fd)], qq, "none", 0, pos)
                 \/ FillerWaits(AnyMIoq, PassMutex(D, fd, AnyMIoq), [rr EXCEPT ![AnyMIoq] = Filler(c, fd)], qq)
    BY <1>0, <1>6 DEF ReadQ
  <2> QED
    BY <2>1 DEF NoTransfer
<1> HIDE DEF rr, qq
<1>11. ReadBegins(c, rr, qq)
  <2>1. rr[c].where >= 0 /\ req[c].cnt + qq[i].oLen <= req[c].len
    BY <1>2, <1>6, <1>8, <1>9
  <2> QED
    BY <1>0, <1>2, <1>3, <1>6, <1>8, <1>9, <2>1 DEF ReadBegins
<1>12. CASE ReadwposQ(c, rr, qq)
  BY <1>11, <1>12, ReadwposQUser
<1>13. CASE NoTransfer(c, rr, "ERR", 0) /\ fp' = fp /\ mpool' = mpool /\ file' = file /\ ro' = ro
  <2>1. "ERR" \in Statuses /\ 0 \in Nat /\ 0 <= req[c].len
    BY <1>6 DEF Statuses
  <2>2. fp' \in [Fds -> QioFile] /\ \A x \in Fds : fp'[x].hold = fp[x].hold /\ fp'[x].cancel = fp[x].cancel
    BY <1>5, <1>13 DEF TypeInv
  <2> QED
    BY <1>11, <1>13, <2>1, <2>2, NoTransferSafe
<1>14. ASSUME mpool # {}, io' = io, file' = file, ro' = ro,
              \/ Cleanup(AnyMIoq, PassMutex(D, fd, AnyMIoq), [rr EXCEPT ![AnyMIoq] = Filler(c, fd)], qq, "none", 0, pos)
              \/ FillerWaits(AnyMIoq, PassMutex(D, fd, AnyMIoq), [rr EXCEPT ![AnyMIoq] = Filler(c, fd)], qq)
       PROVE  PipeInv'
  <2>1. PICK j \in mpool : j = AnyMIoq
    BY <1>14, AnyMIoqIs
  <2>2. j \in MIoqs /\ j \in Callers /\ j \in Ioqs /\ j # c /\ j # i
    BY <1>3, <1>5, <2>1, Kinds DEF TypeInv
  <2>3. PICK rj, kj : rj = [rr EXCEPT ![j] = Filler(c, fd)] /\ kj = PassMutex(D, fd, j)
    OBVIOUS
  <2>4. \/ Cleanup(j, kj, rj, qq, "none", 0, pos)
        \/ FillerWaits(j, kj, rj, qq)
    BY <1>14, <2>1, <2>3
  <2>5. /\ rj \in [Callers -> QioIOQ] /\ (\A b \in Callers \ {c, j} : rj[b] = req[b]) /\ rj[c] = rr[c]
        /\ rj[j].op = "filler" /\ rj[j].fd = fd /\ rj[j].for = c /\ rj[j].where = 0 /\ rj[j].fq = Nobody
        /\ rj[j].cnt = 0 /\ rj[j].state = 0
    <3>1. PICK r : r = Filler(c, fd)
      OBVIOUS
    <3>2. r \in QioIOQ /\ r.op = "filler" /\ r.fd = fd /\ r.for = c /\ r.where = 0 /\ r.fq = Nobody
          /\ r.cnt = 0 /\ r.state = 0
      BY <1>3, <3>1, FillerIs
    <3>3. rj = [rr EXCEPT ![j] = r]
      BY <2>3, <3>1
    <3> QED
      BY <1>5, <1>8, <2>2, <3>2, <3>3
  <2>6. KernelInv(kj) /\ Beside(k, kj, {c, j}) /\ Still(kj, j, {fd}) /\ Still(kj, c, {})
    <3>1. Still(k, j, {})
      <4>1. CallerInv(j)
        BY <2>2 DEF PipeInv
      <4> QED
        BY <2>1, <2>2, <4>1 DEF CallerInv, ServiceInv
    <3>2. Still(D, j, {})
      BY <1>3, <2>2, <3>1 DEF Others, Undisturbed
    <3>3. /\ KernelInv(kj) /\ Still(kj, c, {fd} \ {fd}) /\ Still(kj, j, {} \cup {fd})
          /\ \A l \in Ioqs \ {c, j} : Undisturbed(D, kj, l)
      BY <1>3, <1>5, <2>2, <2>3, <3>2, PassMutexIs
    <3>4. {fd} \ {fd} = {} /\ {} \cup {fd} = {fd}
      OBVIOUS
    <3>5. Beside(D, kj, {c, j}) /\ Beside(k, D, {c, j})
      BY <1>3, <3>3 DEF Beside, Others
    <3> QED
      BY <3>3, <3>4, <3>5, BesideAgain
  <2>7. Closed({c, i, j})
    <3>1. {j} \in SUBSET (In(pool) \cup mpool \cup {VolOp}) /\ {j} \subseteq Ioqs
      BY <2>1, <2>2
    <3>2. Closed({c, i} \cup {j})
      BY <1>3, <3>1, ClosedMore
    <3>3. {c, i} \cup {j} = {c, i, j}
      OBVIOUS
    <3> QED
      BY <3>2, <3>3
  <2>8. Served(j, c, i, fd, {fd}, kj, rj, qq)
    <3>1. k.cur[fd] \notin MIoqs \ {j} /\ j \in mpool
      BY <1>4, <1>5, <2>1
    <3>2. req[c].cnt + qq[i].oLen <= req[c].len /\ (req[c].len > 0 => qq[i].oLen > 0)
      BY <1>2, <1>6, <1>9
    <3>3. rj[c].where >= 0 /\ rj[c].op = req[c].op /\ rj[c].status = "none" /\ rj[c].len = req[c].len
          /\ rj[c].cnt = req[c].cnt /\ rj[c].fd = fd /\ rj[c].fq = i
      BY <1>2, <1>6, <1>7, <1>8, <2>5
    <3>4. qq[i].uLen = qq[i].oLen
      BY <1>9
    <3> QED
      BY <1>3, <1>9, <2>2, <2>5, <2>6, <2>7, <3>1, <3>2, <3>3, <3>4 DEF Served
  <2>9. CASE Cleanup(j, kj, rj, qq, "none", 0, pos)
    <3>1. "none" \in Statuses /\ 0 \in Nat
      BY DEF Statuses
    <3>2. IF 0 = 0 THEN rj[j].cnt <= req[c].len ELSE 0 <= req[c].len
      BY <1>6, <2>5
    <3> QED
      BY <1>14, <2>5, <2>8, <2>9, <3>1, <3>2, CleanupSafe
  <2>10. CASE FillerWaits(j, kj, rj, qq)
    BY <1>14, <2>1, <2>5, <2>8, <2>10, FillerWaitsSafe
  <2> QED
    BY <2>4, <2>9, <2>10
<1> QED
  BY <1>10, <1>12, <1>13, <1>14

-----------------------------------------------------------------------------
(* Requests of one QioIOQ: seek, cancel and close.                         *)

(* A caller without a FsysQio is told.                                     *)
LEMMA AloneAnswered ==
  ASSUME PipeInv, NEW c \in Users, NEW f, Runs(c, f), f \notin {"readwpos_q", "read_q"},
         req[c].op \in {"lseek", "cancel", "close"},
         req' \in [Callers -> QioIOQ], \A b \in Callers \ {c} : req'[b] = req[b],
         req'[c].op = req[c].op, req'[c].fd = req[c].fd, req'[c].where = req[c].where,
         KernelInv(k'), Others(k, k', c), Due(k', c, {}, "user"),
         fp' \in [Fds -> QioFile],
         \A x \in Fds : fp'[x].hold = fp[x].hold /\ (fp'[x].cancel = fp[x].cancel \/ k.cur[x] = c),
         q' = q, pool' = pool, mpool' = mpool, file' = file, io' = io, ro' = ro
  PROVE  PipeInv'
<1> DEFINE M == {c}
<1>1. Closed(M)
  BY UserAlone
<1>2. M \cap MIoqs = {} /\ Callers \cap M = {c} /\ Fqs \cap M = {} /\ VolOp \notin M /\ c \in Callers /\ c \notin MIoqs
  BY Kinds
<1>3. Apart(M)
  BY <1>2 DEF Apart, Others
<1>4. StepOf(M)
  <2>1. FilesKept(M) /\ HoldKept(M) /\ Joined(M) /\ PoolKept(M)
    BY <1>2 DEF FilesKept, HoldKept, Joined, PoolKept, Sated
  <2> QED
    BY <1>1, <1>3, <2>1 DEF StepOf
<1>5. TypeInv'
  BY DEF PipeInv, TypeInv, FileInv
<1>6. CallerInv(c)'
  <2>1. CallerInv(c)
    BY <1>2 DEF PipeInv
  <2>2. Answered(c)' /\ Told(c)'
    BY DEF Answered, Told
  <2> QED
    BY <1>2, <2>1, <2>2 DEF CallerInv
<1> QED
  BY <1>2, <1>4, <1>5, <1>6, PipeKept

(* The kernel as a caller leaves it that lets its mutex go.                *)
LEMMA AloneLeaves ==
  ASSUME PipeInv, NEW c \in Users, NEW f, Runs(c, f), NEW m \in Mutexes, Due(k, c, {m}, f),
         k' = Tell(FreeMutex(D, m, c), c)
  PROVE  KernelInv(k') /\ Others(k, k', c) /\ Due(k', c, {}, "user")
<1>1. c \in Ioqs /\ KernelInv(k)
  BY Kinds DEF PipeInv
<1>2. KernelInv(D) /\ Still(D, c, {m}) /\ Others(k, D, c)
  BY <1>1, TakenOff
<1>3. KernelInv(k') /\ Beside(k, k', {c, c}) /\ Due(k', c, {}, "user")
  BY <1>1, <1>2, LetGoAndTell
<1> QED
  BY <1>3 DEF Beside, Others

(* lseek_q.                                                                *)
LEMMA LseekQSafe ==
  ASSUME PipeInv, NEW c \in Users, LseekQ(c)
  PROVE  PipeInv'
<1>0. PICK fd : fd = req[c].fd
  OBVIOUS
<1>1. Runs(c, "lseek_q") /\ k' = Tell(FreeMutex(D, fd, c), c)
      /\ q' = q /\ pool' = pool /\ mpool' = mpool /\ file' = file /\ io' = io /\ ro' = ro
  BY <1>0 DEF LseekQ
<1>2. req[c].op = "lseek" /\ Due(k, c, {fd}, "lseek_q")
  <2>1. UserDoes(c, "lseek_q")
    BY <1>1, UserRuns
  <2> QED
    BY <1>0, <2>1 DEF UserDoes
<1>3. c \in Callers /\ TypeInv /\ req \in [Callers -> QioIOQ] /\ fd \in Fds /\ fd \in Mutexes
  BY <1>0, <1>2, Kinds, Places DEF PipeInv, TypeInv, CallerInv
<1>4. fp[fd].pos \in Nat /\ fp[fd].size \in Nat /\ req[c].where \in Int
  <2>1. fp[fd] \in QioFile /\ req[c] \in QioIOQ
    BY <1>3 DEF TypeInv
  <2> QED
    BY <2>1 DEF QioFile, QioIOQ
<1>5. KernelInv(k') /\ Others(k, k', c) /\ Due(k', c, {}, "user")
  BY <1>1, <1>2, <1>3, AloneLeaves
<1>6. PICK status \in Statuses, cnt \in Nat :
        /\ Answer(req, c, status, cnt)
        /\ fp' = fp \/ fp' = [fp EXCEPT ![fd].pos = cnt]
  <2> DEFINE new == LseekTo(fp[fd], req[c].where, req[c].whence)
             cancelled == fp[fd].cancel \/ fp[fd].closing
             invalid == req[c].whence \in Seekable => InvalidSeek(fp[fd], new)
  <2>1. \/ Answer(req, c, "CANCELLED", 0) /\ fp' = fp
        \/ Answer(req, c, "ERR", IF req[c].whence \in Seekable THEN fp[fd].pos ELSE 0) /\ fp' = fp
        \/ ~invalid /\ Answer(req, c, "SUCC", new % PosWrap) /\ fp' = [fp EXCEPT ![fd].pos = new % PosWrap]
    BY <1>0 DEF LseekQ
  <2>2. ~invalid => new % PosWrap \in Nat
    <3>1. ASSUME ~invalid PROVE new \in Int
      <4>1. req[c].whence \in Seekable
        BY <3>1
      <4> QED
        BY <1>4, <4>1 DEF LseekTo, Seekable
    <3>2. PosWrap \in Nat /\ PosWrap > 0
      BY CopiesAssumption DEF CopiesAssumption
    <3>3. ASSUME NEW n \in Int PROVE n % PosWrap \in Nat
      BY <3>2
    <3> QED
      BY <3>1, <3>3
  <2>3. "CANCELLED" \in Statuses /\ "ERR" \in Statuses /\ "SUCC" \in Statuses /\ 0 \in Nat
    BY DEF Statuses
  <2>4. (IF req[c].whence \in Seekable THEN fp[fd].pos ELSE 0) \in Nat
    BY <1>4
  <2> HIDE DEF new, invalid
  <2> QED
    BY <2>1, <2>2, <2>3, <2>4
<1>7. /\ req' \in [Callers -> QioIOQ] /\ \A b \in Callers \ {c} : req'[b] = req[b]
      /\ req'[c].op = req[c].op /\ req'[c].fd = req[c].fd /\ req'[c].where = req[c].where
  BY <1>3, <1>6, AnswerIs
<1>8. /\ fp' \in [Fds -> QioFile]
      /\ \A x \in Fds : fp'[x].hold = fp[x].hold /\ fp'[x].cancel = fp[x].cancel
  <2>1. fp \in [Fds -> QioFile]
    BY <1>3 DEF TypeInv
  <2>2. CASE fp' = [fp EXCEPT ![fd].pos = cnt]
    BY <1>3, <1>6, <2>1, <2>2, PosSet
  <2> QED
    BY <1>6, <2>1, <2>2
<1> QED
  BY <1>1, <1>2, <1>5, <1>7, <1>8, AloneAnswered

(* An answer that sets the status only.                                    *)
LEMMA SuccIs ==
  ASSUME req \in [Callers -> QioIOQ], NEW a \in Callers, req' = [req EXCEPT ![a].status = "SUCC"]
  PROVE  /\ req' \in [Callers -> QioIOQ] /\ \A b \in Callers \ {a} : req'[b] = req[b]
         /\ req'[a].op = req[a].op /\ req'[a].fd = req[a].fd /\ req'[a].where = req[a].where
         /\ req'[a].for = req[a].for /\ req'[a].state = req[a].state /\ req'[a].fq = req[a].fq
<1>1. PICK status \in Statuses : status = "SUCC"
  BY DEF Statuses
<1>2. PICK g \in QioIOQ : g = req[a]
  OBVIOUS
<1>3. PICK s : s = [g EXCEPT !.status = status]
  OBVIOUS
<1>4. s \in QioIOQ
  BY <1>3 DEF QioIOQ
<1>5. /\ s.op = g.op /\ s.fd = g.fd /\ s.where = g.where /\ s.for = g.for /\ s.state = g.state /\ s.fq = g.fq
  BY <1>3 DEF QioIOQ
<1>6. req' = [req EXCEPT ![a] = s]
  BY <1>1, <1>2, <1>3
<1> QED
  BY <1>2, <1>4, <1>5, <1>6

(* The flags of a descriptor.                                              *)
LEMMA CancelSet ==
  ASSUME fp \in [Fds -> QioFile], NEW fd \in Fds, NEW b \in BOOLEAN, fp' = [fp EXCEPT ![fd].cancel = b]
  PROVE  /\ fp' \in [Fds -> QioFile]
         /\ \A x \in Fds : fp'[x].hold = fp[x].hold /\ (x # fd => fp'[x].cancel = fp[x].cancel)
<1>1. PICK g \in QioFile : g = fp[fd]
  OBVIOUS
<1>2. PICK s : s = [g EXCEPT !.cancel = b]
  OBVIOUS
<1>3. s \in QioFile /\ s.hold = g.hold
  BY <1>2 DEF QioFile
<1>4. fp' = [fp EXCEPT ![fd] = s]
  BY <1>1, <1>2
<1> QED
  BY <1>1, <1>3, <1>4

(* cancel_done for a caller.                                               *)
LEMMA CancelDoneUser ==
  ASSUME PipeInv, NEW c \in Users, CancelDone(c)
  PROVE  PipeInv'
<1>0. PICK fd : fd = req[c].fd
  OBVIOUS
<1>1. Runs(c, "cancel_done") /\ k' = Tell(FreeMutex(D, fd, c), c)
      /\ fp' = [fp EXCEPT ![fd].cancel = FALSE] /\ req' = [req EXCEPT ![c].status = "SUCC"]
      /\ q' = q /\ pool' = pool /\ mpool' = mpool /\ file' = file /\ io' = io /\ ro' = ro
  BY <1>0 DEF CancelDone, Tell
<1>2. req[c].op = "cancel" /\ Due(k, c, {fd}, "cancel_done")
  <2>1. UserDoes(c, "cancel_done")
    BY <1>1, UserRuns
  <2> QED
    BY <1>0, <2>1 DEF UserDoes
<1>3. c \in Callers /\ TypeInv /\ req \in [Callers -> QioIOQ] /\ fd \in Fds /\ fd \in Mutexes
  BY <1>0, <1>2, Kinds, Places DEF PipeInv, TypeInv, CallerInv
<1>4. KernelInv(k') /\ Others(k, k', c) /\ Due(k', c, {}, "user")
  BY <1>1, <1>2, <1>3, AloneLeaves
<1>5. /\ req' \in [Callers -> QioIOQ] /\ \A b \in Callers \ {c} : req'[b] = req[b]
      /\ req'[c].op = req[c].op /\ req'[c].fd = req[c].fd /\ req'[c].where = req[c].where
  BY <1>1, <1>3, SuccIs
<1>6. /\ fp' \in [Fds -> QioFile]
      /\ \A x \in Fds : fp'[x].hold = fp[x].hold /\ (x # fd => fp'[x].cancel = fp[x].cancel)
  <2>1. fp \in [Fds -> QioFile] /\ FALSE \in BOOLEAN
    BY <1>3 DEF TypeInv
  <2> QED
    BY <1>1, <1>3, <2>1, CancelSet
<1>7. k.cur[fd] = c
  BY <1>2, <1>3 DEF Due, Held
<1> QED
  BY <1>1, <1>2, <1>4, <1>5, <1>6, <1>7, AloneAnswered

(* fsys_close_upd.                                                         *)
LEMMA CloseUpdSafe ==
  ASSUME PipeInv, NEW c \in Users, CloseUpd(c)
  PROVE  PipeInv'
<1>0. PICK fd : fd = req[c].fd
  OBVIOUS
<1>1. Runs(c, "close_upd") /\ k' = Tell(FreeMutex(D, "vol", c), c)
      /\ fp' = [fp EXCEPT ![fd].open = FALSE] /\ req' = [req EXCEPT ![c].status = "SUCC"]
      /\ q' = q /\ pool' = pool /\ mpool' = mpool /\ file' = file /\ io' = io /\ ro' = ro
  BY <1>0 DEF CloseUpd
<1>2. req[c].op = "close" /\ Due(k, c, {"vol"}, "close_upd")
  <2>1. UserDoes(c, "close_upd")
    BY <1>1, UserRuns
  <2> QED
    BY <1>0, <2>1 DEF UserDoes
<1>3. c \in Callers /\ TypeInv /\ req \in [Callers -> QioIOQ] /\ fd \in Fds /\ "vol" \in Mutexes
  BY <1>0, <1>2, Kinds, Places DEF PipeInv, TypeInv, CallerInv
<1>4. KernelInv(k') /\ Others(k, k', c) /\ Due(k', c, {}, "user")
  BY <1>1, <1>2, <1>3, AloneLeaves
<1>5. /\ req' \in [Callers -> QioIOQ] /\ \A b \in Callers \ {c} : req'[b] = req[b]
      /\ req'[c].op = req[c].op /\ req'[c].fd = req[c].fd /\ req'[c].where = req[c].where
  BY <1>1, <1>3, SuccIs
<1>6. /\ fp' \in [Fds -> QioFile]
      /\ \A x \in Fds : fp'[x].hold = fp[x].hold /\ fp'[x].cancel = fp[x].cancel
  <2>1. PICK g \in QioFile : g = fp[fd]
    BY <1>3 DEF TypeInv
  <2>2. PICK s : s = [g EXCEPT !.open = FALSE]
    OBVIOUS
  <2>3. s \in QioFile /\ s.hold = g.hold /\ s.cancel = g.cancel
    BY <2>2 DEF QioFile
  <2>4. fp' = [fp EXCEPT ![fd] = s]
    BY <1>1, <2>1, <2>2
  <2> QED
    BY <1>3, <2>1, <2>3, <2>4 DEF TypeInv
<1> QED
  BY <1>1, <1>2, <1>4, <1>5, <1>6, AloneAnswered

(* The caller's completion routine has run.                                *)
LEMMA UserDoneSafe ==
  ASSUME PipeInv, NEW c \in Users, UserDone(c)
  PROVE  PipeInv'
<1> DEFINE M == {c}
<1>1. /\ Runs(c, "user") /\ req' = [req EXCEPT ![c] = NoRequest] /\ k' = D
      /\ q' = q /\ pool' = pool /\ mpool' = mpool /\ fp' = fp /\ file' = file /\ io' = io /\ ro' = ro
  BY DEF UserDone
<1>2. M \cap MIoqs = {} /\ Callers \cap M = {c} /\ Fqs \cap M = {} /\ VolOp \notin M /\ c \in Callers /\ c \notin MIoqs
  BY Kinds
<1>3. Closed(M)
  BY <1>1, UserAlone
<1>4. Due(k, c, {}, "user")
  <2>1. UserDoes(c, "user")
    BY <1>1, UserRuns
  <2> QED
    BY <2>1 DEF UserDoes, Answered
<1>5. KernelInv(k') /\ Still(k', c, {}) /\ Others(k, k', c)
  BY <1>1, <1>4, TakenOff DEF PipeInv
<1>6. /\ req' \in [Callers -> QioIOQ] /\ req'[c] = NoRequest /\ \A b \in Callers \ {c} : req'[b] = req[b]
  BY <1>1, <1>2, NoRequestType DEF PipeInv, TypeInv
<1>7. Apart(M)
  BY <1>1, <1>2, <1>5, <1>6 DEF Apart, Others
<1>8. StepOf(M)
  BY <1>1, <1>2, <1>3, <1>7, FilesSame DEF StepOf
<1>9. TypeInv'
  BY <1>1, <1>6 DEF PipeInv, TypeInv, FileInv
<1>10. CallerInv(c)'
  BY <1>2, <1>5, <1>6 DEF CallerInv, Quiet, Told, NoRequest
<1> QED
  BY <1>2, <1>5, <1>8, <1>9, <1>10, PipeKept

(* The parts of a close.                                                   *)
CloseStep(c, j, fd) ==
  /\ c \in Users /\ j \in MIoqs /\ c \in Ioqs /\ j \in Ioqs /\ c # j /\ c \in Callers /\ j \in Callers /\ c \notin MIoqs
  /\ j \notin Users /\ fd \in Fds /\ fd \in Mutexes /\ Closed({c, j})
  /\ Callers \cap {c, j} = {c, j} /\ MIoqs \cap {c, j} = {j} /\ Fqs \cap {c, j} = {} /\ VolOp \notin {c, j}
  /\ req[c].op = "close" /\ req[c].fq = Nobody /\ Still(k, c, {}) /\ req[c].fd = fd
  /\ req[j].op = "closer" /\ req[j].fq = Nobody /\ req[j].state = 0 /\ req[j].for = c /\ req[j].fd = fd
  /\ \A l \in MIoqs \ mpool : req[l].for = c => l = j
  /\ CallerInv(c) /\ CallerInv(j) /\ TypeInv /\ KernelInv(k)

(* The two QioIOQs of a close.                                             *)
LEMMA CloseStepIs ==
  ASSUME PipeInv, NEW j \in MIoqs, j \notin mpool, CloserInv(j)
  PROVE  CloseStep(req[j].for, j, req[j].fd)
<1>0. PICK c, fd : c = req[j].for /\ fd = req[j].fd
  OBVIOUS
<1>1. c \in Users /\ Still(k, c, {}) /\ req[c].fd = fd /\ fd \in Fds /\ ServiceInv(j)
  BY <1>0, ServedRests
<1>2. Closed({c, j}) /\ Closing(c)
  BY <1>0, ClosedClose DEF CloserInv
<1>3. /\ c \in Ioqs /\ j \in Ioqs /\ c # j /\ c \in Callers /\ j \in Callers /\ c \notin MIoqs /\ j \notin Users
      /\ Callers \cap {c, j} = {c, j} /\ MIoqs \cap {c, j} = {j} /\ Fqs \cap {c, j} = {} /\ VolOp \notin {c, j}
      /\ fd \in Mutexes
  BY <1>1, Kinds, Places
<1>4. CallerInv(c) /\ CallerInv(j) /\ TypeInv /\ KernelInv(k)
  BY <1>3 DEF PipeInv
<1>5. req[j].op = "closer" /\ req[j].fq = Nobody /\ req[j].state = 0
  BY DEF CloserInv
<1>6. \A l \in MIoqs \ mpool : req[l].for = c => l = j
  BY <1>0, <1>1 DEF ServiceInv
<1> QED
  BY <1>0, <1>1, <1>2, <1>3, <1>4, <1>5, <1>6 DEF CloseStep, Closing

(* cancel_done for the helper of a close.                                  *)
LEMMA CancelDoneCloser ==
  ASSUME PipeInv, NEW j \in MIoqs, CancelDone(j)
  PROVE  PipeInv'
<1>0. PICK fd, c : fd = req[j].fd /\ c = req[j].for
  OBVIOUS
<1> DEFINE M == {c, j}
<1>1. j \notin Users
  BY Kinds
<1>2. Runs(j, "cancel_done") /\ k' = Complete(FreeMutex(D, fd, j), j, "closeq")
      /\ fp' = [fp EXCEPT ![fd].cancel = FALSE] /\ req' = [req EXCEPT ![j].status = "SUCC"]
      /\ q' = q /\ pool' = pool /\ mpool' = mpool /\ file' = file /\ io' = io /\ ro' = ro
  BY <1>0, <1>1 DEF CancelDone
<1>3. j \notin mpool /\ CloserInv(j) /\ Due(k, j, {fd}, "cancel_done")
  <2>1. Helps(j, "cancel_done")
    BY <1>2, HelperRuns
  <2> QED
    BY <1>0, <2>1 DEF Helps
<1>4. CloseStep(c, j, fd)
  BY <1>0, <1>3, CloseStepIs
<1>5. /\ c \in Users /\ c \in Ioqs /\ j \in Ioqs /\ c # j /\ c \in Callers /\ j \in Callers /\ c \notin MIoqs
      /\ fd \in Fds /\ fd \in Mutexes /\ Closed(M)
      /\ Callers \cap M = {c, j} /\ MIoqs \cap M = {j} /\ Fqs \cap M = {} /\ VolOp \notin M
      /\ req[c].op = "close" /\ req[c].fq = Nobody /\ Still(k, c, {}) /\ req[c].fd = fd
      /\ req[j].op = "closer" /\ req[j].fq = Nobody /\ req[j].state = 0
      /\ \A l \in MIoqs \ mpool : req[l].for = c => l = j
      /\ CallerInv(c) /\ CallerInv(j) /\ TypeInv /\ KernelInv(k)
  BY <1>4 DEF CloseStep
<1>6. /\ req' \in [Callers -> QioIOQ] /\ \A b \in Callers \ {j} : req'[b] = req[b]
      /\ req'[j].op = req[j].op /\ req'[j].fd = fd /\ req'[j].where = req[j].where
      /\ req'[j].for = c /\ req'[j].state = 0 /\ req'[j].fq = Nobody
  <2>1. req \in [Callers -> QioIOQ]
    BY <1>5 DEF TypeInv
  <2> QED
    BY <1>0, <1>2, <1>5, <2>1, SuccIs
<1>7. /\ fp' \in [Fds -> QioFile]
      /\ \A x \in Fds : fp'[x].hold = fp[x].hold /\ (x # fd => fp'[x].cancel = fp[x].cancel)
  <2>1. fp \in [Fds -> QioFile] /\ FALSE \in BOOLEAN
    BY <1>5 DEF TypeInv
  <2> QED
    BY <1>2, <1>5, <2>1, CancelSet
<1>8. KernelInv(k') /\ Beside(k, k', {j}) /\ Due(k', j, {}, "closeq") /\ Still(k', c, {})
  <2>1. KernelInv(D) /\ Still(D, j, {fd}) /\ Others(k, D, j)
    BY <1>2, <1>3, <1>5, TakenOff
  <2>2. PICK ka : ka = FreeMutex(D, fd, j)
    OBVIOUS
  <2>3. KernelInv(ka) /\ Still(ka, j, {}) /\ Others(D, ka, j)
    BY <1>5, <2>1, <2>2, LetGo
  <2>4. "closeq" \in Actions
    BY DEF Actions
  <2>5. KernelInv(k') /\ Due(k', j, {}, "closeq") /\ Others(ka, k', j)
    BY <1>2, <1>5, <2>2, <2>3, <2>4, CompleteIs
  <2>6. Others(k, k', j)
    BY <2>1, <2>3, <2>5, OthersAgain
  <2> QED
    BY <1>5, <2>5, <2>6 DEF Others, Beside, Undisturbed
<1>9. k.cur[fd] = j
  BY <1>3, <1>5 DEF Due, Held
<1>10. StepOf(M)
  <2>1. Apart(M)
    BY <1>2, <1>5, <1>6, <1>8 DEF Apart, Beside
  <2>2. FilesKept(M)
    BY <1>5, <1>7, <1>9 DEF FilesKept
  <2>3. PoolKept(M)
    BY <1>2 DEF PoolKept, Sated
  <2>4. Joined(M)
    BY <1>5, <1>6 DEF Joined
  <2>5. HoldKept(M)
    BY <1>5, <1>7 DEF HoldKept
  <2> QED
    BY <1>5, <2>1, <2>2, <2>3, <2>4, <2>5 DEF StepOf
<1>11. TypeInv'
  BY <1>2, <1>5, <1>6, <1>7 DEF TypeInv, FileInv
<1>12. CallerInv(j)'
  <2>1. Closing(c)' /\ req'[c].fd = fd
    BY <1>5, <1>6, <1>8 DEF Closing
  <2>2. CloserInv(j)'
    BY <1>5, <1>6, <1>8, <2>1 DEF CloserInv
  <2>3. \A l \in MIoqs \ mpool' : req'[l].for = c => l = j
    BY <1>2, <1>5, <1>6, Kinds
  <2>4. ServiceInv(j)'
    BY <1>2, <1>3, <1>5, <1>6, <2>1, <2>2, <2>3 DEF ServiceInv
  <2> QED
    BY <1>1, <1>5, <1>6, <2>4 DEF CallerInv
<1>13. CallerInv(c)'
  <2>1. Waits(c)'
    BY <1>2, <1>3, <1>6 DEF Waits
  <2>2. req'[c] = req[c]
    BY <1>5, <1>6
  <2> QED
    BY <1>5, <2>1, <2>2 DEF CallerInv, Told
<1> QED
  BY <1>5, <1>8, <1>10, <1>11, <1>12, <1>13, PipeKept

(* closeq: the helper is free; the caller waits for the volume, or for     *)
(* ever.                                                                   *)
LEMMA CloseqSafe ==
  ASSUME PipeInv, NEW j \in MIoqs, Closeq(j)
  PROVE  PipeInv'
<1>0. PICK fd, c : fd = req[j].fd /\ c = req[j].for
  OBVIOUS
<1> DEFINE M == {c, j}
<1>2. Runs(j, "closeq") /\ k' = (IF ro THEN D ELSE GetMutex(D, "vol", c, "close_upd"))
      /\ mpool' = mpool \cup {j} /\ req' = [req EXCEPT ![j] = NoRequest]
      /\ q' = q /\ pool' = pool /\ fp' = fp /\ file' = file /\ io' = io /\ ro' = ro
  BY <1>0 DEF Closeq
<1>3. j \notin mpool /\ CloserInv(j) /\ Due(k, j, {}, "closeq")
  <2>1. Helps(j, "closeq")
    BY <1>2, HelperRuns
  <2> QED
    BY <1>0, <2>1 DEF Helps
<1>4. CloseStep(c, j, fd)
  BY <1>0, <1>3, CloseStepIs
<1>5. /\ c \in Users /\ c \in Ioqs /\ j \in Ioqs /\ c # j /\ c \in Callers /\ j \in Callers /\ c \notin MIoqs
      /\ j \notin Users /\ fd \in Fds /\ Closed(M)
      /\ Callers \cap M = {c, j} /\ MIoqs \cap M = {j} /\ Fqs \cap M = {} /\ VolOp \notin M
      /\ req[c].op = "close" /\ req[c].fq = Nobody /\ Still(k, c, {}) /\ req[c].fd = fd
      /\ req[j].op = "closer" /\ req[j].fq = Nobody /\ req[j].state = 0 /\ req[j].for = c
      /\ CallerInv(c) /\ TypeInv /\ KernelInv(k)
  BY <1>4 DEF CloseStep
<1>6. /\ req' \in [Callers -> QioIOQ] /\ \A b \in Callers \ {j} : req'[b] = req[b]
      /\ req'[j] = NoRequest /\ req'[c] = req[c]
  BY <1>2, <1>5, NoRequestType DEF TypeInv
<1>7. KernelInv(D) /\ Still(D, j, {}) /\ Others(k, D, j) /\ Still(D, c, {})
  <2>1. KernelInv(D) /\ Still(D, j, {}) /\ Others(k, D, j)
    BY <1>2, <1>3, <1>5, TakenOff
  <2> QED
    BY <1>5, <2>1 DEF Others, Undisturbed
<1>8. /\ KernelInv(k') /\ Beside(k, k', M) /\ Still(k', j, {})
      /\ IF ro THEN Still(k', c, {}) ELSE Asks(k', c, {}, "vol", "close_upd")
  <2>1. CASE ro
    BY <1>2, <1>7, <2>1 DEF Beside, Others
  <2>2. CASE ~ro
    <3>1. "vol" \in Mutexes /\ "close_upd" \in Actions
      BY Places DEF Actions
    <3>2. KernelInv(k') /\ Asks(k', c, {}, "vol", "close_upd") /\ Others(D, k', c)
      BY <1>2, <1>5, <1>7, <2>2, <3>1, GetMutexIs
    <3>3. Still(k', j, {})
      BY <1>5, <1>7, <3>2 DEF Others, Undisturbed
    <3>4. Beside(k, D, M) /\ Beside(D, k', M)
      BY <1>7, <3>2 DEF Beside, Others
    <3> QED
      BY <2>2, <3>2, <3>3, <3>4, BesideAgain
  <2> QED
    BY <2>1, <2>2
<1>9. StepOf(M)
  <2>1. Apart(M)
    BY <1>2, <1>5, <1>6, <1>8 DEF Apart, Beside
  <2>2. FilesKept(M) /\ HoldKept(M)
    BY <1>2, <1>5 DEF FilesKept, HoldKept
  <2>3. PoolKept(M) /\ Joined(M)
    BY <1>2, <1>5 DEF PoolKept, Sated, Joined
  <2> QED
    BY <1>5, <2>1, <2>2, <2>3 DEF StepOf
<1>10. TypeInv'
  BY <1>2, <1>5, <1>6 DEF TypeInv, FileInv
<1>11. CallerInv(j)'
  <2>1. ServiceInv(j)'
    BY <1>2, <1>6, <1>8 DEF ServiceInv
  <2> QED
    BY <1>5, <1>6, <2>1 DEF CallerInv, NoRequest
<1>12. CallerInv(c)'
  <2>1. CASE ro
    <3>1. Forgotten(c)'
      BY <1>2, <1>5, <1>6, <1>8, <2>1 DEF Forgotten, Closing
    <3> QED
      BY <1>5, <1>6, <3>1 DEF CallerInv, Told
  <2>2. CASE ~ro
    <3>1. InTurn(c)'
      BY <1>5, <1>6, <1>8, <2>2 DEF InTurn
    <3> QED
      BY <1>5, <1>6, <3>1 DEF CallerInv, Told
  <2> QED
    BY <2>1, <2>2
<1> QED
  BY <1>5, <1>8, <1>9, <1>10, <1>11, <1>12, PipeKept

-----------------------------------------------------------------------------
(* An operation on the volume.                                             *)

(* It shares nothing with a request but the mutex of the volume.           *)
LEMMA VolOpMoves ==
  ASSUME PipeInv, KernelInv(k'), Others(k, k', VolOp), VolOpInv',
         req' = req, q' = q, pool' = pool, mpool' = mpool, fp' = fp, file' = file, io' = io, ro' = ro
  PROVE  PipeInv'
<1> DEFINE M == {VolOp}
<1>1. Closed({}) /\ {VolOp} \in SUBSET (In(pool) \cup mpool \cup {VolOp}) /\ {VolOp} \subseteq Ioqs
  BY Kinds DEF Closed
<1>2. Closed({} \cup {VolOp})
  BY <1>1, ClosedMore
<1>3. {} \cup {VolOp} = M
  OBVIOUS
<1>4. Callers \cap M = {} /\ MIoqs \cap M = {} /\ Fqs \cap M = {}
  BY Kinds
<1>5. Apart(M)
  BY DEF Apart, Others
<1>6. StepOf(M)
  BY <1>2, <1>3, <1>4, <1>5, FilesSame DEF StepOf
<1>7. TypeInv'
  BY DEF PipeInv, TypeInv, FileInv
<1> QED
  BY <1>4, <1>6, <1>7, PipeKept

(* It begins, runs and ends.                                               *)
LEMMA VolOpSafe ==
  ASSUME PipeInv, VolOpCalled \/ VolOpRuns \/ VolOpEnds
  PROVE  PipeInv'
<1>1. VolOp \in Ioqs /\ KernelInv(k) /\ "vol" \in Mutexes /\ VolOpInv /\ "vol_op" \in Actions
  BY Kinds, Places DEF PipeInv, Actions
<1>2. {} \cup {"vol"} = {"vol"}
  OBVIOUS
<1>3. CASE VolOpCalled
  <2>1. Still(k, VolOp, {})
    BY <1>1, <1>3 DEF VolOpInv, VolOpCalled, Asks, Due, Still, Held, Queued
  <2>2. k' = GetMutex(k, "vol", VolOp, "vol_op")
    BY <1>3 DEF VolOpCalled
  <2>3. KernelInv(k') /\ Asks(k', VolOp, {}, "vol", "vol_op") /\ Others(k, k', VolOp)
    BY <1>1, <2>1, <2>2, GetMutexIs
  <2>4. VolOpInv'
    BY <2>3 DEF VolOpInv
  <2> QED
    BY <1>3, <2>3, <2>4, VolOpMoves DEF VolOpCalled
<1>4. CASE VolOpRuns
  <2>1. Runs(VolOp, "vol_op") /\ k' = D
    BY <1>4 DEF VolOpRuns
  <2>2. VolOp \in In(k.ast) /\ \A S : ~Still(k, VolOp, S)
    BY <1>1, <2>1, HeadRuns, RunsIs
  <2>3. Due(k, VolOp, {"vol"}, "vol_op")
    <3>1. Asks(k, VolOp, {}, "vol", "vol_op")
      BY <1>1, <2>2 DEF VolOpInv
    <3> QED
      BY <1>1, <1>2, <2>2, <3>1, AsksRuns
  <2>4. KernelInv(k') /\ Still(k', VolOp, {"vol"}) /\ Others(k, k', VolOp)
    BY <1>1, <2>1, <2>3, TakenOff
  <2>5. VolOpInv'
    BY <2>4 DEF VolOpInv
  <2> QED
    BY <1>4, <2>4, <2>5, VolOpMoves DEF VolOpRuns
<1>5. CASE VolOpEnds
  <2>1. Still(k, VolOp, {"vol"})
    BY <1>1, <1>5 DEF VolOpInv, VolOpEnds, Asks, Due, Still, Held, Queued
  <2>2. PICK ka : ka = FreeMutex(k, "vol", VolOp)
    OBVIOUS
  <2>3. KernelInv(ka) /\ Still(ka, VolOp, {}) /\ Others(k, ka, VolOp)
    BY <1>1, <2>1, <2>2, LetGo
  <2>4. k' = ka
    BY <1>5, <2>2 DEF VolOpEnds
  <2>5. VolOpInv'
    BY <2>3, <2>4 DEF VolOpInv
  <2> QED
    BY <1>5, <2>3, <2>4, <2>5, VolOpMoves DEF VolOpEnds
<1> QED
  BY <1>3, <1>4, <1>5

-----------------------------------------------------------------------------
(* The calls.                                                              *)

(* Where a caller is that makes a call.                                    *)
Called(c) == c \in Users /\ k.ast = <<>> /\ Quiet(c) /\ ~Waits(c) /\ Closed({c})

(* A caller that makes a call has nothing left of the last one.            *)
LEMMA CalledIs ==
  ASSUME PipeInv, NEW c \in Users, NEW x \in Calls, CanCall(c, x)
  PROVE  Called(c)
<1>1. k.ast = <<>> /\ req[c].op = "none" /\ c \in Callers /\ c \notin MIoqs /\ CallerInv(c)
  BY Kinds DEF CanCall, Idle, PipeInv
<1>2. \A i \in Fqs \ In(pool) : ~Owns(c, i)
  BY <1>1, OwnerIs DEF Owns, Owned
<1>3. ~Waits(c)
  BY <1>1, <1>2, WaitsIs DEF Owns
<1>4. Quiet(c)
  <2>1. ~Transfers(c)
    BY <1>1, <1>2 DEF Transfers, Owns
  <2> QED
    BY <1>1, <1>3, <2>1 DEF CallerInv, Answered, InTurn, Forgotten, Closing
<1> QED
  BY <1>1, <1>2, <1>3, <1>4, ClosedOne DEF Called

(* When nothing is on the AST queue no filler is about to copy.            *)
LEMMA NoneSated ==
  ASSUME k.ast = <<>>, NEW M
  PROVE  PoolKept(M)
<1>1. In(k.ast) = {}
  BY DEF In
<1> QED
  BY <1>1 DEF PoolKept, Sated, Due

(* The QioIOQ of a call.                                                   *)
LEMMA RequestIs ==
  ASSUME NEW x \in Calls, NEW fq \in Fqs \cup {Nobody}
  PROVE  LET r == Request(x, fq)
         IN  /\ r \in QioIOQ /\ r.op = x.op /\ r.fd = x.fd /\ r.where = x.where /\ r.len = x.len /\ r.fq = fq
             /\ r.cnt = 0 /\ r.status = "none" /\ r.fd \in Fds /\ r.len \in Nat
             /\ (r.op # "lseek" => r.where >= 0)
<1>1. x.fd \in Fds /\ x.len \in Nat /\ x.where \in Int /\ (x.op # "lseek" => x.where >= 0)
  BY CallsAssumption DEF CallsAssumption
<1>2. x.op \in Ops /\ x.whence \in Whences
  BY DEF Ops, Whences
<1>3. PICK n \in QioIOQ : n = NoRequest /\ n.cnt = 0 /\ n.status = "none"
  BY NoRequestType DEF NoRequest
<1> DEFINE a == [n EXCEPT !.op = x.op, !.fd = x.fd, !.where = x.where]
           b == [a EXCEPT !.from = x.where, !.len = x.len]
           d == [b EXCEPT !.fq = fq, !.whence = x.whence]
<1>4. a \in QioIOQ /\ a.op = x.op /\ a.fd = x.fd /\ a.where = x.where /\ a.cnt = 0 /\ a.status = "none"
  BY <1>1, <1>2, <1>3 DEF QioIOQ
<1>5. Request(x, fq) = d
  <2>1. Request(x, fq) = [n EXCEPT !.op = x.op, !.fd = x.fd, !.where = x.where, !.from = x.where, !.len = x.len,
                                   !.fq = fq, !.whence = x.whence]
    BY <1>3 DEF Request
  <2> QED
    BY <2>1, Zenon
<1> HIDE DEF a
<1>6. /\ b \in QioIOQ /\ b.op = x.op /\ b.fd = x.fd /\ b.where = x.where /\ b.len = x.len /\ b.cnt = 0
      /\ b.status = "none"
  BY <1>1, <1>4 DEF QioIOQ
<1> HIDE DEF b
<1>7. /\ d \in QioIOQ /\ d.op = x.op /\ d.fd = x.fd /\ d.where = x.where /\ d.len = x.len /\ d.cnt = 0
      /\ d.status = "none" /\ d.fq = fq
  BY <1>2, <1>6 DEF QioIOQ
<1> HIDE DEF d
<1> QED
  BY <1>1, <1>5, <1>7

(* A request that needs no FsysQio waits for its turn.                     *)
LEMMA TurnSafe ==
  ASSUME PipeInv, NEW c, Called(c), NEW x \in Calls, x.op \in {"lseek", "cancel"},
         NEW f \in {"lseek_q", "cancel_done"}, x.op = "lseek" <=> f = "lseek_q",
         req' = [req EXCEPT ![c] = Request(x, Nobody)], k' = GetMutex(k, x.fd, c, f),
         fp' \in [Fds -> QioFile], \A y \in Fds : fp'[y].hold = fp[y].hold,
         q' = q, pool' = pool, mpool' = mpool, file' = file, io' = io, ro' = ro
  PROVE  PipeInv'
<1> DEFINE M == {c}
<1>1. /\ c \in Users /\ k.ast = <<>> /\ Quiet(c) /\ Closed(M) /\ c \in Ioqs /\ c \in Callers /\ c \notin MIoqs
      /\ Callers \cap M = {c} /\ MIoqs \cap M = {} /\ Fqs \cap M = {} /\ VolOp \notin M /\ TypeInv /\ KernelInv(k)
  BY Kinds DEF Called, PipeInv
<1>2. x.fd \in Fds /\ x.fd \in Mutexes /\ f \in Actions /\ Nobody \in Fqs \cup {Nobody}
  BY Places, CallsAssumption DEF CallsAssumption, Actions
<1>3. /\ req' \in [Callers -> QioIOQ] /\ (\A b \in Callers \ {c} : req'[b] = req[b]) /\ req'[c].op = x.op
      /\ req'[c].fd = x.fd /\ (x.op # "lseek" => req'[c].where >= 0) /\ req'[c].fq = Nobody
  <2>1. PICK r : r = Request(x, Nobody)
    OBVIOUS
  <2>2. /\ r \in QioIOQ /\ r.op = x.op /\ r.fd = x.fd /\ r.fq = Nobody /\ (r.op # "lseek" => r.where >= 0)
    BY <1>2, <2>1, RequestIs
  <2> QED
    BY <1>1, <2>1, <2>2 DEF TypeInv
<1>4. KernelInv(k') /\ Asks(k', c, {}, x.fd, f) /\ Others(k, k', c)
  BY <1>1, <1>2, GetMutexIs DEF Quiet
<1>5. StepOf(M)
  <2>1. Apart(M)
    BY <1>1, <1>3, <1>4 DEF Apart, Others
  <2>2. FilesKept(M) /\ HoldKept(M) /\ Joined(M) /\ PoolKept(M)
    BY <1>1, NoneSated DEF FilesKept, HoldKept, Joined
  <2> QED
    BY <1>1, <2>1, <2>2 DEF StepOf
<1>6. TypeInv'
  BY <1>1, <1>3 DEF TypeInv, FileInv
<1>7. CallerInv(c)'
  <2>1. InTurn(c)' /\ Told(c)'
    BY <1>3, <1>4 DEF InTurn, Told
  <2> QED
    BY <1>1, <1>2, <1>3, <2>1 DEF CallerInv
<1> QED
  BY <1>1, <1>4, <1>5, <1>6, <1>7, PipeKept

(* A request that has taken a FsysQio.                                     *)
LEMMA TransferSafe ==
  ASSUME PipeInv, NEW c, Called(c), NEW x \in Calls, x.op \in {"read", "readwpos", "write", "writewpos"},
         pool # <<>>, NEW i, i = Head(pool), NEW r, r \in FsysQio, r.caller = c, r.fd = x.fd, r.oLen = x.len,
         Amounts(r), q' = [q EXCEPT ![i] = r], pool' = Tail(pool),
         req' = [req EXCEPT ![c] = Request(x, i)],
         KernelInv(k'), Beside(k, k', {c, i}),
         \/ /\ r.kind = "read" /\ r.state = 0 /\ r.total = 0 /\ Still(k', i, {})
            /\ Asks(k', c, {}, x.fd, "readwpos_q") \/ Asks(k', c, {}, x.fd, "read_q")
         \/ /\ r.kind = "write" /\ r.state = 0 /\ Still(k', c, {})
            /\ Asks(k', i, {}, x.fd, "qwrite") \/ Asks(k', i, {}, x.fd, "write_q"),
         mpool' = mpool, fp' = fp, file' = file, io' = io, ro' = ro
  PROVE  PipeInv'
<1> DEFINE M == {c, i}
<1>1. /\ i \in Fqs /\ i \in In(pool) /\ pool' \in Seq(Fqs) /\ IsInjective(pool')
      /\ In(pool') = In(pool) \ {i}
  BY TailIs DEF PipeInv, TypeInv
<1>2. /\ c \in Users /\ k.ast = <<>> /\ Closed({c}) /\ c \in Ioqs /\ c \in Callers /\ c \notin MIoqs /\ i \in Ioqs
      /\ c # i /\ Callers \cap M = {c} /\ MIoqs \cap M = {} /\ Fqs \cap M = {i} /\ VolOp \notin M /\ TypeInv
  BY <1>1, Kinds DEF Called, PipeInv
<1>3. Closed(M)
  <2>1. {i} \in SUBSET (In(pool) \cup mpool \cup {VolOp}) /\ {i} \subseteq Ioqs
    BY <1>1, <1>2
  <2>2. Closed({c} \cup {i})
    BY <1>2, <2>1, ClosedMore
  <2>3. {c} \cup {i} = M
    OBVIOUS
  <2> QED
    BY <2>2, <2>3
<1>4. /\ req' \in [Callers -> QioIOQ] /\ (\A b \in Callers \ {c} : req'[b] = req[b]) /\ req'[c].op = x.op
      /\ req'[c].fd = x.fd /\ req'[c].fd \in Fds /\ req'[c].where >= 0 /\ req'[c].fq = i /\ req'[c].len = x.len
      /\ req'[c].cnt = 0 /\ req'[c].status = "none" /\ x.len \in Nat
  <2>1. PICK s : s = Request(x, i)
    OBVIOUS
  <2>2. /\ s \in QioIOQ /\ s.op = x.op /\ s.fd = x.fd /\ s.len = x.len /\ s.fq = i
        /\ s.cnt = 0 /\ s.status = "none" /\ s.fd \in Fds /\ s.len \in Nat
        /\ (s.op # "lseek" => s.where >= 0)
    BY <1>1, <2>1, RequestIs
  <2> QED
    BY <1>2, <2>1, <2>2 DEF TypeInv
<1>5. /\ q' \in [Fqs -> FsysQio] /\ q'[i] = r /\ \A l \in Fqs \ {i} : q'[l] = q[l]
  BY <1>1, <1>2 DEF TypeInv
<1>6. i \notin io /\ i \notin In(pool')
  BY <1>1 DEF PipeInv, QioInv
<1>7. Transfers(c)'
  <2>1. Owns(c, i)'
    BY <1>1, <1>4, <1>5, <1>6 DEF Owns
  <2>2. CASE r.kind = "read"
    <3>1. Spare(i)'
      BY <1>5, <1>6, <2>2 DEF Spare
    <3> QED
      BY <1>4, <2>1, <2>2, <3>1 DEF Transfers
  <2>3. CASE r.kind = "write"
    <3>1. ToWrite(i, x.fd)'
      BY <1>5, <1>6, <2>3 DEF ToWrite
    <3>2. Still(k', c, {})
      BY <2>3
    <3> QED
      BY <1>4, <2>1, <3>1, <3>2 DEF Transfers
  <2> QED
    BY <2>2, <2>3
<1>8. StepOf(M)
  <2>1. Apart(M)
    BY <1>1, <1>2, <1>4, <1>5 DEF Apart, Beside
  <2>2. FilesKept(M) /\ HoldKept(M) /\ Joined(M) /\ PoolKept(M)
    BY <1>2, NoneSated DEF FilesKept, HoldKept, Joined
  <2> QED
    BY <1>3, <2>1, <2>2 DEF StepOf
<1>9. TypeInv'
  BY <1>1, <1>2, <1>4, <1>5 DEF TypeInv, FileInv
<1>10. CallerInv(c)'
  BY <1>2, <1>4, <1>7 DEF CallerInv, Told
<1>11. QioInv(i)'
  <2>1. req'[c].cnt + q'[i].oLen <= req'[c].len
    BY <1>4, <1>5
  <2>2. Owned(i)'
    BY <1>2, <1>4, <1>5, <1>7, <2>1 DEF Owned, Transfers
  <2> QED
    BY <1>6, <2>2 DEF QioInv
<1> QED
  BY <1>2, <1>8, <1>9, <1>10, <1>11, PipeKept

(* Calls that change nothing but the bounds.                               *)
LEMMA NothingSafe ==
  ASSUME PipeInv, k' = k, req' = req, q' = q, pool' = pool, mpool' = mpool, fp' = fp, file' = file, io' = io, ro' = ro
  PROVE  PipeInv'
<1>1. Closed({})
  BY DEF Closed
<1>2. Apart({})
  BY UndisturbedSame DEF Apart
<1>3. StepOf({})
  BY <1>1, <1>2, FilesSame DEF StepOf
<1>4. TypeInv' /\ KernelInv(k)'
  BY DEF PipeInv, TypeInv, FileInv
<1> QED
  BY <1>3, <1>4, PipeKept

(* close: a helper is taken from the pool.                                 *)
LEMMA CloseSafe ==
  ASSUME PipeInv, NEW c, Called(c), NEW x \in Calls, x.op = "close", mpool # {},
         NEW j, j = AnyMIoq, req' = [req EXCEPT ![c] = Request(x, Nobody), ![j] = [Filler(c, x.fd) EXCEPT !.op = "closer"]],
         mpool' = mpool \ {j}, fp' = [fp EXCEPT ![x.fd].closing = TRUE, ![x.fd].cancel = TRUE],
         k' = GetMutex(k, x.fd, j, "cancel_done"),
         q' = q, pool' = pool, file' = file, io' = io, ro' = ro
  PROVE  PipeInv'
<1> DEFINE M == {c, j}
           fd == x.fd
<1>1. /\ c \in Users /\ k.ast = <<>> /\ Quiet(c) /\ Closed({c}) /\ TypeInv /\ KernelInv(k) /\ j \in mpool /\ j \in MIoqs
  BY AnyMIoqIs DEF Called, PipeInv, TypeInv
<1>2. /\ c \in Ioqs /\ c \in Callers /\ c \notin MIoqs /\ j \in Ioqs /\ j \in Callers /\ j \notin Users /\ c # j
      /\ Callers \cap M = {c, j} /\ MIoqs \cap M = {j} /\ Fqs \cap M = {} /\ VolOp \notin M
  BY <1>1, Kinds
<1>3. fd \in Fds /\ fd \in Mutexes /\ "cancel_done" \in Actions
  BY Places, CallsAssumption DEF CallsAssumption, Actions
<1>4. Closed(M)
  <2>1. {j} \in SUBSET (In(pool) \cup mpool \cup {VolOp}) /\ {j} \subseteq Ioqs
    BY <1>1, <1>2
  <2>2. Closed({c} \cup {j})
    BY <1>1, <2>1, ClosedMore
  <2>3. {c} \cup {j} = M
    OBVIOUS
  <2> QED
    BY <2>2, <2>3
<1>5. /\ req' \in [Callers -> QioIOQ] /\ (\A b \in Callers \ {c, j} : req'[b] = req[b])
      /\ req'[c].op = "close" /\ req'[c].fd = fd /\ req'[c].where >= 0 /\ req'[c].fq = Nobody
      /\ req'[j].op = "closer" /\ req'[j].fd = fd /\ req'[j].for = c /\ req'[j].where = 0 /\ req'[j].fq = Nobody
      /\ req'[j].state = 0
  <2>1. PICK s : s = Request(x, Nobody)
    OBVIOUS
  <2>2. /\ s \in QioIOQ /\ s.op = "close" /\ s.fd = fd /\ s.fq = Nobody /\ s.where >= 0
    BY <2>1, RequestIs
  <2>3. PICK g \in QioIOQ : /\ g = Filler(c, fd) /\ g.fd = fd /\ g.for = c /\ g.where = 0 /\ g.fq = Nobody
                            /\ g.state = 0
    BY <1>1, <1>3, FillerIs
  <2>4. PICK o \in Ops : o = "closer"
    BY DEF Ops
  <2>5. PICK t : t = [g EXCEPT !.op = o]
    OBVIOUS
  <2>6. /\ t \in QioIOQ /\ t.op = "closer" /\ t.fd = fd /\ t.for = c /\ t.where = 0 /\ t.fq = Nobody
        /\ t.state = 0
    BY <2>3, <2>4, <2>5 DEF QioIOQ
  <2>7. req' = [req EXCEPT ![c] = s, ![j] = t]
    BY <2>1, <2>3, <2>4, <2>5
  <2>8. req \in [Callers -> QioIOQ]
    BY <1>1 DEF TypeInv
  <2>9. req' \in [Callers -> QioIOQ] /\ req'[c] = s /\ req'[j] = t /\ \A b \in Callers \ {c, j} : req'[b] = req[b]
    BY <1>2, <2>2, <2>6, <2>7, <2>8
  <2> QED
    BY <2>2, <2>6, <2>9
<1>6. fp' \in [Fds -> QioFile] /\ \A y \in Fds : fp'[y].hold = fp[y].hold
  <2>1. PICK g \in QioFile : g = fp[fd]
    BY <1>1, <1>3 DEF TypeInv
  <2>2. PICK s : s = [g EXCEPT !.closing = TRUE, !.cancel = TRUE]
    OBVIOUS
  <2>3. s \in QioFile /\ s.hold = g.hold
    BY <2>2 DEF QioFile
  <2>4. fp' = [fp EXCEPT ![fd] = s]
    BY <1>1, <1>3, <2>1, <2>2 DEF TypeInv
  <2> QED
    BY <1>1, <1>3, <2>1, <2>3, <2>4 DEF TypeInv
<1>7. /\ KernelInv(k') /\ Asks(k', j, {}, fd, "cancel_done") /\ Others(k, k', j) /\ Still(k', c, {})
  <2>1. Still(k, j, {})
    BY <1>1, <1>2 DEF PipeInv, CallerInv, ServiceInv
  <2>2. KernelInv(k') /\ Asks(k', j, {}, fd, "cancel_done") /\ Others(k, k', j)
    BY <1>1, <1>2, <1>3, <2>1, GetMutexIs
  <2> QED
    BY <1>1, <1>2, <2>2 DEF Others, Undisturbed, Quiet
<1>8. StepOf(M)
  <2>1. Apart(M)
    BY <1>1, <1>2, <1>5, <1>7 DEF Apart, Others
  <2>2. FilesKept(M) /\ HoldKept(M) /\ Joined(M) /\ PoolKept(M)
    BY <1>1, <1>2, <1>5, <1>6, NoneSated DEF FilesKept, HoldKept, Joined
  <2> QED
    BY <1>4, <2>1, <2>2 DEF StepOf
<1>9. TypeInv'
  BY <1>1, <1>5, <1>6 DEF TypeInv, FileInv
<1>10. j \notin mpool'
  OBVIOUS
<1>11. CallerInv(j)'
  <2>1. CloserInv(j)'
    BY <1>5, <1>7 DEF CloserInv, Closing
  <2>2. \A l \in MIoqs \ mpool' : req'[l].for = c => l = j
    <3> SUFFICES ASSUME NEW l \in MIoqs \ mpool', req'[l].for = c, l # j PROVE FALSE
      OBVIOUS
    <3>1. l \in MIoqs \ mpool /\ l \in Callers /\ l # c
      BY <1>2, Kinds
    <3>2. req[l].for = c
      BY <1>5, <3>1
    <3> QED
      BY <3>1, <3>2 DEF Called, Waits
  <2>3. ServiceInv(j)'
    BY <1>1, <1>5, <1>10, <2>1, <2>2 DEF ServiceInv
  <2> QED
    BY <1>2, <1>3, <1>5, <2>3 DEF CallerInv
<1>12. CallerInv(c)'
  <2>1. Waits(c)'
    BY <1>1, <1>5, <1>10 DEF Waits
  <2> QED
    BY <1>2, <1>3, <1>5, <2>1 DEF CallerInv, Told
<1> QED
  BY <1>2, <1>7, <1>8, <1>9, <1>11, <1>12, PipeKept

(* readwpos from within a sector: a FsysQio and a helper are taken.        *)
LEMMA PartSafe ==
  ASSUME PipeInv, NEW c, Called(c), NEW x \in Calls, x.op = "readwpos", mpool # {}, pool # <<>>,
         NEW j, j = AnyMIoq, NEW i, i = Head(pool),
         req' = [req EXCEPT ![c] = Request(x, i), ![j] = Filler(c, x.fd)],
         q' = [q EXCEPT ![i] = ReadFq(c, x.fd, x.where, x.len)], pool' = Tail(pool), mpool' = mpool \ {j},
         k' = GetMutex(k, x.fd, j, "readbws_q"),
         fp' = fp, file' = file, io' = io, ro' = ro
  PROVE  PipeInv'
<1> DEFINE M == {c, i, j}
           fd == x.fd
<1>1. /\ c \in Users /\ k.ast = <<>> /\ Quiet(c) /\ ~Waits(c) /\ Closed({c}) /\ TypeInv /\ KernelInv(k)
      /\ j \in mpool /\ j \in MIoqs
  BY AnyMIoqIs DEF Called, PipeInv, TypeInv
<1>2. /\ i \in Fqs /\ i \in In(pool) /\ pool' \in Seq(Fqs) /\ IsInjective(pool') /\ In(pool') = In(pool) \ {i}
  BY <1>1, TailIs DEF TypeInv
<1>3. /\ c \in Ioqs /\ c \in Callers /\ c \notin MIoqs /\ j \in Ioqs /\ j \in Callers /\ j \notin Users /\ c # j
      /\ i \in Ioqs /\ i # c /\ i # j
      /\ Callers \cap M = {c, j} /\ MIoqs \cap M = {j} /\ Fqs \cap M = {i} /\ VolOp \notin M
  BY <1>1, <1>2, Kinds
<1>4. fd \in Fds /\ fd \in Mutexes /\ "readbws_q" \in Actions /\ x.len \in Nat /\ x.where \in Nat
  BY Places, CallsAssumption DEF CallsAssumption, Actions
<1>5. Closed(M)
  <2>1. {i, j} \in SUBSET (In(pool) \cup mpool \cup {VolOp}) /\ {i, j} \subseteq Ioqs
    BY <1>1, <1>2, <1>3
  <2>2. Closed({c} \cup {i, j})
    BY <1>1, <2>1, ClosedMore
  <2>3. {c} \cup {i, j} = M
    OBVIOUS
  <2> QED
    BY <2>2, <2>3
<1>6. /\ req' \in [Callers -> QioIOQ] /\ (\A b \in Callers \ {c, j} : req'[b] = req[b])
      /\ req'[c].op = "readwpos" /\ req'[c].fd = fd /\ req'[c].where >= 0 /\ req'[c].fq = i
      /\ req'[c].len = x.len /\ req'[c].cnt = 0 /\ req'[c].status = "none"
      /\ req'[j].op = "filler" /\ req'[j].fd = fd /\ req'[j].for = c /\ req'[j].where = 0 /\ req'[j].fq = Nobody
      /\ req'[j].state = 0 /\ req'[j].cnt = 0
  <2>1. PICK s : s = Request(x, i)
    OBVIOUS
  <2>2. /\ s \in QioIOQ /\ s.op = "readwpos" /\ s.fd = fd /\ s.fq = i /\ s.where >= 0 /\ s.len = x.len
        /\ s.cnt = 0 /\ s.status = "none"
    BY <1>2, <2>1, RequestIs
  <2>3. PICK t : t = Filler(c, fd)
    OBVIOUS
  <2>4. /\ t \in QioIOQ /\ t.op = "filler" /\ t.fd = fd /\ t.for = c /\ t.where = 0 /\ t.fq = Nobody
        /\ t.state = 0 /\ t.cnt = 0
    BY <1>1, <1>4, <2>3, FillerIs
  <2>5. req' = [req EXCEPT ![c] = s, ![j] = t]
    BY <2>1, <2>3
  <2>6. req \in [Callers -> QioIOQ]
    BY <1>1 DEF TypeInv
  <2>7. req' \in [Callers -> QioIOQ] /\ req'[c] = s /\ req'[j] = t /\ \A b \in Callers \ {c, j} : req'[b] = req[b]
    BY <1>3, <2>2, <2>4, <2>5, <2>6
  <2> QED
    BY <2>2, <2>4, <2>7
<1>7. /\ q' \in [Fqs -> FsysQio] /\ (\A l \in Fqs \ {i} : q'[l] = q[l])
      /\ q'[i].kind = "read" /\ q'[i].caller = c /\ q'[i].fd = fd /\ q'[i].oLen = x.len /\ q'[i].uLen = x.len
      /\ q'[i].total = 0 /\ q'[i].state = 0
  <2>1. PICK r : r = ReadFq(c, fd, x.where, x.len)
    OBVIOUS
  <2>2. /\ r \in FsysQio /\ r.kind = "read" /\ r.caller = c /\ r.fd = fd /\ r.oLen = x.len /\ r.uLen = x.len
        /\ r.total = 0 /\ r.state = 0
    BY <1>3, <1>4, <2>1, ReadFqIs
  <2> QED
    BY <1>1, <1>2, <2>1, <2>2 DEF TypeInv
<1>8. /\ KernelInv(k') /\ Asks(k', j, {}, fd, "readbws_q") /\ Others(k, k', j) /\ Still(k', c, {}) /\ Still(k', i, {})
      /\ i \notin io
  <2>1. Still(k, j, {}) /\ Still(k, i, {}) /\ i \notin io
    BY <1>1, <1>2, <1>3 DEF PipeInv, CallerInv, ServiceInv, QioInv
  <2>2. KernelInv(k') /\ Asks(k', j, {}, fd, "readbws_q") /\ Others(k, k', j)
    BY <1>1, <1>3, <1>4, <2>1, GetMutexIs
  <2> QED
    BY <1>1, <1>3, <2>1, <2>2 DEF Others, Undisturbed, Quiet
<1>9. StepOf(M)
  <2>1. Apart(M)
    BY <1>1, <1>2, <1>3, <1>6, <1>7, <1>8 DEF Apart, Others
  <2>2. FilesKept(M) /\ HoldKept(M) /\ Joined(M) /\ PoolKept(M)
    BY <1>1, <1>3, <1>6, NoneSated DEF FilesKept, HoldKept, Joined
  <2> QED
    BY <1>5, <2>1, <2>2 DEF StepOf
<1>10. TypeInv'
  BY <1>1, <1>2, <1>6, <1>7 DEF TypeInv, FileInv
<1>11. Filled(c)' /\ i \notin In(pool')
  <2>1. i \notin In(pool')
    BY <1>2
  <2>2. Owns(c, i)'
    BY <1>2, <1>6, <1>7, <2>1 DEF Owns
  <2>3. Spare(i)'
    BY <1>7, <1>8 DEF Spare
  <2> QED
    BY <1>6, <1>8, <2>1, <2>2, <2>3 DEF Filled
<1>12. j \notin mpool'
  OBVIOUS
<1>13. CallerInv(j)'
  <2>1. Fills(j)'
    BY <1>6, <1>8 DEF Fills
  <2>2. req'[c].len > 0 => q'[i].oLen > 0
    BY <1>6, <1>7
  <2>3. FillerInv(j)'
    BY <1>6, <1>11, <2>1, <2>2 DEF FillerInv
  <2>4. \A l \in MIoqs \ mpool' : req'[l].for = c => l = j
    <3> SUFFICES ASSUME NEW l \in MIoqs \ mpool', req'[l].for = c, l # j PROVE FALSE
      OBVIOUS
    <3>1. l \in MIoqs \ mpool /\ l \in Callers /\ l # c
      BY <1>3, Kinds
    <3>2. req[l].for = c
      BY <1>6, <3>1
    <3> QED
      BY <1>1, <3>1, <3>2 DEF Waits
  <2>5. ServiceInv(j)'
    BY <1>1, <1>6, <1>12, <2>3, <2>4 DEF ServiceInv
  <2> QED
    BY <1>3, <1>4, <1>6, <2>5 DEF CallerInv
<1>14. CallerInv(c)'
  <2>1. Waits(c)'
    BY <1>1, <1>6, <1>12 DEF Waits
  <2>2. Told(c)'
    BY <1>4, <1>6 DEF Told
  <2> QED
    BY <1>3, <1>4, <1>6, <2>1, <2>2 DEF CallerInv
<1>15. QioInv(i)'
  <2>1. Amounts(q'[i]) /\ req'[c].cnt + q'[i].oLen <= req'[c].len
    <3>1. q'[i].total + q'[i].uLen = q'[i].oLen
      BY <1>4, <1>7
    <3>2. req'[c].cnt + q'[i].oLen <= req'[c].len
      <4>1. PICK n \in Nat : n = x.len
        BY <1>4
      <4>2. req'[c].cnt = 0 /\ q'[i].oLen = n /\ req'[c].len = n
        BY <1>6, <1>7, <4>1
      <4> QED
        BY <4>2
    <3> QED
      BY <1>7, <3>1, <3>2 DEF Amounts
  <2>2. Owns(c, i)'
    BY <1>6, <1>11 DEF Filled
  <2>3. Owned(i)'
    BY ZenonT(60), <1>3, <1>6, <1>7, <1>11, <2>1, <2>2 DEF Owned
  <2> QED
    BY <1>11, <2>3 DEF QioInv
<1> QED
  BY <1>3, <1>8, <1>9, <1>10, <1>13, <1>14, <1>15, PipeKept

(* Every call.                                                             *)
LEMMA CallSafe ==
  ASSUME PipeInv, NEW c \in Users, NEW x \in Calls, Call(c, x)
  PROVE  PipeInv'
<1> DEFINE i == Head(pool)
           j == AnyMIoq
<1>1. Called(c) /\ TypeInv /\ KernelInv(k)
  <2>1. CanCall(c, x)
    BY DEF Call, FsysReadwpos, FsysRead, FsysWritewpos, FsysWrite, FsysLseek, FsysCancel, FsysClose
  <2> QED
    BY <2>1, CalledIs DEF PipeInv
<1>2. /\ c \in Ioqs /\ c \in Callers /\ x.fd \in Fds /\ x.fd \in Mutexes /\ x.len \in Nat
      /\ (x.op # "lseek" => x.where \in Nat) /\ Still(k, c, {}) /\ c \in Users
  BY <1>1, Kinds, Places, CallsAssumption DEF CallsAssumption, Called, Quiet
<1>3. pool # <<>> => i \in Fqs /\ i \in Ioqs /\ i \in In(pool) /\ Still(k, i, {}) /\ i # c
  BY <1>1, TailIs, Kinds DEF TypeInv, PipeInv, QioInv
\* The four kinds of transfers: who asks for the mutex of the descriptor, and to run what.
<1>4. ASSUME x.op \in {"read", "readwpos"}, NEW where \in Nat, NEW f \in {"readwpos_q", "read_q"},
             Submit(c, x, ReadFq(c, x.fd, where, x.len)), k' = GetMutex(k, x.fd, c, f)
      PROVE  PipeInv'
  <2>1. PICK r : r = ReadFq(c, x.fd, where, x.len)
    OBVIOUS
  <2>2. /\ r \in FsysQio /\ r.kind = "read" /\ r.caller = c /\ r.fd = x.fd /\ r.oLen = x.len /\ r.uLen = x.len
        /\ r.total = 0 /\ r.state = 0 /\ Amounts(r)
    <3>1. /\ r \in FsysQio /\ r.kind = "read" /\ r.caller = c /\ r.fd = x.fd /\ r.oLen = x.len /\ r.uLen = x.len
          /\ r.total = 0 /\ r.state = 0
      BY <1>2, <2>1, ReadFqIs
    <3> QED
      BY <1>2, <3>1 DEF Amounts
  <2>3. /\ pool # <<>> /\ q' = [q EXCEPT ![i] = r] /\ pool' = Tail(pool) /\ req' = [req EXCEPT ![c] = Request(x, i)]
        /\ mpool' = mpool /\ fp' = fp /\ file' = file /\ io' = io /\ ro' = ro
    BY <1>4, <2>1 DEF Submit
  <2>4. KernelInv(k') /\ Asks(k', c, {}, x.fd, f) /\ Others(k, k', c)
    <3>1. f \in Actions
      BY DEF Actions
    <3> QED
      BY <1>1, <1>2, <1>4, <3>1, GetMutexIs
  <2>5. PICK l : l = i
    OBVIOUS
  <2>6. l \in Ioqs /\ l # c /\ Still(k, l, {})
    BY <1>3, <2>3, <2>5
  <2>7. Still(k', l, {}) /\ Beside(k, k', {c, l})
    BY <2>4, <2>6 DEF Others, Undisturbed, Beside
  <2>8. Asks(k', c, {}, x.fd, "readwpos_q") \/ Asks(k', c, {}, x.fd, "read_q")
    BY <2>4
  <2>9. x.op \in {"read", "readwpos", "write", "writewpos"}
    BY <1>4
  <2> HIDE DEF i
  <2> QED
    BY <1>1, <2>2, <2>3, <2>4, <2>5, <2>7, <2>8, <2>9, TransferSafe DEF i
<1>5. ASSUME x.op \in {"write", "writewpos"}, NEW where \in Nat, NEW f \in {"qwrite", "write_q"},
             Submit(c, x, WriteFq(c, x, where)), k' = GetMutex(k, x.fd, i, f)
      PROVE  PipeInv'
  <2>1. PICK r : r = WriteFq(c, x, where)
    OBVIOUS
  <2>2. /\ r \in FsysQio /\ r.kind = "write" /\ r.caller = c /\ r.fd = x.fd /\ r.oLen = x.len /\ r.uLen = x.len
        /\ r.total = 0 /\ r.state = 0 /\ Amounts(r)
    <3>1. /\ r \in FsysQio /\ r.kind = "write" /\ r.caller = c /\ r.fd = x.fd /\ r.oLen = x.len /\ r.uLen = x.len
          /\ r.total = 0 /\ r.state = 0
      BY <1>2, <2>1, WriteFqIs
    <3> QED
      BY <1>2, <3>1 DEF Amounts
  <2>3. /\ pool # <<>> /\ q' = [q EXCEPT ![i] = r] /\ pool' = Tail(pool) /\ req' = [req EXCEPT ![c] = Request(x, i)]
        /\ mpool' = mpool /\ fp' = fp /\ file' = file /\ io' = io /\ ro' = ro
    BY <1>5, <2>1 DEF Submit
  <2>4. PICK l : l = i
    OBVIOUS
  <2>5. l \in Ioqs /\ l # c /\ Still(k, l, {})
    BY <1>3, <2>3, <2>4
  <2>6. KernelInv(k') /\ Asks(k', l, {}, x.fd, f) /\ Others(k, k', l)
    <3>1. f \in Actions
      BY DEF Actions
    <3>2. k' = GetMutex(k, x.fd, l, f)
      BY <1>5, <2>4
    <3> QED
      BY <1>1, <1>2, <2>5, <3>1, <3>2, GetMutexIs
  <2>7. Still(k', c, {}) /\ Beside(k, k', {c, l})
    BY <1>2, <2>5, <2>6 DEF Others, Undisturbed, Beside
  <2>8. Asks(k', l, {}, x.fd, "qwrite") \/ Asks(k', l, {}, x.fd, "write_q")
    BY <2>6
  <2>9. x.op \in {"read", "readwpos", "write", "writewpos"}
    BY <1>5
  <2> HIDE DEF i
  <2> QED
    BY <1>1, <2>2, <2>3, <2>4, <2>6, <2>7, <2>8, <2>9, TransferSafe DEF i
<1>6. CASE FsysRead(c, x)
  <2>1. 0 \in Nat /\ "read_q" \in {"readwpos_q", "read_q"} /\ x.op = "read"
    BY <1>6 DEF FsysRead
  <2> QED
    BY <1>4, <1>6, <2>1 DEF FsysRead
<1>7. CASE FsysWritewpos(c, x)
  <2>1. x.where \in Nat /\ "qwrite" \in {"qwrite", "write_q"} /\ x.op = "writewpos"
    BY <1>2, <1>7 DEF FsysWritewpos
  <2> QED
    BY <1>5, <1>7, <2>1 DEF FsysWritewpos
<1>8. CASE FsysWrite(c, x)
  <2>1. 0 \in Nat /\ "write_q" \in {"qwrite", "write_q"} /\ x.op = "write"
    BY <1>8 DEF FsysWrite
  <2> QED
    BY <1>5, <1>8, <2>1 DEF FsysWrite
<1>9. CASE FsysLseek(c, x)
  <2>1. fp' \in [Fds -> QioFile] /\ \A y \in Fds : fp'[y].hold = fp[y].hold
    BY <1>1, <1>9 DEF TypeInv, FsysLseek
  <2>2. "lseek_q" \in {"lseek_q", "cancel_done"} /\ x.op = "lseek"
    BY <1>9 DEF FsysLseek
  <2> QED
    BY <1>1, <1>9, <2>1, <2>2, TurnSafe DEF FsysLseek
<1>10. CASE FsysCancel(c, x)
  <2>1. fp' \in [Fds -> QioFile] /\ \A y \in Fds : fp'[y].hold = fp[y].hold
    <3>1. TRUE \in BOOLEAN /\ fp \in [Fds -> QioFile]
      BY <1>1 DEF TypeInv
    <3> QED
      BY <1>2, <1>10, <3>1, CancelSet DEF FsysCancel
  <2>2. "cancel_done" \in {"lseek_q", "cancel_done"} /\ x.op = "cancel"
    BY <1>10 DEF FsysCancel
  <2> QED
    BY <1>1, <1>10, <2>1, <2>2, TurnSafe DEF FsysCancel
<1>11. CASE FsysClose(c, x)
  <2>1. CASE Refused(x)
    BY <2>1, NothingSafe DEF Refused
  <2>2. CASE /\ x.op = "close" /\ mpool # {}
             /\ req' = [req EXCEPT ![c] = Request(x, Nobody), ![j] = [Filler(c, x.fd) EXCEPT !.op = "closer"]]
             /\ mpool' = mpool \ {j} /\ fp' = [fp EXCEPT ![x.fd].closing = TRUE, ![x.fd].cancel = TRUE]
             /\ k' = GetMutex(k, x.fd, j, "cancel_done")
             /\ q' = q /\ pool' = pool /\ file' = file /\ io' = io /\ ro' = ro
    <3> HIDE DEF j
    <3> QED
      BY <1>1, <2>2, CloseSafe DEF j
  <2> QED
    BY <1>11, <2>1, <2>2 DEF FsysClose
<1>12. CASE FsysReadwpos(c, x)
  <2>1. x.op = "readwpos" /\ x.where \in Nat
    BY <1>2, <1>12 DEF FsysReadwpos
  <2>2. CASE NoQio
    BY <2>2, NothingSafe DEF NoQio
  <2>3. CASE Refused(x)
    BY <2>3, NothingSafe DEF Refused
  <2>4. CASE Submit(c, x, ReadFq(c, x.fd, x.where, x.len)) /\ k' = GetMutex(k, x.fd, c, "readwpos_q")
    BY <1>4, <2>1, <2>4
  <2>5. CASE /\ mpool # {} /\ pool # <<>>
             /\ q' = [q EXCEPT ![i] = ReadFq(c, x.fd, x.where, x.len)]
             /\ pool' = Tail(pool)
             /\ req' = [req EXCEPT ![c] = Request(x, i), ![j] = Filler(c, x.fd)]
             /\ mpool' = mpool \ {j}
             /\ k' = GetMutex(k, x.fd, j, "readbws_q")
             /\ fp' = fp /\ file' = file /\ io' = io /\ ro' = ro
    <3> HIDE DEF i, j
    <3> QED
      BY <1>1, <2>1, <2>5, PartSafe DEF i, j
  <2> QED
    BY <1>12, <2>2, <2>3, <2>4, <2>5 DEF FsysReadwpos
<1> QED
  BY <1>6, <1>7, <1>8, <1>9, <1>10, <1>11, <1>12 DEF Call

-----------------------------------------------------------------------------
(* The beginning.                                                          *)

(* The pool has every FsysQio, each once.                                  *)
LEMMA PoolInit ==
  LET p == SetToSeq(Fqs) IN p \in Seq(Fqs) /\ IsInjective(p) /\ In(p) = Fqs
<1>1. IsFiniteSet(Fqs)
  BY IoqsAssumption DEF IoqsAssumption
<1>2. PICK n \in Nat : ExistsBijection(1..n, Fqs)
  BY <1>1, FS_NatBijection
<1>3. Cardinality(Fqs) = n
  <2>1. IsFiniteSet(1..n) /\ Cardinality(1..n) = n
    <3>1. 1 \in Int /\ n \in Int
      OBVIOUS
    <3>2. IsFiniteSet(1..n) /\ Cardinality(1..n) = IF 1 > n THEN 0 ELSE n - 1 + 1
      BY <3>1, FS_Interval
    <3> QED
      BY <3>2
  <2>2. PICK f : f \in Bijection(1..n, Fqs)
    BY <1>2 DEF ExistsBijection
  <2>3. f \in Injection(1..n, Fqs) /\ f \in Surjection(1..n, Fqs)
    BY <2>2 DEF Bijection
  <2>4. Cardinality(1..n) = Cardinality(Fqs)
    BY <1>1, <2>3, FS_Injection
  <2> QED
    BY <2>1, <2>4
<1>4. \E f \in [1..n -> Fqs] : IsInjective(f)
  BY <1>2 DEF ExistsBijection, Bijection, Injection
<1>5. PICK p : p = SetToSeq(Fqs)
  OBVIOUS
<1>6. p \in [1..n -> Fqs] /\ IsInjective(p)
  BY <1>3, <1>4, <1>5 DEF SetToSeq
<1>7. p \in Seq(Fqs) /\ DOMAIN p = 1..n
  BY <1>6
<1>8. p \in Surjection(1..n, Fqs)
  <2>1. p \in Injection(1..n, Fqs)
    BY <1>6 DEF Injection
  <2>2. IsFiniteSet(1..n) /\ Cardinality(1..n) = n
    <3>1. 1 \in Int /\ n \in Int
      OBVIOUS
    <3>2. IsFiniteSet(1..n) /\ Cardinality(1..n) = IF 1 > n THEN 0 ELSE n - 1 + 1
      BY <3>1, FS_Interval
    <3> QED
      BY <3>2
  <2> QED
    BY <1>1, <1>3, <2>1, <2>2, FS_Injection
<1>9. In(p) = Fqs
  BY <1>6, <1>7, <1>8 DEF In, Surjection
<1> QED
  BY <1>5, <1>6, <1>7, <1>9

(* Nothing is queued and every mutex is free.                              *)
LEMMA KernelInit ==
  KernelInv(IdleKernel) /\ \A x \in Ioqs : Still(IdleKernel, x, {})
<1>1. /\ IdleKernel.ast = <<>> /\ \A x \in Ioqs : IdleKernel.act[x] = "none"
      /\ \A m \in Mutexes : IdleKernel.cur[m] = Nobody /\ IdleKernel.wait[m] = <<>>
  BY DEF IdleKernel
<1>2. In(<<>>) = {} /\ IsInjective(<<>>)
  BY DEF In, IsInjective
<1>3. IdleKernel \in Kernel
  BY DEF IdleKernel, Kernel, Actions
<1>4. KernelInv(IdleKernel)
  BY <1>1, <1>2, <1>3 DEF KernelInv
<1>5. ASSUME NEW x \in Ioqs PROVE Still(IdleKernel, x, {})
  <2>1. Held(IdleKernel, x) = {}
    BY <1>1, NobodyAssumption DEF Held, NobodyAssumption
  <2> QED
    BY <1>1, <1>2, <2>1 DEF Still, Queued
<1> QED
  BY <1>4, <1>5

(* Every file has one sector.                                              *)
LEMMA FileInit == Init => FileInv
<1> SUFFICES ASSUME Init PROVE FileInv
  OBVIOUS
<1>1. 1 \in Copies /\ 1 \in Nat
  BY CopiesAssumption DEF CopiesAssumption, Copies
<1>2. <<1>> \in Extents /\ Allocated(<<1>>) = 1
  BY DEF Extents, Allocated, Last
<1> DEFINE e == [c \in Copies |-> <<1>>]
<1>3. e \in [Copies -> Extents]
  BY <1>2
<1>4. BytPSect \in Nat \ {0}
  BY DEF BytPSect
<1>5. file = [fd \in Fds |-> [size |-> BytPSect, clusters |-> 1, active |-> 1, extents |-> e]]
  BY DEF Init
<1>6. \A c \in Copies : e[c] = <<1>>
  OBVIOUS
<1> HIDE DEF e
<1>7. [size |-> BytPSect, clusters |-> 1, active |-> 1, extents |-> e] \in RamFH
  BY <1>1, <1>3, <1>4 DEF RamFH
<1>8. file \in [Fds -> RamFH]
  BY <1>5, <1>7
<1>9. ASSUME NEW fd \in Fds, NEW c \in Copies PROVE Allocated(file[fd].extents[c]) <= file[fd].clusters
  <2>1. file[fd].extents = e /\ file[fd].clusters = 1
    BY <1>5
  <2> QED
    BY <1>2, <1>6, <2>1
<1> QED
  BY <1>8, <1>9 DEF FileInv

(* Everything is in its pool and nothing is queued.                        *)
LEMMA PipeInit == Init => PipeInv
<1> SUFFICES ASSUME Init PROVE PipeInv
  OBVIOUS
<1>1. /\ k = IdleKernel /\ req = [i \in Callers |-> NoRequest] /\ q = [i \in Fqs |-> NoFq]
      /\ pool = SetToSeq(Fqs) /\ mpool = MIoqs /\ io = {} /\ ro \in BOOLEAN
      /\ fp = [fd \in Fds |-> [pos |-> 0, size |-> BytPSect, open |-> TRUE, cancel |-> FALSE,
                               closing |-> FALSE, hold |-> FALSE]]
  BY DEF Init
<1>2. KernelInv(k) /\ \A x \in Ioqs : Still(k, x, {})
  BY <1>1, KernelInit
<1>3. pool \in Seq(Fqs) /\ IsInjective(pool) /\ In(pool) = Fqs
  BY <1>1, PoolInit
<1>4. fp \in [Fds -> QioFile] /\ \A fd \in Fds : ~fp[fd].hold
  BY <1>1 DEF QioFile, BytPSect
<1>5. TypeInv
  BY <1>1, <1>3, <1>4, NoRequestType, NoFqType, FileInit DEF TypeInv
<1>6. ASSUME NEW a \in Callers PROVE CallerInv(a)
  <2>1. req[a] = NoRequest /\ Still(k, a, {}) /\ (a \in MIoqs => a \in mpool)
    BY <1>1, <1>2, Kinds
  <2> QED
    BY <2>1 DEF CallerInv, Quiet, Told, ServiceInv, NoRequest
<1>7. ASSUME NEW i \in Fqs PROVE QioInv(i)
  BY <1>1, <1>2, <1>3, Kinds DEF QioInv
<1>8. HoldInv /\ VolOpInv
  BY <1>2, <1>4, Kinds DEF HoldInv, VolOpInv
<1> QED
  BY <1>2, <1>5, <1>6, <1>7, <1>8 DEF PipeInv

-----------------------------------------------------------------------------
(* Every step.                                                             *)

(* Whatever is at the head of the AST queue.                               *)
LEMMA RunAstSafe ==
  ASSUME PipeInv, EnoughQios, RunAst
  PROVE  PipeInv'
<1>1. ASSUME NEW i \in Callers, Runs(i, "readwpos_q"), ReadwposQ(i, req, q) PROVE PipeInv'
  <2>1. CASE i \in Users
    <3>1. ReadBegins(i, req, q)
      BY <1>1, <2>1, BeginsIs
    <3> QED
      BY <1>1, <2>1, <3>1, ReadwposQUser
  <2>2. CASE i \in MIoqs
    BY <1>1, <2>2, ReadwposQFiller
  <2> QED
    BY <2>1, <2>2 DEF Callers
<1>2. ASSUME NEW i \in Fqs, Qread(i) \/ ReadDone(i) \/ WriteQ(i) \/ Qwrite(i) \/ WriteDone(i) PROVE PipeInv'
  BY <1>2, QreadSafe, ReadDoneSafe, WriteQSafe, QwriteSafe, WriteDoneSafe
<1>3. ASSUME NEW j \in MIoqs, ReadbwsQ(j) \/ Closeq(j) PROVE PipeInv'
  BY <1>3, ReadbwsQSafe, CloseqSafe
<1>4. ASSUME NEW c \in Users, LseekQ(c) \/ ReadQ(c) \/ CloseUpd(c) \/ UserDone(c) PROVE PipeInv'
  BY <1>4, LseekQSafe, ReadQSafe, CloseUpdSafe, UserDoneSafe
<1>5. ASSUME NEW i \in Callers, CancelDone(i) PROVE PipeInv'
  BY <1>5, CancelDoneUser, CancelDoneCloser DEF Callers
<1>6. CASE VolOpRuns
  BY <1>6, VolOpSafe
<1> QED
  BY <1>1, <1>2, <1>3, <1>4, <1>5, <1>6 DEF RunAst

(* Every step, and none.                                                   *)
LEMMA PipeStep ==
  ASSUME PipeInv, EnoughQios, [Next]_vars
  PROVE  PipeInv'
<1>1. CASE \E c \in Users, x \in Calls : Call(c, x)
  BY <1>1, CallSafe
<1>2. CASE RunAst
  BY <1>2, RunAstSafe
<1>3. CASE \E i \in Fqs : DiskDone(i)
  BY <1>3, DiskDoneSafe
<1>4. CASE VolOpCalled \/ VolOpEnds
  BY <1>4, VolOpSafe
<1>5. CASE UNCHANGED vars
  BY <1>5, NothingSafe DEF vars
<1> QED
  BY <1>1, <1>2, <1>3, <1>4, <1>5 DEF Next

(* With a FsysQio for each caller, one for the filler that has the buffer  *)
(* and one more, the chains of QioIOQs are as PipeInv says, whatever the   *)
(* calls, the errors and the order in which the drive ends its transfers.  *)
THEOREM ChainsKept == EnoughQios => (Spec => []PipeInv)
<1> SUFFICES ASSUME EnoughQios PROVE Spec => []PipeInv
  OBVIOUS
<1>1. Init => PipeInv
  BY PipeInit
<1>2. PipeInv /\ [Next]_vars => PipeInv'
  BY PipeStep
<1> QED
  BY <1>1, <1>2, PTL DEF Spec
-----------------------------------------------------------------------------
(* What the invariant says of the types, the turns and the pools.          *)

(* The user behind a QioIOQ of each kind.                                  *)
LEMMA BehindIs ==
  /\ \A c \in Users : Behind(c) = c
  /\ \A j \in MIoqs : Behind(j) = req[j].for
  /\ \A i \in Fqs : Behind(i) = IF q[i].caller \in MIoqs THEN req[q[i].caller].for ELSE q[i].caller
<1>1. ASSUME NEW c \in Users PROVE Behind(c) = c
  BY Kinds DEF Behind
<1>2. ASSUME NEW j \in MIoqs PROVE Behind(j) = req[j].for
  BY Kinds DEF Behind
<1>3. ASSUME NEW i \in Fqs
      PROVE  Behind(i) = IF q[i].caller \in MIoqs THEN req[q[i].caller].for ELSE q[i].caller
  BY Kinds DEF Behind
<1> QED
  BY <1>1, <1>2, <1>3

(* Who is asked for is not at work; who holds a mutex is its owner.        *)
LEMMA PlaceIs ==
  ASSUME NEW x, NEW S, NEW m, NEW f
  PROVE  /\ Asks(k, x, S, m, f) => k.act[x] = f /\ S \subseteq Held(k, x)
         /\ Due(k, x, S, f) => k.act[x] = f /\ S \subseteq Held(k, x)
         /\ Still(k, x, S) => ~Queued(k, x) /\ k.act[x] = "none" /\ S \subseteq Held(k, x)
         /\ m \in Held(k, x) => k.cur[m] = x
BY DEF Asks, Due, Still, Held

(* A FsysQio that waits for its request, or to write, is not at work.      *)
LEMMA SpareIdle ==
  ASSUME NEW i, NEW fd, Spare(i) \/ ToWrite(i, fd)
  PROVE  ~Busy(i)
<1>1. CASE Spare(i)
  BY <1>1, PlaceIs DEF Spare, Busy
<1>2. CASE ToWrite(i, fd)
  <2>1. k.act[i] \in {"qwrite", "write_q"} /\ i \notin io /\ q[i].state = 0
    BY <1>2, PlaceIs DEF ToWrite
  <2> QED
    BY <2>1 DEF Busy
<1> QED
  BY <1>1, <1>2

(* The invariant has the types in it.                                      *)
LEMMA PipeTypes == PipeInv => TypeOK
<1> SUFFICES ASSUME PipeInv PROVE TypeOK
  OBVIOUS
<1>1. KernelInv(k) /\ TypeInv /\ FileInv
  BY DEF PipeInv, TypeInv
<1>2. k \in Kernel
  BY <1>1 DEF KernelInv
<1>3. ASSUME NEW a \in Callers
      PROVE  /\ req[a].status \in {"none", "SUCC", "EOF", "ERR", "CANCELLED"}
             /\ req[a].cnt \in Nat
             /\ Told(a)
  <2>1. req[a] \in QioIOQ
    BY <1>1 DEF TypeInv
  <2>2. req[a].status \in Statuses /\ req[a].cnt \in Nat
    BY <2>1 DEF QioIOQ
  <2>3. CallerInv(a)
    BY DEF PipeInv
  <2>4. CASE a \in Users
    BY <2>2, <2>3, <2>4 DEF CallerInv, Statuses
  <2>5. CASE a \in MIoqs
    <3>1. req[a].op \in {"none", "filler", "closer"}
      BY <2>3, <2>5 DEF CallerInv, ServiceInv, FillerInv, CloserInv, NoRequest
    <3> QED
      BY <2>2, <3>1 DEF Told, Statuses
  <2> QED
    BY <2>4, <2>5 DEF Callers
<1>4. ASSUME NEW i \in Fqs PROVE q[i].uLen \in Nat /\ q[i].total \in Nat /\ q[i].which \in Copies
  BY <1>1 DEF TypeInv, FsysQio
<1>5. In(pool) \subseteq Fqs /\ mpool \subseteq MIoqs /\ io \subseteq Fqs
  BY <1>1, InType DEF TypeInv
<1>6. ASSUME NEW fd \in Fds
      PROVE  /\ fp[fd].pos \in Nat /\ file[fd].size \in Nat /\ file[fd].active \in Copies
             /\ \A c \in Copies : Allocated(file[fd].extents[c]) <= file[fd].clusters
  BY <1>1 DEF TypeInv, FileInv, QioFile, RamFH
<1> QED
  BY <1>2, <1>3, <1>4, <1>5, <1>6 DEF TypeOK, Told

(* The FsysQio of a caller is at work only in the caller's turn.           *)
LEMMA UserInTurn ==
  ASSUME PipeInv, NEW i \in Fqs, Busy(i), Owned(i), q[i].caller \in Users
  PROVE  Behind(k.cur[q[i].fd]) = Behind(i)
<1>1. PICK a, fd : a = q[i].caller /\ fd = q[i].fd
  OBVIOUS
<1>2. a \in Users /\ Owns(a, i) /\ (Transfers(a) \/ Filled(a)) /\ req[a].fq = i /\ req[a].fd = fd
  BY <1>1 DEF Owned, Owns
<1>3. a \notin MIoqs /\ Behind(i) = a
  BY <1>1, <1>2, BehindIs, Kinds
<1>4. ~Filled(a)
  BY <1>2, SpareIdle DEF Filled
<1>5. ~Spare(i) /\ ~ToWrite(i, fd)
  BY SpareIdle
<1>6. \/ Still(k, a, {fd})
      \/ WritesOn(i, fd)
  BY <1>2, <1>4, <1>5 DEF Transfers
<1>7. CASE Still(k, a, {fd})
  <2>1. k.cur[fd] = a
    BY <1>7, PlaceIs
  <2> QED
    BY <1>1, <1>2, <1>3, <2>1, BehindIs
<1>8. CASE WritesOn(i, fd)
  <2>1. {fd} \subseteq Held(k, i)
    BY <1>8, PlaceIs DEF WritesOn
  <2>2. k.cur[fd] = i
    BY <2>1, PlaceIs
  <2> QED
    BY <1>1, <2>2
<1> QED
  BY <1>6, <1>7, <1>8

(* That of a filler is at work only while the filler has both mutexes.     *)
LEMMA FillerInTurn ==
  ASSUME PipeInv, NEW i \in Fqs, Busy(i), Owned(i), q[i].caller \in MIoqs
  PROVE  Behind(k.cur[q[i].fd]) = Behind(i) /\ k.cur["filep"] = q[i].caller
<1>1. PICK a, fd : a = q[i].caller /\ fd = q[i].fd
  OBVIOUS
<1>2. /\ a \in MIoqs \ mpool /\ req[a].op = "filler" /\ req[a].state = 2
      /\ req[a].fq = i /\ req[a].fd = fd /\ i \notin In(pool)
  BY <1>1 DEF Owned, Owns
<1>3. Behind(i) = req[a].for /\ Behind(a) = req[a].for
  BY <1>1, <1>2, BehindIs
<1>4. Fills(a)
  BY <1>2 DEF PipeInv, CallerInv, ServiceInv, FillerInv, CloserInv, Callers
<1>5. ~ToRead(a) /\ ~Sated(a)
  BY <1>2, SpareIdle DEF ToRead, Sated
<1>6. Still(k, a, {fd, "filep"})
  BY <1>2, <1>4, <1>5 DEF Fills, Reading
<1>7. k.cur[fd] = a /\ k.cur["filep"] = a
  BY <1>6, Zenon DEF Still, Held
<1> QED
  BY <1>1, <1>3, <1>7

(* A FsysQio at work has a caller or a filler, in its turn.                *)
LEMMA PipeSerialised == PipeInv => Serialised
<1> SUFFICES ASSUME PipeInv, NEW i \in Fqs, Busy(i)
             PROVE  /\ Behind(k.cur[q[i].fd]) = Behind(i)
                    /\ q[i].caller \in MIoqs => k.cur["filep"] = q[i].caller
  BY DEF Serialised
<1>1. QioInv(i)
  BY DEF PipeInv
<1>2. i \notin In(pool)
  <2> SUFFICES ASSUME i \in In(pool) PROVE FALSE
    OBVIOUS
  <2>1. q[i].state = 0 /\ i \notin io /\ ~Queued(k, i)
    BY <1>1 DEF QioInv, NoFq, Still
  <2> QED
    BY <2>1 DEF Busy
<1>3. Owned(i)
  BY <1>1, <1>2 DEF QioInv
<1>4. CASE q[i].caller \in Users
  BY <1>3, <1>4, UserInTurn, Kinds
<1>5. CASE q[i].caller \in MIoqs
  BY <1>3, <1>5, FillerInTurn
<1> QED
  BY <1>3, <1>4, <1>5 DEF Owned, Callers

(* A QioIOQ at rest is in no queue and has no mutex.                       *)
LEMMA RestIs ==
  ASSUME NEW x, Still(k, x, {})
  PROVE  ~Queued(k, x) /\ \A m \in Mutexes : k.cur[m] # x
BY DEF Still, Held

(* A FsysQio that is not in the pool is with the caller whose it is, or    *)
(* with a filler.                                                          *)
LEMMA UsedBy ==
  ASSUME PipeInv, NEW i \in Fqs, i \notin In(pool), q[i].caller \notin MIoqs
  PROVE  \E c \in Users : req[c].fq = i /\ k.act[c] # "user"
<1>1. PICK c : c = q[i].caller
  OBVIOUS
<1>2. c \in Users /\ Owns(c, i) /\ (Transfers(c) \/ Filled(c)) /\ req[c].fq = i
  BY <1>1 DEF PipeInv, QioInv, Owned, Owns, Callers
<1>3. CASE Filled(c)
  BY <1>2, <1>3 DEF Filled, Still
<1>4. CASE Transfers(c)
  <2>1. k.act[c] \in {"none", "readwpos_q", "read_q"}
    BY <1>4 DEF Transfers, Asks, Due, Still
  <2> QED
    BY <1>2, <2>1
<1> QED
  BY <1>2, <1>3, <1>4

(* When no caller has a request there is nothing that works for one.       *)
LEMMA QuietIs ==
  ASSUME PipeInv, \A c \in Users : req[c] = NoRequest
  PROVE  mpool = MIoqs /\ In(pool) = Fqs /\ \A m \in Mutexes : k.cur[m] \in {Nobody, VolOp}
<1>1. TypeInv /\ k \in Kernel /\ In(pool) \subseteq Fqs
  BY InType DEF PipeInv, TypeInv, KernelInv
<1>2. \A c \in Users : req[c].op = "none" /\ req[c].fq = Nobody
  BY DEF NoRequest
<1>3. ASSUME NEW j \in MIoqs PROVE j \in mpool
  <2> SUFFICES ASSUME j \notin mpool PROVE FALSE
    OBVIOUS
  <2>1. PICK c \in Users : c = req[j].for /\ (FillerInv(j) \/ CloserInv(j))
    BY DEF PipeInv, CallerInv, ServiceInv, Callers
  <2>2. CASE FillerInv(j)
    <3>1. req[c].fq \in Fqs
      BY <2>1, <2>2 DEF FillerInv, Filled, Owns
    <3> QED
      BY <1>2, <3>1, Kinds
  <2>3. CASE CloserInv(j)
    BY <1>2, <2>1, <2>3 DEF CloserInv, Closing
  <2> QED
    BY <2>1, <2>2, <2>3
<1>4. mpool = MIoqs
  BY <1>1, <1>3 DEF TypeInv
<1>5. ASSUME NEW i \in Fqs PROVE i \in In(pool)
  <2> SUFFICES ASSUME i \notin In(pool) PROVE FALSE
    OBVIOUS
  <2>1. Owned(i)
    BY DEF PipeInv, QioInv
  <2>2. CASE q[i].caller \in MIoqs
    BY <1>4, <2>1, <2>2 DEF Owned
  <2>3. CASE q[i].caller \notin MIoqs
    <3>1. PICK c \in Users : req[c].fq = i
      BY <2>3, UsedBy
    <3> QED
      BY <1>2, <3>1, Kinds
  <2> QED
    BY <2>2, <2>3
<1>6. ASSUME NEW m \in Mutexes PROVE k.cur[m] \in {Nobody, VolOp}
  <2>1. PICK x \in Ioqs \cup {Nobody} : x = k.cur[m]
    BY <1>1 DEF Kernel
  <2>2. ASSUME x \in Users PROVE FALSE
    <3>1. CallerInv(x) /\ req[x] = NoRequest
      BY <2>2 DEF PipeInv, Callers
    <3>2. Still(k, x, {})
      <4>1. req[x].op = "none" /\ req[x].fq = Nobody /\ Nobody \notin Fqs
        BY <1>2, <2>2, Kinds
      <4>2. ~Answered(x) /\ ~InTurn(x) /\ ~Transfers(x) /\ ~Forgotten(x)
        BY <4>1 DEF Answered, InTurn, Transfers, Owns, Forgotten, Closing
      <4>3. ~Waits(x)
        BY <1>4 DEF Waits
      <4> QED
        BY <2>2, <3>1, <4>2, <4>3 DEF CallerInv, Quiet
    <3> QED
      BY <2>1, <3>2, RestIs
  <2>3. ASSUME x \in MIoqs PROVE FALSE
    <3>1. Still(k, x, {})
      BY <1>4, <2>3 DEF PipeInv, CallerInv, ServiceInv, Callers
    <3> QED
      BY <2>1, <3>1, RestIs
  <2>4. ASSUME x \in Fqs PROVE FALSE
    <3>1. Still(k, x, {})
      BY <1>5, <2>4 DEF PipeInv, QioInv
    <3> QED
      BY <2>1, <3>1, RestIs
  <2> QED
    BY <2>1, <2>2, <2>3, <2>4, IoqsAssumption DEF IoqsAssumption
<1>7. In(pool) = Fqs
  BY <1>1, <1>5
<1> QED
  BY <1>4, <1>6, <1>7

(* What is in a pool rests, and what is not has an owner.                  *)
LEMMA PipePools == PipeInv => PoolSound
<1> SUFFICES ASSUME PipeInv PROVE PoolSound
  OBVIOUS
<1> DEFINE owned == {req[c].fq : c \in {u \in Users : req[u].fq # Nobody /\ k.act[u] # "user"}}
           fillers == {i \in Fqs : q[i].caller \in MIoqs}
<1>1. TypeInv /\ IsInjective(pool) /\ In(pool) \subseteq Fqs
  BY InType DEF PipeInv, TypeInv
<1>2. ASSUME NEW i \in In(pool)
      PROVE  i \notin io /\ ~Queued(k, i) /\ q[i] = NoFq /\ \A m \in Mutexes : k.cur[m] # i
  <2>1. q[i] = NoFq /\ i \notin io /\ Still(k, i, {})
    BY <1>1 DEF PipeInv, QioInv
  <2> QED
    BY <2>1, RestIs
<1>3. In(pool) \cup owned \cup fillers = Fqs
  <2>1. owned \subseteq Fqs
    <3> SUFFICES ASSUME NEW c \in Users, req[c].fq # Nobody PROVE req[c].fq \in Fqs
      OBVIOUS
    <3>1. req[c] \in QioIOQ
      BY <1>1, Kinds DEF TypeInv
    <3> QED
      BY <3>1 DEF QioIOQ
  <2>2. ASSUME NEW i \in Fqs PROVE i \in In(pool) \cup owned \cup fillers
    <3>1. CASE i \in In(pool) \/ q[i].caller \in MIoqs
      BY <3>1
    <3>2. CASE i \notin In(pool) /\ q[i].caller \notin MIoqs
      <4>1. PICK c \in Users : req[c].fq = i /\ k.act[c] # "user"
        BY <3>2, UsedBy
      <4>2. i # Nobody
        BY Kinds
      <4> QED
        BY <4>1, <4>2
    <3> QED
      BY <3>1, <3>2
  <2> QED
    BY <1>1, <2>1, <2>2
<1>4. ASSUME NEW j \in mpool
      PROVE  req[j] = NoRequest /\ ~Queued(k, j) /\ \A m \in Mutexes : k.cur[m] # j
  <2>1. j \in MIoqs
    BY <1>1 DEF TypeInv
  <2>2. req[j] = NoRequest /\ Still(k, j, {})
    BY <2>1 DEF PipeInv, CallerInv, ServiceInv, Callers
  <2> QED
    BY <2>2, RestIs
<1>5. (\A c \in Users : req[c] = NoRequest) =>
         mpool = MIoqs /\ In(pool) = Fqs /\ \A m \in Mutexes : k.cur[m] \in {Nobody, VolOp}
  BY QuietIs
<1> HIDE DEF owned, fillers
<1>6. PoolSound <=>
        /\ IsInjective(pool)
        /\ \A i \in In(pool) : i \notin io /\ ~Queued(k, i) /\ q[i] = NoFq /\ \A m \in Mutexes : k.cur[m] # i
        /\ In(pool) \cup owned \cup fillers = Fqs
        /\ \A j \in mpool : req[j] = NoRequest /\ ~Queued(k, j) /\ \A m \in Mutexes : k.cur[m] # j
        /\ (\A c \in Users : req[c] = NoRequest) =>
              mpool = MIoqs /\ In(pool) = Fqs /\ \A m \in Mutexes : k.cur[m] \in {Nobody, VolOp}
  BY DEF PoolSound, owned, fillers
<1> QED
  BY <1>1, <1>2, <1>3, <1>4, <1>5, <1>6

(* The counts, sizes and copies have their types, no copy has sectors that *)
(* were not counted, and no request is told of more than it asked for.     *)
THEOREM TypeCorrect == EnoughQios => (Spec => []TypeOK)
<1> SUFFICES ASSUME EnoughQios PROVE Spec => []TypeOK
  OBVIOUS
<1>1. PipeInv => TypeOK
  BY PipeTypes
<1> QED
  BY <1>1, ChainsKept, PTL

(* Whatever the calls, errors and cancels, only the request whose QioIOQ   *)
(* holds the mutex of a descriptor is at work on it, through the passing   *)
(* of the mutex in read_q, readbws_q and fsys_read_done, and only the one  *)
(* that holds filep_mutex uses the buffer.                                 *)
THEOREM SerialisedSafe == EnoughQios => (Spec => []Serialised)
<1> SUFFICES ASSUME EnoughQios PROVE Spec => []Serialised
  OBVIOUS
<1>1. PipeInv => Serialised
  BY PipeSerialised
<1> QED
  BY <1>1, ChainsKept, PTL

(* No FsysQio and no QioIOQ is lost, or in a pool twice or while it is     *)
(* used, though readbws_q frees what fsys_read_done freed; when no call is *)
(* left everything is back.                                                *)
THEOREM PoolSafe == EnoughQios => (Spec => []PoolSound)
<1> SUFFICES ASSUME EnoughQios PROVE Spec => []PoolSound
  OBVIOUS
<1>1. PipeInv => PoolSound
  BY PipePools
<1> QED
  BY <1>1, ChainsKept, PTL
=============================================================================
