------------------------------- MODULE Extents -------------------------------
(***************************************************************************)
(* The free list of an AGC volume and the retrieval pointers of its files  *)
(* (src/fsys.c): fsys_findfree, extend_file, collapse_free, mkroom_free,   *)
(* back_to_free and compute_total_free, as operators on an extent list.    *)
(*                                                                         *)
(* An extent is an FsysRetPtr: n sectors from start.  The free list is the *)
(* first free_ffree entries of vol->free; an entry that was given away     *)
(* whole stays in it as Null until collapse_free.                          *)
(***************************************************************************)
EXTENDS Integers, Sequences, SequencesExt, FiniteSetsExt

CONSTANTS
  Area,       \* FSYS_COPY_ALG of maxlba: where the area of each copy begins
  Home,       \* FSYS_HB_ALG of hb_range: the home blocks
  Chunk,      \* BYTPSECT/sizeof(FsysRetPtr): extents in a sector
  MaxPtrs,    \* FSYS_MAX_FHPTRS: retrieval pointers of one copy
  Word        \* bound: 2^w, the range of the unsigned sector counts

ASSUME AreaAssumption == Area \in Seq(Nat) /\ Area # <<>>
ASSUME HomeAssumption ==
  /\ Home \in Seq(Nat \ {0})
  /\ \A i, j \in DOMAIN Home : i < j => Home[i] < Home[j]
ASSUME ChunkAssumption == Chunk \in Nat \ {0}
ASSUME WidthAssumption == MaxPtrs \in Nat /\ Word \in Nat \ {0}

Alts == DOMAIN Area
AllAlts == [a \in Alts |-> a]

Null == [start |-> 0, n |-> 0]
End(e) == e.start + e.n
SectorsOf(e) == e.start .. (End(e) - 1)
Covered(list) == UNION {SectorsOf(list[i]) : i \in DOMAIN list}
Plus(sum, e) == sum + e.n
Amount(list) == FoldLeft(Plus, 0, list)
CeilDiv(a, b) == (a + b - 1) \div b

(***************************************************************************)
(* fsys_findfree.  The difference d is a uint32_t compared with S32_MAX,   *)
(* so "d > 0" holds of every difference but 0, and an entry smaller than   *)
(* the request is chosen only where the scan stops.                        *)
(***************************************************************************)
Surplus(e, rqst) == (e.n - rqst) % Word
Abuts(e, hint) == hint # 0 /\ e.start = hint

CanSplit(free, elems, i, rqst, lo) ==
  /\ free[i].start < lo
  /\ Len(free) < elems - 1
  /\ rqst < End(free[i]) - lo

StopsAt(free, elems, i, rqst, hint, lo) ==
  \/ Abuts(free[i], hint)
  \/ /\ End(free[i]) > lo
     /\ \/ CanSplit(free, elems, i, rqst, lo)
        \/ free[i].n = rqst
        \/ free[i].start > hint

Split(free, i, lo) ==
  SubSeq(free, 1, i - 1)
    \o <<[start |-> free[i].start, n |-> lo - free[i].start],
         [start |-> lo, n |-> End(free[i]) - lo]>>
    \o SubSeq(free, i + 1, Len(free))

Taken(e, rqst) == [start |-> e.start, n |-> Min({e.n, rqst})]
RestUnclipped(e, rqst) ==                       \* "act" is the request
  [start |-> e.start + rqst, n |-> e.n - rqst]
RestShort(e, rqst) ==                           \* the start moves one short
  IF e.n <= rqst THEN Null ELSE [start |-> e.start + rqst - 1, n |-> e.n - rqst]
Rest(e, rqst) ==
  IF e.n <= rqst THEN Null ELSE [start |-> e.start + rqst, n |-> e.n - rqst]

Give(free, i, rqst) ==
  [free |-> [free EXCEPT ![i] = Rest(@, rqst)], ans |-> Taken(free[i], rqst)]

(* The scan stopped at entry i.                                            *)
GiveAt(free, elems, i, rqst, hint, lo) ==
  IF ~Abuts(free[i], hint) /\ CanSplit(free, elems, i, rqst, lo)
  THEN Give(Split(free, i, lo), i + 1, rqst)
  ELSE Give(free, i, rqst)

(* Of the entries over, the first with the smallest surplus.               *)
Closest(free, rqst, over) ==
  CHOOSE i \in over : \A j \in over \ {i} :
    \/ Surplus(free[i], rqst) < Surplus(free[j], rqst)
    \/ Surplus(free[i], rqst) = Surplus(free[j], rqst) /\ i < j

FindFree(free, elems, rqst, hint, lo) ==
  LET live == {i \in DOMAIN free : free[i].n > 0 /\ free[i].start > 0}
      stops == {i \in live : StopsAt(free, elems, i, rqst, hint, lo)}
      over == {i \in live : /\ End(free[i]) > lo
                            /\ Surplus(free[i], rqst) < (Word \div 2) - 1}
  IN  IF stops # {} THEN GiveAt(free, elems, Min(stops), rqst, hint, lo)
      ELSE IF over # {} THEN Give(free, Closest(free, rqst, over), rqst)
      ELSE [free |-> free, ans |-> Null]

(***************************************************************************)
(* collapse_free: drop the empty entries, join those that touch.           *)
(***************************************************************************)
AbsorbOverlaps(list, e) ==                      \* "s < de"
  LET k == Len(list)
      last == list[k]
  IN  IF e.n = 0 THEN list
      ELSE IF End(last) = 0 THEN [list EXCEPT ![k] = e]
      ELSE IF e.start < End(last)
           THEN [list EXCEPT ![k].n = @ + e.n - (End(last) - e.start)]
           ELSE Append(list, e)

Absorb(list, e) ==
  LET k == Len(list)
      last == list[k]
  IN  IF e.n = 0 THEN list
      ELSE IF End(last) = 0 THEN [list EXCEPT ![k] = e]
      ELSE IF e.start <= End(last)
           THEN [list EXCEPT ![k].n = @ + e.n - (End(last) - e.start)]
           ELSE Append(list, e)

CollapseFree(free) ==
  IF free = <<>> THEN <<Null>>
  ELSE FoldLeft(Absorb, <<Head(free)>>, Tail(free))

(***************************************************************************)
(* extend_file: rqst more sectors for the copy rps, near lo.  v is the     *)
(* free list, the entries there is memory for, and the count of free       *)
(* sectors.  A failure leaves what was allocated before it, and an         *)
(* uncollapsed list.                                                       *)
(***************************************************************************)
HintAfter(rps) == IF rps = <<>> THEN 0 ELSE End(Last(rps))

(* What fsys_findfree found, added to the copy.                            *)
Joins(rps, e) ==
  IF rps # <<>> /\ e.start = HintAfter(rps)
  THEN [rps EXCEPT ![Len(rps)].n = @ + e.n] ELSE Append(rps, e)


AddFound(x, found) ==
  [x EXCEPT
     !.v.free = found.free,
     !.v.total = @ - found.ans.n,
     !.rqst = @ - found.ans.n,
     !.rps = Joins(@, found.ans)]

(* Nothing was found in the copy's area, or else on the whole disk.        *)
NoneFound(x) == IF x.lo = 0 THEN [x EXCEPT !.sts = "FULL"] ELSE [x EXCEPT !.lo = 0]

Found(x, found) == IF found.ans.start = 0 THEN NoneFound(x) ELSE AddFound(x, found)

ExtendStep(x) ==
  IF Len(x.rps) >= MaxPtrs THEN [x EXCEPT !.sts = "2MNYRP"]
  ELSE Found(x, FindFree(x.v.free, x.v.elems, x.rqst, HintAfter(x.rps), x.lo))

Extended(x) == IF x.sts = "OK" THEN [x EXCEPT !.v.free = CollapseFree(@)] ELSE x

ExtendLoop(x, k) == IF x.sts # "OK" \/ x.rqst <= 0 THEN x ELSE ExtendStep(x)

ExtendFile(v, rps, rqst, lo) ==
  LET start == [v |-> v, rps |-> rps, rqst |-> rqst, lo |-> lo, sts |-> "OK"]
  IN  IF v.total < rqst THEN [start EXCEPT !.sts = "FULL"]
      ELSE Extended(FoldLeft(ExtendLoop, start, [k \in 1..(rqst + 1) |-> k]))

(* Extend the copies in the set alts, in order, until one fails; done is   *)
(* how many were extended.                                                 *)
CopyExtended(s, a, x) ==
  [s EXCEPT !.v = x.v, !.rps[a] = x.rps, !.sts = x.sts,
            !.done = IF x.sts = "OK" THEN @ + 1 ELSE @]

ExtendCopy(s, a) ==
  IF s.sts # "OK" \/ a \notin s.alts THEN s
  ELSE CopyExtended(s, a, ExtendFile(s.v, s.rps[a], s.rqst, Area[a]))

ExtendCopies(v, rps, alts, rqst) ==
  FoldLeft(ExtendCopy,
           [v |-> v, rps |-> rps, alts |-> alts, rqst |-> rqst, done |-> 0, sts |-> "OK"],
           AllAlts)

(***************************************************************************)
(* back_to_free.  clusters is the size of the FREE file: mkroom_free       *)
(* extends that file, out of the very list it makes room in, when the list *)
(* outgrows it.  The position of the insertion and free_ffree are then     *)
(* stale, and entry free_ffree was never written: torn says so, and what   *)
(* the list holds after it is not modelled.                                *)
(***************************************************************************)
Joined(e, rp) ==
  LET first == Min({e.start, rp.start})
  IN  [start |-> first, n |-> Max({End(e), End(rp)}) - first]

(* mkroom_free, for a list that is about to have ffree entries.            *)
MkRoomLate(elems, ffree, clusters) ==           \* "free_ffree <= free_elems + 1"
  IF ffree <= elems + 1 THEN [elems |-> elems, nested |-> FALSE]
  ELSE [elems |-> elems + Chunk, nested |-> CeilDiv(elems + Chunk, Chunk) > clusters]

MkRoom(elems, ffree, clusters) ==
  IF ffree < elems THEN [elems |-> elems, nested |-> FALSE]
  ELSE [elems |-> elems + Chunk, nested |-> CeilDiv(elems + Chunk, Chunk) > clusters]

Insert(v, rp, i, clusters) ==
  LET used == {j \in 1..(i - 1) : v.free[j].n > 0}
      slot == IF used = {} THEN 1 ELSE Max(used) + 1
      room == MkRoom(v.elems, Len(v.free) + 1, clusters)
      sum == v.total + rp.n
  IN  IF slot < i
      THEN [v |-> [v EXCEPT !.free = CollapseFree([@ EXCEPT ![slot] = rp]),
                            !.total = sum],
            torn |-> FALSE]
      ELSE [v |-> [free |-> CollapseFree(InsertAt(v.free, i, rp)),
                   elems |-> room.elems, total |-> sum],
            torn |-> room.nested]

BackToFree(v, rp, clusters) ==
  LET near == {i \in DOMAIN v.free : rp.start <= End(v.free[i])}
      i == IF near = {} THEN Len(v.free) + 1 ELSE Min(near)
      join == Joined(v.free[i], rp)
  IN  IF near # {} /\ v.free[i].start <= End(rp)
      THEN [v |-> [v EXCEPT !.free = CollapseFree([@ EXCEPT ![i] = join]),
                            !.total = @ + join.n - v.free[i].n],
            torn |-> FALSE]
      ELSE Insert(v, rp, i, clusters)

(***************************************************************************)
(* compute_total_free: a mount takes the entries of the free list file up  *)
(* to the first that is empty or out of order.                             *)
(***************************************************************************)
ReadFree(list) ==
  LET ends == {i \in DOMAIN list :
                 \/ list[i].start = 0
                 \/ i > 1 /\ list[i].start < End(list[i - 1])}
  IN  IF ends = {} THEN list ELSE SubSeq(list, 1, Min(ends) - 1)

(***************************************************************************)
(* mk_freelist: everything but sector 0 and the home blocks.               *)
(***************************************************************************)
Gap(prev, hb) == IF hb > prev THEN <<[start |-> prev, n |-> hb - prev]>> ELSE <<>>
SkipHome(x, hb) == [list |-> x.list \o Gap(x.prev, hb), prev |-> hb + 1]

MkFreelist(max) ==
  LET s == FoldLeft(SkipHome, [list |-> <<>>, prev |-> 1], Home)
  IN  s.list \o Gap(s.prev, max)
=============================================================================
