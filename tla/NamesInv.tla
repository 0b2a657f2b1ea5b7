------------------------------ MODULE NamesInv ------------------------------
(***************************************************************************)
(* The invariant from which the properties of Names follow.  In memory and *)
(* on the disk every file has one name; what a sync has still to write is  *)
(* on the dirty list; and a descriptor knows how often its FID was given   *)
(* out.  Of memory this is said until a mount leaves the name of a file    *)
(* that it removed; of the disk it is said always.                         *)
(***************************************************************************)
EXTENDS Names

(* The files a volume has. *)
There(v) == {f \in Fids : v.index[f].use = "lba"}

IsEnt(v, f, n) == v.dirs[f][n] # NoEnt

(* Every entry of a directory leads to a file of its generation. *)
EntriesLead(v) ==
  \A f \in There(v), n \in Names :
    IsEnt(v, f, n) => /\ v.rfh[f].dir
                      /\ v.dirs[f][n].fid \in There(v) \ {Root}
                      /\ v.rfh[v.dirs[f][n].fid].gen = v.dirs[f][n].gen

(* No file has two names. *)
OneName(v) ==
  \A f, g \in There(v), n, k \in Names :
    IsEnt(v, f, n) /\ v.dirs[f][n].fid = v.dirs[g][k].fid => f = g /\ n = k

(* Every file but the root has one. *)
Named(v) ==
  \A g \in There(v) \ {Root} : \E f \in There(v), n \in Names : v.dirs[f][n].fid = g

FilesSound(v) ==
  /\ Root \in There(v) /\ v.rfh[Root].dir
  /\ \A f \in There(v) : /\ f < v.ffree /\ v.rfh[f].gen # 0
                         /\ v.rfh[f].dir => ~v.rfh[f].new

Sound(v) == FilesSound(v) /\ EntriesLead(v) /\ OneName(v) /\ Named(v)

(* In memory there is nothing of a file that is gone but its FID, unused,  *)
(* and its generation, in the index.                                       *)
GoneAreGone(v) ==
  \A f \in Fids : IF f \in There(v) THEN v.rfh[f].valid ELSE v.rfh[f] = NoFile /\ v.dirs[f] = NoDir

UnusedSound(v) ==
  /\ IsInjective(v.unused)
  /\ \A f \in Fids : (\E i \in DOMAIN v.unused : v.unused[i] = f) <=> f < v.ffree /\ f \notin There(v)
  /\ \A f \in Fids \ There(v) : f < v.ffree => v.index[f].use = "empty"

MemSound(v) == Sound(v) /\ GoneAreGone(v) /\ UnusedSound(v)

MemoryInv == Usable => MemSound(m)

(* The same file for a user, in two volumes. *)
Alike(v, w, f) ==
  /\ v.rfh[f].gen = w.rfh[f].gen /\ v.rfh[f].dir = w.rfh[f].dir /\ v.rfh[f].new = w.rfh[f].new
  /\ v.dirs[f] = w.dirs[f]

(* What differs from the disk w is on the dirty list of v. *)
Marked(v, w) ==
  /\ \A f \in There(v) \ v.dirty : Alike(v, w, f)
  /\ \A f \in Fids \ v.ibits : f \in There(v) <=> f \in There(w)
  /\ IndexFid \notin v.dirty => w.ffree = v.ffree

DirtyInv == Usable => Marked(m, saved)

(* The generation a FID has, or had last. *)
LastGen(v, f) == IF f \in There(v) THEN v.rfh[f].gen ELSE v.index[f].gen

(* A descriptor can tell how often its FID was given out since.            *)
Traced(d, v) ==
  /\ d.closing => d.open
  /\ d.open => /\ d.fid \in Fids /\ d.fid < v.ffree
               /\ d.gen # 0 => \E k \in Nat : d.gen + d.again = LastGen(v, d.fid) + k * MaxGen

HandlesInv == \A x \in Handles : Traced(h[x], m) /\ (h[x].open => Usable)

(* A stream has seen what was there before it, and sees the rest of its    *)
(* chain next.                                                             *)
StreamInv ==
  s.open =>
    /\ Usable /\ s.dir \in Fids
    /\ s.cut => s.cuts
    /\ s.cur # 0 => HashOf[s.cur] = s.entry - 1
    /\ \A n \in s.steady :
         /\ m.dirs[s.dir][n] # NoEnt
         /\ HashOf[n] < s.entry /\ ~s.cuts =>
              n \in s.seen \/ (s.cur # 0 /\ HashOf[n] = HashOf[s.cur] /\ n > s.cur)

IInv == TypeOK /\ MemoryInv /\ Sound(saved) /\ DirtyInv /\ HandlesInv /\ StreamInv
=============================================================================
