------------------------------ MODULE SpaceMap ------------------------------
(***************************************************************************)
(* What the allocator of a volume promises: every sector is free, or in    *)
(* limbo, or some file's, and never two of these; a sector a file of the   *)
(* saved volume owns is not given to another before the next commit.       *)
(***************************************************************************)
CONSTANTS Owners, Space

VARIABLES
  free,    \* sectors that may be allocated
  limbo,   \* sectors given back since the last commit
  own,     \* owner -> its sectors
  saved    \* own, as the volume on the disk has it

vars == <<free, limbo, own, saved>>

Owned(o) == UNION {o[x] : x \in Owners}
Disjoint(o) == \A x, y \in Owners : x # y => o[x] \cap o[y] = {}

(* No sector is lost and none has two uses.                                *)
Partition ==
  /\ Disjoint(own)
  /\ free \cap limbo = {}
  /\ Owned(own) \cap (free \cup limbo) = {}
  /\ Owned(own) \cup free \cup limbo = Space

(* What the saved volume owns is still its owner's, or waits in limbo.     *)
SavedKept == \A x \in Owners : saved[x] \subseteq own[x] \cup limbo

Init ==
  /\ own \in [Owners -> SUBSET Space] /\ free \in SUBSET Space /\ limbo = {}
  /\ saved = own
  /\ Partition

(* Give free sectors to owners.                                            *)
Allocate ==
  /\ own' \in [Owners -> SUBSET Space]
  /\ \A x \in Owners : own[x] \subseteq own'[x]
  /\ Disjoint(own')
  /\ free' \subseteq free
  /\ Owned(own') = Owned(own) \cup (free \ free')
  /\ UNCHANGED <<limbo, saved>>

(* Owners give up what they have; sectors fresh from the free list may go  *)
(* the same way (an allocation that failed half way).                      *)
Release ==
  /\ own' \in [Owners -> SUBSET Space]
  /\ \A x \in Owners : own'[x] \in {own[x], {}}
  /\ free' \subseteq free
  /\ limbo' = limbo \cup (Owned(own) \ Owned(own')) \cup (free \ free')
  /\ UNCHANGED saved

(* Owners take what they need for the commit, limbo becomes free, and the  *)
(* volume on the disk is the one in memory.                                *)
Commit ==
  /\ own' \in [Owners -> SUBSET Space]
  /\ \A x \in Owners : own[x] \subseteq own'[x]
  /\ Disjoint(own')
  /\ Owned(own') \ Owned(own) \subseteq free
  /\ free' = (free \cup limbo) \ Owned(own')
  /\ limbo' = {}
  /\ saved' = own'

(* A mount starts again from the volume on the disk.                       *)
Revert ==
  /\ own' = saved
  /\ free' = Space \ Owned(saved)
  /\ limbo' = {}
  /\ UNCHANGED saved

Next == Allocate \/ Release \/ Commit \/ Revert

Spec == Init /\ [][Next]_vars
=============================================================================
