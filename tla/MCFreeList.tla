----------------------------- MODULE MCFreeList -----------------------------
(* Instances of FreeList for TLC.                                          *)
EXTENDS FreeList

CONSTANTS f1, f2

TwoFiles == {f1, f2}
TwoAreas == <<1, 15>>
TwoHomes == <<1, 11>>
WiderAreas == <<1, 16>>
WiderHomes == <<1, 12>>
SmallSystem == [INDEX |-> 1, FREE |-> 1, ROOT |-> 1, JOURN |-> 1]
WiderFree == [INDEX |-> 1, FREE |-> 2, ROOT |-> 1, JOURN |-> 1]
Symmetric == Permutations(Files)
=============================================================================
