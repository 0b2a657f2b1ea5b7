---------------------------- MODULE MCJournalSync ----------------------------
(* Instances of JournalSync for TLC.                                       *)
EXTENDS JournalSync, TLC

CONSTANTS f1, f2, s1, s2, s3, s4, s5

TwoFiles == {f1, f2}
ThreeSectors == {s1, s2, s3}
FourSectors == {s1, s2, s3, s4}
FiveSectors == {s1, s2, s3, s4, s5}

(* FIDs are interchangeable, and so are sectors. *)
Symmetric == Permutations(Files) \cup Permutations(Sectors)
=============================================================================
