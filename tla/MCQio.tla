------------------------------- MODULE MCQio --------------------------------
(* Instances of Qio for TLC.                                               *)
EXTENDS Qio

CONSTANTS i1, i2, i3, a1, a2, a3, p1

MCIoqs == {i1, i2, i3}
ThreeAsyncs == {a1, a2, a3}
OneAsync == {a1}
OneProgram == {p1}
NoPrograms == {}
=============================================================================
