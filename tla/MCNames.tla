------------------------------- MODULE MCNames -------------------------------
(* An instance of Names for TLC.                                           *)
EXTENDS Names, TLC

TwoNames == 1..2

\* Both names are in one chain.
OneChain == [n \in TwoNames |-> 1]

\* The walk over the tree comes to the second name first.
SecondFirst == [n \in TwoNames |-> 3 - n]

\* Two names in the root, and one in a directory there.
MCPaths == {<<1>>, <<2>>, <<1, 2>>}

\* The descriptors are alike.
Descriptors == Permutations(Handles)
=============================================================================
