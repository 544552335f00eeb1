------------------------------- MODULE PairMC --------------------------------
EXTENDS Pair, TLC

CONSTANTS p1, p2, x, y

MCOneProc == {p1}
MCTwoProcs == {p1, p2}
MCOutputs == {x, y}
MCSymmetry == Permutations(MCTwoProcs) \cup Permutations(MCOutputs)
=============================================================================
