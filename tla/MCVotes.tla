-------------------------------- MODULE MCVotes --------------------------------
EXTENDS Votes, TLC

\* A best of two: a result, its mirror image, and the draw, which is its own.
MCScores == {<<2, 0>>, <<0, 2>>, <<1, 1>>}
Symmetry == Permutations(Users)
=============================================================================
