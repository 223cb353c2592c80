--------------------------- MODULE MCPublication ---------------------------
(* Publication with an output of each of two runs, and one of the first   *)
(* run whose series does not match its digest.                            *)
EXTENDS Publication, TLC

CONSTANTS r1, r2, g1

Of(session, ok) == [session |-> session, golden |-> g1, source |-> 1, digestMatches |-> ok]
SomeOutputs == {Of(r1, TRUE), Of(r1, FALSE), Of(r2, TRUE)}
JobSymmetry == Permutations(Jobs)
=============================================================================
