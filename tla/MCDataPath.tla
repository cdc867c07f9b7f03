----------------------------- MODULE MCDataPath -----------------------------
(* An instance of DataPath for TLC.                                        *)
EXTENDS DataPath, TLC

CONSTANTS t1, t2

LocalOrRemote == {{"local"}, {"remote"}}
Symmetry == Permutations(Threads)
=============================================================================
