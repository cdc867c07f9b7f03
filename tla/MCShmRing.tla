----------------------------- MODULE MCShmRing -----------------------------
(* Instances of ShmRing for TLC: threads, readers and words are model      *)
(* values given in the configuration files.                                *)
EXTENDS ShmRing, TLC

\* Publishing threads run the same code.
ThreadSymmetry == Permutations(Writers) \union Permutations(Words)
=============================================================================
