------------------------------ MODULE Channel ------------------------------
(***************************************************************************)
(* What a path from publishers to subscribers promises: messages leave it  *)
(* in the order they entered, each at most once, and, when the path may    *)
(* not lose any, each of them.  Messages are numbered as they enter.       *)
(***************************************************************************)
EXTENDS Naturals

CONSTANT MayLose

VARIABLES entered,  \* how many have entered
          left      \* the number of the last one that left

Init == entered = 0 /\ left = 0

Enter == entered' = entered + 1 /\ left' = left

Leave == /\ left' \in (left + 1)..entered
         /\ ~MayLose => left' = left + 1
         /\ entered' = entered

Spec == Init /\ [][Enter \/ Leave]_<<entered, left>>
=============================================================================
