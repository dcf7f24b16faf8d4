-------------------------- MODULE MCMixedWorkload --------------------------
(* An instance of MixedWorkload for TLC: one worker, one block, two        *)
(* updates, two of the algorithms.                                         *)
EXTENDS MixedWorkload

MCLog == << [src |-> 1, dst |-> 2, weight |-> 1], [src |-> 1, dst |-> 3, weight |-> 1] >>
MCBlockEnd == <<2>>
MCTempVertices == << >>
=============================================================================
