------------------------------ MODULE MCAging2 ------------------------------
(* Instances of Aging2 for TLC: two workers, two blocks, six updates.      *)
EXTENDS Aging2

Upd(s, d, w) == [src |-> s, dst |-> d, weight |-> w]

\* {1,2} is inserted, deleted and inserted again, by its two orientations;
\* {1,5} is a temporary edge with a temporary vertex, deleted in the next block.
MCLog == << Upd(1, 2, 0), Upd(1, 5, 0), Upd(1, 2, -1),
            Upd(5, 1, -1), Upd(2, 1, 1), Upd(1, 3, 1) >>
MCBlockEnd == <<3, 6>>
MCTempVertices == <<5>>
=============================================================================
