--------------------------- MODULE MCOrchestrator ---------------------------
(* Orchestrator on small sets.  Workers, object ids and blocks are model   *)
(* values and interchangeable.                                             *)
EXTENDS Orchestrator, TLC

CONSTANTS w1, w2, t1, t2, t3, b1, b2, gen1, gen2

MCPriorities == {1, 2}
MCSymmetry   == Permutations(Workers) \cup Permutations(Oids) \cup Permutations(Blocks)

\* Which extraction is stored, and when a claim's extraction began, decide no
\* step and no invariant but OrderHonoured: runs without it may forget both.
MCView == <<queue, [b \in Blocks |-> stored[b] > 0], pending, pc,
            [p \in Holders |-> <<claim[p].task, claim[p].order>>],
            fwd, main, shutdown, feed, aux, faults, starts>>
=============================================================================
