----------------------------- MODULE AtomicStore -----------------------------
(***************************************************************************)
(* What the database promises its readers when extractions of a block do   *)
(* not overlap: a writer saves its whole batch at once, in every table,    *)
(* and replaces what was there.                                            *)
(***************************************************************************)
CONSTANTS Writers, Blocks, Tables, Batch

VARIABLE store    \* table, block -> the writers whose rows a reader finds there

Init == store = [tab \in Tables |-> [b \in Blocks |-> {}]]

Save(w) ==
    store' = [tab \in Tables |-> [b \in Blocks |->
                 IF b \in Batch[w] THEN {w} ELSE store[tab][b]]]

Next == \E w \in Writers : Save(w)

Spec == Init /\ [][Next]_store
=============================================================================
