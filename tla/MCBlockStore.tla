---------------------------- MODULE MCBlockStore ----------------------------
(* Three or four writers of two blocks.                                    *)
EXTENDS BlockStore, TLC

CONSTANTS e1, e2, e3, e4, b1, b2

\* Overlapping writers: the order in which they start is not constrained.
MCBatch   == (e1 :> {b1, b2}) @@ (e2 :> {b1, b2}) @@ (e3 :> {b2})
MCNoOrder == {}

\* Re-extraction one order at a time: writers of a common block follow each
\* other, writers of different blocks run beside each other.
MCSerialBatch == (e1 :> {b1, b2}) @@ (e2 :> {b1}) @@ (e3 :> {b2}) @@ (e4 :> {b1, b2})
MCSerial      == {<<e1, e2>>, <<e1, e3>>, <<e1, e4>>, <<e2, e4>>, <<e3, e4>>}
=============================================================================
