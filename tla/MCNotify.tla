------------------------------ MODULE MCNotify ------------------------------
(* Notify for TLC: a block of one transaction, then one of two.            *)
EXTENDS Notify, TLC

CONSTANTS t1, t2, t3

MCTxns == <<<<t1>>, <<t2, t3>>>>
=============================================================================
