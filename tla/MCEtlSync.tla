----------------------------- MODULE MCEtlSync -----------------------------
(* EtlSync for TLC: batches of one to three blocks.                        *)
EXTENDS EtlSync, TLC
=============================================================================
