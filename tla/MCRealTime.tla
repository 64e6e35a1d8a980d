----------------------------- MODULE MCRealTime -----------------------------
(* RealTime for TLC: its constants are given values in RealTime.cfg.       *)
EXTENDS RealTime, TLC
=============================================================================
