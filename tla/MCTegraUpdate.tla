---------------------------- MODULE MCTegraUpdate ----------------------------
(***************************************************************************)
(* TegraUpdate on small instances.                                         *)
(***************************************************************************)
EXTENDS TegraUpdate, TLC

BothUnits == {"verify", "commit"}

\* A kill covers the failures of the calls that a verb returns from at once.
HardFaults == {"swap", "abort", "kill", "early"}
=============================================================================
