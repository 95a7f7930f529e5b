---------------------------- MODULE MCUsageExport ----------------------------
(* Passers for the run of UsageExport.                                     *)
EXTENDS UsageExport

CONSTANTS e1, e2, s1
=============================================================================
