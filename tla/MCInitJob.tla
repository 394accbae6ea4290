------------------------------ MODULE MCInitJob ------------------------------
(***************************************************************************)
(* Small instances of InitJob for TLC.                                     *)
(***************************************************************************)
EXTENDS InitJob

PodFailures == [failures |-> 1, outages |-> 1, faults |-> 1]
OneOutage   == [failures |-> 0, outages |-> 1, faults |-> 0]

==============================================================================
