---------------------------- MODULE MCEventRouting ----------------------------
(***************************************************************************)
(* Small instances of EventRouting for TLC.                                *)
(***************************************************************************)
EXTENDS EventRouting, TLC

NoBudget       == [creates |-> 0, edits |-> 0, faults |-> 0]
RoutingBudget  == [creates |-> 2, edits |-> 1, faults |-> 1]
SettlingBudget == [RoutingBudget EXCEPT !.faults = 0]
TwoCreates     == [NoBudget EXCEPT !.creates = 2]

Symmetry == Permutations(KBs)

==============================================================================
