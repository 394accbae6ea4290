------------------------------ MODULE MCTenancy ------------------------------
(***************************************************************************)
(* Small instances of Tenancy for TLC.                                     *)
(***************************************************************************)
EXTENDS Tenancy, TLC

CONSTANTS k1, k2, k3, n1, n2, r1, r2

Naming == (k1 :> n1) @@ (k2 :> n1) @@ (k3 :> n2)
Sources == (k1 :> {r1}) @@ (k2 :> {r2}) @@ (k3 :> {r1})

NoBudget     == [creates |-> 0, edits |-> 0, faults |-> 0]
TenantBudget == [NoBudget EXCEPT !.creates = 2, !.edits = 1, !.faults = 1]
TwoCreates   == [NoBudget EXCEPT !.creates = 2]
OneMove      == [NoBudget EXCEPT !.creates = 1, !.edits = 1]

==============================================================================
