---------------------------- MODULE MCReconciler ----------------------------
(***************************************************************************)
(* Small instances of KnowledgeBaseReconciler for TLC.                     *)
(***************************************************************************)
EXTENDS ReconcilerProperties

Source(type) == [repoOrg |-> "acme", repoName |-> "app", branch |-> "main", sourceType |-> type]

(* A documentation base; one with code, and the agent that code needs; one *)
(* that asks for no MCP server; two the validation refuses, for the lack   *)
(* of an agent and for the name of a branch.                               *)
DocsSpec  == [organization |-> "acme", sources |-> << Source("") >>, agent |-> FALSE, mcp |-> TRUE]
CodeSpec  == [organization |-> "acme", sources |-> << Source("docs"), Source("code") >>,
              agent |-> TRUE, mcp |-> TRUE]
NoMCPSpec == [DocsSpec EXCEPT !.mcp = FALSE]
BadSpec   == [CodeSpec EXCEPT !.agent = FALSE]
OddSpec   == [DocsSpec EXCEPT !.sources = << [Source("") EXCEPT !.branch = ".."] >>]

OneSpec    == {DocsSpec}
EverySpec  == {CodeSpec, NoMCPSpec, OddSpec}
CodeOrBad  == {CodeSpec, BadSpec}
WithoutMCP  == {NoMCPSpec}

Branches == {"main"}

NoBudget == [creates |-> 0, edits |-> 0, faults |-> 0, crashes |-> 0, drift |-> 0]

LifecycleBudget   == [NoBudget EXCEPT !.creates = 2, !.faults = 1]
EditBudget        == [NoBudget EXCEPT !.creates = 1, !.edits = 1, !.crashes = 1]
DriftBudget       == [NoBudget EXCEPT !.creates = 1, !.drift = 1]
OneCreate         == [NoBudget EXCEPT !.creates = 1]
OneFault          == [OneCreate EXCEPT !.faults = 1]
OneEdit           == [OneCreate EXCEPT !.edits = 1]

==============================================================================
