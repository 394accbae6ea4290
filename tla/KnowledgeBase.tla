---------------------------- MODULE KnowledgeBase ----------------------------
(***************************************************************************)
(* The KnowledgeBase custom resource, as the controller sees it: the part  *)
(* of the spec its decisions read, the validation it applies, and the      *)
(* status it writes.                                                       *)
(*                                                                         *)
(* A spec is a record                                                      *)
(*   [organization, sources, agent, mcp]                                   *)
(* where agent and mcp say whether the optional pointer is set, and a      *)
(* source is [repoOrg, repoName, branch, sourceType], an omitted string    *)
(* being "".  Images, ports, replicas, display names and paths are left    *)
(* out: no decision of the controller reads them.                          *)
(***************************************************************************)
EXTENDS Sequences

CONSTANTS
  Specs,         \* the specs users may write
  None,          \* no spec: nothing is there
  ValidBranches  \* the branch names isValidBranchName accepts

ASSUME NoneAssumption == None \notin Specs

Phases == {"", "Pending", "Provisioning", "Ready", "Failed"}

IsValidBranchName(branch) == branch \in ValidBranches

DefaultSourceType(sourceType) == IF sourceType = "" THEN "docs" ELSE sourceType

HasCodeSources(sources) ==
  \E i \in DOMAIN sources : DefaultSourceType(sources[i].sourceType) = "code"

ValidSource(source) ==
  /\ source.repoOrg # ""
  /\ source.repoName # ""
  /\ source.branch = "" \/ IsValidBranchName(source.branch)
  /\ DefaultSourceType(source.sourceType) \in {"docs", "code"}

ValidSpec(spec) ==
  /\ spec.organization # ""
  /\ spec.sources # << >>
  /\ \A i \in DOMAIN spec.sources : ValidSource(spec.sources[i])
  /\ HasCodeSources(spec.sources) => spec.agent

(***************************************************************************)
(* What the API server, an informer cache or a reconcile pass holds of the *)
(* KnowledgeBase of one name.  When there is none it is Gone.              *)
(***************************************************************************)
Record ==
  [live : BOOLEAN, finalizer : BOOLEAN, deleting : BOOLEAN,
   spec : Specs \cup {None}, phase : Phases,
   vectorStoreReady : BOOLEAN, codeGraphReady : BOOLEAN]

Blank(spec, live) ==
  [live |-> live, finalizer |-> FALSE, deleting |-> FALSE, spec |-> spec,
   phase |-> "", vectorStoreReady |-> FALSE, codeGraphReady |-> FALSE]

Fresh(spec) == Blank(spec, TRUE)
Gone        == Blank(None, FALSE)

==============================================================================
