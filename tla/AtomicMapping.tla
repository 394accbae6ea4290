---------------------------- MODULE AtomicMapping ----------------------------
(***************************************************************************)
(* What an organization's repo-mapping promises, without ConfigMaps,       *)
(* caches or versions: its KnowledgeBases claim and withdraw repositories  *)
(* one whole change at a time, touch nobody else's entries except to take  *)
(* them over, and leave nothing behind when they go.                       *)
(***************************************************************************)
CONSTANTS KBs, Repos, Nobody

VARIABLES
  members,  \* the KnowledgeBases of the organization
  entries   \* the KnowledgeBase each repository is routed to, or Nobody

vars == << members, entries >>

(* The entries without those of one KnowledgeBase, and with it owning      *)
(* exactly the given repositories.                                         *)
Withdrawn(map, k) == [r \in Repos |-> IF map[r] = k THEN Nobody ELSE map[r]]
Claimed(map, k, repos) ==
  [r \in Repos |-> IF r \in repos THEN k ELSE Withdrawn(map, k)[r]]

Init == members = {} /\ entries = [r \in Repos |-> Nobody]

Join(k) == k \notin members /\ members' = members \cup {k} /\ UNCHANGED entries

Claim(k) ==
  /\ k \in members
  /\ \E repos \in SUBSET Repos : entries' = Claimed(entries, k, repos)
  /\ UNCHANGED members

Withdraw(k) ==
  /\ k \in members
  /\ entries' = Withdrawn(entries, k)
  /\ UNCHANGED members

Part(k) ==
  /\ k \in members
  /\ \A r \in Repos : entries[r] # k
  /\ members' = members \ {k}
  /\ UNCHANGED entries

Next == \E k \in KBs : Join(k) \/ Claim(k) \/ Withdraw(k) \/ Part(k)

Spec == Init /\ [][Next]_vars

==============================================================================
