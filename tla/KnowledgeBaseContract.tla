------------------------ MODULE KnowledgeBaseContract ------------------------
(***************************************************************************)
(* What the controller promises about the cluster, without a controller:   *)
(* things outside the KnowledgeBase object appear only while a finalizer   *)
(* holds it, disappear only once its deletion was requested, and the       *)
(* object is let go only when nothing is left of them.                     *)
(***************************************************************************)
CONSTANT Things  \* what a KnowledgeBase may leave behind in the cluster

VARIABLES
  owner,      \* "none", "plain" (no finalizer yet), "held" or "leaving"
  footprint   \* the Things that exist

vars == << owner, footprint >>

TypeOK ==
  /\ owner \in {"none", "plain", "held", "leaving"}
  /\ footprint \subseteq Things

Init == owner = "none" /\ footprint = {}

Appear == owner = "none" /\ owner' = "plain" /\ UNCHANGED footprint
Vanish == owner = "plain" /\ owner' = "none" /\ UNCHANGED footprint
Hold   == owner = "plain" /\ owner' = "held" /\ UNCHANGED footprint
Leave  == owner = "held" /\ owner' = "leaving" /\ UNCHANGED footprint

Build(thing) ==
  /\ owner \in {"held", "leaving"}
  /\ footprint' = footprint \cup {thing}
  /\ UNCHANGED owner

Clear(thing) ==
  /\ owner = "leaving"
  /\ footprint' = footprint \ {thing}
  /\ UNCHANGED owner

Release ==
  /\ owner = "leaving"
  /\ footprint = {}
  /\ owner' = "none"
  /\ UNCHANGED footprint

Next ==
  \/ Appear \/ Vanish \/ Hold \/ Leave \/ Release
  \/ \E thing \in Things : Build(thing) \/ Clear(thing)

Spec == Init /\ [][Next]_vars /\ WF_vars(Release) /\ \A thing \in Things : WF_vars(Clear(thing))

(* Nothing exists without a KnowledgeBase whose finalizer can clear it.    *)
Accounted == footprint # {} => owner \in {"held", "leaving"}

==============================================================================
