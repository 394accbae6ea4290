---------------------------- MODULE EventRouting ----------------------------
(***************************************************************************)
(* From a push to a scip-sync TaskRun, composed with the passes of         *)
(* RepoMapping: the Trigger of each KnowledgeBase fires on pushes to the   *)
(* repositories in its CEL filter, its TriggerTemplate starts a resolver,  *)
(* and the resolver looks the repository up in repo-mapping, then creates  *)
(* the sync of the KnowledgeBase it found there (resolve_template.go).     *)
(*                                                                         *)
(* Added to a pass are the databases, which exist before the mapping is    *)
(* written and go before it is cleaned, and template and trigger, which    *)
(* come after it and are read through informer caches of their own.        *)
(***************************************************************************)
EXTENDS RepoMapping

CONSTANTS
  Lagging,  \* the kinds whose cache may lag
  Pushed    \* the bound on events: the repositories that see pushes

Kinds == {"template", "trigger"}

ASSUME LaggingAssumption == Lagging \subseteq Kinds
ASSUME PushedAssumption == Pushed \subseteq Repos

(* What a resolver has found and is about to create.  It is outdated when  *)
(* the KnowledgeBase it names has gone, or had been thought gone.          *)
Sync == [repo : Pushed, kb : KBs, outdated : BOOLEAN]

VARIABLES
  stores,    \* the databases of each KnowledgeBase exist
  template,  \* its TriggerTemplate exists
  trigger,   \* the repositories in the filter of its Trigger; none, no Trigger
  place,     \* how many of the steps after the mapping its pass has made
  view,      \* what the caches hold of each kind and KnowledgeBase: "none", "old", "latest"
  skipped,   \* what cleanups have passed over, shown nothing, and is still there (history)
  runs,      \* the repositories a resolver has started for
  found,     \* the syncs that resolvers are about to create
  tracked    \* what of Pushed each KnowledgeBase has tracked since its creation (history)

routing == << template, trigger >>
caches  == << view, skipped >>
events  == << runs, found >>
added   == << stores, template, trigger, place, view, skipped, runs, found, tracked >>
allVars == << vars, added >>

RoutingTypeOK ==
  /\ TypeOK
  /\ stores \in [KBs -> BOOLEAN] /\ template \in [KBs -> BOOLEAN]
  /\ trigger \in [KBs -> SUBSET Repos]
  /\ place \in [KBs -> 0..2]
  /\ view \in [Kinds -> [KBs -> {"none", "old", "latest"}]]
  /\ skipped \subseteq Kinds \X KBs
  /\ runs \subseteq Pushed /\ found \subseteq Sync
  /\ tracked \in [KBs -> SUBSET Pushed]

RoutingInit ==
  /\ Init
  /\ stores = [k \in KBs |-> FALSE] /\ template = [k \in KBs |-> FALSE]
  /\ trigger = [k \in KBs |-> {}] /\ place = [k \in KBs |-> 0]
  /\ view = [kind \in Kinds |-> [k \in KBs |-> "none"]] /\ skipped = {}
  /\ runs = {} /\ found = {}
  /\ tracked = [k \in KBs |-> {}]

(***************************************************************************)
(* Users, events.                                                          *)
(***************************************************************************)
UserStep(k) ==
  /\ Join(k) \/ EditSources(k)
  /\ tracked' = [tracked EXCEPT ![k] = @ \cup (sources'[k] \cap Pushed)]
  /\ UNCHANGED << stores, routing, caches, place, events >>

(* A Trigger whose filter holds the repository starts the resolver of its  *)
(* template; one whose template is missing starts nothing.                 *)
Push(r) ==
  /\ r \in Pushed
  /\ \E k \in KBs : r \in trigger[k] /\ template[k]
  /\ runs' = runs \cup {r}
  /\ UNCHANGED << vars, stores, routing, caches, place, found, tracked >>

(* The resolver looks the repository up in the live ConfigMap.  It skips   *)
(* one without an entry, and takes a failed lookup for the same.           *)
Resolve(r) ==
  /\ r \in runs
  /\ runs' = runs \ {r}
  /\ \/ /\ data[r] \in KBs
        /\ found' = found \cup {[repo |-> r, kb |-> data[r], outdated |-> data[r] \in missed]}
     \/ UNCHANGED found
  /\ UNCHANGED << vars, stores, routing, caches, place, tracked >>

(* Then it creates the sync in the namespace of that name, whose-ever it   *)
(* has become, if there is one, or it fails and is not tried again.        *)
StartSync(sync) ==
  /\ life[sync.kb] # "absent"
  /\ found' = found \ {sync}
  /\ UNCHANGED << vars, stores, routing, caches, place, runs, tracked >>

LoseSync(sync) ==
  /\ found' = found \ {sync}
  /\ UNCHANGED << vars, stores, routing, caches, place, runs, tracked >>

(***************************************************************************)
(* The caches of templates and triggers.                                   *)
(***************************************************************************)
Exists(kind, k) == IF kind = "template" THEN template[k] ELSE trigger[k] # {}

(* A write that changes something outdates the cached copy, if there is    *)
(* one; what lags shows nothing new until it is observed.                  *)
Reflect(kind, k) ==
  view' = IF UNCHANGED routing THEN view
          ELSE [view EXCEPT ![kind][k] =
                  IF kind \in Lagging THEN (IF @ = "latest" THEN "old" ELSE @)
                  ELSE IF Exists(kind, k)' THEN "latest" ELSE "none"]

Latest(kind, k) == IF Exists(kind, k) THEN "latest" ELSE "none"

ObserveRoute(kind, k) ==
  /\ view[kind][k] # Latest(kind, k)
  /\ view' = [view EXCEPT ![kind][k] = Latest(kind, k)]
  /\ UNCHANGED << vars, stores, routing, skipped, place, events, tracked >>

(***************************************************************************)
(* The passes.                                                             *)
(***************************************************************************)

(* reconcileQdrant, reconcilePostgres.                                     *)
EnsureStores(k) ==
  /\ pc[k] = "map" /\ ~stores[k]
  /\ stores' = [stores EXCEPT ![k] = TRUE]
  /\ UNCHANGED << vars, routing, caches, place, events, tracked >>

(* cleanupPostgres, cleanupQdrant, cleanupPVCs.                            *)
DropStores(k) ==
  /\ pc[k] = "unmap" /\ stores[k]
  /\ stores' = [stores EXCEPT ![k] = FALSE]
  /\ UNCHANGED << vars, routing, caches, place, events, tracked >>

StepOn(k) == place' = [place EXCEPT ![k] = @ + 1]

(* reconcileTriggerTemplate, then reconcileTrigger: what the cache shows   *)
(* is updated at its version, what it does not show is created, and the    *)
(* API server takes that of the latest, or of nothing, only.               *)
Accepted(kind, k) == view[kind][k] = Latest(kind, k)

PutTemplate(k) ==
  /\ pc[k] = "mapped" /\ place[k] = 0 /\ Accepted("template", k)
  /\ template' = [template EXCEPT ![k] = TRUE] /\ UNCHANGED trigger
  /\ Reflect("template", k) /\ skipped' = skipped \ {<< "template", k >>}
  /\ StepOn(k)
  /\ UNCHANGED << vars, stores, events, tracked >>

(* Faulty: a trigger that exists keeps its filter.                         *)
PutTriggerOnce(k) ==
  /\ pc[k] = "mapped" /\ place[k] = 1 /\ Accepted("trigger", k)
  /\ trigger' = [trigger EXCEPT ![k] = IF @ = {} THEN spec[k] ELSE @] /\ UNCHANGED template
  /\ Reflect("trigger", k) /\ skipped' = skipped \ {<< "trigger", k >>}
  /\ StepOn(k)
  /\ UNCHANGED << vars, stores, events, tracked >>

PutTrigger(k) ==
  /\ pc[k] = "mapped" /\ place[k] = 1 /\ Accepted("trigger", k)
  /\ trigger' = [trigger EXCEPT ![k] = spec[k]] /\ UNCHANGED template
  /\ Reflect("trigger", k) /\ skipped' = skipped \ {<< "trigger", k >>}
  /\ StepOn(k)
  /\ UNCHANGED << vars, stores, events, tracked >>

(* AlreadyExists, NotFound or a conflict.                                  *)
PutRefused(k) ==
  \/ place[k] = 0 /\ ~Accepted("template", k)
  \/ place[k] = 1 /\ ~Accepted("trigger", k)

(* cleanupTriggers: the trigger, then the template, each by its name and   *)
(* only if the cache shows one.                                            *)
Leaving(k) == IF place[k] = 0 THEN "trigger" ELSE "template"

PassOver(k) ==
  /\ pc[k] = "unmapped" /\ place[k] < 2
  /\ view[Leaving(k)][k] = "none"
  /\ skipped' = IF Exists(Leaving(k), k) THEN skipped \cup {<< Leaving(k), k >>}
                ELSE skipped \ {<< Leaving(k), k >>}
  /\ StepOn(k)
  /\ UNCHANGED << vars, stores, routing, view, events, tracked >>

(* Faulty: the template goes before the trigger that refers to it.         *)
DropTemplateFirst(k) ==
  /\ pc[k] = "unmapped" /\ place[k] = 0 /\ view["template"][k] # "none"
  /\ template' = [template EXCEPT ![k] = FALSE] /\ UNCHANGED trigger
  /\ Reflect("template", k) /\ skipped' = skipped \ {<< "template", k >>}
  /\ StepOn(k)
  /\ UNCHANGED << vars, stores, events, tracked >>

DropTrigger(k) ==
  /\ pc[k] = "unmapped" /\ place[k] = 0 /\ view["trigger"][k] # "none"
  /\ trigger' = [trigger EXCEPT ![k] = {}] /\ UNCHANGED template
  /\ Reflect("trigger", k) /\ skipped' = skipped \ {<< "trigger", k >>}
  /\ StepOn(k)
  /\ UNCHANGED << vars, stores, events, tracked >>

DropTemplate(k) ==
  /\ pc[k] = "unmapped" /\ place[k] = 1 /\ view["template"][k] # "none"
  /\ template' = [template EXCEPT ![k] = FALSE] /\ UNCHANGED trigger
  /\ Reflect("template", k) /\ skipped' = skipped \ {<< "template", k >>}
  /\ StepOn(k)
  /\ UNCHANGED << vars, stores, events, tracked >>

(* Faulty: the mapping is written whether or not there are databases.      *)
MapStepEarly(k) ==
  /\ \/ Begin(k) \/ CreateMapping(k) \/ WriteMapping(k) \/ Unmap(k) \/ ReadMapping(k)
     \/ ~stores[k] /\ (ReadForCleanup(k) \/ SkipUnmapping(k))
  /\ UNCHANGED added

(* The steps of RepoMapping, where they stand in the pass.                 *)
MapStep(k) ==
  /\ \/ Begin(k) \/ CreateMapping(k) \/ WriteMapping(k) \/ Unmap(k)
     \/ stores[k] /\ ReadMapping(k)
     \/ ~stores[k] /\ (ReadForCleanup(k) \/ SkipUnmapping(k))
  /\ UNCHANGED added

EndPass(k) ==
  /\ Refused(k) \/ ((place[k] = 2 \/ PutRefused(k)) /\ Finish(k))
  /\ place' = [place EXCEPT ![k] = 0]
  /\ UNCHANGED << stores, routing, caches, events, tracked >>

(* What resolvers have found for the one that goes is of no use any more.  *)
ReleaseAll(k) ==
  /\ place[k] = 2 /\ Release(k)
  /\ place' = [place EXCEPT ![k] = 0]
  /\ tracked' = [tracked EXCEPT ![k] = {}]
  /\ found' = {[s EXCEPT !.outdated = @ \/ s.kb = k] : s \in found}
  /\ UNCHANGED << stores, routing, caches, runs >>

RoutingFault(k) ==
  /\ Fault(k)
  /\ place' = [place EXCEPT ![k] = 0]
  /\ UNCHANGED << stores, routing, caches, events, tracked >>

RoutingCrash ==
  /\ Crash
  /\ place' = [k \in KBs |-> 0]
  /\ view' = [kind \in Kinds |-> [k \in KBs |-> Latest(kind, k)]]
  /\ UNCHANGED << stores, routing, skipped, events, tracked >>

(***************************************************************************)
(* The specification.                                                      *)
(***************************************************************************)
RoutingPass(k) ==
  \/ EnsureStores(k) \/ DropStores(k) \/ MapStep(k)
  \/ PutTemplate(k) \/ PutTrigger(k) \/ PassOver(k) \/ DropTrigger(k) \/ DropTemplate(k)
  \/ EndPass(k) \/ ReleaseAll(k)

RoutingNext ==
  \/ \E k \in KBs :
       \/ UserStep(k) \/ RoutingPass(k) \/ RoutingFault(k)
       \/ Delete(k) /\ UNCHANGED added
       \/ \E kind \in Kinds : ObserveRoute(kind, k)
  \/ Observe /\ UNCHANGED added
  \/ RoutingCrash
  \/ \E r \in Repos : Push(r) \/ Resolve(r)
  \/ \E sync \in found : StartSync(sync) \/ LoseSync(sync)

RoutingSpec == RoutingInit /\ [][RoutingNext]_allVars

RoutingFairSpec ==
  /\ RoutingSpec
  /\ WF_allVars(Observe /\ UNCHANGED added)
  /\ WF_allVars(\E kind \in Kinds, k \in KBs : ObserveRoute(kind, k))
  /\ \A k \in KBs : WF_allVars(RoutingPass(k))

(***************************************************************************)
(* Properties.                                                             *)
(***************************************************************************)

(* A repository that routes to a KnowledgeBase finds its databases, until  *)
(* the deletion of that KnowledgeBase was asked for: the mapping is        *)
(* written after them in every pass, and an entry waits for a later        *)
(* KnowledgeBase of that name only where a cleanup was shown no data       *)
(* (Reconcile, handleDeletionWithHelper).                                  *)
MappedHaveStores ==
  \A r \in Repos :
    data[r] \in KBs /\ life[data[r]] = "held" => stores[data[r]] \/ data[r] \in missed

(* A Trigger refers to a TriggerTemplate that is there, whatever           *)
(* interrupts the passes, unless a cleanup was not shown the Trigger:      *)
(* pushes are not lost on it (reconcileTrigger, cleanupTriggers).          *)
TriggersHaveTemplates ==
  \A k \in KBs : trigger[k] # {} => template[k] \/ << "trigger", k >> \in skipped

(* However late a resolver runs, it starts no sync in a KnowledgeBase that *)
(* has not tracked the repository in its present life - unless that        *)
(* KnowledgeBase is a later one than the resolver found, between its       *)
(* lookup and its kubectl create, or the entry it found was passed over by *)
(* a cleanup (resolve_template.go).                                        *)
SyncsServeTrackers ==
  [][\A s \in found : StartSync(s) => s.outdated \/ s.repo \in tracked[s.kb]]_allVars

(* The same without exception is what one would like, and is not so.       *)
SyncsAlwaysServeTrackers ==
  [][\A s \in found : StartSync(s) => s.repo \in tracked[s.kb]]_allVars

(* Once edits, failures and deletions have stopped, a push to a tracked    *)
(* repository starts a sync of a KnowledgeBase that tracks it, and nothing *)
(* else listens, except to what cleanups have passed over: filters are     *)
(* those of the present sources, the mapping names a tracker, deletions    *)
(* have completed and nothing else is left of the departed - after         *)
(* conflicts, a co-tracker's deletion, an edit that drops a repository, a  *)
(* cleanup shown too little (removeEntriesForKnowledgeBase, upserts).      *)
RoutingSettles ==
  <>[](/\ \A k \in KBs :
            CASE life[k] = "held"   -> template[k] /\ trigger[k] = sources[k]
              [] life[k] = "absent" -> \A kind \in Kinds :
                                         Exists(kind, k) => << kind, k >> \in skipped
              [] OTHER -> FALSE
       /\ \A r \in Repos :
            IF Trackers(r) = {} THEN data[r] \in missed \cup {Nobody}
            ELSE data[r] \in Trackers(r))

==============================================================================
