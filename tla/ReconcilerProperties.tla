------------------------- MODULE ReconcilerProperties -------------------------
(***************************************************************************)
(* What the passes of KnowledgeBaseReconciler must achieve between them.   *)
(***************************************************************************)
EXTENDS KnowledgeBaseReconciler

(* The wrong answers of a lagging cache and what others delete are not the *)
(* controller's to prevent: what they touched is in amiss until a pass     *)
(* meets the object as it is.  The properties below except that, object by *)
(* object, and nothing else: a wrong answer about one object must not harm *)
(* another.                                                                *)

(* A pass only writes objects of a KnowledgeBase whose finalizer it has    *)
(* seen, and only cleanup takes the finalizer away (Reconcile): so whatever *)
(* stands that no namespace deletion is about to sweep up has a            *)
(* KnowledgeBase, held by its finalizer.  No crash, failed call, stale     *)
(* cache of the KnowledgeBase or re-creation leaves an orphan, unless a    *)
(* deletion of this very object was skipped on a wrong answer.             *)
GuardedByFinalizer ==
  \A o \in OrgScoped \cup {"namespace"} :
    Stands(o) /\ o \notin amiss => kb.live /\ kb.finalizer

(* What a routed sync needs in its namespace besides the secret.           *)
Rights == {"resolveRoleBinding", "generatorServiceAccount", "generatorRole",
           "generatorRoleBinding"}

(* The organization's trigger reacts to a push by looking the repository   *)
(* up in repo-mapping and starting a TaskRun in the namespace found there, *)
(* as the generator's service account (resolve_template.go).  Whenever all *)
(* three parts of that route exist, the TaskRun can be created: order of   *)
(* provisioning and of cleanup, whatever interrupts them.                  *)
RoutedSyncCanStart ==
  (\A o \in {"trigger", "triggerTemplate", "repoMapping"} : Holds(o) /\ o \notin amiss)
    => /\ ns = "active" \/ "namespace" \in amiss
       /\ \A o \in Rights : Holds(o) \/ o \in amiss

(* Every step of a pass has its object, overwritten ones of this very      *)
(* spec, some excepted.  The init job is apart: a failing one is deleted   *)
(* and created again by every pass.                                        *)
BuiltExcept(spec, excepted) ==
  \A i \in DOMAIN Provisioning :
    LET step == Provisioning[i] IN
    step.how \in {"ensure", "upsert"} /\ step.obj \notin excepted =>
      /\ Holds(step.obj)
      /\ step.how = "upsert" => objs[step.obj] = spec

(* When a pass is about to write phase Ready, its namespace is not on its  *)
(* way out and every object is there, those it overwrites built from the   *)
(* spec it read - also when it began in the terminating namespace of an    *)
(* earlier KnowledgeBase of that name.                                     *)
ReadyIsHonest ==
  pc = "publish" =>
    /\ ns = "active" \/ "namespace" \in amiss
    /\ Holds("initJob") \/ "initJob" \in amiss
    /\ BuiltExcept(snap.spec, amiss)

(* With nothing under way, queued, timed or to be delivered, the           *)
(* KnowledgeBase is gone or was refused: any other one is still being      *)
(* looked after (the requeues of Reconcile, over swallowed errors, lost    *)
(* queues and undelivered events).                                         *)
NeverForgotten ==
  (pc = "idle" /\ ~queued /\ ~later /\ ~notify)
    => ~kb.live \/ (~kb.finalizer /\ ~ValidSpec(kb.spec))

Volumes == objs["pvcs"] # None

(* The databases' volumes are only ever deleted, or put into a terminating *)
(* namespace, while the deletion of their KnowledgeBase is under way:      *)
(* never under a KnowledgeBase in use, in particular not under a later one *)
(* of the same name (cleanupPVCs runs before the namespace is deleted and  *)
(* the finalizer released).                                                *)
VolumesKept ==
  [][(Volumes /\ ~Volumes') \/ (Volumes /\ ns = "active" /\ ns' # "active")
       => kb.deleting \/ {"pvcs", "namespace"} \cap (amiss \cup amiss') # {}]_vars

(* A KnowledgeBase that was once past Pending is not set back: a pass that *)
(* decides on a stale cached phase never repeats the first steps.          *)
NoSetback ==
  [][kb.live /\ kb'.live /\ kb.phase \notin {"", "Pending"}
       => kb'.phase \notin {"", "Pending"}]_vars

(* The controller as an implementation of KnowledgeBaseContract.  Objects  *)
(* inside the infrastructure namespace count as one thing, the namespace,  *)
(* until its deletion is requested; what a wrong answer hides is no longer *)
(* counted.                                                                *)
Contract == INSTANCE KnowledgeBaseContract WITH
  Things    <- OrgScoped \cup {"namespace"},
  owner     <- IF ~kb.live THEN "none"
               ELSE IF ~kb.finalizer THEN "plain"
               ELSE IF kb.deleting THEN "leaving" ELSE "held",
  footprint <- {o \in OrgScoped \cup {"namespace"} : Stands(o) /\ o \notin amiss}

(* Nothing appears unheld, nothing is torn down unasked, and the finalizer *)
(* is released only when everything is gone (handleDeletionWithHelper);    *)
(* and once asked, it is all cleared and released.                         *)
ImplementsContract == Contract!Spec

InService == kb.live /\ kb.finalizer /\ ~kb.deleting

(* Reported as it is: Ready, its namespace up, every object built from its *)
(* present spec, no code graph claimed without code sources.               *)
SettledExcept(excepted) ==
  /\ kb.phase = "Ready"
  /\ ns = "active" \/ "namespace" \in excepted
  /\ kb.codeGraphReady => HasCodeSources(kb.spec.sources)
  /\ BuiltExcept(kb.spec, excepted)

Settled == SettledExcept({})

(* Whenever a pass reports Ready and no event is on its way or queued, the *)
(* report is up to date: what stands is built from the present spec, not   *)
(* from one that was edited, or belonged to an earlier KnowledgeBase, when *)
(* the pass had long begun (the watch, the de-duplicating queue).          *)
ReportsAreUpToDate ==
  [][Publish /\ ~notify /\ ~queued => SettledExcept(amiss)']_vars

(* Once failures, crashes and edits stop, a KnowledgeBase in service       *)
(* settles (back-off, the 5-minute requeue, the watch on the               *)
(* KnowledgeBase).                                                         *)
Converges == <>[](InService /\ kb.spec.mcp => Settled)

(* A requested deletion completes: a failed cleanup step is retried, the   *)
(* steps that had succeeded are harmless to repeat, and the finalizer goes. *)
DeletionCompletes == kb.deleting ~> ~kb.live

(***************************************************************************)
(* What the repository's documents say and the code does not do.           *)
(***************************************************************************)

(* After its cleanup, "expected Trigger %q to be deleted, but it still     *)
(* exists" (knowledgebase_controller_test.go:1329): whatever stands has a  *)
(* KnowledgeBase that will clear it.                                       *)
NoOrphans ==
  (ns = "active" \/ \E o \in OrgScoped : Holds(o)) => kb.live /\ kb.finalizer

(* "Optional MCP server provisioning" (requirements.md:13): a KnowledgeBase *)
(* in service becomes Ready whether or not it asks for an MCP server.      *)
MCPIsOptional == <>[](InService => kb.phase = "Ready")

(* "WHEN reconciliation fails THEN the controller SHALL set the            *)
(* appropriate readiness field to false" (requirements.md, 5.5): a failed  *)
(* KnowledgeBase does not claim both of its stores ready.                  *)
FailureClearsReadiness ==
  kb.phase = "Failed" => ~(kb.vectorStoreReady /\ kb.codeGraphReady)

(* The flow of design.md:110 validates before it reconciles: what a pass   *)
(* is about to report Ready is a spec that validateSpec accepts.           *)
OnlyValidSpecsAreServed == pc = "publish" => ValidSpec(snap.spec)

===============================================================================
