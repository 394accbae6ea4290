------------------------ MODULE KnowledgeBaseReconciler ------------------------
(***************************************************************************)
(* KnowledgeBaseReconciler.Reconcile for the KnowledgeBase of one name, as *)
(* controller-runtime runs it: a watch and an informer cache that lag the  *)
(* API server, a de-duplicating work queue, one worker at a time, and a    *)
(* pass made of single API calls between which the user, the cluster and a *)
(* crash of the controller take their turns.                               *)
(*                                                                         *)
(* Not here: who else writes the shared repo-mapping ConfigMap, what the   *)
(* init job does, two KnowledgeBases with one name in two namespaces.  The *)
(* KnowledgeBase stays in one organization; Tenancy moves it.              *)
(***************************************************************************)
EXTENDS KnowledgeBase, Provisioners, FiniteSets

CONSTANTS
  Lagging,       \* kinds whose presence is read from a cache that may lag
  Drifting,      \* objects that somebody may delete behind the controller
  ProbeResults,  \* the answers the health endpoints may give
  MaxBudget      \* how often the environment acts: see Budget

(* ExternalSecret and HTTPRoute are unstructured: the manager's client     *)
(* reads them from the API server.                                         *)
ASSUME LaggingAssumption ==
  Lagging \subseteq (Obj \cup {"namespace"}) \ {"externalSecret", "httpRoute"}
ASSUME OneOrganization == \A s, t \in Specs : s.organization = t.organization
ASSUME DriftingAssumption == Drifting \subseteq Obj \cup {"namespace"}
ASSUME ProbeResultsAssumption == ProbeResults \subseteq BOOLEAN

(* The bounds: creations and edits by users, calls that fail, crashes and  *)
(* objects lost to drift.                                                  *)
Budget == [creates : Nat, edits : Nat, faults : Nat, crashes : Nat, drift : Nat]

ASSUME MaxBudgetAssumption == MaxBudget \in Budget

VARIABLES
  kb,      \* the KnowledgeBase at the API server
  notify,  \* a watch event for it is on its way to the controller
  view,    \* the KnowledgeBase in the informer cache
  queued,  \* its key is in the work queue
  later,   \* its key is to be queued after a delay: back-off or RequeueAfter
  pc,      \* where the worker is in Reconcile
  at,      \* its place in Provisioning or in Cleanup
  snap,    \* its in-memory KnowledgeBase: read at the start of the pass
  current, \* it has the resource version of the one at the API server
  ns,      \* the infrastructure namespace
  objs,    \* the other objects: the spec each was built from, None if absent
  amiss,   \* objects passed over on a wrong answer, or lost to others, since last met (history)
  seen,    \* whether the cache of a lagging kind holds the object
  budget   \* what the environment may still do

server  == << kb, notify >>
control == << view, queued, later >>
worker  == << pc, at, snap, current >>
cluster == << ns, objs, amiss >>
vars    == << kb, notify, view, queued, later, pc, at, snap, current, ns, objs, amiss, seen,
              budget >>

Entries == {"reject", "admit", "pend", "advance", "provision", "cleanup"}

TypeOK ==
  /\ kb \in Record /\ view \in Record /\ snap \in Record
  /\ notify \in BOOLEAN /\ queued \in BOOLEAN /\ later \in BOOLEAN
  /\ pc \in Entries \cup {"idle", "createJob", "publish", "fail"}
  /\ at \in Nat /\ current \in BOOLEAN
  /\ ns \in {"absent", "active", "terminating"}
  /\ objs \in [Obj -> Specs \cup {None}]
  /\ amiss \subseteq Obj \cup {"namespace"}
  /\ seen \in [Lagging -> BOOLEAN]
  /\ budget \in Budget

Init ==
  /\ kb = Gone /\ view = Gone /\ snap = Gone
  /\ notify = FALSE /\ queued = FALSE /\ later = FALSE
  /\ pc = "idle" /\ at = 0 /\ current = FALSE
  /\ ns = "absent" /\ objs = [o \in Obj |-> None] /\ amiss = {}
  /\ seen = [o \in Lagging |-> FALSE]
  /\ budget = MaxBudget

Spend(what) ==
  /\ budget[what] > 0
  /\ budget' = [budget EXCEPT ![what] = @ - 1]

(***************************************************************************)
(* The API server and the caches.                                          *)
(***************************************************************************)

(* A write raises a watch event.  A status patch that changes no field but *)
(* lastReconcileTime raises one only when the clock has moved on a second. *)
Store(new) ==
  /\ kb' = new
  /\ IF new = kb THEN notify' \in {notify, TRUE} ELSE notify' = TRUE

Holds(o) == IF o = "namespace" THEN ns # "absent" ELSE objs[o] # None

(* It is there and not on its way out.                                     *)
Stands(o) == IF o = "namespace" THEN ns = "active" ELSE Holds(o)

(* What a Get through the manager's client answers.                        *)
Sees(o) == IF o \in Lagging THEN seen[o] ELSE Holds(o)

(* The API server refuses to create what exists, and to create anything in *)
(* a namespace that is absent or terminating.                              *)
Creatable(o) == ~Holds(o) /\ (InNamespace(o) => ns = "active")

Make(o) ==
  /\ IF o = "namespace"
     THEN ns' = "active" /\ UNCHANGED objs
     ELSE objs' = [objs EXCEPT ![o] = snap.spec] /\ UNCHANGED ns
  /\ amiss' = amiss \ {o}

(* Deleting a namespace only starts its termination.                       *)
Remove(o) ==
  IF o = "namespace"
  THEN ns' = (IF ns = "active" THEN "terminating" ELSE ns) /\ UNCHANGED objs
  ELSE objs' = [objs EXCEPT ![o] = None] /\ UNCHANGED ns

Erase(o) == Remove(o) /\ amiss' = amiss \ {o}

(* Left as it is because it seems to be there, or not to be.               *)
TakeAsThere(o) ==
  /\ amiss' = IF Stands(o) THEN amiss \ {o} ELSE IF Holds(o) THEN amiss ELSE amiss \cup {o}
  /\ UNCHANGED << ns, objs >>

TakeAsGone(o) ==
  /\ amiss' = IF Stands(o) THEN amiss \cup {o} ELSE amiss \ {o}
  /\ UNCHANGED << ns, objs >>

(***************************************************************************)
(* Users.                                                                  *)
(***************************************************************************)
(* What a pass has read is not the latest any more.                        *)
Outdate == current' = FALSE /\ UNCHANGED << pc, at, snap >>

CreateKB ==
  /\ ~kb.live
  /\ Spend("creates")
  /\ \E spec \in Specs : Store(Fresh(spec))
  /\ Outdate
  /\ UNCHANGED << control, cluster, seen >>

EditSpec ==
  /\ kb.live
  /\ Spend("edits")
  /\ \E spec \in Specs \ {kb.spec} : Store([kb EXCEPT !.spec = spec])
  /\ Outdate
  /\ UNCHANGED << control, cluster, seen >>

DeleteKB ==
  /\ kb.live /\ ~kb.deleting
  /\ Store(IF kb.finalizer THEN [kb EXCEPT !.deleting = TRUE] ELSE Gone)
  /\ Outdate
  /\ UNCHANGED << control, cluster, seen, budget >>

(***************************************************************************)
(* controller-runtime: informers, delayed queue, restart.                  *)
(***************************************************************************)

(* Faulty: an event for a key that is being worked on is not queued.       *)
DeliverToIdle ==
  /\ notify
  /\ view' = kb /\ notify' = FALSE /\ queued' = (queued \/ pc = "idle")
  /\ UNCHANGED << kb, later, worker, cluster, seen, budget >>

Deliver ==
  /\ notify
  /\ view' = kb /\ notify' = FALSE /\ queued' = TRUE
  /\ UNCHANGED << kb, later, worker, cluster, seen, budget >>

Timer ==
  /\ later
  /\ later' = FALSE /\ queued' = TRUE
  /\ UNCHANGED << server, view, worker, cluster, seen, budget >>

Observe ==
  \E o \in Lagging :
    /\ seen[o] # Holds(o)
    /\ seen' = [seen EXCEPT ![o] = Holds(o)]
    /\ UNCHANGED << server, control, worker, cluster, budget >>

(* A crash loses the queue and the pass; the restart lists everything.     *)
Crash ==
  /\ Spend("crashes")
  /\ view' = kb /\ notify' = FALSE
  /\ queued' = kb.live /\ later' = FALSE
  /\ pc' = "idle" /\ at' = 0 /\ snap' = Gone /\ current' = FALSE
  /\ seen' = [o \in Lagging |-> Holds(o)]
  /\ UNCHANGED << kb, cluster >>

(***************************************************************************)
(* The cluster.                                                            *)
(***************************************************************************)

(* The namespace controller empties a terminating namespace, then drops it. *)
Contents == {o \in Obj : InNamespace(o)}

NamespaceGone ==
  /\ ns = "terminating"
  /\ ns' = "absent"
  /\ objs' = [o \in Obj |-> IF o \in Contents THEN None ELSE objs[o]]
  /\ amiss' = IF "namespace" \in amiss THEN amiss \cup Contents ELSE amiss \ Contents
  /\ UNCHANGED << server, control, worker, seen, budget >>

(* The StatefulSet controller makes the volume claims.  "pvcs" are those   *)
(* that nobody has asked to delete: a claim in use outlives its deletion   *)
(* until its pod is gone, but nothing can keep it.                         *)
ClaimVolumes ==
  /\ ns = "active" /\ objs["pvcs"] = None
  /\ \E o \in Obj :
       /\ o \in {"qdrantStatefulSet", "postgresStatefulSet"} /\ Holds(o)
       /\ objs' = [objs EXCEPT !["pvcs"] = objs[o]]
       /\ amiss' = IF o \in amiss THEN amiss \cup {"pvcs"} ELSE amiss \ {"pvcs"}
  /\ UNCHANGED << server, control, worker, ns, seen, budget >>

Drift ==
  \E o \in Drifting :
    /\ Stands(o)
    /\ Spend("drift")
    /\ Remove(o)
    /\ amiss' = amiss \cup {o}
    /\ UNCHANGED << server, control, worker, seen >>

(***************************************************************************)
(* The worker.  A pass ends by going idle, with or without a requeue.      *)
(***************************************************************************)
Done(requeue) ==
  /\ pc' = "idle" /\ at' = 0 /\ snap' = Gone /\ current' = FALSE
  /\ later' = (later \/ requeue)
  /\ UNCHANGED << view, queued >>

Admission(v) == IF ValidSpec(v.spec) THEN "admit" ELSE "reject"

(* Faulty: a failed KnowledgeBase starts over.                             *)
ProgressRestartingFailed(v) ==
  IF v.phase \in {"", "Failed"} THEN "pend" ELSE "provision"

Progress(v) ==
  IF v.phase = "" THEN "pend" ELSE IF v.phase = "Pending" THEN "advance" ELSE "provision"

(* The branch of Reconcile that a KnowledgeBase takes.                     *)
Entry(v) ==
  IF v.deleting THEN "cleanup"
  ELSE IF v.finalizer THEN Progress(v) ELSE Admission(v)

Begin ==
  /\ pc = "idle" /\ queued
  /\ queued' = FALSE
  /\ IF view.live /\ (view.deleting => view.finalizer)
     THEN pc' = Entry(view) /\ at' = 1 /\ snap' = view /\ current' = ~notify
     ELSE UNCHANGED worker
  /\ UNCHANGED << server, view, later, cluster, seen, budget >>

(* An invalid spec is reported and dropped: no error, no requeue.          *)
Reject ==
  /\ pc = "reject"
  /\ IF kb.live THEN Store([kb EXCEPT !.phase = "Failed"]) ELSE UNCHANGED server
  /\ Done(FALSE)
  /\ UNCHANGED << cluster, seen, budget >>

(* EnsureFinalizer updates the object it was given: a conflict if the      *)
(* object has changed since the cache saw it.                              *)
Admit ==
  /\ pc = "admit"
  /\ IF current THEN Store([kb EXCEPT !.finalizer = TRUE]) ELSE UNCHANGED server
  /\ Done(TRUE)
  /\ UNCHANGED << cluster, seen, budget >>

Pend ==
  /\ pc = "pend" /\ kb.live
  /\ Store([kb EXCEPT !.phase = "Pending"])
  /\ Done(TRUE)
  /\ UNCHANGED << cluster, seen, budget >>

Advance ==
  /\ pc = "advance" /\ kb.live
  /\ Store([kb EXCEPT !.phase = "Provisioning"])
  /\ pc' = "provision" /\ current' = FALSE
  /\ UNCHANGED << at, snap, control, cluster, seen, budget >>

Proceed ==
  /\ at' = at + 1
  /\ pc' = IF at + 1 \in DOMAIN Provisioning THEN "provision" ELSE "publish"

AtStep(how) == pc = "provision" /\ Provisioning[at].how = how

Target == Provisioning[at].obj

(* buildHTTPRoute reads the port of the MCP server unconditionally.        *)
Buildable == Target = "httpRoute" => snap.spec.mcp

(* Whether the API server takes the write the pass is about to make.       *)
Accepted ==
  IF pc # "createJob" /\ Sees(Target)
  THEN AtStep("upsert") => Holds(Target)
  ELSE Creatable(Target)

EnsureObject ==
  /\ AtStep("ensure") /\ Accepted
  /\ IF Sees(Target) THEN TakeAsThere(Target) ELSE Make(Target)
  /\ Proceed
  /\ UNCHANGED << snap, current, server, control, seen, budget >>

UpsertObject ==
  /\ AtStep("upsert") /\ Accepted /\ Buildable
  /\ Make(Target)
  /\ Proceed
  /\ UNCHANGED << snap, current, server, control, seen, budget >>

(* The init job is there, running or succeeded: leave it.                  *)
KeepJob ==
  /\ AtStep("job") /\ Sees(Target)
  /\ TakeAsThere(Target)
  /\ Proceed
  /\ UNCHANGED << snap, current, server, control, seen, budget >>

(* It is there and has failed: delete it, then create it again.            *)
DropFailedJob ==
  /\ AtStep("job") /\ Sees(Target)
  /\ Erase(Target)
  /\ pc' = "createJob"
  /\ UNCHANGED << at, snap, current, server, control, seen, budget >>

CreateJob ==
  /\ (AtStep("job") /\ ~Sees(Target)) \/ pc = "createJob"
  /\ Accepted
  /\ Make(Target)
  /\ Proceed
  /\ UNCHANGED << snap, current, server, control, seen, budget >>

(* Faulty: without code sources the last answer stays.                     *)
ProbeHealthKeepingGraph ==
  /\ AtStep("probe")
  /\ \E vector \in ProbeResults,
        graph \in (IF HasCodeSources(snap.spec.sources) THEN ProbeResults
                                                       ELSE {snap.codeGraphReady}) :
       snap' = [snap EXCEPT !.vectorStoreReady = vector, !.codeGraphReady = graph]
  /\ Proceed
  /\ UNCHANGED << current, server, control, cluster, seen, budget >>

(* checkVectorStoreHealth and checkCodeGraphHealth set the in-memory       *)
(* status; without code sources the code graph is not asked.               *)
ProbeHealth ==
  /\ AtStep("probe")
  /\ \E vector \in ProbeResults,
        graph \in (IF HasCodeSources(snap.spec.sources) THEN ProbeResults ELSE {FALSE}) :
       snap' = [snap EXCEPT !.vectorStoreReady = vector, !.codeGraphReady = graph]
  /\ Proceed
  /\ UNCHANGED << current, server, control, cluster, seen, budget >>

(* Faulty: no requeue after success.                                       *)
PublishWithoutRequeue ==
  /\ pc = "publish" /\ kb.live
  /\ Store([kb EXCEPT !.phase = "Ready",
                      !.vectorStoreReady = snap.vectorStoreReady,
                      !.codeGraphReady = snap.codeGraphReady])
  /\ Done(FALSE)
  /\ UNCHANGED << cluster, seen, budget >>

Publish ==
  /\ pc = "publish" /\ kb.live
  /\ Store([kb EXCEPT !.phase = "Ready",
                      !.vectorStoreReady = snap.vectorStoreReady,
                      !.codeGraphReady = snap.codeGraphReady])
  /\ Done(TRUE)
  /\ UNCHANGED << cluster, seen, budget >>

(* The write is refused: AlreadyExists, NotFound, namespace terminating.   *)
Refuse ==
  /\ AtStep("ensure") \/ AtStep("upsert") \/ AtStep("job") \/ pc = "createJob"
  /\ ~Accepted
  /\ pc' = "fail"
  /\ UNCHANGED << at, snap, current, server, control, cluster, seen, budget >>

(* The nil dereference panics; controller-runtime recovers it into an      *)
(* error, and no status is written.                                        *)
Panic ==
  /\ AtStep("upsert") /\ ~Buildable
  /\ Done(TRUE)
  /\ UNCHANGED << server, cluster, seen, budget >>

(* Faulty: a phase the API does not know; the error not returned.          *)
ReportUnknownPhase ==
  /\ pc = "fail"
  /\ Store([kb EXCEPT !.phase = "Error"])
  /\ Done(TRUE)
  /\ UNCHANGED << cluster, seen, budget >>
ReportAndForget ==
  /\ pc = "fail"
  /\ IF kb.live THEN Store([kb EXCEPT !.phase = "Failed"]) ELSE UNCHANGED server
  /\ Done(FALSE)
  /\ UNCHANGED << cluster, seen, budget >>

(* A failed step reports phase Failed and returns its error.               *)
ReportFailure ==
  /\ pc = "fail"
  /\ IF kb.live THEN Store([kb EXCEPT !.phase = "Failed"]) ELSE UNCHANGED server
  /\ Done(TRUE)
  /\ UNCHANGED << cluster, seen, budget >>

(* Faulty: the error of a cleanup step is swallowed.                       *)
FaultSwallowedByCleanup ==
  /\ pc # "idle"
  /\ Spend("faults")
  /\ Done(pc \notin {"reject", "cleanup"})
  /\ UNCHANGED << server, cluster, seen >>

(* A call fails.  A step whose reply is lost is that step, followed by its *)
(* error here.  A failed write of a step is reported; a failed read or     *)
(* status write, a failed cleanup step and the pass's deadline end the     *)
(* pass as it stands, with an error: except the report of an invalid spec, *)
(* whose failure is only logged.  The conflict of an update made from a    *)
(* cached copy that is no longer the latest is one of these failures.      *)
Fault ==
  /\ pc # "idle"
  /\ Spend("faults")
  /\ \/ /\ pc \in {"provision", "createJob", "publish"}
        /\ pc' = "fail"
        /\ UNCHANGED << at, snap, current, control >>
     \/ Done(pc # "reject")
  /\ UNCHANGED << server, cluster, seen >>

CleanupStep ==
  /\ pc = "cleanup" /\ at \in DOMAIN Cleanup
  /\ IF Sees(Cleanup[at]) \/ Cleanup[at] \in DeletedUnread
     THEN Erase(Cleanup[at])
     ELSE TakeAsGone(Cleanup[at])
  /\ at' = at + 1
  /\ UNCHANGED << pc, snap, current, server, control, seen, budget >>

(* Faulty: the finalizer is removed without waiting for the steps.         *)
ReleaseAtOnce ==
  /\ pc = "cleanup"
  /\ IF current
     THEN Store(Gone) /\ Done(FALSE)
     ELSE UNCHANGED server /\ Done(TRUE)
  /\ UNCHANGED << cluster, seen, budget >>

(* After the last step the finalizer goes, and the object with it, unless  *)
(* the object has changed since the cache saw it.                          *)
Release ==
  /\ pc = "cleanup" /\ at \notin DOMAIN Cleanup
  /\ IF current
     THEN Store(Gone) /\ Done(FALSE)
     ELSE UNCHANGED server /\ Done(TRUE)
  /\ UNCHANGED << cluster, seen, budget >>

(***************************************************************************)
(* The specification.                                                      *)
(***************************************************************************)
WorkerStep ==
  \/ Begin \/ Reject \/ Admit \/ Pend \/ Advance
  \/ EnsureObject \/ UpsertObject \/ KeepJob \/ DropFailedJob \/ CreateJob
  \/ ProbeHealth \/ Publish \/ Refuse \/ Panic \/ ReportFailure \/ Fault
  \/ CleanupStep \/ Release

Next ==
  \/ CreateKB \/ EditSpec \/ DeleteKB
  \/ Deliver \/ Timer \/ Observe \/ Crash
  \/ NamespaceGone \/ ClaimVolumes \/ Drift
  \/ WorkerStep

Spec == Init /\ [][Next]_vars

(* The worker, the informers and the delayed queue keep running, and the   *)
(* namespace controller finishes; nobody has to create, edit, crash...     *)
Fairness ==
  /\ WF_vars(WorkerStep)
  /\ WF_vars(Deliver)
  /\ WF_vars(Timer)
  /\ WF_vars(Observe)
  /\ WF_vars(NamespaceGone)

FairSpec == Spec /\ Fairness

===============================================================================
