# KnowledgeBase controller: specification and proofs

A TLA+ development of the Kubernetes controller in this repository
(`controller/`, `main.go`), which turns `KnowledgeBase` custom resources into a
namespace with databases, services, event routing and an optional MCP server,
and takes all of it down again. TLC checks small instances; TLAPS proves
theorems for every instance.

All source lines are those of `controller/knowledgebase_controller.go` unless
another file is named.

## 1. The system

| Component | State | Operations | Speaks to | Module |
|---|---|---|---|---|
| **Reconcile** (58–472, 525–590) | none of its own between passes: the `KnowledgeBase` (spec, finalizer, deletion mark, status) and the cluster are its memory; within a pass, the in-memory `kb` | admission (validate, add finalizer), phases `""` → `Pending` → `Provisioning` → `Ready`/`Failed`, a pass of about 28 writes, deletion in 17 steps | API server through a caching client; status and finalizer helpers of `AphexControllerRuntime` | KnowledgeBase, KnowledgeBaseReconciler |
| **Provisioners** (`*_provisioner*.go`, `reconcile_helpers.go`) | objects of namespace `kb-<name>` and of the organization's namespace | get, then create or update | API server | Provisioners |
| **Repo mapping** (1027–1112) | one ConfigMap per organization, shared by its KnowledgeBases | read, modify, update | resolvers read it live | RepoMapping |
| **Event routing** (`trigger_provisioners.go`, `resolve_template.go`) | Trigger and TriggerTemplate in the organization's namespace | upsert, delete; at run time a push starts a resolver, which looks up the mapping and starts a sync in `kb-<name>` | Tekton | EventRouting |
| **Init job** (`init_job_provisioner.go`) | a Job with a container per store | create; keep; on a failed pod delete and create | job controller, Postgres, Qdrant | InitJob |
| **Health checks** (972–1025) | the two readiness fields of the in-memory status | two HTTP probes in each pass | query, graph and vector services | KnowledgeBaseReconciler, InitJob |
| **Names** (`helpers.go`) | none | which objects of several KnowledgeBases have one name | | Tenancy |
| **Runtime** (`main.go`, 1150–1164) | work queue with back-off, informer caches, leader lease | watch, requeue, restart | API server | KnowledgeBaseReconciler, RepoMapping |

Components interact through the API server only. The calls of a pass are
separate; between any two of them a user may create, edit or delete a
KnowledgeBase, the namespace controller may finish a deletion, another worker may
write the shared ConfigMap, a cache may catch up or stay behind, a call may fail
or lose its reply, the process may stop.

What is hard here:

* *stale state*: a pass acts on the KnowledgeBase an informer cached, and its
  upserts, the mapping's read-modify-write and the init job decide by cached reads;
* *partial failure and crashes*: no progress is recorded other than a phase, so
  every pass begins again, and cleanup repeats deletions that succeeded;
* *names reused*: a KnowledgeBase recreated while its predecessor's namespace is
  still terminating; an init job replaced by one of the same name;
* *names shared*: the mapping by design, `kb-<name>` by two KnowledgeBases of one
  name in two namespaces;
* *nothing is owned*: no owner references are set, so a lost object raises no
  event, and whatever cleanup leaves is left for good;
* *forgetting*: requeues are in memory, some errors are swallowed on purpose;
* *order*: events are routed as soon as three objects exist, whether or not what
  they start can run.

Correct means, per component: Reconcile neither forgets a KnowledgeBase nor sets
it back, publishes `Ready` only for what is built, converges to the last spec;
deletion is complete, is only ever asked for by the user, and ends; provisioners
leave no orphans; volumes outlive everything but a requested deletion; routed
events find what they need; concurrent changes of the mapping are atomic, and in
the end it gives each tracked repository to a KnowledgeBase that tracks it; a
failed init job runs again until it succeeds, and one that has not failed is left
alone; a KnowledgeBase does not take what belongs to another.

## 2. The modules

```
 KnowledgeBase   Provisioners      KnowledgeBaseContract    AtomicMapping
         \        /                        |                      |
    KnowledgeBaseReconciler                | INSTANCE             | INSTANCE
               |                           |                      |
     ReconcilerProperties -----------------+                 RepoMapping
        /            \                                       /         \
  MCReconciler   ReconcilerProofs               RepoMappingProofs   EventRouting
                      |                                      \      /          \
              ReconcilerWatchProofs                    EventRoutingProofs   MCEventRouting
                      |
              ReconcilerBuildProofs     KnowledgeBaseContractProofs (of KnowledgeBaseContract)

     InitJob                      Tenancy
      /    \                      /     \
 MCInitJob  InitJobProofs   MCTenancy   TenancyProofs
```

* **KnowledgeBase** – the resource: the part of the spec that decisions read,
  `ValidSpec` (`validateSpec`, 490–523), phases, and the record which the API
  server, the cache and the pass each hold. Branch names are members of a set,
  accepted or not; images, ports, replicas and paths decide nothing and are left
  out.
* **Provisioners** – the two programs as data. `Provisioning` is the sequence of
  writes of a pass, in the order of 145–437, each with the kind of write
  (*ensure*: create if absent; *upsert*: create or overwrite; *job*; *probe*).
  `Cleanup` is the sequence of deletions of 530–582, with the steps that delete
  two objects spelt out. What a builder puts into an object is abstracted to the
  spec it was built from: that is all that convergence asks about it.
  `OrgScoped` are the objects outside `kb-<name>`.
* **KnowledgeBaseReconciler** – `Reconcile` for the KnowledgeBase of one name.
  `kb` is the object at the API server, `notify` an undelivered watch event,
  `view` the cached object, `queued`/`later` the work queue and its delayed part,
  `pc`/`at`/`snap` the pass, `current` whether the copy it works on
  has the resource version of the object, `ns`/`objs` the cluster, `seen` the caches of lagging
  kinds, `budget` what the environment may still do. `amiss` is a history: see
  *Histories*. The KnowledgeBase stays in one organization (`OneOrganization`),
  because objects of the organization are not keyed by it here; Tenancy moves it.
* **KnowledgeBaseContract** – what is promised, with no controller in it: an
  owner that is absent, plain, held or leaving, and a footprint that is built
  only when held, cleared only when leaving, empty at the release, and with
  progress.
* **ReconcilerProperties** – the properties, and the refinement mapping
  (`Contract`).
* **RepoMapping** – the shared ConfigMap `data`, the informer's copy `cache`, and
  a worker per KnowledgeBase, each with the entries it is about to write (`copy`).
  Users choose what to track among the sets in `Choices`.
  A resource version decides one thing, whether a copy is still the latest:
  `current` says so of a pass, `fresh` of the cache. A write that changes nothing
  makes no new version, as at the API server. The rest of a pass is one step,
  except where EventRouting opens it. A pass that works on an outdated spec is one
  whose KnowledgeBase is edited after its `Begin`.
* **AtomicMapping** – what the mapping promises: whole claims and withdrawals.
* **EventRouting** – extends RepoMapping: databases before the mapping, template
  and trigger after it, each read through a cache (`view`) that may show nothing,
  an old version or the latest; pushes; resolvers, whose lookup (`runs` to `found`)
  and creation of a sync (`StartSync`) are two calls with anything in between.
* **InitJob** – the job at the API server and in the cache, its pod, the
  containers of deleted jobs (`strays`, a set: two in the same place do the same),
  the two scripts, the two stores, and the published `vectorStoreReady`. An attempt
  of a script fills its store or fails, whether or not the store answers.
* **Tenancy** – several KnowledgeBases with names and organizations, and the
  objects by the names they really get. The mapping of an organization has one
  entry for a repository, which goes to whoever writes last. Caches are left to the
  other modules.
* **MC** modules and `.cfg` files – instances for TLC; **Proofs** modules –
  theorems.

### Histories

The controller takes what its caches answer for the truth, and others may delete
its objects. Where such an answer is wrong, some object stays that should go, or is
missing that should be there, and no property of the controller can say otherwise.
Variables that no action reads record for which object that happened, so that the
properties can except it, and nothing but it:

| Variable | Holds | Until |
|---|---|---|
| `amiss` (KnowledgeBaseReconciler) | an object that a pass left alone because a lagging cache showed it wrongly, present or absent, or that others deleted | a pass writes it, deletes it or sees it as it is |
| `missed` (RepoMapping) | a KnowledgeBase whose cleanup was shown no data while it had entries | it writes the mapping again, or a cleanup of it finds nothing to pass over |
| `skipped` (EventRouting) | a trigger or template that a cleanup was not shown while it existed | it is written or deleted, or a cleanup rightly sees none |
| `outdated` (of a sync in EventRouting's `found`) | its KnowledgeBase has gone since the lookup, or the entry was one of `missed` | the sync is started or lost |
| `deserted` (Tenancy) | an organization and name that an edit moved a KnowledgeBase away from | for ever |
| `unlucky` (InitJob) | a store that went away under, or failed an attempt of, a script that had seen it answer | for ever |

Without the exceptions the properties are false of this code, and configurations
that show it stand beside the runs (section 4).

### Actions and code

| Action | Code |
|---|---|
| *KnowledgeBaseReconciler* | |
| `Begin` | 58–98: the cached read, the branch taken (`Entry`) |
| `Reject`, `Admit` | 99–117 |
| `Pend`, `Advance` | 119–143 |
| `EnsureObject` | `reconcileNamespace`, the service accounts: get, create if absent |
| `UpsertObject` | `upsertObject`, `upsertService` and the hand-written equivalents |
| `TakeAsThere`, `TakeAsGone` | what a pass leaves alone because a get shows it, or shows nothing (`helpers.go:44`, `reconcile_helpers.go:103`) |
| `KeepJob`, `DropFailedJob`, `CreateJob` | `reconcileInitJob`, `createInitJob` |
| `ProbeHealth` | 406–407, 972–1025 |
| `Publish` | 439–471, requeue after five minutes included |
| `Refuse`, `ReportFailure` | the API server refuses a write; the patch to `Failed` and the returned error that follow (145–156 and its repetitions) |
| `Panic` | `httproute_provisioner.go:72`, recovered by controller-runtime |
| `Fault` | a call fails, a reply is lost, the context expires (159–164, 409–414) |
| `CleanupStep`, `Release` | 525–590 |
| `CreateKB`, `EditSpec`, `DeleteKB` | users |
| `Deliver`, `Timer`, `Observe`, `Crash` | informers, queue, caches, restart |
| `NamespaceGone`, `ClaimVolumes`, `Drift` | namespace controller, StatefulSet controller, other people |
| *RepoMapping* | |
| `ReadMapping`, `CreateMapping`, `WriteMapping` | `reconcileRepoMapping` |
| `SkipUnmapping`, `ReadForCleanup`, `Unmap` | `cleanupRepoMapping` |
| `Without`, `With` | `removeEntriesForKnowledgeBase`, and the entries then set |
| `Refused` | AlreadyExists, Conflict: the pass fails and is retried |
| *EventRouting* | |
| `EnsureStores`, `DropStores` | the database provisioners and cleanups, `cleanupPVCs` |
| `PutTemplate`, `PutTrigger`, `PutRefused` | `reconcileTriggerTemplate`, `reconcileTrigger`, and what the API server refuses of them |
| `DropTrigger`, `DropTemplate`, `PassOver` | `cleanupTriggers`; `PassOver` is its return on a cached NotFound (155, 172 of `trigger_provisioners.go`) |
| `Push` | the CEL filter of `buildTrigger` |
| `Resolve`, `StartSync`, `LoseSync` | the two calls of the script of `resolve_template.go` |
| *InitJob* | |
| `Read`, `DeleteJob`, `CreateJob`, `Refused` | `reconcileInitJob`, `createInitJob` |
| `Probe` | `checkVectorStoreHealth` |
| `Script`, `Attempt`, `RunOwn`, `RunStray` | `postgresCommand`, `qdrantCommand`: wait, one try, exit with 0 |
| `ContainerRestarts`, `PodFails`, `Succeed` | the restart policy and back-off limit that `buildInitJob` sets, and the job controller |
| *Tenancy* | |
| `Begin` … `Finish`, `DropStores` … `Release` | the steps of both programs that touch what names share |
| `KeyOf`, `Name` | `infraNamespace`, trigger, template and mapping names |

A failed call that took effect (a lost reply) is the step followed by `Fault` at
the next one.

### What is assumed of code outside the repository

* API server: creates of what exists and creates into an absent or terminating
  namespace are refused; deleting a namespace terminates it, and the object goes
  once it is empty, which is one step here; an object with a finalizer is only
  marked by a delete; an update carrying a resource version is taken only if that
  is the present one. A mounted volume claim outlives its delete until its pod is
  gone (pvc-protection); `pvcs` are the claims nobody has asked to delete, since
  nothing can take a delete back. The conflict of an update of a single object made
  from an outdated cached copy is one of the failures of `Fault`; conflicts on the
  mapping, on template and trigger and on the finalizer have their own actions.
* `FinalizerHelper`: `EnsureFinalizer` and the removal of the finalizer are
  updates of the object read, refused when it has changed since (`current`; what a
  pass reads is the latest version exactly when no watch event is outstanding).
  `HandleDeletionWithSteps` runs the steps in order and stops at the first error.
* `StatusHelper`: `PatchStatus` patches the named object whatever its version.
  `Pend`, `Advance` and `Publish` therefore need only that the object exists. It
  does: only the worker itself removes the finalizer.
* controller-runtime: one worker per key, several keys at a time, a de-duplicating
  queue, errors and panics requeued with back-off, a full list after a restart. A
  delivery shows the cache the latest state; a state in between is seen if it is
  delivered in between.
  How long back-off and `RequeueAfter` last is left out.
* Typed kinds are read through informer caches, which may lag. `Lagging` names those
  that do in an instance, any typed kinds in the theorems; RepoMapping's ConfigMap
  always does. `ExternalSecret` and `HTTPRoute` are unstructured, and the manager's
  client reads unstructured objects from the API server (`LaggingAssumption`).
* Tekton: a push that passes a trigger's filter starts the tasks of its template;
  the task runs later, once, or not at all. A TaskRun needs its namespace, and fails
  without being tried again.
* Job controller: a background deletion removes the job at once and its pods
  some time later; a job counts its failed pods and is complete when a pod's
  containers have all exited with 0.
* Health endpoints answer anything in `ProbeResults`.

## 3. What is checked

| Run | Instance | Properties |
|---|---|---|
| `lifecycle` | one spec, two lives of the name, one failed call, fairness | `TypeOK`, `GuardedByFinalizer`, `RoutedSyncCanStart`, `ReadyIsHonest`, `VolumesKept`, `ImplementsContract`, `DeletionCompletes` |
| `edits` | a code, an MCP-less and an invalid spec, one edit, one crash, fairness | `NeverForgotten`, `NoSetback`, `ReportsAreUpToDate`, `Converges` |
| `repairs` | the namespace or the trigger is deleted by somebody while the cache of triggers lags, fairness | `GuardedByFinalizer`, `RoutedSyncCanStart`, `Converges` |
| `routing` | two KnowledgeBases, two repositories, one of them pushed to, an edit, a failed call or crash, a lagging ConfigMap | `RoutingTypeOK`, `EntriesAreTracked`, `MappedHaveStores`, `AppearsAtomic`, `WritesAreOwn`, `SyncsServeTrackers` |
| `routing_settles` | the same with a lagging cache of triggers for the failed call and the pushes, fairness | `TriggersHaveTemplates`, `RoutingSettles` |
| `init_job` | one failed pod or container, one outage, one failed call, failing attempts, fairness | `TypeOK`, `UndisturbedWithoutFailure`, `SuccessMeansFilled`, `JobSettles`, `Initialises` |
| `tenants` | three KnowledgeBases, two of one name, two of one repository, two organizations, two creations, a move, a failed call, fairness | `TypeOK`, `OthersUntouched`, `NothingLeftBehind`, `SurvivorRecovers` |

* `GuardedByFinalizer` – while the namespace is active or an object of the
  organization exists, the KnowledgeBase exists and has its finalizer: no orphan but
  an object that a cleanup was itself not shown.
* `RoutedSyncCanStart` – whenever trigger, template and mapping entry all exist,
  the namespace and the RBAC of the TaskRuns they start exist too, but for those in
  `amiss`.
* `ReadyIsHonest` – a pass about to write `Ready` has every object in place, the
  overwritten ones built from its spec, in a namespace that is not terminating, but
  for those in `amiss`.
* `VolumesKept` – volumes vanish only under a requested deletion, by the controller's
  doing.
* `ImplementsContract` – refinement of `KnowledgeBaseContract`, with its fairness:
  things are cleared and the finalizer released.
* `DeletionCompletes` – a requested deletion ends.
* `NeverForgotten` – with nothing queued, timed or undelivered, the KnowledgeBase
  is gone or was refused.
* `NoSetback` – no pass sets a KnowledgeBase back to the first phases.
* `ReportsAreUpToDate` – a `Ready` reported with no event on its way and nothing
  queued is that of the present spec: nobody will come and correct it.
* `Converges` – with the environment quiet, a KnowledgeBase in service becomes and
  stays `Ready`, built from its present spec, with no code graph claimed when it
  has no code sources.
* `AppearsAtomic` – refinement of `AtomicMapping`: no concurrent read-modify-write
  loses or brings back an entry of another, and who parts has no entries left. A
  KnowledgeBase in `missed` has not parted from the mapping, though it is gone.
* `WritesAreOwn` – a write changes the entries of one KnowledgeBase: it gains what
  its pass has read, loses its own, and takes nothing else from anybody.
* `EntriesAreTracked` – from its write to its end a pass leaves no entry of a
  repository that the spec it read does not track; no concurrent write of another
  brings one back.
* `MappedHaveStores` – what is mapped to a KnowledgeBase in service has databases;
  only entries of `missed` can meet a later KnowledgeBase before it has any.
* `TriggersHaveTemplates` – no interruption leaves a trigger without its template; a
  cleanup that was not shown the trigger does, since it goes on to the template.
* `SyncsServeTrackers` – however late a resolver runs, the sync it starts is of a
  KnowledgeBase that has tracked the repository in its present life, unless what it
  had found was outdated.
* `RoutingSettles` – after conflicts, edits, failures and deletions, filters,
  templates and mapping agree with the specs that remain, deletions are over, and of
  the departed nothing is left but what is in `missed` and `skipped`.
  With two trackers of one repository the mapping goes on changing hands; it
  names one of them.
* `UndisturbedWithoutFailure` – a job is deleted only if some pod has failed.
* `SuccessMeansFilled` – a job that counts as succeeded has filled each store that has
  let no script down.
* `JobSettles` – in the end a job has succeeded and stays.
* `Initialises` – and in the end each such store is filled.
* `OthersUntouched` – a KnowledgeBase without a namesake loses nothing to others,
  except a repository to one that is there and tracks it too.
* `NothingLeftBehind` – at no time is there a namespace that belongs to nobody, nor an
  entry, trigger or template, except where an edit deserted it.
* `SurvivorRecovers` – of two namesakes, the one that is left gets everything back that
  nobody else has taken.

Every property has in `PROJECT.json` a mutant, a plausible bug of the mapped
definition, under which its run fails; the mutated forms stand before the
definitions they replace and are marked *Faulty*.

### Bounds

`MaxBudget` (`Max` in InitJob) bounds what the environment does: creations, edits,
failures, crashes, losses. The controller's own steps, deletions, deliveries and
requeues are not bounded.

*One KnowledgeBase.* Two creations are needed for a successor to meet a
terminating namespace, a stale view, or leftovers; a third meets nothing new,
since a release leaves only the namespace, the view and what `amiss` holds behind.
One fault or crash can strike at any of the roughly 55 places of a pass, after which
the next pass starts from what it finds, without memory of why. One edit can come
between any two steps of a pass; the safety half of `edits` is proved for any number.
No cache of an object lags in `lifecycle` and `edits`, that of triggers does in
`repairs` and `stale_orphan`: a cache answers about its own kind only, and the
theorems about the same properties hold for every set of lagging kinds. One spec
suffices where properties do not compare specs; otherwise specs differ in sources, agent and MCP, all that the branches of the
code test. `ProbeResults` is `{TRUE}`, the answer that makes a stale readiness
visible; the code branches on no answer.

*Several.* Two KnowledgeBases make every conflict on the ConfigMap: a pass is
outdated by any other's write, whoever made it. Two repositories make an edit
that keeps one and drops one; `Choices` are one of them or both, so that two
KnowledgeBases always share one. Failed calls and crashes draw on one budget.
`Pushed` bounds the events to one repository; `tracked`, a history variable, is kept
for that one. `routing` has no lagging cache of triggers and templates, and
`routing_settles`, which has one of triggers, no failed call, for the number of
states; both theorems about `TriggersHaveTemplates` and the mapping have everything. Symmetry of the
KnowledgeBases is used in `routing`, which checks safety only. In `tenants` two
creations among three KnowledgeBases give pairs with and without a common name, and
one pair with different names and a common repository. In `init_job` one failed pod
suffices for a replaced job, a stray and a stale copy of either; failing attempts
are not bounded.

Deadlock checking is off where the system does stop: when the KnowledgeBases are
gone and the budget is used up, nothing is left to do. InitJob never stops, and is
checked for deadlock.

### Fairness

`FairSpec` adds weak fairness of the worker, of deliveries, timers and caches and
of the namespace controller: controller-runtime runs a queued key, delivers what
it watches and fires its timers; the namespace controller is part of a working
cluster. The worker's steps share one condition, since one step is always
the next; where steps compete (`KeepJob` with `DropFailedJob`) none is promised.
`RoutingFairSpec` has one condition per KnowledgeBase, because each has its own
worker as long as there are fewer keys than `MaxConcurrentReconciles`, and its
turn in the queue otherwise; one for the informer of ConfigMaps and one for those of triggers and
templates. InitJob's has passes, the
informer, containers, the job controller, and stores that come up. Pods of
deleted jobs need not run and need not be collected.

Users, failures, crashes and losses need not happen, and are finitely many by
the budget: liveness is about what follows once they stop. A cluster whose calls
fail for ever has no such claim. Nor has a large number of KnowledgeBases that
track one repository: each pass of one changes the ConfigMap and outdates the
others' copies, so with three or more, two could keep a third from ever writing.
With two, `routing_settles` shows that both come through.

## 4. Where code and documents disagree

| Run | Shows |
|---|---|
| `optional_mcp` | `.kiro/specs/scip-knowledge-integration/requirements.md:13` promises "Optional MCP server provisioning"; a KnowledgeBase without MCP panics in every pass in `buildHTTPRoute` (`httproute_provisioner.go:72`), which reads `kb.Spec.MCP.Port` unconditionally. It never becomes `Ready` and no status says why. |
| `readiness_on_failure` | Line 100 of the same file wants the readiness field false when reconciliation fails; the failure patches (148 and its repetitions) write phase, message and time only, so a `Failed` KnowledgeBase keeps claiming ready stores. |
| `invalid_edit` | The flow of `design.md:110` validates first; the code validates only before the finalizer is there (99), so an edit that `validateSpec` would refuse is provisioned and reported `Ready`. |
| `stale_orphan` | `TestProperty_TriggerCleanupRemovesOnlyOwnedResources` (`knowledgebase_controller_test.go:1329`) wants the trigger gone after the cleanup; `cleanupTrigger` takes a cached NotFound for absence (`trigger_provisioners.go:155`), so a KnowledgeBase deleted right after its trigger was created leaves it behind for good. The property, `NoOrphans`, is `GuardedByFinalizer` without its exception. |
| `unpopulated` | `requirements.md:86` wants `vectorStoreReady` "when the vector store is accessible and populated"; the script exits with 0 whatever its `curl -X PUT` did, be the store away or answering with an error (`init_job_provisioner.go:93`, 101), the job counts as succeeded and is never run again, and the probe asks `/healthz` (975). |

`optional_mcp` and `unpopulated` are liveness properties, refuted under fairness.

### Further configurations

Five more configurations ask questions whose answer is known to be no, beyond
what documents or tests state. They mark the edges of what section 5 proves: each
property is one of section 3 without its exception, or with a stronger demand.

| Configuration | Property | TLC finds |
|---|---|---|
| `MCMissedMapping.cfg` (MCEventRouting) | `NoOrphanEntry` | cleanup, shown a cache from before the ConfigMap was made (1084), skips it; the entries stay |
| `MCLateSync.cfg` (MCEventRouting) | `SyncsAlwaysServeTrackers` | between a resolver's lookup and its create, the KnowledgeBase it found is deleted and another of that name created, which does not track the repository |
| `MCSharedRepository.cfg` (MCEventRouting) | `EachSourceMapsToItsTracker` | of two trackers of one repository only one is mapped, whichever wrote last (1058); the test of the mapping's entries (`knowledgebase_controller_test.go:915`) knows one KnowledgeBase |
| `MCMovedOrganization.cfg` (MCTenancy) | `MovesLeaveNothingBehind` | an edit of `spec.organization` leaves entries, trigger and template in the old organization's namespace |
| `MCSharedNamespace.cfg` (MCTenancy) | `OrganizationsIsolated` | two KnowledgeBases of one name share `kb-<name>` (`helpers.go:32`); deleting one takes the other's databases. `TestProperty_MultiOrgNamespaceIsolation` gives every KnowledgeBase a name of its own |

## 5. What is proved

All for every value of the constants: any set of specs, KnowledgeBases,
repositories, names; any budget.

| Theorem | States |
|---|---|
| *ReconcilerProofs* | |
| `TypeCorrect` | `TypeOK` |
| `NothingOrphaned` | `GuardedByFinalizer` |
| *ReconcilerWatchProofs* | |
| `NobodyIsForgotten` | `NeverForgotten` |
| `NobodyIsSetBack` | `NoSetback` |
| *ReconcilerBuildProofs* | |
| `VolumesAreKept` | `VolumesKept` |
| `ReadyIsEarned` | `ReadyIsHonest` |
| `ReportsAreCurrent` | `ReportsAreUpToDate` |
| `RoutedSyncsCanStart` | `RoutedSyncCanStart` |
| `ContractIsKept` | initial states are those of `KnowledgeBaseContract`; each step is one of its steps, a stutter, or `Drift` |
| *KnowledgeBaseContractProofs* | |
| `NothingOutlivesItsOwner` | of the contract alone: `Accounted`, `CleanHandover` |
| *RepoMappingProofs* | |
| `TypeCorrect` | `TypeOK` |
| `WritesTouchTheirOwn` | `WritesAreOwn` |
| `NoEntryReturns` | `EntriesAreTracked` |
| `UpdatesAreAtomic` | `AppearsAtomic` |
| *EventRoutingProofs* | |
| `ImplementsMapping` | `RoutingSpec => Spec` of RepoMapping |
| `RoutingTypeCorrect` | `RoutingTypeOK` |
| `TriggersAreServed` | `TriggersHaveTemplates` |
| `RoutesAreServed` | `MappedHaveStores` |
| `SyncsAreWanted` | `SyncsServeTrackers` |
| `RoutingWritesAreOwn` | `WritesAreOwn`, `EntriesAreTracked` of the composition |
| `RoutingIsAtomic` | `AppearsAtomic` of the composition |
| *InitJobProofs* | |
| `TypeCorrect`, `SlowStartsAreLeftAlone` | `TypeOK`, `UndisturbedWithoutFailure` |
| `SuccessIsReal` | `SuccessMeansFilled` |
| *TenancyProofs* | |
| `TypeCorrect`, `NoNamesakeSuffices` | `TypeOK`, `OthersUntouched` |
| `UniqueNamesIsolate` | `OrganizationsIsolated`, if no two KnowledgeBases have one name |
| `LastOneTidiesUp` | `NothingLeftBehind` |

### Assumptions

No theorem but `UniqueNamesIsolate` has a hypothesis beside the assumptions of its
modules: `None` is no spec, `Nobody` no KnowledgeBase, `Lagging` a set of typed
kinds and `Drifting` one of objects, all specs are of one organization, probes answer
Booleans, budgets are natural numbers. In particular no theorem assumes that a cache
is up to date or that nobody deletes behind the controller: any typed kind may lag,
any object may be lost, at any time. What that costs is in the properties, object by
object, through the histories of section 2. It costs no more than it must: a wrong
answer about one object does no harm to another. Nor does it cost less than it
must: without the exceptions `stale_orphan`, `MCMissedMapping.cfg`,
`MCLateSync.cfg`, `MCMovedOrganization.cfg` and `unpopulated` refute what the
theorems say.

That all specs are of one organization leaves out of KnowledgeBaseReconciler an edit
of `spec.organization`, after which the objects of the old organization are out of
the controller's sight. Tenancy has that edit, and its theorems hold with it.

### Arguments

*Orphans.* `GuardedByFinalizer` is not inductive: the worker acts on `view`, and when
the finalizer goes the deletions lie in the past. `FinalizerInv` adds `BuildsHeld`
(while a pass builds, the KnowledgeBase is held), `ClearedSoFar` (behind a cleanup pass
everything up to its place is `Cleared`: gone, on its way out, or in `amiss`; at the
release that is everything, by `CleanupOrder`), `ViewIsSafe` (a view in service implies
that the KnowledgeBase is held; a deleting view, or a pass of cleanup, that it is not in
service), and `DeletingIsHeld`, `AdmitIsSafe`.

*Forgetting.* `WatchInv`: the cache is up to date or about to be told
(`ViewIsWatched`), so who ends without a requeue is called again unless the refusal
it has just made still stands (`RejectIsWatched`).

*Setbacks.* `CacheInv`: a pass whose copy is current has read what the cache shows,
and no event is outstanding (`CurrentIsLatest`), so a write that is not refused is
one of the latest version. `PhaseInv`: while the cache shows a KnowledgeBase that was
just admitted, nobody has got further (`YoungIsEarly`), because only the worker
advances it and its next pass begins with that cache; and who was admitted was
valid and is not refused later (`HeldIsNotRefused`).

*Volumes.* `StoresInv` adds three facts. In a namespace that is not active, unless
that is in `amiss`, no volumes are left but those in `amiss`, and no external
secret, the object that is written second and read live (`EmptyUnlessUp`,
`LostIsGone`): a pass that gets past it has met an active namespace, whatever its
cache said of the namespace. And the volumes of nobody are in `amiss`, or their
namespace is (`UnheldVolumes`). Volumes vanish by a cleanup step, of a KnowledgeBase
that is deleting by `FinalizerInv`, or with the namespace, which comes later.

*Ready, and routes.* `BuildInv`: behind the place of a provisioning pass, once it is
past the external secret, the namespace is `Up`, and everything is `There`, built from
the pass's spec, or in `amiss` (`BuiltSoFar`, `JobIsThere`); a trigger implies the
rights of its tasks (`RouteIsGranted`), because it comes after them and goes before
them. A pass changes one object at a time (`OneThingAtATime`), so the proof asks of
each action what it does to that one. That the trigger comes last is a fact about two
sequences of about 28 and 24 elements. It is proved from their parts: `Carries`,
`ShortPrograms` and `RoutableIsComplete` say what a program continued keeps of its
prefix, `ProvisioningOrder` and `CleanupOrder` what follows for the two programs.

*Reports.* What a pass has read is the present spec unless an event or the queue says
otherwise (`PassIsCurrent`): an edit, a deletion or a new KnowledgeBase raises the event
in the same step that makes the copy outdated, and a delivery queues the key. With
`BuiltAtPublish` and the answer of the probe (`GraphIsProbed`) that makes `Settled`, but
for `amiss`. This is the safety kernel of `Converges`: the last report is a true one.

*Contract.* `ContractInv` adds `CleansLeaving`; by `CacheInv` the release is that of
the KnowledgeBase whose cleanup was run. One lemma per group of actions shows
what it does to owner and `Footprint` (`Allowed`), and `AllowedSteps` that this is a
step of the contract or a stutter. What a cleanup passes over leaves the footprint
with that step, by the mapping; what others delete leaves it in the step `Drift`,
which the contract does not have.

*Mapping.* `ClaimsInv`: a fresh cache equals the server's copy (`CacheIsFresh`), and
a pass whose copy is current is about to write its claim applied to the present
entries (`CopiesAreClaims`), so a write taken is an atomic claim (`WritesAreClaims`).
That gives `WritesAreOwn` and `EntriesAreTracked`. `MappingInv` adds that behind the
mapping step of a cleanup no entry is left, and none without an owner, unless its
KnowledgeBase is in `missed` (`UnmappedHaveNone`, `EntriesOwned`). The refinement
counts those among the members of `AtomicMapping`: it shows a withdrawal that was
skipped as one that has not happened yet.

*Routing.* `RoutingStepMaps` shows every step to be a step of RepoMapping or a
stutter, so its invariant and its theorems carry over. `TemplateAroundTrigger` - within
a pass the template stands before the trigger comes, and the trigger is gone, or in
`skipped`, before the template goes - is inductive with the types and the property
itself. `RoutingInv` adds it, `StoresBeforeMapping`, `TrackedCovers` (sources, the spec
of a running pass, and entries that are not `missed` are of the present life) and
`FoundAreTracked` (so is what a resolver has found, until it is outdated).

*Init job.* `NoFailureSeen`: as long as the budget of failures is whole, neither the
job nor its cached copy has a failure, and no pass is at its deletion.
`ScriptsAreEarned`: of a store that has let no script down, a container past its wait
has it up, and one that has exited has filled it; no step empties a store.

*Tenancy.* `CleansUpLeaving` – cleanup is only run for who is leaving – and, for a
KnowledgeBase without a namesake, that only its own steps write under its name.
`KeepInv`: whatever stands under a name has a keeper, a KnowledgeBase that is there
and whose pass has not got past the step that takes it away (`SpacesHaveKeepers`,
`EntriesHaveKeepers`, `RoutesHaveKeepers`). The invariant names no particular one:
namesakes may take things from each other, and the last to leave is the keeper.
Who builds or cleans up works where its spec says, or where an edit has moved it
away from (`PassesAreAtHome`). An entry of a KnowledgeBase without a namesake changes
hands only by a write of one that tracks the repository and is there.

On the instances of section 3 TLC finds each of these invariants to hold.

## 6. What is only model-checked

Liveness: the fairness of `ImplementsContract`,
`DeletionCompletes`, `Converges`, `RoutingSettles`, `JobSettles`, `Initialises`,
`SurvivorRecovers`. Liveness under fairness, like `ENABLED`, is
outside the prover's reach. Of three of them the safe half is proved: the contract's
steps (`ContractIsKept`), that the last report of `Converges` is true
(`ReportsAreCurrent`), that the success of `Initialises` is real (`SuccessIsReal`).

Every invariant and every action property that a passing run checks is proved.

## 7. Not modelled

* `status.mcp` (449–453, 954–960): a report of replicas and endpoint that no decision and no
  document relies on.
* The `else` branch with `cleanupMCPServer` (431–437): a KnowledgeBase without an
  MCP section panics in `buildHTTPRoute` earlier in the same pass.
* The credentials in trigger templates: a sync is a repository and a KnowledgeBase.
* Messages and timestamps; `lastReconcileTime` survives as the watch event that a
  status patch without other changes may raise.
* Leader election, the rate limiter's delays and the process's own health probes:
  libraries, wired in `main.go`, whose flags and metrics carry no state.
* `ensureHelpers` (475): concurrent assignments of equal values.
* The builders' literal contents, names, labels, images and ports
  (`infra_constants.go`, most of `helpers.go`): formatting, which the repository's
  own property tests already exercise as pure functions. That names coincide is
  modelled, by Tenancy.
* `manifests/`, `Dockerfile`, `Makefile`, CI: deployment data.
