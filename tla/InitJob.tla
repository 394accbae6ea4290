------------------------------- MODULE InitJob -------------------------------
(***************************************************************************)
(* The init job of one KnowledgeBase: reconcileInitJob in pass after pass, *)
(* the job controller and the pods, of the present job and of deleted      *)
(* ones, the two scripts of buildInitJob, the databases they fill, and the *)
(* health check that publishes vectorStoreReady.                           *)
(***************************************************************************)
EXTENDS Naturals

CONSTANTS
  NoJob,  \* no Job of that name
  NoPod,  \* the job has no pod
  Max     \* the bounds on what goes wrong

Budget == [failures : Nat, outages : Nat, faults : Nat]

ASSUME MaxAssumption == Max \in Budget

Stores == {"postgres", "qdrant"}

(* A pod has a container for each store: it waits for the store, finds it  *)
(* ready, tries to fill it, and exits.                                     *)
Pod == [Stores -> {"waiting", "ready", "exited"}]
Stray == [store : Stores, stage : {"waiting", "ready"}]
Job == [failed : BOOLEAN, succeeded : BOOLEAN]

ASSUME NoneAssumption == NoJob \notin Job /\ NoPod \notin Pod

FreshPod == [s \in Stores |-> "waiting"]
FreshJob == [failed |-> FALSE, succeeded |-> FALSE]

VARIABLES
  job,     \* status of the Job at the API server
  cache,   \* what the informer cache holds of it
  own,     \* its pod
  strays,  \* containers that deleted jobs have left running: store, stage
  up,      \* the store answers
  filled,  \* it holds the schema, the collection
  pc,      \* where the pass is
  vectorStoreReady,  \* as published
  budget,  \* what may still go wrong
  unlucky  \* history: the stores that have let a script down after its look

stores == << up, filled, unlucky >>
cluster == << own, strays, stores >>
vars == << job, cache, cluster, pc, vectorStoreReady, budget >>

TypeOK ==
  /\ job \in Job \cup {NoJob} /\ cache \in Job \cup {NoJob}
  /\ own \in Pod \cup {NoPod} /\ (own # NoPod => job # NoJob)
  /\ strays \subseteq Stray
  /\ up \in [Stores -> BOOLEAN] /\ filled \in [Stores -> BOOLEAN]
  /\ pc \in {"read", "delete", "create", "probe"}
  /\ vectorStoreReady \in BOOLEAN
  /\ budget \in Budget
  /\ unlucky \subseteq Stores

Init ==
  /\ job = NoJob /\ cache = NoJob /\ own = NoPod /\ strays = {}
  /\ up = [s \in Stores |-> FALSE] /\ filled = [s \in Stores |-> FALSE]
  /\ pc = "read" /\ vectorStoreReady = FALSE
  /\ budget = Max /\ unlucky = {}

Spend(what) ==
  /\ budget[what] > 0
  /\ budget' = [budget EXCEPT ![what] = @ - 1]

(***************************************************************************)
(* The controller.                                                         *)
(***************************************************************************)

(* Faulty: a job is left alone as long as it exists.                       *)
ReadWithoutRetry ==
  /\ pc = "read"
  /\ pc' = IF cache = NoJob THEN "create" ELSE "probe"
  /\ UNCHANGED << job, cache, cluster, vectorStoreReady, budget >>

(* Faulty: whatever has not succeeded yet is replaced.                     *)
ReadImpatiently ==
  /\ pc = "read"
  /\ pc' = IF cache = NoJob THEN "create" ELSE IF cache.succeeded THEN "probe" ELSE "delete"
  /\ UNCHANGED << job, cache, cluster, vectorStoreReady, budget >>

(* Absent: create it.  Failed and not succeeded since: replace it.         *)
Read ==
  /\ pc = "read"
  /\ pc' = IF cache = NoJob THEN "create"
           ELSE IF cache.failed /\ ~cache.succeeded THEN "delete" ELSE "probe"
  /\ UNCHANGED << job, cache, cluster, vectorStoreReady, budget >>

(* Faulty: the pod goes on as if it still had a job.                       *)
DeleteJobKeepingPod ==
  /\ pc = "delete"
  /\ job' = NoJob
  /\ pc' = "create"
  /\ UNCHANGED << cache, cluster, vectorStoreReady, budget >>

(* By name and in the background: whichever job it is now, its containers  *)
(* run until they are collected.  NotFound is fine.                        *)
DeleteJob ==
  /\ pc = "delete"
  /\ job' = NoJob
  /\ own' = NoPod
  /\ strays' = strays \cup {c \in Stray : own # NoPod /\ own[c.store] = c.stage}
  /\ pc' = "create"
  /\ UNCHANGED << cache, stores, vectorStoreReady, budget >>

CreateJob ==
  /\ pc = "create" /\ job = NoJob
  /\ job' = FreshJob /\ own' = FreshPod
  /\ pc' = "probe"
  /\ UNCHANGED << cache, strays, stores, vectorStoreReady, budget >>

(* AlreadyExists: the pass fails.                                          *)
Refused ==
  /\ pc = "create" /\ job # NoJob
  /\ pc' = "read"
  /\ UNCHANGED << job, cache, cluster, vectorStoreReady, budget >>

(* checkVectorStoreHealth asks the server for its health, nothing else.    *)
Probe ==
  /\ pc = "probe"
  /\ vectorStoreReady' = up["qdrant"]
  /\ pc' = "read"
  /\ UNCHANGED << job, cache, cluster, budget >>

(* A call fails, or the controller crashes and lists everything anew.      *)
Fault ==
  /\ Spend("faults")
  /\ pc' = "read"
  /\ cache' \in {cache, job}
  /\ UNCHANGED << job, cluster, vectorStoreReady >>

Observe ==
  /\ cache # job
  /\ cache' = job
  /\ UNCHANGED << job, cluster, pc, vectorStoreReady, budget >>

(***************************************************************************)
(* Pods and stores.                                                        *)
(***************************************************************************)

(* The one attempt of a script: the store is filled, or psql or curl fails *)
(* at a store that answers (credentials, a missing database, an HTTP       *)
(* error), or nobody is there.                                             *)
Attempt(s) ==
  \/ up[s] /\ filled' = [filled EXCEPT ![s] = TRUE] /\ UNCHANGED unlucky
  \/ up[s] /\ unlucky' = unlucky \cup {s} /\ UNCHANGED filled
  \/ ~up[s] /\ UNCHANGED << filled, unlucky >>

(* Faulty: the script does not wait for its store.                         *)
ScriptWithoutWaiting(s, stage, next) ==
  \/ stage = "waiting" /\ next = "ready" /\ UNCHANGED << filled, unlucky >>
  \/ stage = "ready" /\ next = "exited" /\ Attempt(s)

(* The scripts of postgresCommand and qdrantCommand: both wait until the   *)
(* store answers, try once to fill it, which changes nothing in a store    *)
(* that is full, and exit with 0 whatever came of the attempt.             *)
Script(s, stage, next) ==
  \/ stage = "waiting" /\ up[s] /\ next = "ready" /\ UNCHANGED << filled, unlucky >>
  \/ stage = "ready" /\ next = "exited" /\ Attempt(s)

RunOwn(s) ==
  /\ own # NoPod
  /\ \E next \in {"ready", "exited"} :
       Script(s, own[s], next) /\ own' = [own EXCEPT ![s] = next]
  /\ UNCHANGED << job, cache, strays, up, pc, vectorStoreReady, budget >>

RunStray(c) ==
  /\ c \in strays
  /\ \E next \in {"ready", "exited"} :
       /\ Script(c.store, c.stage, next)
       /\ strays' = (strays \ {c}) \cup (Stray \cap {[c EXCEPT !.stage = next]})
  /\ UNCHANGED << job, cache, own, up, pc, vectorStoreReady, budget >>

CollectStray(c) ==
  /\ c \in strays
  /\ strays' = strays \ {c}
  /\ UNCHANGED << job, cache, own, stores, pc, vectorStoreReady, budget >>

Succeed ==
  /\ own # NoPod /\ \A s \in Stores : own[s] = "exited"
  /\ job' = [job EXCEPT !.succeeded = TRUE]
  /\ own' = NoPod
  /\ UNCHANGED << cache, strays, stores, pc, vectorStoreReady, budget >>

(* The pod is lost: the job starts another, or has reached its limit.      *)
PodFails ==
  /\ own # NoPod
  /\ Spend("failures")
  /\ job' = [job EXCEPT !.failed = TRUE]
  /\ own' \in {FreshPod, NoPod}
  /\ UNCHANGED << cache, strays, stores, pc, vectorStoreReady >>

(* RestartPolicyOnFailure: a killed container begins again in its pod.     *)
ContainerRestarts(s) ==
  /\ own # NoPod /\ own[s] = "ready"
  /\ Spend("failures")
  /\ own' = [own EXCEPT ![s] = "waiting"]
  /\ UNCHANGED << job, cache, strays, stores, pc, vectorStoreReady >>

StoreUp(s) ==
  /\ ~up[s]
  /\ up' = [up EXCEPT ![s] = TRUE]
  /\ UNCHANGED << job, cache, own, strays, filled, unlucky, pc, vectorStoreReady, budget >>

(* A script has seen the store answer and has yet to use it.               *)
Relied(s) ==
  \/ own # NoPod /\ own[s] = "ready"
  \/ [store |-> s, stage |-> "ready"] \in strays

StoreDown(s) ==
  /\ up[s]
  /\ Spend("outages")
  /\ up' = [up EXCEPT ![s] = FALSE]
  /\ unlucky' = IF Relied(s) THEN unlucky \cup {s} ELSE unlucky
  /\ UNCHANGED << job, cache, own, strays, filled, pc, vectorStoreReady >>

(***************************************************************************)
(* The specification.                                                      *)
(***************************************************************************)
PassStep == Read \/ DeleteJob \/ CreateJob \/ Refused \/ Probe

Next ==
  \/ PassStep \/ Fault \/ Observe
  \/ Succeed \/ PodFails
  \/ \E c \in Stray : RunStray(c) \/ CollectStray(c)
  \/ \E s \in Stores : RunOwn(s) \/ ContainerRestarts(s) \/ StoreUp(s) \/ StoreDown(s)

Spec == Init /\ [][Next]_vars

(* Passes come again and again, the informer catches up, pods run, the     *)
(* job controller counts them, and stores come up.                         *)
FairSpec ==
  /\ Spec
  /\ WF_vars(PassStep) /\ WF_vars(Observe) /\ WF_vars(Succeed)
  /\ \A s \in Stores : WF_vars(RunOwn(s)) /\ WF_vars(StoreUp(s))

(***************************************************************************)
(* Properties.                                                             *)
(***************************************************************************)

(* The job is started over only if a pod has failed; a start without       *)
(* failures is never disturbed, however slow the stores and however stale  *)
(* the cache (reconcileInitJob waits for a running job).                   *)
UndisturbedWithoutFailure ==
  [][job # NoJob /\ job' = NoJob => budget.failures < Max.failures]_vars

(* Whatever pods fail, give up, linger as strays or are replaced on a      *)
(* stale reading, in the end a job has succeeded and stays                 *)
(* (reconcileInitJob).                                                     *)
JobSettles == <>[](job # NoJob /\ job.succeeded)

(* A job that counts as succeeded has filled each of its stores, whichever *)
(* of its pods and containers came to what, unless that store has let a    *)
(* script down after its look: it went away, or the attempt at it failed,  *)
(* and the script exits with 0 all the same (buildInitJob).                *)
SuccessMeansFilled ==
  job # NoJob /\ job.succeeded => \A s \in Stores : filled[s] \/ s \in unlucky

(* And each store is filled in the end, under the same condition.          *)
Initialises == \A s \in Stores : <>[](filled[s] \/ s \in unlucky)

(* Requirement 4.4: vectorStoreReady is true when the vector store is      *)
(* accessible and populated.  It would have to become so for good.         *)
ReadyMeansPopulated == <>[](vectorStoreReady => filled["qdrant"])

==============================================================================
