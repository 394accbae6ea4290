----------------------------- MODULE InitJobProofs -----------------------------
(***************************************************************************)
(* Theorems about InitJob, for every bound on what goes wrong.             *)
(***************************************************************************)
EXTENDS InitJob, TLAPS

USE DEF cluster, stores

(* Every action keeps the types.                                           *)
LEMMA TypeStep == ASSUME TypeOK, [Next]_vars PROVE TypeOK'
<1> USE DEF TypeOK
<1>s. ASSUME NEW what, Spend(what) PROVE budget' \in Budget
  BY <1>s DEF Spend, Budget
<1>f. FreshJob \in Job /\ FreshPod \in Pod
  BY DEF FreshJob, FreshPod, Job, Pod
<1>1. CASE Read
  BY <1>1 DEF Read
<1>2. CASE DeleteJob
  <2>1. strays' \subseteq Stray
    BY <1>2 DEF DeleteJob
  <2> QED
    BY <1>2, <2>1 DEF DeleteJob
<1>3. CASE CreateJob
  BY <1>3, <1>f, NoneAssumption DEF CreateJob
<1>4. CASE Refused
  BY <1>4 DEF Refused
<1>5. CASE Probe
  BY <1>5 DEF Probe, Stores
<1>6. CASE Fault
  BY <1>6, <1>s DEF Fault
<1>7. CASE Observe
  BY <1>7 DEF Observe
<1>8. CASE Succeed
  <2>1. job' \in Job
    BY <1>8 DEF Succeed, Job
  <2> QED
    BY <1>8, <2>1 DEF Succeed
<1>9. CASE PodFails
  <2>1. job' \in Job
    BY <1>9 DEF PodFails, Job
  <2> QED
    BY <1>9, <1>f, <1>s, <2>1, NoneAssumption DEF PodFails
<1>10. ASSUME NEW c \in Stray, RunStray(c) PROVE TypeOK'
  <2>1. strays' \subseteq Stray
    BY <1>10 DEF RunStray
  <2>2. filled' \in [Stores -> BOOLEAN] /\ unlucky' \subseteq Stores
    BY <1>10 DEF RunStray, Script, Attempt, Stray
  <2> QED
    BY <1>10, <2>1, <2>2 DEF RunStray
<1>11. ASSUME NEW c \in Stray, CollectStray(c) PROVE TypeOK'
  BY <1>11 DEF CollectStray
<1>12. ASSUME NEW s \in Stores, RunOwn(s) PROVE TypeOK'
  <2>1. PICK next \in {"ready", "exited"} :
          Script(s, own[s], next) /\ own' = [own EXCEPT ![s] = next]
    BY <1>12 DEF RunOwn
  <2>2. filled' \in [Stores -> BOOLEAN] /\ unlucky' \subseteq Stores
    BY <2>1 DEF Script, Attempt
  <2>3. own' \in Pod /\ job # NoJob
    BY <1>12, <2>1 DEF RunOwn, Pod
  <2> QED
    BY <1>12, <2>2, <2>3 DEF RunOwn
<1>13. ASSUME NEW s \in Stores, ContainerRestarts(s) PROVE TypeOK'
  <2>1. own' \in Pod /\ job # NoJob
    BY <1>13 DEF ContainerRestarts, Pod
  <2> QED
    BY <1>13, <1>s, <2>1 DEF ContainerRestarts
<1>14. ASSUME NEW s \in Stores, StoreUp(s) \/ StoreDown(s) PROVE TypeOK'
  BY <1>14, <1>s DEF StoreUp, StoreDown
<1>15. CASE UNCHANGED vars
  BY <1>15 DEF vars
<1> QED
  BY <1>1, <1>2, <1>3, <1>4, <1>5, <1>6, <1>7, <1>8, <1>9, <1>10, <1>11, <1>12, <1>13, <1>14,
     <1>15 DEF Next, PassStep

(* Initially they are right.                                               *)
LEMMA TypeInit == Init => TypeOK
  BY MaxAssumption DEF Init, TypeOK, Stray, Stores

(* Every variable keeps its type: in particular only a present job has a   *)
(* pod, whichever jobs are deleted, collected and created again.           *)
THEOREM TypeCorrect == Spec => []TypeOK
  BY TypeInit, TypeStep, PTL DEF Spec

(***************************************************************************)
(* UndisturbedWithoutFailure.  As long as no pod has failed, no reading of *)
(* the job, however old, shows a failure, and no pass is on its way to     *)
(* delete.                                                                 *)
(***************************************************************************)
NoFailureSeen ==
  /\ budget.failures =< Max.failures
  /\ budget.failures = Max.failures =>
       /\ job # NoJob => ~job.failed
       /\ cache # NoJob => ~cache.failed
       /\ pc # "delete"

(* Who fails spends the budget, and nobody gives it back.                  *)
LEMMA NoFailureSeenStep == ASSUME TypeOK, NoFailureSeen, [Next]_vars PROVE NoFailureSeen'
<1> USE DEF NoFailureSeen
<1>b. budget.failures \in Nat /\ Max.failures \in Nat
  BY MaxAssumption DEF TypeOK, Budget
<1>1. CASE PodFails \/ \E s \in Stores : ContainerRestarts(s)
  <2>1. budget.failures > 0 /\ budget' = [budget EXCEPT !.failures = @ - 1]
    BY <1>1 DEF PodFails, ContainerRestarts, Spend
  <2>2. budget'.failures = budget.failures - 1
    BY <2>1 DEF TypeOK, Budget
  <2> QED
    BY <1>b, <2>2
<1>2. ASSUME Spend("faults") \/ Spend("outages") PROVE budget'.failures = budget.failures
  BY <1>2 DEF Spend, TypeOK, Budget
<1>3. CASE Fault
  BY <1>2, <1>3 DEF Fault
<1>4. CASE \E s \in Stores : StoreDown(s)
  BY <1>2, <1>4 DEF StoreDown
<1>5. CASE Read
  <2>1. ~(cache # NoJob /\ cache.failed) => pc' # "delete"
    <3>1. CASE cache = NoJob
      BY <1>5, <3>1 DEF Read, TypeOK, Job
    <3>2. CASE cache # NoJob /\ cache.succeeded
      BY <1>5, <3>2 DEF Read, TypeOK, Job
    <3>3. CASE cache # NoJob /\ ~cache.succeeded /\ ~cache.failed
      BY <1>5, <3>3 DEF Read, TypeOK, Job
    <3> QED
      BY <3>1, <3>2, <3>3
  <2> QED
    BY <1>5, <2>1 DEF Read
<1>6. CASE DeleteJob \/ Refused \/ Probe
  BY <1>6 DEF DeleteJob, Refused, Probe
<1>7. CASE CreateJob
  BY <1>7 DEF CreateJob, FreshJob
<1>8. CASE Observe
  BY <1>8 DEF Observe
<1>9. CASE Succeed
  <2>1. job # NoJob /\ job'.failed = job.failed
    BY <1>9 DEF Succeed, TypeOK, Job
  <2> QED
    BY <1>9, <2>1 DEF Succeed
<1>10. CASE \/ \E c \in Stray : RunStray(c) \/ CollectStray(c)
            \/ \E s \in Stores : RunOwn(s) \/ StoreUp(s)
            \/ UNCHANGED vars
  <2>1. UNCHANGED << job, cache, pc, budget >>
    BY <1>10 DEF RunStray, CollectStray, RunOwn, StoreUp, vars
  <2> QED
    BY <2>1
<1> QED
  BY <1>1, <1>3, <1>4, <1>5, <1>6, <1>7, <1>8, <1>9, <1>10 DEF Next, PassStep

(* However slow the databases are to come up and however stale the cache,  *)
(* an init job of which no pod has failed is never deleted by a pass that  *)
(* finds it unfinished.                                                    *)
THEOREM SlowStartsAreLeftAlone == Spec => UndisturbedWithoutFailure
<1>1. Init => NoFailureSeen
  BY MaxAssumption DEF Init, NoFailureSeen, Budget
<1>2. TypeOK /\ NoFailureSeen /\ [Next]_vars
        => [job # NoJob /\ job' = NoJob => budget.failures < Max.failures]_vars
  <2> SUFFICES ASSUME TypeOK, NoFailureSeen, [Next]_vars, job # NoJob, job' = NoJob
               PROVE  budget.failures < Max.failures
    OBVIOUS
  <2>1. pc = "delete"
    <3>1. CASE PodFails \/ Succeed
      <4>1. job' \in Job
        BY <3>1 DEF PodFails, Succeed, TypeOK, Job
      <4> QED
        BY <4>1, NoneAssumption
    <3>2. CASE CreateJob
      BY <3>2 DEF CreateJob
    <3>3. CASE DeleteJob
      BY <3>3 DEF DeleteJob
    <3>4. CASE \/ Read \/ Refused \/ Probe \/ Fault \/ Observe \/ UNCHANGED vars
               \/ \E c \in Stray : RunStray(c) \/ CollectStray(c)
               \/ \E s \in Stores : RunOwn(s) \/ ContainerRestarts(s) \/ StoreUp(s) \/ StoreDown(s)
      BY <3>4 DEF Read, Refused, Probe, Fault, Observe, vars, RunStray, CollectStray, RunOwn,
         ContainerRestarts, StoreUp, StoreDown
    <3> QED
      BY <3>1, <3>2, <3>3, <3>4 DEF Next, PassStep
  <2>2. budget.failures \in Nat /\ Max.failures \in Nat
    BY MaxAssumption DEF TypeOK, Budget
  <2> QED
    BY <2>1, <2>2 DEF NoFailureSeen
<1> QED
  BY <1>1, <1>2, NoFailureSeenStep, TypeCorrect, PTL DEF Spec, UndisturbedWithoutFailure

(***************************************************************************)
(* SuccessMeansFilled.  A container that has found its store ready finds   *)
(* it ready still, and one that has exited has filled it, unless the store *)
(* has let a script down; what is full stays full.                         *)
(***************************************************************************)
Done(s) == filled[s] \/ s \in unlucky

ScriptsAreEarned ==
  own # NoPod =>
    \A s \in Stores :
      /\ own[s] = "ready" => up[s] \/ s \in unlucky
      /\ own[s] = "exited" => Done(s)

(* No step empties a store, and no misfortune is forgotten.                *)
LEMMA StoresStep ==
  ASSUME TypeOK, [Next]_vars, NEW s \in Stores
  PROVE  /\ Done(s) => Done(s)'
         /\ s \in unlucky => s \in unlucky'
<1> USE DEF TypeOK, Done
<1>1. ASSUME NEW c \in Stray, RunStray(c)
      PROVE  (filled[s] => filled'[s]) /\ unlucky \subseteq unlucky'
  BY <1>1 DEF RunStray, Script, Attempt, Stray
<1>2. ASSUME NEW r \in Stores, RunOwn(r)
      PROVE  (filled[s] => filled'[s]) /\ unlucky \subseteq unlucky'
  BY <1>2 DEF RunOwn, Script, Attempt
<1>3. ASSUME NEW r \in Stores, StoreUp(r) \/ StoreDown(r)
      PROVE  filled' = filled /\ unlucky \subseteq unlucky'
  BY <1>3 DEF StoreUp, StoreDown
<1>4. CASE \/ PassStep \/ Fault \/ Observe \/ Succeed \/ PodFails \/ UNCHANGED vars
           \/ \E c \in Stray : CollectStray(c)
           \/ \E r \in Stores : ContainerRestarts(r)
  BY <1>4 DEF PassStep, Read, DeleteJob, CreateJob, Refused, Probe, Fault, Observe, Succeed,
     PodFails, vars, CollectStray, ContainerRestarts
<1> QED
  BY <1>1, <1>2, <1>3, <1>4 DEF Next

(* A container advances only on what it finds at its store, and a store    *)
(* that goes away under it is on record.                                   *)
LEMMA ScriptsStep == ASSUME TypeOK, ScriptsAreEarned, [Next]_vars PROVE ScriptsAreEarned'
<1> DEFINE Earned(s) == /\ own[s] = "ready" => up[s] \/ s \in unlucky
                        /\ own[s] = "exited" => Done(s)
<1> SUFFICES ASSUME own' # NoPod, NEW s \in Stores PROVE Earned(s)'
  BY DEF ScriptsAreEarned
<1>k. (Done(s) => Done(s)') /\ (s \in unlucky => s \in unlucky')
  BY StoresStep
<1>0. own # NoPod => Earned(s)
  BY DEF ScriptsAreEarned
<1>1. CASE own' = FreshPod
  BY <1>1 DEF FreshPod
<1>2. CASE own' = own /\ (up[s] => up'[s])
  BY <1>2, <1>0, <1>k
<1>3. ASSUME NEW r \in Stores, RunOwn(r) PROVE Earned(s)'
  <2>1. PICK next \in {"ready", "exited"} :
          Script(r, own[r], next) /\ own' = [own EXCEPT ![r] = next]
    BY <1>3 DEF RunOwn
  <2>2. own \in Pod /\ own # NoPod /\ up' = up
    BY <1>3 DEF RunOwn, TypeOK
  <2>3. CASE s # r
    BY <2>1, <2>2, <2>3, <1>0, <1>k DEF Pod
  <2>4. CASE s = r
    <3>1. own'[s] = next
      BY <2>1, <2>2, <2>4 DEF Pod
    <3>2. CASE own[r] = "waiting"
      BY <3>1, <3>2, <2>1, <2>2, <2>4 DEF Script
    <3>3. CASE own[r] = "ready"
      <4>1. (up[s] \/ s \in unlucky) /\ next = "exited" /\ Attempt(s)
        BY <3>3, <2>1, <2>2, <2>4, <1>0 DEF Script
      <4>2. Done(s)'
        BY <4>1, <1>k DEF Attempt, TypeOK, Done
      <4> QED
        BY <3>1, <4>1, <4>2
    <3> QED
      BY <3>2, <3>3, <2>1 DEF Script
  <2> QED
    BY <2>3, <2>4
<1>4. ASSUME NEW r \in Stores, ContainerRestarts(r) PROVE Earned(s)'
  <2>1. own \in Pod /\ own # NoPod /\ own' = [own EXCEPT ![r] = "waiting"] /\ up' = up
    BY <1>4 DEF ContainerRestarts, TypeOK
  <2> QED
    BY <2>1, <1>0, <1>k DEF Pod
<1>5. CASE PodFails \/ Succeed \/ CreateJob \/ DeleteJob
  BY <1>5, <1>1 DEF PodFails, Succeed, CreateJob, DeleteJob
<1>6. CASE \/ Read \/ Refused \/ Probe \/ Fault \/ Observe \/ UNCHANGED vars
           \/ \E c \in Stray : RunStray(c) \/ CollectStray(c)
           \/ \E r \in Stores : StoreUp(r)
  BY <1>6, <1>2 DEF Read, Refused, Probe, Fault, Observe, vars, RunStray, CollectStray, StoreUp,
     TypeOK
<1>7. ASSUME NEW r \in Stores, StoreDown(r) PROVE Earned(s)'
  <2>1. own' = own /\ up' = [up EXCEPT ![r] = FALSE]
    BY <1>7 DEF StoreDown
  <2>2. CASE r = s /\ own[s] = "ready"
    <3>1. s \in unlucky'
      BY <1>7, <2>1, <2>2 DEF StoreDown, Relied
    <3> QED
      BY <3>1, <2>1, <2>2
  <2>3. CASE r # s
    BY <2>1, <2>3, <1>2 DEF TypeOK
  <2>4. CASE own[s] # "ready"
    BY <2>1, <2>4, <1>0, <1>k
  <2> QED
    BY <2>2, <2>3, <2>4
<1> QED
  BY <1>3, <1>4, <1>5, <1>6, <1>7 DEF Next, PassStep

(* A job succeeds only when both its containers have exited.               *)
LEMMA SuccessStep ==
  ASSUME TypeOK, ScriptsAreEarned, SuccessMeansFilled, [Next]_vars PROVE SuccessMeansFilled'
<1> SUFFICES ASSUME job' # NoJob, job'.succeeded, NEW s \in Stores PROVE Done(s)'
  BY DEF SuccessMeansFilled, Done
<1>s. Done(s) => Done(s)'
  BY StoresStep
<1>1. CASE job # NoJob /\ job.succeeded
  BY <1>1, <1>s DEF SuccessMeansFilled, Done
<1>2. CASE Succeed
  <2>1. own # NoPod /\ own[s] = "exited"
    BY <1>2 DEF Succeed
  <2> QED
    BY <2>1, <1>s DEF ScriptsAreEarned
<1>3. CASE CreateJob \/ DeleteJob
  BY <1>3 DEF CreateJob, DeleteJob, FreshJob
<1>4. CASE PodFails
  <2>1. job # NoJob /\ job'.succeeded = job.succeeded
    BY <1>4 DEF PodFails, TypeOK, Job
  <2> QED
    BY <2>1, <1>1
<1>5. CASE \/ Read \/ Refused \/ Probe \/ Fault \/ Observe \/ UNCHANGED vars
           \/ \E c \in Stray : RunStray(c) \/ CollectStray(c)
           \/ \E r \in Stores : RunOwn(r) \/ ContainerRestarts(r) \/ StoreUp(r) \/ StoreDown(r)
  BY <1>5, <1>1 DEF Read, Refused, Probe, Fault, Observe, vars, RunStray, CollectStray, RunOwn,
     ContainerRestarts, StoreUp, StoreDown
<1> QED
  BY <1>2, <1>3, <1>4, <1>5 DEF Next, PassStep

(* Whatever pods fail, containers restart, stores come and go and jobs are *)
(* replaced on a stale reading: a job that counts as succeeded has filled  *)
(* each of its stores, or that store has gone away under a script that had *)
(* seen it answer or refused an attempt, for which the scripts' exit code  *)
(* of 0 hides the failure.                                                 *)
THEOREM SuccessIsReal == Spec => []SuccessMeansFilled
<1>1. Init => ScriptsAreEarned /\ SuccessMeansFilled
  BY DEF Init, ScriptsAreEarned, SuccessMeansFilled
<1>2. TypeOK /\ ScriptsAreEarned /\ SuccessMeansFilled /\ [Next]_vars
        => (ScriptsAreEarned /\ SuccessMeansFilled)'
  BY ScriptsStep, SuccessStep
<1> QED
  BY <1>1, <1>2, TypeCorrect, PTL DEF Spec

================================================================================
