------------------------- MODULE ReconcilerWatchProofs -------------------------
(***************************************************************************)
(* Theorems about the KnowledgeBase and its stale copies, for every        *)
(* instance of KnowledgeBaseReconciler: none is lost sight of, and none is *)
(* set back to the phases it has left.                                     *)
(***************************************************************************)
EXTENDS ReconcilerProofs

USE DEF server, control, worker, cluster, Outdate

(***************************************************************************)
(* NeverForgotten.  Whoever ends a pass without a requeue relies on the    *)
(* watch, so what counts is whether the cache is behind or about to be     *)
(* told.                                                                   *)
(***************************************************************************)
ViewIsWatched == notify \/ view = kb

RejectIsWatched ==
  pc = "reject" => notify \/ queued \/ ~kb.live \/ (~kb.finalizer /\ ~ValidSpec(kb.spec))

WatchInv == DeletingIsHeld /\ ViewIsWatched /\ RejectIsWatched /\ NeverForgotten

(* A write raises a watch event, or changes nothing.                       *)
LEMMA StoreIsWatched ==
  ASSUME TypeOK, ViewIsWatched, NEW new, Store(new), view' = view
  PROVE  ViewIsWatched' /\ (notify' \/ (kb' = kb /\ ~notify))
  BY DEF Store, TypeOK, ViewIsWatched

(* Nothing is forgotten by a pass that will come again, nor by one that    *)
(* goes on.                                                                *)
LEMMA PassIsWatched ==
  ASSUME later' \/ queued' \/ pc' \notin {"idle", "reject"}, pc' # "reject"
  PROVE  RejectIsWatched' /\ NeverForgotten'
  BY DEF RejectIsWatched, NeverForgotten

(* A pass that holds the latest version has read what there is, and the    *)
(* cache shows it.                                                         *)
CurrentIsLatest ==
  current => ~notify /\ (pc \in {"admit", "cleanup"} => kb = snap)

CacheInv == ViewIsWatched /\ CurrentIsLatest

(* Whoever changes the KnowledgeBase outdates the pass, and is announced.  *)
LEMMA CacheStep == ASSUME TypeOK, CacheInv, [Next]_vars PROVE CacheInv'
<1> USE DEF CacheInv
<1>1. CASE CreateKB \/ EditSpec \/ DeleteKB
  <2>1. UNCHANGED view /\ ~current' /\ \E new : Store(new)
    BY <1>1 DEF CreateKB, EditSpec, DeleteKB
  <2> QED
    BY <2>1, StoreIsWatched DEF CurrentIsLatest
<1>2. CASE Deliver
  BY <1>2 DEF Deliver, ViewIsWatched, CurrentIsLatest
<1>3. CASE Crash
  BY <1>3 DEF Crash, ViewIsWatched, CurrentIsLatest
<1>4. CASE Begin
  BY <1>4 DEF Begin, ViewIsWatched, CurrentIsLatest, TypeOK
<1>5. CASE Reject \/ Admit \/ Pend \/ Publish \/ ReportFailure \/ Release \/ Panic
  <2>1. (\E b : Done(b)) /\ (UNCHANGED server \/ \E new : Store(new))
    BY <1>5 DEF Reject, Admit, Pend, Publish, ReportFailure, Release, Panic
  <2>2. UNCHANGED view /\ ~current'
    BY <2>1 DEF Done
  <2> QED
    BY <2>1, <2>2, StoreIsWatched DEF ViewIsWatched, CurrentIsLatest
<1>6. CASE Advance
  <2>1. UNCHANGED view /\ ~current' /\ \E new : Store(new)
    BY <1>6 DEF Advance
  <2> QED
    BY <2>1, StoreIsWatched DEF CurrentIsLatest
<1>7. CASE Fault
  <2>1. UNCHANGED << server, view >> /\ (~current' \/ (pc' = "fail" /\ UNCHANGED current))
    BY <1>7 DEF Fault, Done
  <2> QED
    BY <2>1 DEF ViewIsWatched, CurrentIsLatest
<1>8. CASE \/ EnsureObject \/ UpsertObject \/ KeepJob \/ DropFailedJob \/ CreateJob
           \/ ProbeHealth \/ Refuse
  <2>1. UNCHANGED << server, view, current >>
        /\ pc' \in {"provision", "publish", "createJob", "fail"}
    BY <1>8 DEF EnsureObject, UpsertObject, KeepJob, DropFailedJob, CreateJob, ProbeHealth,
       Refuse, Proceed
  <2> QED
    BY <2>1 DEF ViewIsWatched, CurrentIsLatest
<1>9. CASE \/ Timer \/ Observe \/ NamespaceGone \/ ClaimVolumes \/ Drift \/ CleanupStep
           \/ UNCHANGED vars
  <2>1. UNCHANGED << server, view, current, pc, snap >>
    BY <1>9 DEF Timer, Observe, NamespaceGone, ClaimVolumes, Drift, CleanupStep, vars
  <2> QED
    BY <2>1 DEF ViewIsWatched, CurrentIsLatest
<1> QED
  BY <1>1, <1>2, <1>3, <1>4, <1>5, <1>6, <1>7, <1>8, <1>9 DEF Next, WorkerStep

(* Initially there is nothing to be seen.                                  *)
LEMMA CacheInit == Init => CacheInv
  BY DEF Init, CacheInv, ViewIsWatched, CurrentIsLatest

(* What is being deleted stays held until it is gone.                      *)
LEMMA DeletingIsHeldStep ==
  ASSUME TypeOK, DeletingIsHeld, [Next]_vars PROVE DeletingIsHeld'
<1> USE DEF DeletingIsHeld, Held
<1>1. CASE CreateKB
  <2>1. PICK spec \in Specs : kb' = Fresh(spec)
    BY <1>1 DEF CreateKB, Store
  <2> QED
    BY <2>1 DEF Fresh, Blank
<1>2. CASE EditSpec
  <2>1. PICK spec \in Specs : kb' = [kb EXCEPT !.spec = spec]
    BY <1>2 DEF EditSpec, Store
  <2> QED
    BY <2>1 DEF TypeOK, Record
<1>3. CASE DeleteKB
  <2>1. CASE kb.finalizer
    BY <1>3, <2>1 DEF DeleteKB, Store, TypeOK, Record
  <2>2. CASE ~kb.finalizer
    BY <1>3, <2>2 DEF DeleteKB, Store, Gone, Blank
  <2> QED
    BY <2>1, <2>2
<1>4. CASE Reject \/ ReportFailure
  <2>1. kb' = kb \/ kb' = [kb EXCEPT !.phase = "Failed"]
    BY <1>4 DEF Reject, ReportFailure, Store
  <2> QED
    BY <2>1 DEF TypeOK, Record
<1>5. CASE Admit
  <2>1. kb' = kb \/ kb' = [kb EXCEPT !.finalizer = TRUE]
    BY <1>5 DEF Admit, Store
  <2> QED
    BY <2>1 DEF TypeOK, Record
<1>6. CASE Pend \/ Advance
  <2>1. kb' = [kb EXCEPT !.phase = "Pending"] \/ kb' = [kb EXCEPT !.phase = "Provisioning"]
    BY <1>6 DEF Pend, Advance, Store
  <2> QED
    BY <2>1 DEF TypeOK, Record
<1>7. CASE Publish
  BY <1>7 DEF Publish, Store, TypeOK, Record
<1>8. CASE Release
  <2>1. kb' = kb \/ kb' = Gone
    BY <1>8 DEF Release, Store
  <2>2. ~Gone.deleting
    BY DEF Gone, Blank
  <2> QED
    BY <2>1, <2>2
<1>9. ASSUME \/ Deliver \/ Timer \/ Observe \/ Crash \/ NamespaceGone \/ ClaimVolumes \/ Drift
             \/ Begin \/ EnsureObject \/ UpsertObject \/ KeepJob \/ DropFailedJob \/ CreateJob
             \/ ProbeHealth \/ Refuse \/ Panic \/ Fault \/ CleanupStep \/ UNCHANGED vars
      PROVE  kb' = kb
  BY <1>9 DEF Deliver, Timer, Observe, Crash, NamespaceGone, ClaimVolumes, Drift, Begin,
     EnsureObject, UpsertObject, KeepJob, DropFailedJob, CreateJob, ProbeHealth, Refuse, Panic,
     Fault, CleanupStep, vars
<1> QED
  BY <1>1, <1>2, <1>3, <1>4, <1>5, <1>6, <1>7, <1>8, <1>9 DEF Next, WorkerStep

(* Every action keeps the watch or the queue aware.                        *)
LEMMA WatchStep ==
  ASSUME TypeOK, WatchInv, [Next]_vars
  PROVE  ViewIsWatched' /\ RejectIsWatched' /\ NeverForgotten'
<1> USE DEF WatchInv
<1>1. CASE CreateKB \/ EditSpec \/ DeleteKB
  <2>1. UNCHANGED << control, pc, at, snap >> /\ \E new : Store(new)
    BY <1>1 DEF CreateKB, EditSpec, DeleteKB
  <2>2. ViewIsWatched' /\ (notify' \/ (kb' = kb /\ ~notify))
    BY <2>1, StoreIsWatched
  <2> QED
    BY <2>1, <2>2 DEF RejectIsWatched, NeverForgotten
<1>2. CASE Deliver
  BY <1>2 DEF Deliver, ViewIsWatched, RejectIsWatched, NeverForgotten
<1>3. CASE Timer
  BY <1>3 DEF Timer, ViewIsWatched, RejectIsWatched, NeverForgotten
<1>4. CASE Crash
  BY <1>4 DEF Crash, ViewIsWatched, RejectIsWatched, NeverForgotten
<1>5. CASE Observe \/ NamespaceGone \/ ClaimVolumes \/ Drift \/ UNCHANGED vars
  <2>1. UNCHANGED << server, control, worker >>
    BY <1>5 DEF Observe, NamespaceGone, ClaimVolumes, Drift, vars
  <2> QED
    BY <2>1 DEF ViewIsWatched, RejectIsWatched, NeverForgotten
<1>6. CASE Begin
  <2>1. UNCHANGED << server, view, later >>
    BY <1>6 DEF Begin
  <2>2. ViewIsWatched'
    BY <2>1 DEF ViewIsWatched
  <2>3. CASE notify
    BY <2>1, <2>2, <2>3 DEF RejectIsWatched, NeverForgotten
  <2>4. CASE ~notify /\ ~(view.live /\ (view.deleting => view.finalizer))
    <3>1. ~kb.live
      BY <2>4 DEF ViewIsWatched, DeletingIsHeld, Held
    <3> QED
      BY <2>1, <2>2, <3>1 DEF RejectIsWatched, NeverForgotten
  <2>5. CASE ~notify /\ view.live /\ (view.deleting => view.finalizer)
    <3>1. view = kb /\ pc' = Entry(view)
      BY <1>6, <2>5 DEF Begin, ViewIsWatched
    <3>2. pc' \in Entries /\ (pc' = "reject" => ~kb.finalizer /\ ~ValidSpec(kb.spec))
      BY <3>1, EntryType DEF Entry, Progress, Admission
    <3> QED
      BY <2>1, <2>2, <3>2 DEF RejectIsWatched, NeverForgotten, Entries
  <2> QED
    BY <2>2, <2>3, <2>4, <2>5
<1>7. CASE Reject
  <2>1. UNCHANGED << view, queued >> /\ pc = "reject" /\ pc' = "idle"
    BY <1>7 DEF Reject, Done
  <2>2. CASE kb.live
    <3>1. ViewIsWatched' /\ (notify' \/ (kb' = kb /\ ~notify))
      BY <1>7, <2>1, <2>2, StoreIsWatched DEF Reject
    <3> QED
      BY <2>1, <3>1 DEF RejectIsWatched, NeverForgotten
  <2>3. CASE ~kb.live
    BY <1>7, <2>1, <2>3 DEF Reject, ViewIsWatched, RejectIsWatched, NeverForgotten
  <2> QED
    BY <2>2, <2>3
<1>8. CASE Admit \/ Pend \/ Publish \/ ReportFailure \/ Panic
  <2>1. Done(TRUE) /\ (UNCHANGED server \/ \E new : Store(new))
    BY <1>8 DEF Admit, Pend, Publish, ReportFailure, Panic
  <2>2. UNCHANGED view /\ later' /\ pc' = "idle"
    BY <2>1 DEF Done
  <2>3. ViewIsWatched'
    BY <2>1, <2>2, StoreIsWatched DEF ViewIsWatched
  <2> QED
    BY <2>2, <2>3, PassIsWatched
<1>9. CASE Advance
  <2>1. UNCHANGED view /\ pc' = "provision" /\ \E new : Store(new)
    BY <1>9 DEF Advance
  <2> QED
    BY <2>1, StoreIsWatched, PassIsWatched
<1>10. CASE \/ EnsureObject \/ UpsertObject \/ KeepJob \/ DropFailedJob \/ CreateJob
            \/ ProbeHealth \/ Refuse \/ CleanupStep
  <2>1. UNCHANGED << server, view >>
    BY <1>10 DEF EnsureObject, UpsertObject, KeepJob, DropFailedJob, CreateJob, ProbeHealth,
       Refuse, CleanupStep
  <2>2. pc' \in {"provision", "publish", "createJob", "fail", "cleanup"}
    BY <1>10 DEF EnsureObject, UpsertObject, KeepJob, DropFailedJob, CreateJob, ProbeHealth,
       Refuse, CleanupStep, Proceed
  <2> QED
    BY <2>1, <2>2, PassIsWatched DEF ViewIsWatched
<1>11. CASE Fault
  <2>1. UNCHANGED << server, view, queued >>
    BY <1>11 DEF Fault, Done
  <2>2. \/ pc' = "fail"
        \/ pc' = "idle" /\ (later' \/ pc = "reject")
    BY <1>11 DEF Fault, Done
  <2> QED
    BY <2>1, <2>2, PassIsWatched DEF ViewIsWatched, RejectIsWatched, NeverForgotten
<1>12. CASE Release
  <2>1. UNCHANGED view /\ pc' = "idle"
    BY <1>12 DEF Release, Done
  <2>2. CASE current
    <3>1. Store(Gone)
      BY <1>12, <2>2 DEF Release
    <3>2. ~kb'.live
      BY <3>1 DEF Store, Gone, Blank
    <3>3. ViewIsWatched'
      BY <2>1, <3>1, StoreIsWatched
    <3> QED
      BY <2>1, <3>2, <3>3 DEF RejectIsWatched, NeverForgotten
  <2>3. CASE ~current
    BY <1>12, <2>1, <2>3, PassIsWatched DEF Release, Done, ViewIsWatched
  <2> QED
    BY <2>2, <2>3
<1> QED
  BY <1>1, <1>2, <1>3, <1>4, <1>5, <1>6, <1>7, <1>8, <1>9, <1>10, <1>11, <1>12
  DEF Next, WorkerStep

(* Whatever requeues are missing, errors swallowed, queues lost: while a   *)
(* KnowledgeBase is there that was not refused, something will bring it    *)
(* back to the worker - for every budget, lag and drift.                   *)
THEOREM NobodyIsForgotten == Spec => []NeverForgotten
<1>1. Init => WatchInv
  <2>1. ~Gone.live /\ ~Gone.deleting
    BY DEF Gone, Blank
  <2> QED
    BY <2>1 DEF Init, WatchInv, DeletingIsHeld, ViewIsWatched, RejectIsWatched, NeverForgotten
<1>2. TypeOK /\ WatchInv /\ [Next]_vars => WatchInv'
  BY DeletingIsHeldStep, WatchStep DEF WatchInv
<1>3. WatchInv => NeverForgotten
  BY DEF WatchInv
<1> QED
  BY <1>1, <1>2, <1>3, TypeCorrect, PTL DEF Spec

(***************************************************************************)
(* NoSetback.  A pass writes Pending only if the cache showed it phase "", *)
(* and what matters is that nobody has got further then.  The cache may    *)
(* show a state from before the finalizer, or from an earlier life; the    *)
(* conflict that Admit runs into keeps it from being older than that.      *)
(***************************************************************************)
Young(r) == Serving(r) /\ r.phase = ""
Early(r) == r.phase \in {"", "Pending"}

AtStart == {"idle", "admit", "pend"}

(* One that has just been admitted, and a view of it.                      *)
YoungIsAtStart ==
  Young(kb) => pc \in AtStart /\ (view.live => view.phase = "" /\ ~view.deleting)

(* As long as the cache shows one just admitted, nobody has got further.   *)
YoungIsEarly == Young(view) => Early(kb) /\ pc \in AtStart

(* Whoever was admitted was valid, and is not refused any more.            *)
HeldIsNotRefused ==
  /\ Held(kb) => pc # "reject" /\ (view.live /\ ~view.finalizer => ValidSpec(view.spec))
  /\ pc = "admit" => ValidSpec(snap.spec) /\ ~snap.finalizer

PendIsEarly == pc = "pend" => Early(kb)

PhaseInv == YoungIsAtStart /\ YoungIsEarly /\ HeldIsNotRefused /\ PendIsEarly

(* What a user changes is no phase; a new one begins early.                *)
LEMMA PhaseUsers ==
  ASSUME TypeOK, PhaseInv, CreateKB \/ EditSpec \/ DeleteKB PROVE PhaseInv'
<1> USE DEF PhaseInv
<1>1. UNCHANGED << view, pc, snap >>
  BY DEF CreateKB, EditSpec, DeleteKB
<1>2. /\ Held(kb)' => Held(kb)
      /\ Young(kb)' => Young(kb)
      /\ Early(kb) => Early(kb)'
  <2>1. CASE CreateKB
    <3>1. PICK spec \in Specs : kb' = Fresh(spec)
      BY <2>1 DEF CreateKB, Store
    <3> QED
      BY <3>1 DEF Fresh, Blank, Held, Young, Serving, Early
  <2>2. CASE EditSpec
    <3>1. PICK spec \in Specs : kb' = [kb EXCEPT !.spec = spec]
      BY <2>2 DEF EditSpec, Store
    <3> QED
      BY <3>1 DEF TypeOK, Record, Held, Young, Serving, Early
  <2>3. CASE DeleteKB
    <3>1. CASE kb.finalizer
      BY <2>3, <3>1 DEF DeleteKB, Store, TypeOK, Record, Held, Young, Serving, Early
    <3>2. CASE ~kb.finalizer
      BY <2>3, <3>2 DEF DeleteKB, Store, Gone, Blank, Held, Young, Serving, Early
    <3> QED
      BY <3>1, <3>2
  <2> QED
    BY <2>1, <2>2, <2>3
<1>3. YoungIsAtStart' /\ YoungIsEarly' /\ PendIsEarly'
  BY <1>1, <1>2 DEF YoungIsAtStart, YoungIsEarly, PendIsEarly, Young, Serving, Held
<1>4. HeldIsNotRefused'
  BY <1>1, <1>2 DEF HeldIsNotRefused
<1> QED
  BY <1>3, <1>4

(* A pass begins where the cache, if it is not too old, tells it to.       *)
LEMMA PhaseBegin == ASSUME TypeOK, PhaseInv, Begin PROVE PhaseInv'
<1> USE DEF PhaseInv
<1>1. UNCHANGED << kb, view >> /\ pc = "idle"
  BY DEF Begin
<1>2. CASE UNCHANGED << pc, at, snap >>
  BY <1>1, <1>2
  DEF YoungIsAtStart, YoungIsEarly, HeldIsNotRefused, PendIsEarly, Young, Serving, Held, Early
<1>3. CASE view.live /\ pc' = Entry(view) /\ snap' = view
  <2>1. pc' = "pend" => Young(view)
    BY <1>3 DEF Entry, Progress, Admission, Young, Serving, Held
  <2>2. pc' \in {"admit", "reject"} => ~view.finalizer
    BY <1>3 DEF Entry, Progress, Admission
  <2>3. pc' = "admit" => ValidSpec(view.spec)
    BY <1>3 DEF Entry, Progress, Admission
  <2>4. pc' = "reject" => ~ValidSpec(view.spec)
    BY <1>3 DEF Entry, Progress, Admission
  <2>5. Young(view) => pc' = "pend"
    BY <1>3 DEF Entry, Progress, Admission, Young, Serving, Held
  <2>6. Young(kb) => pc' \in {"admit", "pend"}
    <3>1. Young(kb) => Held(kb) /\ view.phase = "" /\ ~view.deleting
      BY <1>3 DEF YoungIsAtStart, Young, Serving
    <3>2. Young(kb) /\ ~view.finalizer => ValidSpec(view.spec)
      BY <1>3, <3>1 DEF HeldIsNotRefused
    <3> QED
      BY <1>3, <3>1, <3>2 DEF Entry, Progress, Admission
  <2>7. YoungIsAtStart' /\ YoungIsEarly' /\ PendIsEarly'
    BY <1>1, <1>3, <2>1, <2>5, <2>6
    DEF YoungIsAtStart, YoungIsEarly, PendIsEarly, AtStart, Young, Serving, Held, Early
  <2>8. HeldIsNotRefused'
    BY <1>1, <1>3, <2>2, <2>3, <2>4 DEF HeldIsNotRefused, Held
  <2> QED
    BY <2>7, <2>8
<1> QED
  BY <1>2, <1>3 DEF Begin

(* Who is admitted is what the cache shows, without a finalizer.           *)
LEMMA PhaseAdmit ==
  ASSUME TypeOK, CacheInv, DeletingIsHeld, PhaseInv, Admit PROVE PhaseInv'
<1> USE DEF PhaseInv
<1>1. UNCHANGED view /\ pc = "admit" /\ pc' = "idle"
  BY DEF Admit, Done
<1>2. CASE UNCHANGED kb
  BY <1>1, <1>2
  DEF YoungIsAtStart, YoungIsEarly, HeldIsNotRefused, PendIsEarly, AtStart, Young, Serving, Held,
      Early
<1>3. CASE current /\ kb' = [kb EXCEPT !.finalizer = TRUE]
  <2>1. view = kb /\ ValidSpec(kb.spec) /\ ~kb.finalizer
    BY <1>1, <1>3 DEF CacheInv, ViewIsWatched, CurrentIsLatest, HeldIsNotRefused
  <2>2. ~kb.deleting /\ kb'.phase = kb.phase
    BY <1>3, <2>1 DEF DeletingIsHeld, Held, TypeOK, Record
  <2>3. YoungIsAtStart'
    BY <1>1, <2>1, <2>2 DEF YoungIsAtStart, AtStart, Young
  <2>4. YoungIsEarly'
    BY <1>1, <2>1 DEF YoungIsEarly, Young, Serving, Held
  <2>5. HeldIsNotRefused' /\ PendIsEarly'
    BY <1>1, <2>1 DEF HeldIsNotRefused, PendIsEarly
  <2> QED
    BY <2>3, <2>4, <2>5
<1> QED
  BY <1>2, <1>3 DEF Admit, Store

(* The other writes of the worker end a start, or come after it.           *)
LEMMA PhaseStatus ==
  ASSUME TypeOK, PhaseInv,
         Reject \/ Pend \/ Advance \/ Publish \/ ReportFailure \/ Release
  PROVE  PhaseInv'
<1> USE DEF PhaseInv
<1>1. UNCHANGED view /\ pc' \in {"idle", "provision"}
  BY DEF Reject, Pend, Advance, Publish, ReportFailure, Release, Done
<1>2. Held(kb)' => Held(kb)
  <2>1. CASE Release
    <3>1. kb' = kb \/ kb' = Gone
      BY <2>1 DEF Release, Store
    <3>2. ~Gone.live
      BY DEF Gone, Blank
    <3> QED
      BY <3>1, <3>2 DEF Held
  <2>2. CASE Publish
    BY <2>2 DEF Publish, Store, TypeOK, Record, Held
  <2>3. CASE Reject \/ Pend \/ Advance \/ ReportFailure
    <3>1. PICK phase \in Phases : kb' = kb \/ kb' = [kb EXCEPT !.phase = phase]
      BY <2>3 DEF Reject, Pend, Advance, ReportFailure, Store, Phases
    <3> QED
      BY <3>1 DEF TypeOK, Record, Held
  <2> QED
    BY <2>1, <2>2, <2>3
<1>3. HeldIsNotRefused' /\ PendIsEarly'
  BY <1>1, <1>2 DEF HeldIsNotRefused, PendIsEarly
<1>4. CASE Pend
  <2>1. kb'.phase = "Pending" /\ pc' = "idle"
    BY <1>4 DEF Pend, Store, Done, TypeOK, Record
  <2> QED
    BY <1>1, <1>3, <2>1
    DEF YoungIsAtStart, YoungIsEarly, AtStart, Young, Serving, Held, Early
<1>5. CASE ~Pend
  <2>1. pc \notin AtStart
    BY <1>5 DEF Reject, Advance, Publish, ReportFailure, Release, AtStart
  <2>2. ~Young(kb) /\ ~Young(view)
    BY <2>1 DEF YoungIsAtStart, YoungIsEarly
  <2>3. ~Young(kb)'
    <3>1. CASE UNCHANGED kb
      BY <2>2, <3>1 DEF Young, Serving, Held
    <3>2. CASE kb' = Gone
      BY <3>2 DEF Young, Serving, Held, Gone, Blank
    <3>3. CASE kb'.phase # ""
      BY <3>3 DEF Young
    <3>4. UNCHANGED kb \/ kb' = Gone \/ kb'.phase # ""
      BY <1>5 DEF Reject, Advance, Publish, ReportFailure, Release, Store, TypeOK, Record
    <3> QED
      BY <3>1, <3>2, <3>3, <3>4
  <2> QED
    BY <1>1, <1>3, <2>2, <2>3 DEF YoungIsAtStart, YoungIsEarly, Young, Serving, Held
<1> QED
  BY <1>4, <1>5

(* All actions together.                                                   *)
LEMMA PhaseStep ==
  ASSUME TypeOK, CacheInv, DeletingIsHeld, PhaseInv, [Next]_vars PROVE PhaseInv'
<1> USE DEF PhaseInv
<1>1. CASE Deliver \/ Crash
  <2>1. UNCHANGED kb /\ view' = kb /\ (UNCHANGED << pc, snap >> \/ pc' = "idle")
    BY <1>1 DEF Deliver, Crash
  <2>2. YoungIsAtStart' /\ YoungIsEarly'
    BY <2>1 DEF YoungIsAtStart, YoungIsEarly, AtStart, Young, Serving, Held, Early
  <2>3. HeldIsNotRefused' /\ PendIsEarly'
    BY <2>1 DEF HeldIsNotRefused, PendIsEarly, Held, Early
  <2> QED
    BY <2>2, <2>3
<1>2. CASE \/ Timer \/ Observe \/ NamespaceGone \/ ClaimVolumes \/ Drift \/ CleanupStep
           \/ UNCHANGED vars
  <2>1. UNCHANGED << kb, view, pc, snap >>
    BY <1>2 DEF Timer, Observe, NamespaceGone, ClaimVolumes, Drift, CleanupStep, vars
  <2> QED
    BY <2>1
    DEF YoungIsAtStart, YoungIsEarly, HeldIsNotRefused, PendIsEarly, Young, Serving, Held, Early
<1>3. CASE \/ EnsureObject \/ UpsertObject \/ KeepJob \/ DropFailedJob \/ CreateJob
           \/ ProbeHealth \/ Refuse
  <2>1. UNCHANGED << kb, view >> /\ pc \notin AtStart
        /\ pc' \in {"provision", "publish", "createJob", "fail"}
    BY <1>3 DEF EnsureObject, UpsertObject, KeepJob, DropFailedJob, CreateJob, ProbeHealth,
       Refuse, Proceed, AtStep, AtStart
  <2> QED
    BY <2>1
    DEF YoungIsAtStart, YoungIsEarly, HeldIsNotRefused, PendIsEarly, Young, Serving, Held
<1>4. CASE Fault \/ Panic
  <2>1. UNCHANGED << kb, view >>
        /\ (pc' = "idle" \/ (pc' = "fail" /\ pc \notin AtStart))
    BY <1>4 DEF Fault, Panic, Done, AtStart
  <2> QED
    BY <2>1
    DEF YoungIsAtStart, YoungIsEarly, HeldIsNotRefused, PendIsEarly, AtStart, Young, Serving,
        Held, Early
<1> QED
  BY <1>1, <1>2, <1>3, <1>4, PhaseUsers, PhaseBegin, PhaseAdmit, PhaseStatus DEF Next, WorkerStep

(* However old the cached KnowledgeBase is that a pass decides on, it      *)
(* never takes one that is past Pending back to the first phases: for any  *)
(* specs, edits, failures, crashes and re-creations.                       *)
THEOREM NobodyIsSetBack == Spec => NoSetback
<1> DEFINE Inv == TypedInv /\ CacheInv /\ DeletingIsHeld /\ PhaseInv
<1>1. Init => Inv
  <2>1. ~Gone.live /\ ~Gone.deleting
    BY DEF Gone, Blank
  <2> QED
    BY <2>1, TypedInit, CacheInit
    DEF Init, DeletingIsHeld, PhaseInv, YoungIsAtStart, YoungIsEarly, HeldIsNotRefused,
        PendIsEarly, AtStart, Young, Serving, Held
<1>2. Inv /\ [Next]_vars => Inv'
  BY TypedStep, CacheStep, DeletingIsHeldStep, PhaseStep DEF TypedInv
<1>3. ASSUME Inv, Next, kb.live, kb'.live, ~Early(kb) PROVE ~Early(kb')
  <2>0. TypeOK
    BY <1>3 DEF TypedInv
  <2>1. CASE Pend
    BY <1>3, <2>1 DEF Pend, PhaseInv, PendIsEarly
  <2>2. CASE CreateKB
    BY <1>3, <2>2 DEF CreateKB
  <2>3. CASE Reject \/ Advance \/ Publish \/ ReportFailure
    <3>1. UNCHANGED kb \/ kb'.phase \in {"Failed", "Provisioning", "Ready"}
      BY <1>3, <2>0, <2>3 DEF Reject, Advance, Publish, ReportFailure, Store, TypeOK, Record
    <3> QED
      BY <1>3, <3>1 DEF Early
  <2>4. CASE EditSpec \/ DeleteKB \/ Admit \/ Release
    <3>1. kb'.phase = kb.phase
      <4>1. ~Gone.live
        BY DEF Gone, Blank
      <4>2. CASE EditSpec
        <5>1. PICK spec \in Specs : kb' = [kb EXCEPT !.spec = spec]
          BY <4>2 DEF EditSpec, Store
        <5> QED
          BY <1>3, <2>0, <5>1 DEF TypeOK, Record
      <4>3. CASE DeleteKB \/ Admit \/ Release
        BY <1>3, <2>0, <4>1, <4>3 DEF DeleteKB, Admit, Release, Store, TypeOK, Record
      <4> QED
        BY <2>4, <4>2, <4>3
    <3> QED
      BY <1>3, <3>1 DEF Early
  <2>5. CASE \/ Deliver \/ Timer \/ Observe \/ Crash \/ NamespaceGone \/ ClaimVolumes \/ Drift
             \/ Begin \/ EnsureObject \/ UpsertObject \/ KeepJob \/ DropFailedJob \/ CreateJob
             \/ ProbeHealth \/ Refuse \/ Panic \/ Fault \/ CleanupStep
    <3>1. UNCHANGED kb
      BY <2>5 DEF Deliver, Timer, Observe, Crash, NamespaceGone, ClaimVolumes, Drift, Begin,
         EnsureObject, UpsertObject, KeepJob, DropFailedJob, CreateJob, ProbeHealth, Refuse,
         Panic, Fault, CleanupStep
    <3> QED
      BY <1>3, <3>1 DEF Early
  <2> QED
    BY <1>3, <2>1, <2>2, <2>3, <2>4, <2>5 DEF Next, WorkerStep
<1>4. Inv /\ [Next]_vars
        => [kb.live /\ kb'.live /\ kb.phase \notin {"", "Pending"}
              => kb'.phase \notin {"", "Pending"}]_vars
  BY <1>3 DEF Early
<1> HIDE DEF Inv
<1> QED
  BY <1>1, <1>2, <1>4, PTL DEF Spec, NoSetback

================================================================================
