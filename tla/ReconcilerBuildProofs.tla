------------------------- MODULE ReconcilerBuildProofs -------------------------
(***************************************************************************)
(* Theorems about what the passes of KnowledgeBaseReconciler do to the     *)
(* cluster: volumes are kept, a pass that reports Ready has built all of   *)
(* it, a routed sync can start, and the contract is kept.                  *)
(***************************************************************************)
EXTENDS ReconcilerWatchProofs

USE DEF server, control, worker, cluster, Outdate

(***************************************************************************)
(* A pass has a spec to build from.                                        *)
(***************************************************************************)
SpecIsThere ==
  /\ kb.live => kb.spec \in Specs
  /\ view.live => view.spec \in Specs
  /\ pc \in {"advance", "provision", "createJob", "publish"} => snap.spec \in Specs

(* So does every action find a spec.                                       *)
LEMMA SpecStep == ASSUME TypeOK, SpecIsThere, [Next]_vars PROVE SpecIsThere'
<1> USE DEF SpecIsThere
<1>1. CASE CreateKB
  <2>1. PICK spec \in Specs : kb' = Fresh(spec)
    BY <1>1 DEF CreateKB, Store
  <2> QED
    BY <1>1, <2>1 DEF CreateKB, Fresh, Blank
<1>2. CASE EditSpec
  <2>1. PICK spec \in Specs : kb' = [kb EXCEPT !.spec = spec]
    BY <1>2 DEF EditSpec, Store
  <2> QED
    BY <1>2, <2>1 DEF EditSpec, TypeOK, Record
<1>3. CASE DeleteKB
  <2>1. kb' = [kb EXCEPT !.deleting = TRUE] \/ kb' = Gone
    BY <1>3 DEF DeleteKB, Store
  <2>2. ~Gone.live
    BY DEF Gone, Blank
  <2> QED
    BY <1>3, <2>1, <2>2 DEF DeleteKB, TypeOK, Record
<1>4. CASE Reject \/ Admit \/ Pend \/ Publish \/ Panic \/ ReportFailure \/ Release
  <2>1. UNCHANGED view /\ pc' = "idle"
    BY <1>4 DEF Reject, Admit, Pend, Publish, Panic, ReportFailure, Release, Done
  <2>2. kb'.live => kb.live /\ kb'.spec = kb.spec
    <3>1. CASE Reject \/ ReportFailure \/ Panic
      <4>1. kb' = kb \/ kb' = [kb EXCEPT !.phase = "Failed"]
        BY <3>1 DEF Reject, ReportFailure, Panic, Store
      <4> QED
        BY <4>1 DEF TypeOK, Record
    <3>2. CASE Admit
      <4>1. kb' = kb \/ kb' = [kb EXCEPT !.finalizer = TRUE]
        BY <3>2 DEF Admit, Store
      <4> QED
        BY <4>1 DEF TypeOK, Record
    <3>3. CASE Pend \/ Publish
      BY <3>3 DEF Pend, Publish, Store, TypeOK, Record
    <3>4. CASE Release
      <4>1. kb' = kb \/ kb' = Gone
        BY <3>4 DEF Release, Store
      <4>2. ~Gone.live
        BY DEF Gone, Blank
      <4> QED
        BY <4>1, <4>2
    <3> QED
      BY <1>4, <3>1, <3>2, <3>3, <3>4
  <2> QED
    BY <2>1, <2>2
<1>5. CASE Advance
  <2>1. kb' = [kb EXCEPT !.phase = "Provisioning"] /\ UNCHANGED << snap, view >> /\ pc = "advance"
    BY <1>5 DEF Advance, Store
  <2> QED
    BY <2>1 DEF TypeOK, Record
<1>6. CASE Deliver \/ Crash
  BY <1>6 DEF Deliver, Crash
<1>7. CASE Begin
  BY <1>7 DEF Begin
<1>8. CASE ProbeHealth
  <2>1. snap'.spec = snap.spec
    BY <1>8 DEF ProbeHealth, TypeOK, Record
  <2> QED
    BY <1>8, <2>1 DEF ProbeHealth, AtStep
<1>9. CASE EnsureObject \/ UpsertObject \/ KeepJob \/ DropFailedJob \/ CreateJob
  <2>1. UNCHANGED << kb, view, snap >> /\ pc \in {"provision", "createJob"}
    BY <1>9 DEF EnsureObject, UpsertObject, KeepJob, DropFailedJob, CreateJob, AtStep
  <2> QED
    BY <2>1
<1>10. CASE CleanupStep \/ Refuse \/ Fault
  <2>1. UNCHANGED << kb, view >> /\ pc' \in {"cleanup", "fail", "idle"}
    BY <1>10 DEF CleanupStep, Refuse, Fault, Done
  <2> QED
    BY <2>1
<1>11. CASE Timer \/ Observe \/ NamespaceGone \/ ClaimVolumes \/ Drift \/ UNCHANGED vars
  <2>1. UNCHANGED << kb, view, pc, at, snap >>
    BY <1>11 DEF Timer, Observe, NamespaceGone, ClaimVolumes, Drift, vars
  <2> QED
    BY <2>1
<1> QED
  BY <1>1, <1>2, <1>3, <1>4, <1>5, <1>6, <1>7, <1>8, <1>9, <1>10, <1>11 DEF Next, WorkerStep

(***************************************************************************)
(* What one call does to one thing leaves the others alone.                *)
(***************************************************************************)
OthersStay(o) ==
  /\ \A p \in Everything \ {o} :
       Stands(p)' = Stands(p) /\ Holds(p)' = Holds(p) /\ (p \in amiss' <=> p \in amiss)
  /\ \A p \in Obj \ {o} : objs'[p] = objs[p]
  /\ o # "namespace" => ns' = ns

(* Whichever call it is.                                                   *)
LEMMA OneThingAtATime ==
  ASSUME TypeOK, NEW o \in Everything,
         \/ Make(o) \/ Erase(o) \/ TakeAsThere(o) \/ TakeAsGone(o)
         \/ Remove(o) /\ amiss' = amiss \cup {o}
  PROVE  OthersStay(o)
<1>0. "namespace" \notin Obj
  BY DEF Obj
<1>1. \A p \in Everything \ {o} : p \in amiss' <=> p \in amiss
  BY DEF Make, Erase, TakeAsThere, TakeAsGone
<1>2. CASE o = "namespace"
  <2>1. objs' = objs
    BY <1>2 DEF Make, Erase, Remove, TakeAsThere, TakeAsGone
  <2> QED
    BY <1>1, <1>2, <2>1 DEF OthersStay, Stands, Holds
<1>3. CASE o # "namespace"
  <2>1. ns' = ns /\ \A p \in Obj \ {o} : objs'[p] = objs[p]
    BY <1>3 DEF Make, Erase, Remove, TakeAsThere, TakeAsGone, TypeOK
  <2> QED
    BY <1>1, <2>1 DEF OthersStay, Stands, Holds, Everything
<1> QED
  BY <1>2, <1>3

(* What a provisioning step does: it meets its target or makes it.         *)
LEMMA BuildingWrites ==
  ASSUME TypedInv, EnsureObject \/ UpsertObject \/ CreateJob, NEW t, t = Target
  PROVE  /\ at \in DOMAIN Provisioning /\ t = Provisioning[at].obj
         /\ t \in Everything /\ t # "pvcs"
         /\ Provisioning[at].how \in {"ensure", "upsert", "job"}
         /\ \/ TakeAsThere(t) /\ AtStep("ensure")
            \/ Make(t) /\ (Holds(t) \/ Creatable(t))
<1>1. at \in DOMAIN Provisioning /\ Provisioning[at].how \in {"ensure", "upsert", "job"}
  BY DEF EnsureObject, UpsertObject, CreateJob, AtStep, TypedInv, PlaceIsKnown
<1>2. t = Provisioning[at].obj /\ t \in Everything /\ t # "pvcs"
  BY <1>1, StepsAreKnown DEF Target, Everything, Names
<1>3. CASE EnsureObject
  <2>1. /\ AtStep("ensure") /\ pc = "provision" /\ Accepted
        /\ IF Sees(Target) THEN TakeAsThere(Target) ELSE Make(Target)
    BY <1>3 DEF EnsureObject, AtStep
  <2>2. IF Sees(t) THEN TakeAsThere(t) ELSE Make(t)
    BY <2>1
  <2>3. ~Sees(t) => Creatable(t)
    BY <2>1 DEF Accepted
  <2> QED
    BY <1>1, <1>2, <2>1, <2>2, <2>3
<1>4. CASE UpsertObject
  BY <1>1, <1>2, <1>4 DEF UpsertObject, Accepted
<1>5. CASE CreateJob
  BY <1>1, <1>2, <1>5 DEF CreateJob, Accepted
<1> QED
  BY <1>3, <1>4, <1>5

(* The init job's other steps meet it, or delete it.                       *)
LEMMA JobWrites ==
  ASSUME TypedInv, KeepJob \/ DropFailedJob
  PROVE  /\ at \in DOMAIN Provisioning /\ Provisioning[at].how = "job" /\ pc = "provision"
         /\ "initJob" \in Everything
         /\ KeepJob => TakeAsThere("initJob")
         /\ DropFailedJob => Erase("initJob")
<1>1. at \in DOMAIN Provisioning /\ Provisioning[at].how = "job" /\ pc = "provision"
  BY DEF KeepJob, DropFailedJob, AtStep, TypedInv, PlaceIsKnown
<1>2. Target = "initJob" /\ "initJob" \in Everything
  BY <1>1, StepsAreKnown, TheyAreObjects DEF Target, Everything, Names
<1> QED
  BY <1>1, <1>2 DEF KeepJob, DropFailedJob

(* A cleanup step deletes its object or passes it over.                    *)
LEMMA CleaningWrites ==
  ASSUME TypeOK, CleanupStep, NEW o, o = Cleanup[at]
  PROVE  /\ pc = "cleanup" /\ at \in 1 .. 24 /\ at \in DOMAIN Cleanup
         /\ o \in Everything
         /\ Erase(o) \/ (TakeAsGone(o) /\ ~Sees(o))
  BY CleanupOrder, CleanupsAreThings DEF CleanupStep

(***************************************************************************)
(* VolumesKept.  The secret is read uncached, deleted before the namespace *)
(* and can only be made in a namespace that is up, so without it no pass   *)
(* goes on; the claims are deleted before the namespace too, and whoever   *)
(* finds any while no KnowledgeBase is held finds what a wrong answer left. *)
(***************************************************************************)
LostIsGone == "externalSecret" \in amiss => ~Holds("externalSecret")

EmptyUnlessUp ==
  ns # "active" /\ "namespace" \notin amiss => ~Holds("externalSecret") /\ Cleared("pvcs")

UnheldVolumes == ~Held(kb) /\ Volumes => {"pvcs", "namespace"} \cap amiss # {}

(* The names used here.                                                    *)
LEMMA NamedHere ==
  /\ {"externalSecret", "pvcs", "namespace", "initJob", "trigger"} \cup Rights \subseteq Everything
  /\ {"externalSecret", "pvcs", "initJob", "trigger"} \cup Rights \subseteq Obj
  /\ {"externalSecret", "pvcs", "initJob"} \cup Rights \subseteq Contents
  /\ "namespace" \notin Contents /\ OrgScoped \cap Contents = {} /\ Contents \subseteq Obj
  /\ "namespace" \notin Obj /\ "externalSecret" \notin Lagging
  /\ OrgScoped \cup {"namespace"} \subseteq Everything
<1>1. {"externalSecret", "pvcs", "initJob", "trigger"} \cup Rights \subseteq Obj
  BY TheyAreObjects DEF Names, Rights
<1>2. ({"externalSecret", "pvcs", "initJob"} \cup Rights) \cap (OrgScoped \cup {"namespace"}) = {}
  BY DEF Rights, OrgScoped
<1> QED
  BY <1>1, <1>2, LaggingAssumption, OrgScopedAreObjects
  DEF Contents, InNamespace, Everything, Obj

(* A call that concerns neither namespace nor secret nor claims.           *)
LEMMA StoresElsewhere ==
  ASSUME TypeOK, NEW o \in Everything \ {"externalSecret", "pvcs", "namespace"}, OthersStay(o)
  PROVE  /\ LostIsGone => LostIsGone'
         /\ EmptyUnlessUp => EmptyUnlessUp'
         /\ UnheldVolumes /\ (Held(kb) => Held(kb)') => UnheldVolumes'
         /\ Volumes' = Volumes /\ ns' = ns
<1>1. /\ ns' = ns /\ Holds("externalSecret")' = Holds("externalSecret")
      /\ objs'["pvcs"] = objs["pvcs"]
      /\ \A p \in {"externalSecret", "pvcs", "namespace"} : p \in amiss' <=> p \in amiss
      /\ Stands("pvcs")' = Stands("pvcs")
  BY NamedHere DEF OthersStay
<1> QED
  BY <1>1 DEF LostIsGone, EmptyUnlessUp, UnheldVolumes, Volumes, Cleared

(* Provisioning.                                                           *)
LEMMA StoresBuilding ==
  ASSUME TypedInv, FinalizerInv, LostIsGone, EmptyUnlessUp, UnheldVolumes,
         EnsureObject \/ UpsertObject \/ CreateJob \/ KeepJob \/ DropFailedJob
  PROVE  /\ LostIsGone' /\ EmptyUnlessUp' /\ UnheldVolumes'
         /\ Volumes' = Volumes /\ (ns = "active" => ns' = "active")
<1>1. TypeOK /\ UNCHANGED kb /\ Held(kb)
  BY DEF EnsureObject, UpsertObject, CreateJob, KeepJob, DropFailedJob, AtStep, TypedInv,
         FinalizerInv, BuildsHeld
<1>2. UnheldVolumes'
  BY <1>1 DEF UnheldVolumes, Held
<1>3. CASE KeepJob \/ DropFailedJob
  <2>1. OthersStay("initJob") /\ "initJob" \in Everything
    BY <1>1, <1>3, JobWrites, OneThingAtATime
  <2> QED
    BY <1>1, <1>2, <2>1, StoresElsewhere
<1>4. CASE EnsureObject \/ UpsertObject \/ CreateJob
  <2>t. PICK t : t = Target
    OBVIOUS
  <2>1. /\ at \in DOMAIN Provisioning /\ t = Provisioning[at].obj
        /\ t \in Everything /\ t # "pvcs"
        /\ \/ TakeAsThere(t) /\ AtStep("ensure")
           \/ Make(t) /\ (Holds(t) \/ Creatable(t))
    BY <1>4, <2>t, BuildingWrites
  <2>2. OthersStay(t)
    BY <1>1, <2>1, OneThingAtATime
  <2>3. CASE t \notin {"externalSecret", "namespace"}
    BY <1>1, <1>2, <2>1, <2>2, <2>3, StoresElsewhere
  <2>4. CASE t = "namespace"
    <3>1. objs' = objs /\ (ns' = "active" \/ (ns' = ns /\ (ns # "active" =>
             ("namespace" \in amiss => "namespace" \in amiss'))))
      BY <2>1, <2>4 DEF Make, TakeAsThere, Stands, Holds
    <3>2. /\ \A p \in {"externalSecret", "pvcs"} : p \in amiss' <=> p \in amiss
          /\ Stands("pvcs")' = Stands("pvcs")
          /\ Holds("externalSecret")' = Holds("externalSecret")
      BY <2>2, <2>4, NamedHere DEF OthersStay
    <3>3. ns = "active" => ns' = "active"
      BY <2>1, <2>4 DEF Make, TakeAsThere
    <3> QED
      BY <1>2, <3>1, <3>2, <3>3 DEF LostIsGone, EmptyUnlessUp, Volumes, Cleared
  <2>5. CASE t = "externalSecret"
    <3>1. ~AtStep("ensure")
      BY <2>1, <2>5, StepsAreKnown DEF AtStep, Ensured
    <3>2. Make(t) /\ (Holds(t) \/ Creatable(t))
      BY <2>1, <3>1
    <3>3. ns' = ns /\ t \notin amiss'
      BY <2>5, <3>2 DEF Make
    <3>4. ns = "active" \/ "namespace" \in amiss
      BY <2>5, <3>2, NamedHere DEF Creatable, EmptyUnlessUp, InNamespace, Contents
    <3>5. Volumes' = Volumes /\ ("namespace" \in amiss' <=> "namespace" \in amiss)
      BY <2>2, <2>5, NamedHere DEF OthersStay, Volumes
    <3> QED
      BY <1>2, <2>5, <3>3, <3>4, <3>5 DEF LostIsGone, EmptyUnlessUp
  <2> QED
    BY <2>1, <2>3, <2>4, <2>5
<1> QED
  BY <1>3, <1>4

(* Cleanup, which reads the secret as it is.                               *)
LEMMA StoresCleanup ==
  ASSUME TypeOK, FinalizerInv, LostIsGone, EmptyUnlessUp, UnheldVolumes, CleanupStep
  PROVE  LostIsGone' /\ EmptyUnlessUp' /\ UnheldVolumes'
<1>o. PICK o : o = Cleanup[at]
  OBVIOUS
<1>1. /\ pc = "cleanup" /\ at \in 1 .. 24 /\ at \in DOMAIN Cleanup
      /\ o \in Everything /\ (Erase(o) \/ (TakeAsGone(o) /\ ~Sees(o)))
  BY <1>o, CleaningWrites
<1>2. OthersStay(o) /\ Cleared(o)' /\ UNCHANGED kb
  BY <1>1, OneThingAtATime, WhatClears DEF CleanupStep
<1>3. CASE o \notin {"externalSecret", "pvcs", "namespace"}
  BY <1>1, <1>2, <1>3, StoresElsewhere DEF Held
<1>4. CASE o = "namespace"
  <2>1. at = 24
    BY <1>1, <1>o, <1>4, CleanupOrder
  <2>2. Cleared("externalSecret") /\ Cleared("pvcs")
    BY <1>1, <2>1, CleanupOrder DEF FinalizerInv, ClearedSoFar
  <2>3. ~Holds("externalSecret")
    BY <2>2 DEF Cleared, LostIsGone, Stands
  <2>4. /\ \A p \in {"externalSecret", "pvcs"} : p \in amiss' <=> p \in amiss
        /\ Stands("pvcs")' = Stands("pvcs") /\ Stands("pvcs") = Volumes /\ Volumes' = Volumes
        /\ Holds("externalSecret")' = Holds("externalSecret")
    BY <1>2, <1>4, NamedHere DEF OthersStay, Stands, Holds, Volumes
  <2> QED
    BY <2>2, <2>3, <2>4 DEF LostIsGone, EmptyUnlessUp, UnheldVolumes, Cleared
<1>5. CASE o \in {"externalSecret", "pvcs"}
  <2>1. /\ ns' = ns /\ ("namespace" \in amiss' <=> "namespace" \in amiss)
        /\ Stands(o) = Holds(o) /\ Stands(o)' = Holds(o)'
    BY <1>2, <1>5, NamedHere DEF OthersStay, Stands
  <2>2. CASE o = "externalSecret"
    <3>1. ~Holds("externalSecret")'
      <4>1. CASE Erase(o)
        BY <2>2, <4>1, NamedHere DEF Erase, Remove, Holds, TypeOK
      <4>2. CASE TakeAsGone(o) /\ ~Sees(o)
        BY <2>2, <4>2, NamedHere DEF TakeAsGone, Sees, Holds
      <4> QED
        BY <1>1, <4>1, <4>2
    <3>2. /\ "pvcs" \in amiss' <=> "pvcs" \in amiss
          /\ Stands("pvcs")' = Stands("pvcs") /\ Volumes' = Volumes
      BY <1>2, <2>2, NamedHere DEF OthersStay, Volumes
    <3> QED
      BY <1>2, <2>1, <3>1, <3>2 DEF LostIsGone, EmptyUnlessUp, UnheldVolumes, Cleared, Held
  <2>3. CASE o = "pvcs"
    <3>1. /\ "externalSecret" \in amiss' <=> "externalSecret" \in amiss
          /\ Holds("externalSecret")' = Holds("externalSecret")
      BY <1>2, <2>3, NamedHere DEF OthersStay
    <3>2. UnheldVolumes'
      BY <1>2, <2>1, <2>3 DEF UnheldVolumes, Cleared, Volumes, Holds
    <3> QED
      BY <1>2, <2>1, <2>3, <3>1, <3>2 DEF LostIsGone, EmptyUnlessUp
  <2> QED
    BY <1>5, <2>2, <2>3
<1> QED
  BY <1>3, <1>4, <1>5

(* The cluster and others.                                                 *)
LEMMA StoresCluster ==
  ASSUME TypeOK, FinalizerInv, LostIsGone, EmptyUnlessUp, UnheldVolumes,
         NamespaceGone \/ ClaimVolumes \/ Drift
  PROVE  LostIsGone' /\ EmptyUnlessUp' /\ UnheldVolumes'
<1>1. UNCHANGED kb
  BY DEF NamespaceGone, ClaimVolumes, Drift
<1>2. CASE NamespaceGone
  <2>1. objs'["externalSecret"] = None /\ objs'["pvcs"] = None
    BY <1>2, NamedHere DEF NamespaceGone
  <2> QED
    BY <2>1 DEF LostIsGone, EmptyUnlessUp, UnheldVolumes, Cleared, Stands, Holds, Volumes
<1>3. CASE ClaimVolumes
  <2>1. /\ ns = "active" /\ ns' = ns /\ objs'["externalSecret"] = objs["externalSecret"]
        /\ \A p \in {"externalSecret", "namespace"} : p \in amiss' <=> p \in amiss
    BY <1>3, NamedHere DEF ClaimVolumes, TypeOK
  <2>2. ~Held(kb) => "namespace" \in amiss
    BY <2>1 DEF FinalizerInv, GuardedByFinalizer, Stands, Held
  <2> QED
    BY <1>1, <2>1, <2>2 DEF LostIsGone, EmptyUnlessUp, UnheldVolumes, Holds, Held
<1>4. CASE Drift
  <2>1. PICK o \in Drifting : Remove(o) /\ amiss' = amiss \cup {o} /\ o \in Everything
    BY <1>4, DriftingAssumption DEF Drift, Everything
  <2>2. OthersStay(o)
    BY <2>1, OneThingAtATime
  <2>3. CASE o \notin {"externalSecret", "pvcs", "namespace"}
    BY <1>1, <2>1, <2>2, <2>3, StoresElsewhere DEF Held
  <2>4. CASE o \in {"externalSecret", "pvcs"}
    <3>1. ns' = ns /\ \A p \in Obj : p = o => objs'[p] = None
      BY <2>1, <2>4 DEF Remove, TypeOK
    <3>2. \A p \in Obj \ {o} : objs'[p] = objs[p]
      BY <2>2 DEF OthersStay
    <3> QED
      BY <1>1, <2>1, <2>4, <3>1, <3>2, NamedHere
      DEF LostIsGone, EmptyUnlessUp, UnheldVolumes, Cleared, Stands, Holds, Volumes, Held
  <2>5. CASE o = "namespace"
    <3>1. objs' = objs /\ "namespace" \in amiss'
      BY <2>1, <2>5 DEF Remove
    <3> QED
      BY <2>1, <2>5, <3>1, NamedHere DEF LostIsGone, EmptyUnlessUp, UnheldVolumes, Holds
  <2> QED
    BY <2>3, <2>4, <2>5
<1> QED
  BY <1>2, <1>3, <1>4

(* Nobody but the end of a cleanup lets a held KnowledgeBase go.           *)
LEMMA HeldIsKept ==
  ASSUME TypeOK, FinalizerInv, [Next]_vars, Held(kb), ~Release PROVE Held(kb)'
<1>1. CASE CreateKB
  BY <1>1 DEF CreateKB, Held
<1>2. CASE EditSpec
  <2>1. PICK spec \in Specs : kb' = [kb EXCEPT !.spec = spec]
    BY <1>2 DEF EditSpec, Store
  <2> QED
    BY <2>1 DEF TypeOK, Record, Held
<1>3. CASE DeleteKB
  <2>1. kb' = [kb EXCEPT !.deleting = TRUE]
    BY <1>3 DEF DeleteKB, Store, Held
  <2> QED
    BY <2>1 DEF TypeOK, Record, Held
<1>4. CASE Reject \/ Admit \/ Pend \/ Advance \/ ReportFailure
  <2>1. \/ kb' = kb \/ kb' = [kb EXCEPT !.finalizer = TRUE]
        \/ \E phase \in Phases : kb' = [kb EXCEPT !.phase = phase]
    BY <1>4 DEF Reject, Admit, Pend, Advance, ReportFailure, Store, Phases
  <2> QED
    BY <2>1 DEF TypeOK, Record, Held
<1>5. CASE Publish
  BY <1>5 DEF Publish, Store, TypeOK, Record, Held
<1>6. CASE UNCHANGED kb
  BY <1>6 DEF Held
<1>7. CASE \/ Deliver \/ Timer \/ Observe \/ Crash \/ NamespaceGone \/ ClaimVolumes \/ Drift
           \/ Begin \/ EnsureObject \/ UpsertObject \/ KeepJob \/ DropFailedJob \/ CreateJob
           \/ ProbeHealth \/ Refuse \/ Panic \/ Fault \/ CleanupStep \/ UNCHANGED vars
  <2>1. UNCHANGED kb
    BY <1>7 DEF Deliver, Timer, Observe, Crash, NamespaceGone, ClaimVolumes, Drift, Begin,
       EnsureObject, UpsertObject, KeepJob, DropFailedJob, CreateJob, ProbeHealth, Refuse,
       Panic, Fault, CleanupStep, vars
  <2> QED
    BY <1>6, <2>1
<1> QED
  BY <1>1, <1>2, <1>3, <1>4, <1>5, <1>7 DEF Next, WorkerStep

(* All actions.                                                            *)
LEMMA StoresStep ==
  ASSUME TypedInv, FinalizerInv, LostIsGone, EmptyUnlessUp, UnheldVolumes, [Next]_vars
  PROVE  LostIsGone' /\ EmptyUnlessUp' /\ UnheldVolumes'
<1>0. TypeOK
  BY DEF TypedInv
<1>1. CASE EnsureObject \/ UpsertObject \/ CreateJob \/ KeepJob \/ DropFailedJob
  BY <1>1, StoresBuilding
<1>2. CASE CleanupStep
  BY <1>0, <1>2, StoresCleanup
<1>3. CASE NamespaceGone \/ ClaimVolumes \/ Drift
  BY <1>0, <1>3, StoresCluster
<1>4. CASE UNCHANGED cluster
  <2>1. LostIsGone' /\ EmptyUnlessUp'
    BY <1>4, ClusterKept DEF LostIsGone, EmptyUnlessUp
  <2>2. UnheldVolumes'
    <3>1. CASE Release
      <4>1. pc = "cleanup" /\ at > 24 /\ at \in Nat
        BY <1>0, <3>1, CleanupOrder DEF Release, FinalizerInv, ClearedSoFar, TypeOK
      <4>2. Cleared("pvcs")
        BY <4>1, CleanupOrder DEF FinalizerInv, ClearedSoFar
      <4> QED
        BY <1>4, <4>2 DEF UnheldVolumes, Cleared, Stands, Holds, Volumes
    <3>2. CASE ~Release
      BY <1>0, <1>4, <3>2, HeldIsKept DEF UnheldVolumes, Volumes
    <3> QED
      BY <3>1, <3>2
  <2> QED
    BY <2>1, <2>2
<1>5. CASE \/ CreateKB \/ EditSpec \/ DeleteKB \/ Deliver \/ Timer \/ Observe \/ UNCHANGED vars
           \/ Begin \/ Reject \/ Admit \/ Pend \/ Advance \/ Publish \/ Panic \/ ReportFailure
           \/ Fault \/ Release \/ Crash \/ ProbeHealth \/ Refuse
  <2>1. UNCHANGED cluster
    BY <1>5 DEF CreateKB, EditSpec, DeleteKB, Deliver, Timer, Observe, vars, Begin, Reject, Admit,
       Pend, Advance, Publish, Panic, ReportFailure, Fault, Release, Crash, ProbeHealth, Refuse
  <2> QED
    BY <1>4, <2>1
<1> QED
  BY <1>1, <1>2, <1>3, <1>5 DEF Next, WorkerStep

(* Only a cleanup takes the volumes or their namespace, and it finds them  *)
(* only if they are those of the KnowledgeBase it cleans up.               *)
LEMMA VolumesStep ==
  ASSUME TypedInv, FinalizerInv, LostIsGone, EmptyUnlessUp, UnheldVolumes, [Next]_vars,
         (Volumes /\ ~Volumes') \/ (Volumes /\ ns = "active" /\ ns' # "active")
  PROVE  kb.deleting \/ {"pvcs", "namespace"} \cap (amiss \cup amiss') # {}
<1> SUFFICES ASSUME "pvcs" \notin amiss, "namespace" \notin amiss,
                    "pvcs" \notin amiss', "namespace" \notin amiss'
             PROVE  kb.deleting
  OBVIOUS
<1>0. TypeOK /\ Held(kb) /\ Volumes
  BY DEF TypedInv, UnheldVolumes
<1>1. CASE CleanupStep
  BY <1>0, <1>1 DEF CleanupStep, FinalizerInv, ViewIsSafe, Serving
<1>2. CASE Drift
  <2>1. PICK o \in Drifting : Remove(o) /\ amiss' = amiss \cup {o} /\ o \in Everything
    BY <1>2, DriftingAssumption DEF Drift, Everything
  <2>2. o \notin {"pvcs", "namespace"} /\ OthersStay(o)
    BY <1>0, <2>1, OneThingAtATime
  <2> QED
    BY <2>2, NamedHere DEF OthersStay, Volumes
<1>3. CASE EnsureObject \/ UpsertObject \/ CreateJob \/ KeepJob \/ DropFailedJob
  BY <1>3, StoresBuilding
<1>4. CASE ClaimVolumes
  BY <1>0, <1>4 DEF ClaimVolumes, Volumes
<1>5. CASE NamespaceGone
  BY <1>0, <1>5 DEF NamespaceGone, EmptyUnlessUp, Cleared, Stands, Holds, Volumes
<1>6. CASE \/ CreateKB \/ EditSpec \/ DeleteKB \/ Deliver \/ Timer \/ Observe \/ UNCHANGED vars
           \/ Begin \/ Reject \/ Admit \/ Pend \/ Advance \/ Publish \/ Panic \/ ReportFailure
           \/ Fault \/ Release \/ Crash \/ ProbeHealth \/ Refuse
  <2>1. UNCHANGED cluster
    BY <1>6 DEF CreateKB, EditSpec, DeleteKB, Deliver, Timer, Observe, vars, Begin, Reject, Admit,
       Pend, Advance, Publish, Panic, ReportFailure, Fault, Release, Crash, ProbeHealth, Refuse
  <2> QED
    BY <2>1 DEF Volumes
<1> QED
  BY <1>1, <1>2, <1>3, <1>4, <1>5, <1>6 DEF Next, WorkerStep

StoresInv == TypedInv /\ FinalizerInv /\ LostIsGone /\ EmptyUnlessUp /\ UnheldVolumes

(* Initially there is nothing.                                             *)
LEMMA StoresInvInit == Init => StoresInv
<1> SUFFICES ASSUME Init PROVE StoresInv
  OBVIOUS
<1>1. objs["externalSecret"] = None /\ objs["pvcs"] = None
  BY NamedHere DEF Init
<1> QED
  BY <1>1, TypedInit, FinalizerInvInit
  DEF Init, StoresInv, LostIsGone, EmptyUnlessUp, UnheldVolumes, Cleared, Stands, Holds, Volumes

(* All of it is inductive.                                                 *)
LEMMA StoresInvStep == StoresInv /\ [Next]_vars => StoresInv'
<1> SUFFICES ASSUME StoresInv, [Next]_vars PROVE StoresInv'
  OBVIOUS
<1>1. TypedInv' /\ FinalizerInv'
  BY TypedStep, FinalizerInvStep DEF StoresInv, TypedInv
<1>2. LostIsGone' /\ EmptyUnlessUp' /\ UnheldVolumes'
  BY StoresStep DEF StoresInv
<1> QED
  BY <1>1, <1>2 DEF StoresInv

(* Whatever fails, crashes, is re-created or seen late, the volumes of a   *)
(* KnowledgeBase are deleted, or left to their namespace's deletion, only  *)
(* while its own deletion is under way - unless others or a wrong answer   *)
(* touched the volumes or that very namespace.                             *)
THEOREM VolumesAreKept == Spec => VolumesKept
<1>1. StoresInv /\ [Next]_vars
        => [(Volumes /\ ~Volumes') \/ (Volumes /\ ns = "active" /\ ns' # "active")
              => kb.deleting \/ {"pvcs", "namespace"} \cap (amiss \cup amiss') # {}]_vars
  BY VolumesStep DEF StoresInv
<1> QED
  BY <1>1, StoresInvInit, StoresInvStep, PTL DEF Spec, VolumesKept

(***************************************************************************)
(* ReadyIsHonest and RoutedSyncCanStart.  What a pass has behind it stays  *)
(* as it left it until the pass is over, what a wrong answer hides or      *)
(* others delete apart, and the trigger is never there without the rights  *)
(* its syncs need.                                                         *)
(***************************************************************************)
Up == ns = "active" \/ "namespace" \in amiss

There(o) == Holds(o) \/ o \in amiss

StepDone(step) ==
  step.how \in {"ensure", "upsert"} =>
    /\ There(step.obj)
    /\ step.how = "upsert" /\ step.obj \notin amiss => objs[step.obj] = snap.spec

BuiltSoFar ==
  pc \in {"provision", "createJob", "publish"} /\ at > 2 =>
    Up /\ \A j \in DOMAIN Provisioning : j < at => StepDone(Provisioning[j])

JobIsThere ==
  pc \in {"provision", "publish"} =>
    \A j \in DOMAIN Provisioning : j < at /\ Provisioning[j].how = "job" => There("initJob")

RouteIsGranted ==
  Holds("trigger") /\ "trigger" \notin amiss => Up /\ \A o \in Rights : There(o)

Building == BuiltSoFar /\ JobIsThere /\ RouteIsGranted

(* The first two steps are no job and no probe.                            *)
LEMMA JobsComeLater ==
  ASSUME NEW i \in DOMAIN Provisioning,
         Provisioning[i].how \in {"job", "probe"} \/ Provisioning[i].obj = "trigger"
  PROVE  i > 2
<1>1. /\ Ensure("namespace").how = "ensure" /\ Ensure("namespace").obj = "namespace"
      /\ Upsert("externalSecret").how = "upsert" /\ Upsert("externalSecret").obj = "externalSecret"
  BY DEF Ensure, Upsert
<1>2. i # 1 /\ i # 2
  BY <1>1, ProvisioningOrder
<1> QED
  BY <1>2, StepsAreKnown

(* The objects of the steps that make or keep one.                         *)
LEMMA StepObjects ==
  ASSUME NEW j \in DOMAIN Provisioning, Provisioning[j].how \in {"ensure", "upsert"}
  PROVE  /\ Provisioning[j].obj \in Everything \ {"pvcs", "initJob"}
         /\ Provisioning[j].how = "upsert" => Provisioning[j].obj \in Obj \ {"namespace"}
<1>1. Provisioning[j].obj \in Names /\ "pvcs" \notin Names
  BY StepsAreKnown DEF Names
<1>2. Provisioning[j].obj # "initJob"
  BY StepsAreKnown
<1>3. Provisioning[j].how = "upsert" => Provisioning[j].obj # "namespace"
  BY StepsAreKnown DEF Overwritten, Ensured
<1> QED
  BY <1>1, <1>2, <1>3, StepsAreKnown DEF Everything

(* A step done stays done where other objects are touched.                 *)
LEMMA StepsStay ==
  ASSUME NEW o \in Everything, OthersStay(o), snap'.spec = snap.spec,
         NEW j \in DOMAIN Provisioning, StepDone(Provisioning[j]),
         Provisioning[j].how \in {"ensure", "upsert"} => Provisioning[j].obj # o
  PROVE  StepDone(Provisioning[j])'
<1> SUFFICES ASSUME Provisioning[j].how \in {"ensure", "upsert"} PROVE StepDone(Provisioning[j])'
  BY DEF StepDone
<1>1. PICK p \in Everything \ {o} : p = Provisioning[j].obj
  BY StepObjects
<1>2. Holds(p)' = Holds(p) /\ (p \in amiss' <=> p \in amiss)
  BY <1>1 DEF OthersStay
<1>3. Provisioning[j].how = "upsert" => objs'[p] = objs[p]
  BY <1>1, StepObjects DEF OthersStay
<1> QED
  BY <1>1, <1>2, <1>3 DEF StepDone, There

(* A route stays granted where neither it nor what it needs is touched.    *)
LEMMA RoutesStay ==
  ASSUME RouteIsGranted, NEW o \in Everything \ (Rights \cup {"trigger", "namespace"}),
         OthersStay(o)
  PROVE  RouteIsGranted'
<1>1. \A p \in Rights \cup {"trigger", "namespace"} :
        Holds(p)' = Holds(p) /\ (p \in amiss' <=> p \in amiss)
  BY NamedHere DEF OthersStay
<1>2. ns' = ns
  BY DEF OthersStay
<1> QED
  BY <1>1, <1>2 DEF RouteIsGranted, Up, There

(* A provisioning step leaves its target there, built from the spec of the *)
(* pass if it overwrites, and takes nothing away.                          *)
LEMMA BuildingKeeps ==
  ASSUME TypedInv, SpecIsThere, EnsureObject \/ UpsertObject \/ CreateJob, NEW t, t = Target
  PROVE  /\ OthersStay(t) /\ There(t)' /\ (Up => Up')
         /\ Provisioning[at].how = "upsert" => objs'[t] = snap.spec
         /\ snap' = snap /\ at' = at + 1
<1>1. /\ at \in DOMAIN Provisioning /\ t = Provisioning[at].obj
      /\ t \in Everything
      /\ \/ TakeAsThere(t) /\ AtStep("ensure")
         \/ Make(t) /\ (Holds(t) \/ Creatable(t))
  BY BuildingWrites
<1>2. snap' = snap /\ at' = at + 1
  BY DEF EnsureObject, UpsertObject, CreateJob, Proceed
<1>3. OthersStay(t)
  BY <1>1, OneThingAtATime DEF TypedInv
<1>4. snap.spec \in Specs
  BY DEF EnsureObject, UpsertObject, CreateJob, AtStep, SpecIsThere
<1>5. CASE TakeAsThere(t) /\ AtStep("ensure")
  <2>1. There(t)'
    BY <1>5 DEF TakeAsThere, There, Stands, Holds
  <2>2. Up => Up'
    BY <1>5 DEF TakeAsThere, Up, Stands, Holds
  <2> QED
    BY <1>2, <1>3, <1>5, <2>1, <2>2 DEF AtStep
<1>6. CASE Make(t) /\ t = "namespace"
  <2>1. There(t)' /\ Up'
    BY <1>6 DEF Make, There, Holds, Up
  <2> QED
    BY <1>1, <1>2, <1>3, <1>6, <2>1, StepObjects
<1>7. CASE Make(t) /\ t # "namespace"
  <2>1. ns' = ns /\ objs'[t] = snap.spec /\ snap.spec # None /\ amiss' = amiss \ {t}
    BY <1>1, <1>4, <1>7, NoneAssumption DEF Make, TypedInv, TypeOK, Everything
  <2>2. There(t)' /\ (Up => Up')
    BY <1>7, <2>1 DEF There, Holds, Up
  <2> QED
    BY <1>2, <1>3, <2>1, <2>2
<1> QED
  BY <1>1, <1>5, <1>6, <1>7

(* A pass that writes keeps what it has built, and builds the next.        *)
LEMMA WritingBuilds ==
  ASSUME StoresInv, SpecIsThere, BuiltSoFar, JobIsThere,
         EnsureObject \/ UpsertObject \/ CreateJob
  PROVE  BuiltSoFar' /\ JobIsThere'
<1>t. PICK t : t = Target
  OBVIOUS
<1>0. TypedInv /\ TypeOK
  BY DEF StoresInv, TypedInv
<1>1. /\ at \in DOMAIN Provisioning /\ Provisioning[at].how \in {"ensure", "upsert", "job"}
      /\ at \in Nat \ {0} /\ DOMAIN Provisioning \subseteq Nat \ {0}
      /\ t = Provisioning[at].obj /\ t \in Everything
  BY <1>0, <1>t, BuildingWrites, StepsAreKnown
<1>2. /\ OthersStay(t) /\ There(t)' /\ (Up => Up')
      /\ Provisioning[at].how = "upsert" => objs'[t] = snap.spec
      /\ snap' = snap /\ at' = at + 1
  BY <1>0, <1>t, BuildingKeeps
<1>3. pc \in {"provision", "createJob"} /\ (pc = "createJob" => Provisioning[at].how = "job")
  BY <1>0 DEF EnsureObject, UpsertObject, CreateJob, AtStep, TypedInv, PlaceIsKnown
<1>4. at >= 2 => Up'
  <2>1. CASE at > 2
    BY <1>2, <1>3, <2>1 DEF BuiltSoFar
  <2>2. CASE at = 2
    <3>1. t = "externalSecret" /\ Provisioning[at].how = "upsert"
      BY <1>1, <2>2, ProvisioningOrder DEF Upsert
    <3>2. ~AtStep("ensure")
      BY <3>1 DEF AtStep
    <3>3. Holds(t) \/ Creatable(t)
      BY <1>0, <1>t, <3>2, BuildingWrites
    <3>4. Up
      BY <3>1, <3>3, NamedHere DEF Creatable, Up, StoresInv, EmptyUnlessUp, InNamespace, Contents
    <3> QED
      BY <1>2, <3>4
  <2> QED
    BY <1>1, <2>1, <2>2
<1>5. ASSUME NEW j \in DOMAIN Provisioning, Provisioning[j].obj = t
      PROVE  StepDone(Provisioning[j])'
  <2>1. Provisioning[j].how \in {"ensure", "upsert"} => Provisioning[at].how = Provisioning[j].how
    BY <1>1, <1>5, StepsAreKnown
  <2> QED
    BY <1>2, <1>5, <2>1 DEF StepDone
<1>6. ASSUME NEW j \in DOMAIN Provisioning, j < at, at >= 2 PROVE StepDone(Provisioning[j])'
  <2>1. CASE at > 2 /\ Provisioning[j].obj # t
    <3>1. StepDone(Provisioning[j])
      BY <1>3, <1>6, <2>1 DEF BuiltSoFar
    <3> QED
      BY <1>1, <1>2, <2>1, <3>1, StepsStay
  <2>2. CASE Provisioning[j].obj = t
    BY <1>5, <2>2
  <2>3. CASE at = 2
    <3>1. j = 1 /\ Provisioning[j] = Ensure("namespace")
      BY <1>1, <1>6, <2>3, ProvisioningOrder
    <3>2. There("namespace")'
      BY <1>4, <2>3 DEF There, Holds, Up
    <3> QED
      BY <3>1, <3>2 DEF StepDone, Ensure
  <2> QED
    BY <1>1, <1>6, <2>1, <2>2, <2>3
<1>7. BuiltSoFar'
  <2> SUFFICES ASSUME at' > 2
               PROVE  Up' /\ \A j \in DOMAIN Provisioning : j < at' => StepDone(Provisioning[j])'
    BY DEF BuiltSoFar
  <2>1. at >= 2
    BY <1>1, <1>2
  <2> QED
    BY <1>1, <1>2, <1>4, <1>5, <1>6, <2>1
<1>8. JobIsThere'
  <2> SUFFICES ASSUME NEW j \in DOMAIN Provisioning, j < at', Provisioning[j].how = "job"
               PROVE  There("initJob")'
    BY DEF JobIsThere
  <2>1. CASE t = "initJob"
    BY <1>2, <2>1
  <2>2. CASE t # "initJob"
    <3>1. Provisioning[at].how # "job" /\ pc = "provision" /\ j < at
      BY <1>1, <1>2, <1>3, <2>2, StepsAreKnown
    <3>2. There("initJob")
      BY <3>1 DEF JobIsThere
    <3> QED
      BY <1>2, <2>2, <3>2, NamedHere DEF There, OthersStay
  <2> QED
    BY <2>1, <2>2
<1> QED
  BY <1>7, <1>8

(* The steps of a pass that keep the job, take it away or only ask.        *)
LEMMA WaitingBuilds ==
  ASSUME TypedInv, Building, KeepJob \/ ProbeHealth \/ DropFailedJob
  PROVE  Building'
<1> USE DEF Building
<1>1. /\ at \in DOMAIN Provisioning /\ Provisioning[at].how \in {"job", "probe"}
      /\ at > 2 /\ pc = "provision"
      /\ DOMAIN Provisioning \subseteq Nat \ {0}
  BY JobsComeLater, StepsAreKnown
  DEF KeepJob, ProbeHealth, DropFailedJob, AtStep, TypedInv, PlaceIsKnown
<1>2. Up /\ \A j \in DOMAIN Provisioning : j < at => StepDone(Provisioning[j])
  BY <1>1 DEF BuiltSoFar
<1>3. CASE ProbeHealth
  <2>1. UNCHANGED cluster /\ at' = at + 1 /\ snap'.spec = snap.spec
        /\ Provisioning[at].how = "probe"
    BY <1>3 DEF ProbeHealth, Proceed, TypedInv, TypeOK, Record, AtStep
  <2>2. \A o : Holds(o)' = Holds(o)
    BY <2>1, ClusterKept
  <2>3. \A o : There(o)' = There(o)
    BY <2>1, <2>2 DEF There
  <2>4. \A j \in DOMAIN Provisioning : j < at => StepDone(Provisioning[j])'
    BY <1>2, <2>1, <2>3 DEF StepDone
  <2>5. \A j \in DOMAIN Provisioning : j = at => StepDone(Provisioning[j])'
    BY <2>1 DEF StepDone
  <2>6. BuiltSoFar'
    BY <1>1, <1>2, <2>1, <2>4, <2>5 DEF BuiltSoFar, Up
  <2>7. JobIsThere'
    <3> SUFFICES ASSUME NEW j \in DOMAIN Provisioning, j < at', Provisioning[j].how = "job"
                 PROVE  There("initJob")
      BY <2>3 DEF JobIsThere
    <3>1. j < at
      BY <1>1, <2>1
    <3> QED
      BY <1>1, <3>1 DEF JobIsThere
  <2>8. RouteIsGranted'
    BY <2>1, <2>2, <2>3 DEF RouteIsGranted, Up
  <2> QED
    BY <2>6, <2>7, <2>8
<1>4. CASE KeepJob \/ DropFailedJob
  <2>1. /\ Provisioning[at].how = "job" /\ "initJob" \in Everything
        /\ KeepJob => TakeAsThere("initJob")
        /\ DropFailedJob => Erase("initJob")
    BY <1>4, JobWrites
  <2>2. OthersStay("initJob")
    BY <1>4, <2>1, OneThingAtATime DEF TypedInv
  <2>3. snap' = snap
    BY <1>4 DEF KeepJob, DropFailedJob
  <2>4. \A j \in DOMAIN Provisioning : j < at => StepDone(Provisioning[j])'
    BY <1>2, <2>1, <2>2, <2>3, StepsStay, StepObjects
  <2>5. \A j \in DOMAIN Provisioning : j = at => StepDone(Provisioning[j])'
    BY <2>1 DEF StepDone
  <2>6. Up'
    BY <1>2, <2>2, NamedHere DEF Up, OthersStay
  <2>7. RouteIsGranted'
    BY <2>1, <2>2, RoutesStay DEF Rights
  <2>8. CASE KeepJob
    <3>1. at' = at + 1
      BY <2>8 DEF KeepJob, Proceed
    <3>2. There("initJob")'
      BY <2>1, <2>8 DEF TakeAsThere, There, Stands, Holds
    <3> QED
      BY <1>1, <2>4, <2>5, <2>6, <2>7, <3>1, <3>2 DEF BuiltSoFar, JobIsThere
  <2>9. CASE DropFailedJob
    <3>1. at' = at /\ pc' = "createJob"
      BY <2>9 DEF DropFailedJob
    <3> QED
      BY <1>1, <2>4, <2>6, <2>7, <3>1 DEF BuiltSoFar, JobIsThere
  <2> QED
    BY <1>4, <2>8, <2>9
<1> QED
  BY <1>3, <1>4

(* The trigger comes after the rights, and a pass takes none of them away. *)
LEMMA BuildingGrants ==
  ASSUME TypedInv, SpecIsThere, BuiltSoFar, RouteIsGranted,
         EnsureObject \/ UpsertObject \/ CreateJob
  PROVE  RouteIsGranted'
<1>t. PICK t : t = Target
  OBVIOUS
<1>1. /\ at \in DOMAIN Provisioning /\ t = Provisioning[at].obj
      /\ pc \in {"provision", "createJob"} /\ t \in Everything
  BY <1>t, BuildingWrites DEF EnsureObject, UpsertObject, CreateJob, AtStep
<1>2. OthersStay(t) /\ There(t)' /\ (Up => Up')
  BY <1>t, BuildingKeeps
<1>3. \A o \in Rights : There(o) => There(o)'
  BY <1>2, NamedHere DEF OthersStay, There
<1>4. CASE t # "trigger"
  <2>1. Holds("trigger")' = Holds("trigger") /\ ("trigger" \in amiss' <=> "trigger" \in amiss)
    BY <1>2, <1>4, NamedHere DEF OthersStay
  <2> QED
    BY <1>2, <1>3, <2>1 DEF RouteIsGranted
<1>5. CASE t = "trigger"
  <2>1. at > 2
    BY <1>1, <1>5, JobsComeLater
  <2>2. Up /\ \A j \in DOMAIN Provisioning : j < at => StepDone(Provisioning[j])
    BY <1>1, <2>1 DEF BuiltSoFar
  <2>3. \A step \in RightSteps : StepDone(step)
    BY <1>1, <1>5, <2>2, ProvisioningOrder
  <2>4. \A o \in Rights : There(o)
    <3>1. ASSUME NEW o \in Rights \ {"generatorServiceAccount"} PROVE There(o)
      <4>1. Upsert(o) \in RightSteps /\ Upsert(o).how = "upsert" /\ Upsert(o).obj = o
        BY DEF Rights, RightSteps, StepsOf, ResolveRBACSteps, GeneratorRBACSteps, Upsert
      <4> QED
        BY <2>3, <4>1 DEF StepDone
    <3>2. There("generatorServiceAccount")
      <4>1. /\ Ensure("generatorServiceAccount") \in RightSteps
            /\ Ensure("generatorServiceAccount").how = "ensure"
            /\ Ensure("generatorServiceAccount").obj = "generatorServiceAccount"
        BY DEF RightSteps, StepsOf, GeneratorRBACSteps, Ensure
      <4> QED
        BY <2>3, <4>1 DEF StepDone
    <3> QED
      BY <3>1, <3>2
  <2> QED
    BY <1>2, <1>3, <2>2, <2>4 DEF RouteIsGranted
<1> QED
  BY <1>4, <1>5

(* A cleanup takes the trigger before the rights and the namespace.        *)
LEMMA CleanupRevokes ==
  ASSUME TypeOK, ClearedSoFar, RouteIsGranted, CleanupStep PROVE RouteIsGranted'
<1>o. PICK o : o = Cleanup[at]
  OBVIOUS
<1>1. /\ pc = "cleanup" /\ at \in 1 .. 24 /\ at \in DOMAIN Cleanup
      /\ o \in Everything /\ (Erase(o) \/ TakeAsGone(o))
  BY <1>o, CleaningWrites
<1>2. OthersStay(o) /\ Cleared(o)' /\ \A p \in Everything : Cleared(p) => Cleared(p)'
  BY <1>1, OneThingAtATime, WhatClears
<1>3. CASE o \in Rights \cup {"namespace"}
  <2>1. at > 19
    BY <1>1, <1>3, <1>o, CleanupOrder
  <2>2. Cleared("trigger")
    BY <1>1, <2>1, CleanupOrder DEF ClearedSoFar
  <2>3. Cleared("trigger")'
    BY <1>2, <2>2, NamedHere
  <2> QED
    BY <2>3 DEF Cleared, Stands, RouteIsGranted
<1>4. CASE o = "trigger"
  BY <1>2, <1>4 DEF Cleared, Stands, RouteIsGranted
<1>5. CASE o \notin Rights \cup {"trigger", "namespace"}
  BY <1>1, <1>2, <1>5, RoutesStay
<1> QED
  BY <1>3, <1>4, <1>5

(* What others touch that no step of a pass and no route is about.         *)
LEMMA ElsewhereBuilds ==
  ASSUME TypedInv, Building, UNCHANGED << pc, at, snap >>, OthersStay("pvcs")
  PROVE  Building'
<1> USE DEF Building
<1>1. "pvcs" \in Everything /\ "pvcs" \notin Rights \cup {"trigger", "namespace", "initJob"}
  BY NamedHere DEF Rights
<1>2. /\ ns' = ns
      /\ \A p \in {"initJob", "namespace"} :
           Holds(p)' = Holds(p) /\ (p \in amiss' <=> p \in amiss)
  BY <1>1, NamedHere DEF OthersStay
<1>3. RouteIsGranted'
  BY <1>1, RoutesStay
<1>4. ASSUME NEW j \in DOMAIN Provisioning, StepDone(Provisioning[j])
      PROVE  StepDone(Provisioning[j])'
  BY <1>1, <1>4, StepsStay, StepObjects
<1>5. BuiltSoFar'
  BY <1>2, <1>4 DEF BuiltSoFar, Up
<1>6. JobIsThere'
  BY <1>2 DEF JobIsThere, There
<1> QED
  BY <1>3, <1>5, <1>6

(* The cluster takes nothing from a pass under way: its namespace is not   *)
(* being deleted, or was deleted by others.                                *)
LEMMA ClusterBuilds ==
  ASSUME TypedInv, Building, NamespaceGone PROVE Building'
<1> USE DEF Building
<1>1. UNCHANGED << pc, at, snap >> /\ ns = "terminating"
  BY DEF NamespaceGone
<1>2. /\ \A p \in Obj \ Contents : objs'[p] = objs[p]
      /\ \A p \in Everything \ Contents : p \in amiss' <=> p \in amiss
      /\ \A p \in Contents : objs'[p] = None
  BY NamedHere DEF NamespaceGone, Everything
<1>3. "trigger" \notin Contents /\ "namespace" \notin Contents
  BY NamedHere DEF OrgScoped
<1>4. Holds("trigger")' = Holds("trigger") /\ ("trigger" \in amiss' <=> "trigger" \in amiss)
  BY <1>2, <1>3, NamedHere DEF Holds
<1>5. CASE "namespace" \notin amiss
  <2>1. ~Up
    BY <1>1, <1>5 DEF Up
  <2>2. BuiltSoFar'
    BY <1>1, <2>1 DEF BuiltSoFar
  <2>3. JobIsThere'
    <3> SUFFICES ASSUME pc \in {"provision", "publish"}, NEW j \in DOMAIN Provisioning,
                        j < at, Provisioning[j].how = "job"
                 PROVE  FALSE
      BY <1>1 DEF JobIsThere
    <3>1. j > 2 /\ j \in Nat /\ at \in Nat
      BY JobsComeLater, StepsAreKnown DEF TypedInv, TypeOK
    <3> QED
      BY <2>1, <3>1 DEF BuiltSoFar
  <2> QED
    BY <1>4, <2>1, <2>2, <2>3 DEF RouteIsGranted
<1>6. CASE "namespace" \in amiss
  <2>1. Up' /\ amiss' = amiss \cup Contents
    BY <1>6 DEF NamespaceGone, Up
  <2>2. ASSUME NEW p \in Everything, There(p) PROVE There(p)'
    <3>1. CASE p \in Contents
      BY <2>1, <3>1 DEF There
    <3>2. CASE p = "namespace"
      BY <1>6, <2>1, <3>2 DEF There
    <3>3. CASE p \in Obj \ (Contents \cup {"namespace"})
      BY <1>2, <2>1, <2>2, <3>3 DEF There, Holds
    <3> QED
      BY <3>1, <3>2, <3>3 DEF Everything
  <2>3. ASSUME NEW j \in DOMAIN Provisioning, StepDone(Provisioning[j])
        PROVE  StepDone(Provisioning[j])'
    <3> SUFFICES ASSUME Provisioning[j].how \in {"ensure", "upsert"}
                 PROVE  StepDone(Provisioning[j])'
      BY DEF StepDone
    <3>1. PICK p \in Everything : p = Provisioning[j].obj
      BY StepObjects
    <3>2. There(p)'
      BY <2>2, <2>3, <3>1 DEF StepDone
    <3>3. Provisioning[j].how = "upsert" /\ p \notin amiss' => objs'[p] = objs[p]
      BY <1>2, <2>1, <3>1, StepObjects
    <3> QED
      BY <1>1, <2>1, <2>3, <3>1, <3>2, <3>3 DEF StepDone
  <2>4. BuiltSoFar'
    BY <1>1, <2>1, <2>3 DEF BuiltSoFar
  <2>5. JobIsThere'
    BY <1>1, <2>2, NamedHere DEF JobIsThere
  <2>6. RouteIsGranted'
    BY <1>4, <2>1, <2>2, NamedHere DEF RouteIsGranted
  <2> QED
    BY <2>4, <2>5, <2>6
<1> QED
  BY <1>5, <1>6

(* What others delete is amiss from then on.                               *)
LEMMA DriftBuilds ==
  ASSUME TypedInv, Building, Drift PROVE Building'
<1> USE DEF Building
<1>1. PICK o \in Everything : Remove(o) /\ amiss' = amiss \cup {o}
  BY DriftingAssumption DEF Drift, Everything
<1>2. UNCHANGED << pc, at, snap >>
  BY DEF Drift
<1>3. OthersStay(o)
  BY <1>1, OneThingAtATime DEF TypedInv
<1>4. \A p \in Everything : There(p) => There(p)'
  BY <1>1, <1>3 DEF There, OthersStay
<1>5. Up => Up'
  BY <1>1, <1>3 DEF Up, OthersStay
<1>6. ASSUME NEW j \in DOMAIN Provisioning, StepDone(Provisioning[j])
      PROVE  StepDone(Provisioning[j])'
  <2>1. CASE Provisioning[j].obj = o
    BY <1>1, <2>1 DEF StepDone, There
  <2>2. CASE Provisioning[j].obj # o
    BY <1>2, <1>3, <1>6, <2>2, StepsStay
  <2> QED
    BY <2>1, <2>2
<1>7. BuiltSoFar'
  BY <1>2, <1>5, <1>6 DEF BuiltSoFar
<1>8. JobIsThere'
  BY <1>2, <1>4, NamedHere DEF JobIsThere
<1>9. RouteIsGranted'
  <2>1. CASE o = "trigger"
    BY <1>1, <2>1 DEF RouteIsGranted
  <2>2. CASE o # "trigger"
    <3>1. Holds("trigger")' = Holds("trigger") /\ ("trigger" \in amiss' <=> "trigger" \in amiss)
      BY <1>3, <2>2, NamedHere DEF OthersStay
    <3> QED
      BY <1>4, <1>5, <3>1, NamedHere DEF RouteIsGranted
  <2> QED
    BY <2>1, <2>2
<1> QED
  BY <1>7, <1>8, <1>9

(* Whatever leaves the cluster alone either leaves the pass where it is,   *)
(* or begins or ends one.                                                  *)
LEMMA RestingBuilds ==
  ASSUME Building, UNCHANGED cluster,
         \/ UNCHANGED << pc, at, snap >>
         \/ pc' \notin {"provision", "createJob", "publish"}
         \/ at' = 1
  PROVE  Building'
<1> USE DEF Building
<1>1. \A o : Holds(o)' = Holds(o)
  BY ClusterKept
<1>2. \A o : There(o)' = There(o)
  BY <1>1 DEF There
<1>3. RouteIsGranted'
  BY <1>1, <1>2 DEF RouteIsGranted, Up
<1>4. CASE UNCHANGED << pc, at, snap >>
  BY <1>2, <1>3, <1>4 DEF BuiltSoFar, JobIsThere, StepDone, Up
<1>5. CASE pc' \notin {"provision", "createJob", "publish"}
  BY <1>3, <1>5 DEF BuiltSoFar, JobIsThere
<1>6. CASE at' = 1
  <2>1. \A j \in DOMAIN Provisioning : ~(j < 1)
    BY StepsAreKnown
  <2> QED
    BY <1>3, <1>6, <2>1 DEF BuiltSoFar, JobIsThere
<1> QED
  BY <1>4, <1>5, <1>6

BuildInv == StoresInv /\ SpecIsThere /\ Building

(* Initially there is no pass and no trigger.                              *)
LEMMA BuildInvInit == Init => BuildInv
<1> SUFFICES ASSUME Init PROVE BuildInv
  OBVIOUS
<1>1. ~Holds("trigger")
  BY NamedHere DEF Init, Holds
<1>2. ~Gone.live
  BY DEF Gone, Blank
<1>3. SpecIsThere
  BY <1>2 DEF Init, SpecIsThere
<1>4. Building
  BY <1>1 DEF Init, Building, BuiltSoFar, JobIsThere, RouteIsGranted
<1> QED
  BY <1>3, <1>4, StoresInvInit DEF BuildInv

(* All actions together.                                                   *)
LEMMA BuildInvStep == BuildInv /\ [Next]_vars => BuildInv'
<1> SUFFICES ASSUME BuildInv, [Next]_vars PROVE BuildInv'
  OBVIOUS
<1>1. StoresInv' /\ SpecIsThere'
  BY StoresInvStep, SpecStep DEF BuildInv, StoresInv, TypedInv
<1>2. TypedInv /\ TypeOK /\ ClearedSoFar /\ StoresInv
  BY DEF BuildInv, StoresInv, TypedInv, FinalizerInv
<1>3. SpecIsThere /\ Building
  BY DEF BuildInv
<1> SUFFICES Building'
  BY <1>1 DEF BuildInv
<1>4. CASE EnsureObject \/ UpsertObject \/ CreateJob
  BY <1>2, <1>3, <1>4, WritingBuilds, BuildingGrants DEF Building
<1>5. CASE KeepJob \/ ProbeHealth \/ DropFailedJob
  BY <1>2, <1>3, <1>5, WaitingBuilds
<1>6. CASE CleanupStep
  <2>1. pc' = "cleanup"
    BY <1>6 DEF CleanupStep
  <2> QED
    BY <1>2, <1>3, <1>6, <2>1, CleanupRevokes DEF Building, BuiltSoFar, JobIsThere
<1>7. CASE ClaimVolumes
  <2>1. OthersStay("pvcs") /\ UNCHANGED << pc, at, snap >>
    BY <1>2, <1>7, NamedHere DEF ClaimVolumes, OthersStay, Stands, Holds, Everything, TypeOK
  <2> QED
    BY <1>2, <1>3, <2>1, ElsewhereBuilds
<1>8. CASE NamespaceGone
  BY <1>2, <1>3, <1>8, ClusterBuilds
<1>9. CASE Drift
  BY <1>2, <1>3, <1>9, DriftBuilds
<1>10. CASE \/ CreateKB \/ EditSpec \/ DeleteKB \/ Deliver \/ Timer \/ Observe \/ UNCHANGED vars
           \/ Reject \/ Admit \/ Pend \/ Publish \/ Panic \/ ReportFailure \/ Fault
           \/ Release \/ Crash \/ Refuse
  <2>1. /\ UNCHANGED cluster
        /\ UNCHANGED << pc, at, snap >> \/ pc' \in {"idle", "fail"}
    BY <1>10 DEF CreateKB, EditSpec, DeleteKB, Deliver, Timer, Observe, vars, Reject, Admit, Pend,
       Publish, Panic, ReportFailure, Fault, Release, Crash, Refuse, Done
  <2> QED
    BY <1>3, <2>1, RestingBuilds
<1>11. CASE Begin \/ Advance
  <2>1. UNCHANGED cluster /\ (UNCHANGED << pc, at, snap >> \/ at' = 1)
    BY <1>2, <1>11 DEF Begin, Advance, TypedInv, PlaceIsKnown
  <2> QED
    BY <1>3, <2>1, RestingBuilds
<1> QED
  BY <1>4, <1>5, <1>6, <1>7, <1>8, <1>9, <1>10, <1>11 DEF Next, WorkerStep

(* A pass that is about to report Ready has built everything.              *)
LEMMA BuiltAtPublish ==
  ASSUME BuildInv, pc = "publish"
  PROVE  Up /\ There("initJob") /\ BuiltExcept(snap.spec, amiss)
<1>1. at = Len(Provisioning) + 1 /\ at > 2
      /\ \A j \in DOMAIN Provisioning : j < at
  BY ProvisioningOrder, StepsAreKnown DEF BuildInv, StoresInv, TypedInv, PlaceIsKnown
<1>2. Up /\ \A j \in DOMAIN Provisioning : StepDone(Provisioning[j])
  BY <1>1 DEF BuildInv, Building, BuiltSoFar
<1>3. There("initJob")
  <2>1. PICK j \in DOMAIN Provisioning : Provisioning[j] = JobStep
    BY ProvisioningOrder DEF StepsOf, EarlySteps, ServiceSteps, InitJobSteps, JobStep
  <2>2. Provisioning[j].how = "job"
    BY <2>1 DEF JobStep
  <2> QED
    BY <1>1, <2>2 DEF BuildInv, Building, JobIsThere
<1> QED
  BY <1>2, <1>3 DEF BuiltExcept, StepDone, There

(* A pass that is about to report Ready has its namespace up, every object *)
(* there, the overwritten ones built from the spec it read: for any specs, *)
(* failures, crashes and edits, if the pass began in the terminating       *)
(* namespace of a predecessor, and whatever is seen late or deleted behind *)
(* it - but for the very objects that a wrong answer made it pass over or  *)
(* that others deleted.                                                    *)
THEOREM ReadyIsEarned == Spec => []ReadyIsHonest
<1>1. BuildInv => ReadyIsHonest
  BY BuiltAtPublish DEF ReadyIsHonest, Up, There
<1> QED
  BY <1>1, BuildInvInit, BuildInvStep, PTL DEF Spec

(***************************************************************************)
(* ReportsAreUpToDate.  A pass is as good as what it read, and an edit, a  *)
(* deletion or a new KnowledgeBase since then is on its way to the worker  *)
(* or waits for it in the queue.                                           *)
(***************************************************************************)
AtWork == {"advance", "provision", "createJob", "publish"}

PassIsCurrent == pc \in AtWork /\ ~notify /\ ~queued => snap.spec = kb.spec

(* What the pass says of the code graph it has asked itself.               *)
GraphIsProbed ==
  pc \in AtWork =>
    \A j \in DOMAIN Provisioning : j < at /\ Provisioning[j].how = "probe" =>
      (snap.codeGraphReady => HasCodeSources(snap.spec.sources))

(* Whatever changes the spec is announced, and stays so until the worker   *)
(* has come back to the queue.                                             *)
LEMMA PassIsCurrentStep ==
  ASSUME TypeOK, CacheInv, PassIsCurrent, [Next]_vars PROVE PassIsCurrent'
<1> USE DEF PassIsCurrent, AtWork
<1>1. CASE CreateKB \/ EditSpec \/ DeleteKB
  <2>1. UNCHANGED << control, pc, snap >> /\ \E new : Store(new)
    BY <1>1 DEF CreateKB, EditSpec, DeleteKB
  <2> QED
    BY <2>1, StoreIsWatched DEF CacheInv
<1>2. CASE Deliver \/ Timer
  BY <1>2 DEF Deliver, Timer
<1>3. CASE Begin
  <2>1. CASE UNCHANGED worker
    BY <1>3, <2>1 DEF Begin
  <2>2. CASE snap' = view
    BY <1>3, <2>2 DEF Begin, CacheInv, ViewIsWatched
  <2> QED
    BY <1>3, <2>1, <2>2 DEF Begin
<1>4. CASE Advance
  <2>1. kb' = [kb EXCEPT !.phase = "Provisioning"] /\ UNCHANGED << control, snap >> /\ pc = "advance"
        /\ \E new : Store(new)
    BY <1>4 DEF Advance, Store
  <2>2. kb'.spec = kb.spec /\ (notify' \/ ~notify)
    BY <2>1, StoreIsWatched DEF TypeOK, Record, CacheInv
  <2> QED
    BY <2>1, <2>2
<1>5. CASE ProbeHealth
  <2>1. snap'.spec = snap.spec
    BY <1>5 DEF ProbeHealth, TypeOK, Record
  <2> QED
    BY <1>5, <2>1 DEF ProbeHealth, AtStep
<1>6. CASE EnsureObject \/ UpsertObject \/ KeepJob \/ DropFailedJob \/ CreateJob
  BY <1>6 DEF EnsureObject, UpsertObject, KeepJob, DropFailedJob, CreateJob, AtStep
<1>7. CASE \/ Reject \/ Admit \/ Pend \/ Publish \/ Panic \/ ReportFailure \/ Fault \/ Release
           \/ Crash \/ Refuse \/ CleanupStep
  <2>1. pc' \in {"idle", "fail", "cleanup"}
    BY <1>7 DEF Reject, Admit, Pend, Publish, Panic, ReportFailure, Fault, Release, Crash, Refuse,
       CleanupStep, Done
  <2> QED
    BY <2>1
<1>8. CASE Observe \/ NamespaceGone \/ ClaimVolumes \/ Drift \/ UNCHANGED vars
  BY <1>8 DEF Observe, NamespaceGone, ClaimVolumes, Drift, vars
<1> QED
  BY <1>1, <1>2, <1>3, <1>4, <1>5, <1>6, <1>7, <1>8 DEF Next, WorkerStep

(* Behind the probe nothing changes what it answered.                      *)
LEMMA GraphIsProbedStep ==
  ASSUME TypedInv, GraphIsProbed, [Next]_vars PROVE GraphIsProbed'
<1> SUFFICES ASSUME pc' \in AtWork, NEW j \in DOMAIN Provisioning, j < at',
                    Provisioning[j].how = "probe", snap'.codeGraphReady
             PROVE  HasCodeSources(snap'.spec.sources)
  BY DEF GraphIsProbed
<1> USE DEF GraphIsProbed, AtWork
<1>0. j \in Nat \ {0}
  BY StepsAreKnown
<1>1. CASE Begin \/ Advance
  <2>1. at' = 1 \/ UNCHANGED << pc, at, snap >>
    BY <1>1 DEF Begin, Advance, TypedInv, PlaceIsKnown
  <2> QED
    BY <1>0, <2>1
<1>2. CASE ProbeHealth
  <2>1. PICK vector \in ProbeResults,
             graph \in (IF HasCodeSources(snap.spec.sources) THEN ProbeResults ELSE {FALSE}) :
          snap' = [snap EXCEPT !.vectorStoreReady = vector, !.codeGraphReady = graph]
    BY <1>2 DEF ProbeHealth
  <2>2. snap'.spec = snap.spec /\ snap'.codeGraphReady = graph
    BY <2>1 DEF TypedInv, TypeOK, Record
  <2> QED
    BY <2>1, <2>2
<1>3. CASE EnsureObject \/ UpsertObject \/ KeepJob \/ CreateJob
  <2>1. /\ at' = at + 1 /\ snap' = snap /\ pc \in {"provision", "createJob"}
        /\ at \in DOMAIN Provisioning /\ Provisioning[at].how # "probe"
    BY <1>3 DEF EnsureObject, UpsertObject, KeepJob, CreateJob, AtStep, Proceed, TypedInv,
       PlaceIsKnown
  <2>2. j < at
    BY <1>0, <2>1 DEF TypedInv, TypeOK
  <2> QED
    BY <2>1, <2>2
<1>4. CASE DropFailedJob
  BY <1>4 DEF DropFailedJob, AtStep
<1>5. CASE \/ Reject \/ Admit \/ Pend \/ Publish \/ Panic \/ ReportFailure \/ Fault \/ Release
           \/ Crash \/ Refuse \/ CleanupStep
  <2>1. pc' \in {"idle", "fail", "cleanup"}
    BY <1>5 DEF Reject, Admit, Pend, Publish, Panic, ReportFailure, Fault, Release, Crash, Refuse,
       CleanupStep, Done
  <2> QED
    BY <2>1
<1>6. CASE \/ CreateKB \/ EditSpec \/ DeleteKB \/ Deliver \/ Timer \/ Observe
           \/ NamespaceGone \/ ClaimVolumes \/ Drift \/ UNCHANGED vars
  <2>1. UNCHANGED << pc, at, snap >>
    BY <1>6 DEF CreateKB, EditSpec, DeleteKB, Deliver, Timer, Observe, NamespaceGone,
       ClaimVolumes, Drift, vars
  <2> QED
    BY <2>1
<1> QED
  BY <1>1, <1>2, <1>3, <1>4, <1>5, <1>6 DEF Next, WorkerStep

ReportInv == BuildInv /\ CacheInv /\ PassIsCurrent /\ GraphIsProbed

(* A Ready that the worker reports with nothing on its way or queued is    *)
(* that of the present spec, however the user's edits, deletions and       *)
(* re-creations fell into the pass, whatever is seen late or deleted       *)
(* behind it; only the objects so touched are no part of the report.       *)
THEOREM ReportsAreCurrent == Spec => ReportsAreUpToDate
<1>1. Init => ReportInv
  BY BuildInvInit, CacheInit DEF Init, ReportInv, PassIsCurrent, GraphIsProbed, AtWork
<1>2. ReportInv /\ [Next]_vars => ReportInv'
  BY BuildInvStep, CacheStep, PassIsCurrentStep, GraphIsProbedStep
  DEF ReportInv, BuildInv, StoresInv, TypedInv
<1>3. ReportInv /\ [Next]_vars
        => [Publish /\ ~notify /\ ~queued => SettledExcept(amiss)']_vars
  <2> SUFFICES ASSUME ReportInv, Publish, ~notify, ~queued PROVE SettledExcept(amiss)'
    OBVIOUS
  <2>1. pc = "publish" /\ UNCHANGED cluster
    BY DEF Publish
  <2>2. kb' = [kb EXCEPT !.phase = "Ready", !.vectorStoreReady = snap.vectorStoreReady,
                         !.codeGraphReady = snap.codeGraphReady]
    BY DEF Publish, Store
  <2>3. /\ kb'.phase = "Ready" /\ kb'.spec = kb.spec /\ kb'.codeGraphReady = snap.codeGraphReady
        /\ snap.spec = kb.spec
    BY <2>1, <2>2 DEF ReportInv, PassIsCurrent, AtWork, BuildInv, StoresInv, TypedInv, TypeOK,
       Record
  <2>4. Up /\ BuiltExcept(snap.spec, amiss)
    BY <2>1, BuiltAtPublish DEF ReportInv
  <2>5. snap.codeGraphReady => HasCodeSources(snap.spec.sources)
    <3>1. PICK j \in DOMAIN Provisioning : Provisioning[j] = Probe
      BY ProvisioningOrder DEF StepsOf, HealthSteps
    <3>2. Provisioning[j].how = "probe" /\ j < at
      BY <2>1, <3>1, StepsAreKnown
      DEF Probe, ReportInv, BuildInv, StoresInv, TypedInv, PlaceIsKnown
    <3> QED
      BY <2>1, <3>2 DEF ReportInv, GraphIsProbed, AtWork
  <2>6. BuiltExcept(kb.spec, amiss)'
    <3>1. \A o : Holds(o)' = Holds(o)
      BY <2>1, ClusterKept
    <3> SUFFICES ASSUME NEW i \in DOMAIN Provisioning,
                        Provisioning[i].how \in {"ensure", "upsert"},
                        Provisioning[i].obj \notin amiss'
                 PROVE  /\ Holds(Provisioning[i].obj)'
                        /\ Provisioning[i].how = "upsert" => objs'[Provisioning[i].obj] = kb'.spec
      BY DEF BuiltExcept
    <3> QED
      BY <2>1, <2>3, <2>4, <3>1 DEF BuiltExcept
  <2>7. Up'
    BY <2>1, <2>4 DEF Up
  <2> QED
    BY <2>3, <2>5, <2>6, <2>7 DEF SettledExcept, Up
<1> QED
  BY <1>1, <1>2, <1>3, PTL DEF Spec, ReportsAreUpToDate

(* Wherever a push is routed to, the sync it starts has its namespace and  *)
(* its rights: the trigger comes after them and goes before them, whatever *)
(* interrupts the passes, whatever they see late, and whatever else of the *)
(* KnowledgeBase is lost behind the controller.                            *)
THEOREM RoutedSyncsCanStart == Spec => []RoutedSyncCanStart
<1>1. BuildInv => RoutedSyncCanStart
  BY DEF BuildInv, Building, RouteIsGranted, RoutedSyncCanStart, Up, There
<1> QED
  BY <1>1, BuildInvInit, BuildInvStep, PTL DEF Spec

(***************************************************************************)
(* The contract.  Step by step, the controller only does what              *)
(* KnowledgeBaseContract lets it do; what others delete is their step.     *)
(***************************************************************************)
Owner ==
  IF ~kb.live THEN "none"
  ELSE IF ~kb.finalizer THEN "plain"
  ELSE IF kb.deleting THEN "leaving" ELSE "held"

Things == OrgScoped \cup {"namespace"}

Footprint == {o \in Things : Stands(o) /\ o \notin amiss}

(* What the cleanup pass has read is on its way out.                       *)
CleansLeaving == pc = "cleanup" => Held(snap) /\ snap.deleting

ContractInv == TypedInv /\ FinalizerInv /\ CleansLeaving

(* A pass that cleans up began with what it cleans up.                     *)
LEMMA CleansLeavingStep ==
  ASSUME TypeOK, CleansLeaving, [Next]_vars PROVE CleansLeaving'
<1>1. CASE Begin
  <2>1. CASE view.live /\ (view.deleting => view.finalizer) /\ pc' = Entry(view) /\ snap' = view
    BY <2>1 DEF CleansLeaving, Entry, Progress, Admission, Held
  <2>2. CASE UNCHANGED << pc, at, snap >>
    BY <2>2 DEF CleansLeaving
  <2> QED
    BY <1>1, <2>1, <2>2 DEF Begin
<1>2. CASE CleanupStep
  BY <1>2 DEF CleanupStep, CleansLeaving, Held
<1>3. CASE \/ CreateKB \/ EditSpec \/ DeleteKB \/ Deliver \/ Timer \/ Observe
           \/ NamespaceGone \/ ClaimVolumes \/ Drift \/ UNCHANGED vars
  <2>1. UNCHANGED << pc, at, snap >>
    BY <1>3 DEF CreateKB, EditSpec, DeleteKB, Deliver, Timer, Observe, NamespaceGone,
       ClaimVolumes, Drift, vars
  <2> QED
    BY <2>1 DEF CleansLeaving, Held
<1>4. CASE \/ Reject \/ Admit \/ Pend \/ Advance \/ EnsureObject \/ UpsertObject \/ KeepJob
           \/ DropFailedJob \/ CreateJob \/ ProbeHealth \/ Publish \/ Refuse \/ Panic
           \/ ReportFailure \/ Fault \/ Release \/ Crash
  <2>1. pc' # "cleanup"
    BY <1>4 DEF Reject, Admit, Pend, Advance, EnsureObject, UpsertObject, KeepJob,
       DropFailedJob, CreateJob, ProbeHealth, Publish, Refuse, Panic, ReportFailure, Fault,
       Release, Crash, Done, Proceed
  <2> QED
    BY <2>1 DEF CleansLeaving
<1> QED
  BY <1>1, <1>2, <1>3, <1>4 DEF Next, WorkerStep

(* The footprint where nothing of the cluster changes...                   *)
LEMMA FootprintKept == ASSUME UNCHANGED cluster PROVE Footprint' = Footprint
<1>1. \A o : Stands(o)' = Stands(o)
  BY ClusterKept DEF Stands
<1> QED
  BY <1>1 DEF Footprint

(* ... and where one call concerns one thing.                              *)
LEMMA FootprintOf ==
  ASSUME NEW o \in Everything, OthersStay(o)
  PROVE  /\ o \notin Things => Footprint' = Footprint
         /\ o \notin Footprint' => Footprint' = Footprint \ {o}
         /\ (o \in Footprint => o \in Footprint')
              => Footprint' = Footprint \/ (o \in Things /\ Footprint' = Footprint \cup {o})
<1>1. \A p \in Things \ {o} : p \in Footprint' <=> p \in Footprint
  BY NamedHere DEF OthersStay, Footprint, Things
<1> QED
  BY <1>1 DEF Footprint

(* What any step does to owner and footprint, the contract allows.         *)
Allowed ==
  \/ Owner' = Owner /\ Footprint' = Footprint
  \/ /\ Footprint' = Footprint
     /\ << Owner, Owner' >> \in {<< "none", "plain" >>, << "plain", "none" >>,
                                 << "plain", "held" >>, << "held", "leaving" >>}
  \/ Owner = "leaving" /\ Owner' = "none" /\ Footprint = {} /\ Footprint' = {}
  \/ /\ Owner \in {"held", "leaving"} /\ Owner' = Owner
     /\ \E thing \in Things : Footprint' = Footprint \cup {thing}
  \/ /\ Owner = "leaving" /\ Owner' = Owner
     /\ \E thing \in Things : Footprint' = Footprint \ {thing}

(* Users and the cluster.                                                  *)
LEMMA EnvironmentIsAllowed ==
  ASSUME ContractInv,
         CreateKB \/ EditSpec \/ DeleteKB \/ NamespaceGone \/ ClaimVolumes
  PROVE  Allowed
<1> USE DEF ContractInv, TypedInv
<1>1. CASE CreateKB
  <2>1. PICK spec \in Specs : kb' = Fresh(spec)
    BY <1>1 DEF CreateKB, Store
  <2>2. Owner = "none" /\ Owner' = "plain"
    BY <1>1, <2>1 DEF CreateKB, Owner, Fresh, Blank
  <2>3. Footprint' = Footprint
    BY <1>1, FootprintKept DEF CreateKB
  <2> QED
    BY <2>2, <2>3 DEF Allowed
<1>2. CASE EditSpec
  <2>1. PICK spec \in Specs : kb' = [kb EXCEPT !.spec = spec]
    BY <1>2 DEF EditSpec, Store
  <2>2. Owner' = Owner
    BY <2>1 DEF Owner, TypeOK, Record
  <2> QED
    BY <1>2, <2>2, FootprintKept DEF EditSpec, Allowed
<1>3. CASE DeleteKB
  <2>1. Footprint' = Footprint
    BY <1>3, FootprintKept DEF DeleteKB
  <2>2. CASE kb.finalizer
    <3>1. kb' = [kb EXCEPT !.deleting = TRUE]
      BY <1>3, <2>2 DEF DeleteKB, Store
    <3>2. Owner = "held" /\ Owner' = "leaving"
      BY <1>3, <2>2, <3>1 DEF DeleteKB, Owner, TypeOK, Record
    <3> QED
      BY <2>1, <3>2 DEF Allowed
  <2>3. CASE ~kb.finalizer
    <3>1. kb' = Gone /\ ~Gone.live
      BY <1>3, <2>3 DEF DeleteKB, Store, Gone, Blank
    <3>2. Owner = "plain" /\ Owner' = "none"
      BY <1>3, <2>3, <3>1 DEF DeleteKB, Owner
    <3> QED
      BY <2>1, <3>2 DEF Allowed
  <2> QED
    BY <2>2, <2>3
<1>4. CASE NamespaceGone
  <2>1. /\ ns # "active" /\ ns' # "active"
        /\ \A p \in Things : p \in amiss' <=> p \in amiss
        /\ \A p \in OrgScoped : objs'[p] = objs[p] /\ p # "namespace"
    BY <1>4, NamedHere, OrgScopedAreObjects DEF NamespaceGone, Things
  <2>2. Footprint' = Footprint
    BY <2>1 DEF Footprint, Things, Stands, Holds
  <2>3. Owner' = Owner
    BY <1>4 DEF NamespaceGone, Owner
  <2> QED
    BY <2>2, <2>3 DEF Allowed
<1>5. CASE ClaimVolumes
  <2>1. OthersStay("pvcs")
    BY <1>5, NamedHere DEF ClaimVolumes, OthersStay, Stands, Holds, Everything, TypeOK
  <2>2. Footprint' = Footprint
    BY <2>1, FootprintOf, NamedHere DEF Things
  <2>3. Owner' = Owner
    BY <1>5 DEF ClaimVolumes, Owner
  <2> QED
    BY <2>2, <2>3 DEF Allowed
<1> QED
  BY <1>1, <1>2, <1>3, <1>4, <1>5

(* The worker's writes of the KnowledgeBase.                               *)
LEMMA StatusIsAllowed ==
  ASSUME ContractInv, CacheInv,
         Reject \/ Admit \/ Pend \/ Advance \/ Publish \/ ReportFailure \/ Release
  PROVE  Allowed
<1> USE DEF ContractInv, TypedInv
<1>1. Footprint' = Footprint
  BY FootprintKept DEF Reject, Admit, Pend, Advance, Publish, ReportFailure, Release
<1>2. CASE Reject \/ Pend \/ Advance \/ Publish \/ ReportFailure
  <2>1. \/ kb' = kb
        \/ \E phase \in Phases : kb' = [kb EXCEPT !.phase = phase]
        \/ Publish
    BY <1>2 DEF Reject, Pend, Advance, ReportFailure, Store, Phases
  <2>2. kb'.live = kb.live /\ kb'.finalizer = kb.finalizer /\ kb'.deleting = kb.deleting
    <3>1. CASE Publish
      BY <3>1 DEF Publish, Store, TypeOK, Record
    <3>2. CASE kb' = kb \/ \E phase \in Phases : kb' = [kb EXCEPT !.phase = phase]
      BY <3>2 DEF TypeOK, Record
    <3> QED
      BY <2>1, <3>1, <3>2
  <2>3. Owner' = Owner
    BY <2>2 DEF Owner
  <2> QED
    BY <1>1, <2>3 DEF Allowed
<1>3. CASE Admit
  <2>1. kb' = kb \/ (kb = snap /\ kb' = [kb EXCEPT !.finalizer = TRUE])
    BY <1>3 DEF Admit, Store, CacheInv, CurrentIsLatest
  <2>2. CASE kb' = kb
    BY <1>1, <2>2 DEF Owner, Allowed
  <2>3. CASE kb = snap /\ kb' = [kb EXCEPT !.finalizer = TRUE]
    <3>1. kb.live /\ ~kb.deleting
      BY <1>3, <2>3 DEF Admit, FinalizerInv, AdmitIsSafe
    <3>2. Owner \in {"plain", "held"} /\ Owner' = "held"
      BY <2>3, <3>1 DEF Owner, TypeOK, Record
    <3> QED
      BY <1>1, <3>2 DEF Allowed
  <2> QED
    BY <2>1, <2>2, <2>3
<1>4. CASE Release
  <2>1. CASE current
    <3>1. kb' = Gone /\ ~Gone.live
      BY <1>4, <2>1 DEF Release, Store, Gone, Blank
    <3>2. Owner = "leaving" /\ Owner' = "none"
      BY <1>4, <2>1, <3>1
      DEF Release, CleansLeaving, Held, Owner, CacheInv, CurrentIsLatest
    <3>3. Footprint = {}
      <4>1. pc = "cleanup" /\ at > 24
        BY <1>4, CleanupOrder DEF Release, FinalizerInv, ClearedSoFar, TypeOK
      <4>2. \A o \in Things : Cleared(o)
        BY <4>1, CleanupOrder DEF FinalizerInv, ClearedSoFar, OrgScoped, Things, TypeOK
      <4> QED
        BY <4>2 DEF Cleared, Footprint
    <3> QED
      BY <1>1, <3>2, <3>3 DEF Allowed
  <2>2. CASE ~current
    BY <1>1, <1>4, <2>2 DEF Release, Owner, Allowed
  <2> QED
    BY <2>1, <2>2
<1> QED
  BY <1>2, <1>3, <1>4

(* The worker's writes of the cluster.                                     *)
LEMMA WorkIsAllowed ==
  ASSUME ContractInv, SpecIsThere,
         EnsureObject \/ UpsertObject \/ KeepJob \/ DropFailedJob \/ CreateJob \/ CleanupStep
  PROVE  Allowed
<1> USE DEF ContractInv
<1>1. kb' = kb /\ Owner' = Owner
  BY DEF EnsureObject, UpsertObject, KeepJob, DropFailedJob, CreateJob, CleanupStep, Owner
<1>2. CASE EnsureObject \/ UpsertObject \/ CreateJob
  <2>1. Owner \in {"held", "leaving"}
    BY <1>2 DEF EnsureObject, UpsertObject, CreateJob, AtStep, FinalizerInv, BuildsHeld, Held,
       Owner
  <2>t. PICK t : t = Target
    OBVIOUS
  <2>2. t \in Everything /\ (TakeAsThere(t) \/ Make(t)) /\ OthersStay(t) /\ There(t)'
    BY <1>2, <2>t, BuildingWrites, BuildingKeeps
  <2>3. t \in Footprint => t \in Footprint'
    <3>1. CASE TakeAsThere(t)
      BY <3>1 DEF Footprint, TakeAsThere, Stands, Holds
    <3>2. CASE Make(t)
      <4>1. t \notin amiss' /\ Holds(t)' /\ (t = "namespace" => ns' = "active")
        BY <2>2, <3>2 DEF Make, There
      <4> QED
        BY <4>1 DEF Footprint, Stands
    <3> QED
      BY <2>2, <3>1, <3>2
  <2> QED
    BY <1>1, <2>1, <2>2, <2>3, FootprintOf DEF Allowed
<1>3. CASE KeepJob \/ DropFailedJob
  <2>1. OthersStay("initJob") /\ "initJob" \in Everything
    BY <1>3, JobWrites, OneThingAtATime DEF TypedInv
  <2>2. Footprint' = Footprint
    BY <2>1, FootprintOf, NamedHere DEF Things
  <2> QED
    BY <1>1, <2>2 DEF Allowed
<1>4. CASE CleanupStep
  <2>o. PICK o : o = Cleanup[at]
    OBVIOUS
  <2>1. o \in Everything /\ OthersStay(o) /\ Cleared(o)'
    BY <1>4, <2>o, CleaningWrites, OneThingAtATime, WhatClears DEF TypedInv
  <2>2. Footprint' = Footprint \ {o}
    BY <2>1, FootprintOf DEF Cleared, Footprint
  <2>3. CASE o \notin Footprint
    BY <1>1, <2>2, <2>3 DEF Allowed
  <2>4. CASE o \in Footprint
    <3>1. Held(kb) /\ o \in Things
      BY <2>4 DEF Footprint, Things, FinalizerInv, GuardedByFinalizer, Held
    <3>2. kb.deleting
      BY <1>4, <3>1 DEF CleanupStep, FinalizerInv, ViewIsSafe, Serving
    <3>3. Owner = "leaving"
      BY <3>1, <3>2 DEF Held, Owner
    <3> QED
      BY <1>1, <2>2, <3>1, <3>3 DEF Allowed
  <2> QED
    BY <2>3, <2>4
<1> QED
  BY <1>2, <1>3, <1>4

(* Whoever takes the step, if it is not one of others.                     *)
LEMMA StepsAreAllowed ==
  ASSUME CacheInv, ContractInv, SpecIsThere, [Next]_vars, ~Drift PROVE Allowed
<1>1. CASE \/ Deliver \/ Timer \/ Observe \/ Crash \/ Begin \/ ProbeHealth
           \/ Refuse \/ Panic \/ Fault \/ UNCHANGED vars
  <2>1. UNCHANGED kb /\ UNCHANGED cluster
    BY <1>1 DEF Deliver, Timer, Observe, Crash, Begin, ProbeHealth, Refuse, Panic,
       Fault, vars
  <2> QED
    BY <2>1, FootprintKept DEF Allowed, Owner
<1> QED
  BY <1>1, EnvironmentIsAllowed, StatusIsAllowed, WorkIsAllowed DEF Next, WorkerStep

(* What is allowed is a step of the contract, or none.                     *)
LEMMA AllowedSteps == ASSUME Allowed PROVE [Contract!Next]_(Contract!vars)
<1>1. CASE Owner' = Owner /\ Footprint' = Footprint
  BY <1>1 DEF Owner, Footprint, Things, Contract!vars
<1>2. CASE /\ Footprint' = Footprint
           /\ << Owner, Owner' >> \in {<< "none", "plain" >>, << "plain", "none" >>,
                                       << "plain", "held" >>, << "held", "leaving" >>}
  <2>1. Contract!Appear \/ Contract!Vanish \/ Contract!Hold \/ Contract!Leave
    BY <1>2 DEF Owner, Footprint, Things, Contract!Appear, Contract!Vanish, Contract!Hold, Contract!Leave
  <2> QED
    BY <2>1 DEF Contract!Next
<1>3. CASE Owner = "leaving" /\ Owner' = "none" /\ Footprint = {} /\ Footprint' = {}
  <2>1. Contract!Release
    BY <1>3 DEF Owner, Footprint, Things, Contract!Release
  <2> QED
    BY <2>1 DEF Contract!Next
<1>4. ASSUME Owner \in {"held", "leaving"}, Owner' = Owner,
             NEW thing \in Things, Footprint' = Footprint \cup {thing}
      PROVE  Contract!Build(thing)
  BY <1>4 DEF Owner, Footprint, Things, Contract!Build
<1>5. ASSUME Owner = "leaving", Owner' = Owner,
             NEW thing \in Things, Footprint' = Footprint \ {thing}
      PROVE  Contract!Clear(thing)
  BY <1>5 DEF Owner, Footprint, Things, Contract!Clear
<1> QED
  BY <1>1, <1>2, <1>3, <1>4, <1>5 DEF Allowed, Things, Contract!Next

(* The safety half of ImplementsContract: step by step and from the start, *)
(* the controller does what KnowledgeBaseContract allows - nothing appears *)
(* unheld, nothing is torn down unasked, nothing is let go while something *)
(* is left of it that its cleanup was not told to be gone.  The only other *)
(* steps are deletions behind the controller.                              *)
THEOREM ContractIsKept == Spec => Contract!Init /\ [][Contract!Next \/ Drift]_(Contract!vars)
<1> DEFINE Inv == CacheInv /\ ContractInv /\ SpecIsThere
<1>1. Init => Inv
  <2> SUFFICES ASSUME Init PROVE Inv
    OBVIOUS
  <2>1. ~Gone.live
    BY DEF Gone, Blank
  <2> QED
    BY <2>1, TypedInit, CacheInit, FinalizerInvInit
    DEF Init, ContractInv, CleansLeaving, SpecIsThere
<1>2. Inv /\ [Next]_vars => Inv'
  BY CacheStep, FinalizerInvStep, TypedStep, CleansLeavingStep, SpecStep
  DEF ContractInv, TypedInv
<1>3. Inv /\ [Next]_vars => [Contract!Next \/ Drift]_(Contract!vars)
  BY StepsAreAllowed, AllowedSteps
<1>4. Init => Contract!Init
  <2> SUFFICES ASSUME Init PROVE Contract!Init
    OBVIOUS
  <2>1. ~kb.live
    BY DEF Init, Gone, Blank
  <2>2. ns # "active" /\ \A o \in OrgScoped : ~Stands(o)
    BY OrgScopedAreObjects, NamedHere DEF Init, Stands, Holds
  <2> QED
    BY <2>1, <2>2 DEF Contract!Init, Stands
<1> HIDE DEF Inv
<1> QED
  BY <1>1, <1>2, <1>3, <1>4, PTL DEF Spec

================================================================================
