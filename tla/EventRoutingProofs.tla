------------------------- MODULE EventRoutingProofs -------------------------
(***************************************************************************)
(* Theorems about EventRouting: it composes the passes of RepoMapping      *)
(* without changing them, and routes pushes to those that want them.       *)
(***************************************************************************)
EXTENDS EventRouting, RepoMappingProofs

USE DEF routing, caches, events, users, server, informer, pass

(***************************************************************************)
(* EventRouting implements RepoMapping.                                    *)
(***************************************************************************)

(* What happens outside of the passes, and without the users.              *)
EventStep ==
  \/ \E k \in KBs, kind \in Kinds : ObserveRoute(kind, k)
  \/ \E r \in Repos : Push(r) \/ Resolve(r)
  \/ \E sync \in found : StartSync(sync) \/ LoseSync(sync)

(* Every step is one of RepoMapping or leaves its variables alone.         *)
LEMMA RoutingStepMaps == [RoutingNext]_allVars => [Next]_vars
<1> SUFFICES ASSUME [RoutingNext]_allVars PROVE [Next]_vars
  OBVIOUS
<1>1. ASSUME NEW k \in KBs, UserStep(k) PROVE Next
  BY <1>1 DEF UserStep, Next
<1>2. ASSUME NEW k \in KBs, RoutingPass(k) PROVE Next \/ UNCHANGED vars
  <2>1. CASE MapStep(k)
    BY <2>1 DEF MapStep, MappingStep, PassStep, Next
  <2>2. CASE EndPass(k) \/ ReleaseAll(k)
    BY <2>2 DEF EndPass, ReleaseAll, MappingStep, PassStep, Next
  <2>3. CASE \/ EnsureStores(k) \/ DropStores(k) \/ PutTemplate(k) \/ PutTrigger(k)
             \/ PassOver(k) \/ DropTrigger(k) \/ DropTemplate(k)
    BY <2>3 DEF EnsureStores, DropStores, PutTemplate, PutTrigger, PassOver, DropTrigger,
       DropTemplate
  <2> QED
    BY <1>2, <2>1, <2>2, <2>3 DEF RoutingPass
<1>3. ASSUME NEW k \in KBs, RoutingFault(k) \/ Delete(k) PROVE Next
  BY <1>3 DEF RoutingFault, Next
<1>4. CASE Observe \/ RoutingCrash
  BY <1>4 DEF RoutingCrash, Next
<1>5. ASSUME EventStep PROVE UNCHANGED vars
  BY <1>5 DEF EventStep, ObserveRoute, Push, Resolve, StartSync, LoseSync
<1>6. CASE UNCHANGED allVars
  BY <1>6 DEF allVars
<1> QED
  BY <1>1, <1>2, <1>3, <1>4, <1>5, <1>6 DEF RoutingNext, EventStep

(* Whatever RepoMapping promises holds when databases, templates, triggers *)
(* and events are around it: its specification is implemented.             *)
THEOREM ImplementsMapping == RoutingSpec => Spec
<1>1. RoutingInit => Init
  BY DEF RoutingInit
<1> QED
  BY <1>1, RoutingStepMaps, PTL DEF RoutingSpec, Spec

(***************************************************************************)
(* The invariant.                                                          *)
(***************************************************************************)
AddedTypeOK ==
  /\ stores \in [KBs -> BOOLEAN] /\ template \in [KBs -> BOOLEAN]
  /\ trigger \in [KBs -> SUBSET Repos]
  /\ place \in [KBs -> 0..2]
  /\ view \in [Kinds -> [KBs -> {"none", "old", "latest"}]]
  /\ skipped \subseteq Kinds \X KBs
  /\ runs \subseteq Pushed /\ found \subseteq Sync
  /\ tracked \in [KBs -> SUBSET Pushed]

(* Nobody is about to write a mapping without databases behind it.         *)
StoresBeforeMapping == \A k \in KBs : pc[k] \in {"create", "write"} => stores[k]

(* The steps after the mapping are taken in their order.                   *)
TemplateAroundTrigger ==
  \A k \in KBs :
    /\ place[k] > 0 => pc[k] \in {"mapped", "unmapped"}
    /\ pc[k] = "mapped" /\ place[k] > 0 => template[k]
    /\ pc[k] = "unmapped" /\ place[k] > 0 => trigger[k] = {} \/ << "trigger", k >> \in skipped

(* Sources, those a pass has read, and entries that were not passed over   *)
(* are all of this life, as far as events can tell.                        *)
TrackedCovers ==
  \A k \in KBs, r \in Pushed :
      r \in sources[k] \/ r \in spec[k] \/ (data[r] = k /\ k \notin missed)
        => r \in tracked[k]

(* So is what the resolvers have found, until it is outdated.              *)
FoundAreTracked == \A s \in found : s.outdated \/ s.repo \in tracked[s.kb]

RoutingInv ==
  /\ MappingInv /\ AddedTypeOK
  /\ StoresBeforeMapping /\ MappedHaveStores
  /\ TemplateAroundTrigger /\ TriggersHaveTemplates
  /\ TrackedCovers /\ FoundAreTracked

(* The initial state satisfies the invariant.                              *)
LEMMA RoutingInvInit == RoutingInit => RoutingInv
  BY InvInit, NobodyAssumption, PushedAssumption
  DEF RoutingInit, RoutingInv, AddedTypeOK, StoresBeforeMapping, MappedHaveStores,
      TemplateAroundTrigger, TriggersHaveTemplates, TrackedCovers, FoundAreTracked, Init, Empty

(* An entry that appears, or is not missed any more, is written by its     *)
(* KnowledgeBase, whose pass had read that it tracks the repository.       *)
LEMMA EntriesAppear ==
  ASSUME MappingInv, [Next]_vars, NEW r \in Repos, NEW k \in KBs,
         data'[r] = k, k \notin missed', data[r] # k \/ k \in missed
  PROVE  /\ pc[k] \in {"create", "write"} /\ r \in spec[k]
         /\ UNCHANGED << life, sources, spec >>
<1> USE DEF MappingInv
<1>0. data \in Data
  BY DEF TypeOK
<1>1. ASSUME NEW j \in KBs, CreateMapping(j) \/ WriteMapping(j)
      PROVE  /\ pc[k] \in {"create", "write"} /\ r \in spec[k]
             /\ UNCHANGED << life, sources, spec >>
  <2>1. /\ pc[j] \in {"create", "write"} /\ data' = copy[j] /\ missed' = missed \ {j}
        /\ UNCHANGED << life, sources, spec >>
    BY <1>1 DEF CreateMapping, WriteMapping, Store, Goto
  <2>2. copy[j] = With(data, j, spec[j])
    BY <1>1 DEF CreateMapping, WriteMapping, CopiesAreClaims, CacheIsFresh
  <2>3. j = k /\ r \in spec[k]
    BY <1>0, <2>1, <2>2, NobodyAssumption DEF With, Without, Data
  <2> QED
    BY <2>1, <2>3
<1>2. ASSUME NEW j \in KBs, Unmap(j) PROVE FALSE
  <2>1. data' = Without(data, j) /\ missed' = missed \ {j}
    BY <1>2 DEF Unmap, Store, CopiesAreClaims
  <2> QED
    BY <1>0, <2>1, NobodyAssumption DEF Without, Data
<1>3. ASSUME NEW j \in KBs, SkipUnmapping(j) PROVE FALSE
  <2>1. data' = data /\ missed' = IF Entries(j) = {} THEN missed \ {j} ELSE missed \cup {j}
    BY <1>3 DEF SkipUnmapping
  <2> QED
    BY <2>1 DEF Entries
<1>4. ASSUME NEW j \in KBs,
             \/ Join(j) \/ EditSources(j) \/ Delete(j) \/ Fault(j) \/ Begin(j)
             \/ ReadMapping(j) \/ Refused(j) \/ ReadForCleanup(j)
             \/ Finish(j) \/ Release(j)
      PROVE  UNCHANGED << data, missed >>
  BY <1>4 DEF Join, EditSources, Delete, Fault, Begin, ReadMapping, Refused, ReadForCleanup,
     Finish, Release
<1>5. ASSUME Observe \/ Crash \/ UNCHANGED vars PROVE UNCHANGED << data, missed >>
  BY <1>5 DEF Observe, Crash, vars
<1>6. ASSUME UNCHANGED << data, missed >> PROVE FALSE
  BY <1>6
<1> QED
  BY <1>1, <1>2, <1>3, <1>4, <1>5, <1>6 DEF Next, PassStep, MappingStep

(***************************************************************************)
(* Each part of the invariant, step by step.                               *)
(***************************************************************************)

(* The cache of templates and triggers shows what it may show.             *)
LEMMA ReflectType ==
  ASSUME AddedTypeOK, NEW kind \in Kinds, NEW k \in KBs, Reflect(kind, k)
  PROVE  view' \in [Kinds -> [KBs -> {"none", "old", "latest"}]]
<1> DEFINE Answers == {"none", "old", "latest"}
<1>1. CASE UNCHANGED routing
  BY <1>1 DEF Reflect, AddedTypeOK
<1>2. CASE ~UNCHANGED routing
  <2>1. view[kind] \in [KBs -> Answers]
    BY DEF AddedTypeOK
  <2>2. PICK shows \in Answers : view' = [view EXCEPT ![kind][k] = shows]
    <3> DEFINE shows == IF kind \in Lagging
                        THEN (IF view[kind][k] = "latest" THEN "old" ELSE view[kind][k])
                        ELSE IF Exists(kind, k)' THEN "latest" ELSE "none"
    <3>1. view[kind][k] \in Answers
      BY <2>1
    <3>2. shows \in Answers
      BY <3>1
    <3>3. view' = [view EXCEPT ![kind][k] = shows]
      BY <1>2 DEF Reflect
    <3> QED
      BY <3>2, <3>3
  <2> QED
    BY <2>1, <2>2 DEF AddedTypeOK
<1> QED
  BY <1>1, <1>2

(* The types of what is added.                                             *)
LEMMA AddedTypeStep ==
  ASSUME TypeOK, AddedTypeOK, [RoutingNext]_allVars PROVE AddedTypeOK'
<1> USE DEF AddedTypeOK
<1>1. ASSUME NEW k \in KBs, UserStep(k) PROVE AddedTypeOK'
  <2>1. sources' \in [KBs -> SUBSET Repos]
    BY <1>1, ChoicesAssumption DEF UserStep, Join, EditSources, TypeOK
  <2> QED
    BY <1>1, <2>1 DEF UserStep
<1>2. ASSUME NEW k \in KBs, EnsureStores(k) \/ DropStores(k) PROVE AddedTypeOK'
  BY <1>2 DEF EnsureStores, DropStores
<1>3. ASSUME NEW k \in KBs,
             PutTemplate(k) \/ PutTrigger(k) \/ PassOver(k) \/ DropTrigger(k) \/ DropTemplate(k)
      PROVE  AddedTypeOK'
  <2>1. place[k] \in 0..1 /\ place' = [place EXCEPT ![k] = @ + 1]
    BY <1>3 DEF PutTemplate, PutTrigger, PassOver, DropTrigger, DropTemplate, StepOn
  <2>2. place' \in [KBs -> 0..2]
    BY <2>1
  <2>3. spec[k] \in SUBSET Repos
    BY DEF TypeOK
  <2>4. view' \in [Kinds -> [KBs -> {"none", "old", "latest"}]]
    BY <1>3, ReflectType DEF PutTemplate, PutTrigger, PassOver, DropTrigger, DropTemplate, Kinds
  <2>5. skipped' \subseteq Kinds \X KBs
    BY <1>3 DEF PutTemplate, PutTrigger, PassOver, DropTrigger, DropTemplate, Leaving, Kinds
  <2>6. template' \in [KBs -> BOOLEAN] /\ trigger' \in [KBs -> SUBSET Repos]
    BY <1>3, <2>3 DEF PutTemplate, PutTrigger, PassOver, DropTrigger, DropTemplate
  <2>7. UNCHANGED << stores, runs, found, tracked >>
    BY <1>3 DEF PutTemplate, PutTrigger, PassOver, DropTrigger, DropTemplate
  <2> QED
    BY <2>2, <2>4, <2>5, <2>6, <2>7
<1>4. ASSUME NEW k \in KBs, MapStep(k) \/ EndPass(k) \/ RoutingFault(k) PROVE AddedTypeOK'
  BY <1>4 DEF MapStep, EndPass, RoutingFault, added
<1>5. ASSUME NEW k \in KBs, ReleaseAll(k) PROVE AddedTypeOK'
  <2>1. ASSUME NEW s \in found PROVE [s EXCEPT !.outdated = @ \/ s.kb = k] \in Sync
    <3>1. s \in Sync
      OBVIOUS
    <3> QED
      BY <3>1 DEF Sync
  <2>2. found' \subseteq Sync
    BY <1>5, <2>1 DEF ReleaseAll
  <2> QED
    BY <1>5, <2>2 DEF ReleaseAll
<1>6. CASE RoutingCrash
  <2>1. view' \in [Kinds -> [KBs -> {"none", "old", "latest"}]]
    BY <1>6 DEF RoutingCrash, Latest
  <2> QED
    BY <1>6, <2>1 DEF RoutingCrash
<1>7. ASSUME NEW kind \in Kinds, NEW k \in KBs, ObserveRoute(kind, k) PROVE AddedTypeOK'
  <2>1. Latest(kind, k) \in {"none", "old", "latest"} /\ view[kind] \in [KBs -> {"none", "old", "latest"}]
    BY DEF Latest
  <2>2. view' \in [Kinds -> [KBs -> {"none", "old", "latest"}]]
    BY <1>7, <2>1 DEF ObserveRoute
  <2> QED
    BY <1>7, <2>2 DEF ObserveRoute
<1>8. ASSUME NEW r \in Repos, Push(r) PROVE AddedTypeOK'
  BY <1>8 DEF Push
<1>9. ASSUME NEW r \in Repos, Resolve(r) PROVE AddedTypeOK'
  <2>1. data[r] \in KBs => [repo |-> r, kb |-> data[r], outdated |-> data[r] \in missed] \in Sync
    BY <1>9 DEF Resolve, Sync
  <2>2. found' \subseteq Sync
    BY <1>9, <2>1 DEF Resolve
  <2> QED
    BY <1>9, <2>2 DEF Resolve
<1>10. ASSUME NEW sync \in found, StartSync(sync) \/ LoseSync(sync) PROVE AddedTypeOK'
  BY <1>10 DEF StartSync, LoseSync
<1>11. CASE UNCHANGED added
  BY <1>11 DEF added
<1> QED
  BY <1>1, <1>2, <1>3, <1>4, <1>5, <1>6, <1>7, <1>8, <1>9, <1>10, <1>11
  DEF RoutingNext, RoutingPass, allVars

(* Databases come before the mapping and go after no more is written.      *)
LEMMA StoresStep ==
  ASSUME RoutingInv, [RoutingNext]_allVars PROVE StoresBeforeMapping'
<1> SUFFICES ASSUME NEW j \in KBs, pc'[j] \in {"create", "write"} PROVE stores'[j]
  BY DEF StoresBeforeMapping
<1> USE DEF RoutingInv, MappingInv, TypeOK, AddedTypeOK, StoresBeforeMapping
<1>1. ASSUME NEW k \in KBs, UserStep(k) PROVE stores'[j]
  BY <1>1 DEF UserStep, Join, EditSources
<1>2. ASSUME NEW k \in KBs, EnsureStores(k) \/ DropStores(k) PROVE stores'[j]
  BY <1>2 DEF EnsureStores, DropStores, vars
<1>3. ASSUME NEW k \in KBs, MapStep(k) PROVE stores'[j]
  <2>1. stores' = stores
    BY <1>3 DEF MapStep, added
  <2>2. CASE ReadMapping(k)
    BY <1>3, <2>1, <2>2 DEF MapStep, ReadMapping, Goto, Begin, CreateMapping, WriteMapping,
       Unmap, ReadForCleanup, SkipUnmapping
  <2>3. CASE \/ Begin(k) \/ CreateMapping(k) \/ WriteMapping(k) \/ Unmap(k)
             \/ ReadForCleanup(k) \/ SkipUnmapping(k)
    BY <2>1, <2>3 DEF Begin, CreateMapping, WriteMapping, Unmap, ReadForCleanup,
       SkipUnmapping, Goto
  <2> QED
    BY <1>3, <2>2, <2>3 DEF MapStep
<1>4. ASSUME NEW k \in KBs,
             PutTemplate(k) \/ PutTrigger(k) \/ PassOver(k) \/ DropTrigger(k) \/ DropTemplate(k)
      PROVE  stores'[j]
  BY <1>4 DEF PutTemplate, PutTrigger, PassOver, DropTrigger, DropTemplate, vars
<1>5. ASSUME NEW k \in KBs, EndPass(k) \/ ReleaseAll(k) \/ RoutingFault(k) PROVE stores'[j]
  BY <1>5 DEF EndPass, Refused, Finish, ReleaseAll, Release, RoutingFault, Fault, End
<1>6. ASSUME NEW k \in KBs, Delete(k) /\ UNCHANGED added PROVE stores'[j]
  BY <1>6 DEF Delete, added
<1>7. CASE (Observe /\ UNCHANGED added) \/ RoutingCrash
  BY <1>7 DEF Observe, RoutingCrash, Crash, added
<1>8. ASSUME EventStep PROVE stores'[j]
  BY <1>8 DEF EventStep, ObserveRoute, Push, Resolve, StartSync, LoseSync, vars
<1>9. CASE UNCHANGED allVars
  BY <1>9 DEF allVars, vars, added
<1> QED
  BY <1>1, <1>2, <1>3, <1>4, <1>5, <1>6, <1>7, <1>8, <1>9 DEF RoutingNext, RoutingPass, EventStep

(* A mapped KnowledgeBase that stays has databases: its own writes found   *)
(* them, a new one of its name finds no entry but what was passed over,    *)
(* and only those that leave drop them.                                    *)
LEMMA MappedStep ==
  ASSUME RoutingInv, [RoutingNext]_allVars PROVE MappedHaveStores'
<1> SUFFICES ASSUME NEW r \in Repos, NEW k \in KBs, data'[r] = k, life'[k] = "held",
                    k \notin missed'
             PROVE  stores'[k]
  BY DEF MappedHaveStores
<1>1. [Next]_vars
  BY RoutingStepMaps
<1>2. stores[k]
  <2>1. CASE data[r] = k /\ k \notin missed
    <3>1. life[k] # "absent"
      BY <2>1 DEF RoutingInv, MappingInv, EntriesOwned
    <3>2. life[k] = "held"
      <4>1. life \in [KBs -> {"absent", "held", "leaving"}]
        BY DEF RoutingInv, MappingInv, TypeOK
      <4>2. ASSUME life[k] = "leaving" PROVE life'[k] # "held"
        <5>1. ASSUME NEW j \in KBs, Join(j) \/ Delete(j) \/ Release(j) PROVE life'[k] # "held"
          BY <4>1, <4>2, <5>1 DEF Join, Delete, Release
        <5>2. ASSUME UNCHANGED life PROVE life'[k] # "held"
          BY <4>2, <5>2
        <5>3. ASSUME NEW j \in KBs,
                     \/ EditSources(j) \/ Fault(j) \/ MappingStep(j) \/ Finish(j)
              PROVE  UNCHANGED life
          BY <5>3 DEF EditSources, Fault, MappingStep, Begin, ReadMapping, CreateMapping,
             WriteMapping, Refused, SkipUnmapping, ReadForCleanup, Unmap, Finish
        <5>4. ASSUME Observe \/ Crash \/ UNCHANGED vars PROVE UNCHANGED life
          BY <5>4 DEF Observe, Crash, vars
        <5> QED
          BY <1>1, <5>1, <5>2, <5>3, <5>4 DEF Next, PassStep
      <4> QED
        BY <3>1, <4>1, <4>2
    <3> QED
      BY <2>1, <3>2 DEF RoutingInv, MappedHaveStores
  <2>2. CASE data[r] # k \/ k \in missed
    BY <1>1, <2>2, EntriesAppear DEF RoutingInv, StoresBeforeMapping
  <2> QED
    BY <2>1, <2>2
<1>3. ASSUME NEW j \in KBs, DropStores(j) PROVE stores'[k]
  <2>1. life[j] = "leaving" /\ life' = life
    BY <1>3 DEF DropStores, RoutingInv, MappingInv, PassesHaveOwners, CleaningUp, vars
  <2> QED
    BY <1>2, <1>3, <2>1 DEF DropStores, RoutingInv, AddedTypeOK
<1>4. ASSUME NEW j \in KBs, EnsureStores(j) PROVE stores'[k]
  BY <1>2, <1>4 DEF EnsureStores, RoutingInv, AddedTypeOK
<1>5. ASSUME UNCHANGED stores PROVE stores'[k]
  BY <1>2, <1>5
<1> QED
  BY <1>3, <1>4, <1>5
  DEF RoutingNext, RoutingPass, UserStep, MapStep, PutTemplate, PutTrigger, PassOver,
      DropTrigger, DropTemplate, EndPass, ReleaseAll, RoutingFault, RoutingCrash, ObserveRoute,
      Push, Resolve, StartSync, LoseSync, added, allVars

(* The template comes before the trigger and goes after it.                *)
LEMMA TemplateStep ==
  ASSUME TypeOK, AddedTypeOK, TemplateAroundTrigger, TriggersHaveTemplates, [RoutingNext]_allVars
  PROVE  TemplateAroundTrigger' /\ TriggersHaveTemplates'
<1> DEFINE Good(j) ==
      /\ place[j] > 0 => pc[j] \in {"mapped", "unmapped"}
      /\ pc[j] = "mapped" /\ place[j] > 0 => template[j]
      /\ pc[j] = "unmapped" /\ place[j] > 0
           => trigger[j] = {} \/ << "trigger", j >> \in skipped
      /\ trigger[j] # {} => template[j] \/ << "trigger", j >> \in skipped
<1> SUFFICES ASSUME NEW j \in KBs PROVE Good(j)'
  BY DEF TemplateAroundTrigger, TriggersHaveTemplates
<1>g. Good(j)
  BY DEF TemplateAroundTrigger, TriggersHaveTemplates
<1>0. /\ pc \in [KBs -> {"idle"} \cup Reconciling \cup CleaningUp]
      /\ place \in [KBs -> 0..2] /\ template \in [KBs -> BOOLEAN]
      /\ trigger \in [KBs -> SUBSET Repos]
  BY DEF TypeOK, AddedTypeOK
<1>1. ASSUME UNCHANGED << pc, place, routing, skipped >> PROVE Good(j)'
  BY <1>1, <1>g
<1>2. ASSUME NEW k \in KBs, PutTemplate(k) PROVE Good(j)'
  BY <1>0, <1>g, <1>2 DEF PutTemplate, StepOn, vars
<1>3. ASSUME NEW k \in KBs, PutTrigger(k) PROVE Good(j)'
  <2>1. CASE k = j
    BY <1>0, <1>g, <1>3, <2>1 DEF PutTrigger, StepOn, vars
  <2>2. CASE k # j
    <3>1. << "trigger", j >> \in skipped => << "trigger", j >> \in skipped'
      BY <1>3, <2>2 DEF PutTrigger
    <3>2. pc'[j] = pc[j] /\ place'[j] = place[j] /\ trigger'[j] = trigger[j] /\ template'[j] = template[j]
      BY <1>0, <1>3, <2>2 DEF PutTrigger, StepOn, vars
    <3> QED
      BY <1>g, <3>1, <3>2
  <2> QED
    BY <2>1, <2>2
<1>4. ASSUME NEW k \in KBs, DropTrigger(k) PROVE Good(j)'
  <2>1. CASE k = j
    BY <1>0, <1>g, <1>4, <2>1 DEF DropTrigger, StepOn, vars
  <2>2. CASE k # j
    <3>1. << "trigger", j >> \in skipped => << "trigger", j >> \in skipped'
      BY <1>4, <2>2 DEF DropTrigger
    <3>2. pc'[j] = pc[j] /\ place'[j] = place[j] /\ trigger'[j] = trigger[j] /\ template'[j] = template[j]
      BY <1>0, <1>4, <2>2 DEF DropTrigger, StepOn, vars
    <3> QED
      BY <1>g, <3>1, <3>2
  <2> QED
    BY <2>1, <2>2
<1>5. ASSUME NEW k \in KBs, DropTemplate(k) PROVE Good(j)'
  <2>1. skipped' = skipped \ {<< "template", k >>} /\ UNCHANGED << pc, trigger >>
    BY <1>5 DEF DropTemplate, vars
  <2>2. << "trigger", j >> \in skipped => << "trigger", j >> \in skipped'
    BY <2>1
  <2> QED
    BY <1>0, <1>g, <1>5, <2>1, <2>2 DEF DropTemplate, StepOn
<1>p. ASSUME NEW k \in KBs, PassOver(k) PROVE Good(j)'
  <2>1. UNCHANGED << pc, trigger, template >> /\ pc[k] = "unmapped" /\ place' = [place EXCEPT ![k] = @ + 1]
    BY <1>p DEF PassOver, StepOn, vars
  <2>2. CASE place[k] = 0
    <3>1. skipped' = IF trigger[k] # {} THEN skipped \cup {<< "trigger", k >>}
                     ELSE skipped \ {<< "trigger", k >>}
      BY <1>p, <2>2 DEF PassOver, Leaving, Exists
    <3>2. CASE k = j
      BY <1>0, <1>g, <2>1, <3>1, <3>2
    <3>3. CASE k # j
      <4>1. << "trigger", j >> \in skipped => << "trigger", j >> \in skipped'
        BY <3>1, <3>3
      <4> QED
        BY <1>0, <1>g, <2>1, <3>3, <4>1
    <3> QED
      BY <3>2, <3>3
  <2>3. CASE place[k] # 0
    <3>1. << "trigger", j >> \in skipped => << "trigger", j >> \in skipped'
      BY <1>p, <2>3 DEF PassOver, Leaving
    <3>2. place[k] > 0
      BY <1>0, <2>3
    <3> QED
      BY <1>0, <1>g, <2>1, <3>1, <3>2
  <2> QED
    BY <2>2, <2>3
<1>6. ASSUME NEW k \in KBs, MapStep(k) PROVE Good(j)'
  <2>1. UNCHANGED << place, routing, skipped >> /\ pc[k] \notin {"mapped", "unmapped"}
    BY <1>6 DEF MapStep, added, Begin, ReadMapping, CreateMapping, WriteMapping, Unmap,
       ReadForCleanup, SkipUnmapping
  <2>2. k # j => pc'[j] = pc[j]
    BY <1>0, <1>6 DEF MapStep, Begin, ReadMapping, CreateMapping, WriteMapping, Unmap,
       ReadForCleanup, SkipUnmapping, Goto
  <2>3. k = j => place[j] = 0
    BY <1>0, <1>g, <2>1
  <2> QED
    BY <1>g, <2>1, <2>2, <2>3
<1>7. ASSUME NEW k \in KBs, EndPass(k) \/ ReleaseAll(k) \/ RoutingFault(k) PROVE Good(j)'
  <2>1. /\ pc' = [pc EXCEPT ![k] = "idle"] /\ place' = [place EXCEPT ![k] = 0]
        /\ UNCHANGED << routing, skipped >>
    BY <1>7 DEF EndPass, Refused, Finish, ReleaseAll, Release, RoutingFault, Fault, End
  <2> QED
    BY <1>0, <1>g, <2>1
<1>8. CASE RoutingCrash
  BY <1>0, <1>g, <1>8 DEF RoutingCrash, Crash
<1>9. ASSUME NEW k \in KBs,
             \/ UserStep(k) \/ (Delete(k) /\ UNCHANGED added)
             \/ EnsureStores(k) \/ DropStores(k)
      PROVE  UNCHANGED << pc, place, routing, skipped >>
  BY <1>9 DEF UserStep, Join, EditSources, Delete, EnsureStores, DropStores, added, vars
<1>10. ASSUME (Observe /\ UNCHANGED added) \/ UNCHANGED allVars
       PROVE  UNCHANGED << pc, place, routing, skipped >>
  BY <1>10 DEF Observe, added, allVars, vars
<1>11. ASSUME EventStep PROVE UNCHANGED << pc, place, routing, skipped >>
  BY <1>11 DEF EventStep, ObserveRoute, Push, Resolve, StartSync, LoseSync, vars
<1> QED
  BY <1>1, <1>2, <1>3, <1>4, <1>5, <1>p, <1>6, <1>7, <1>8, <1>9, <1>10, <1>11
  DEF RoutingNext, RoutingPass, EventStep

(* A new life starts with nothing to its name, and adds to it what it      *)
(* tracks before anything can be written for it.                           *)
LEMMA TrackedStep ==
  ASSUME RoutingInv, [RoutingNext]_allVars PROVE TrackedCovers'
<1> USE DEF TrackedCovers
<1>0. /\ MappingInv /\ [Next]_vars /\ Pushed \subseteq Repos
      /\ sources \in [KBs -> SUBSET Repos] /\ spec \in [KBs -> SUBSET Repos]
      /\ tracked \in [KBs -> SUBSET Pushed] /\ data \in Data
  BY RoutingStepMaps, PushedAssumption DEF RoutingInv, MappingInv, TypeOK, AddedTypeOK
<1>1. ASSUME NEW k \in KBs, UserStep(k) PROVE TrackedCovers'
  <2>1. /\ UNCHANGED << spec, data, missed >>
        /\ tracked' = [tracked EXCEPT ![k] = @ \cup (sources'[k] \cap Pushed)]
        /\ \A j \in KBs \ {k} : sources'[j] = sources[j]
    BY <1>0, <1>1 DEF UserStep, Join, EditSources
  <2> QED
    BY <1>0, <2>1 DEF RoutingInv
<1>2. ASSUME NEW k \in KBs, ReleaseAll(k) PROVE TrackedCovers'
  <2>1. /\ sources' = [sources EXCEPT ![k] = {}] /\ spec' = [spec EXCEPT ![k] = {}]
        /\ tracked' = [tracked EXCEPT ![k] = {}] /\ UNCHANGED << data, missed >>
    BY <1>2 DEF ReleaseAll, Release, End
  <2>2. k \in missed \/ \A r \in Repos : data[r] # k
    BY <1>0, <1>2 DEF ReleaseAll, Release, MappingInv, UnmappedHaveNone
  <2> QED
    BY <1>0, <2>1, <2>2 DEF RoutingInv
<1>3. ASSUME tracked' = tracked, sources' = sources,
             \A j \in KBs : spec'[j] \in {spec[j], sources[j], {}}
      PROVE  TrackedCovers'
  <2> SUFFICES ASSUME NEW k \in KBs, NEW r \in Pushed,
                      \/ r \in sources'[k] \/ r \in spec'[k]
                      \/ data'[r] = k /\ k \notin missed'
               PROVE  r \in tracked[k]
    BY <1>3
  <2>1. CASE r \in sources'[k] \/ r \in spec'[k]
    BY <1>3, <2>1 DEF RoutingInv
  <2>2. CASE data'[r] = k /\ k \notin missed' /\ (data[r] # k \/ k \in missed)
    BY <1>0, <2>2, EntriesAppear DEF RoutingInv
  <2>3. CASE data[r] = k /\ k \notin missed
    BY <2>3 DEF RoutingInv
  <2> QED
    BY <2>1, <2>2, <2>3
<1>4. ASSUME NEW k \in KBs,
             \/ MapStep(k) \/ EndPass(k) \/ RoutingFault(k) \/ (Delete(k) /\ UNCHANGED added)
      PROVE  /\ tracked' = tracked /\ sources' = sources
             /\ \A j \in KBs : spec'[j] \in {spec[j], sources[j], {}}
  BY <1>0, <1>4 DEF MapStep, Begin, ReadMapping, CreateMapping, WriteMapping, Unmap,
     ReadForCleanup, SkipUnmapping, Goto, EndPass, Refused, Finish, RoutingFault, Fault, End,
     Delete, added
<1>5. ASSUME NEW k \in KBs,
             \/ EnsureStores(k) \/ DropStores(k) \/ PutTemplate(k) \/ PutTrigger(k)
             \/ PassOver(k) \/ DropTrigger(k) \/ DropTemplate(k)
      PROVE  UNCHANGED << tracked, sources, spec >>
  BY <1>5 DEF EnsureStores, DropStores, PutTemplate, PutTrigger, PassOver, DropTrigger,
     DropTemplate, vars
<1>6. CASE RoutingCrash
  BY <1>3, <1>6 DEF RoutingCrash, Crash
<1>7. ASSUME EventStep PROVE UNCHANGED << tracked, sources, spec >>
  BY <1>7 DEF EventStep, ObserveRoute, Push, Resolve, StartSync, LoseSync, vars
<1>8. ASSUME (Observe /\ UNCHANGED added) \/ UNCHANGED allVars
      PROVE  UNCHANGED << tracked, sources, spec >>
  BY <1>8 DEF Observe, added, allVars, vars
<1>9. ASSUME UNCHANGED << tracked, sources, spec >> PROVE TrackedCovers'
  BY <1>3, <1>9
<1> QED
  BY <1>1, <1>2, <1>3, <1>4, <1>5, <1>6, <1>7, <1>8, <1>9 DEF RoutingNext, RoutingPass, EventStep

(* What a resolver finds is tracked, and is outdated when its KnowledgeBase *)
(* goes.                                                                   *)
LEMMA FoundStep ==
  ASSUME RoutingInv, [RoutingNext]_allVars PROVE FoundAreTracked'
<1> USE DEF FoundAreTracked
<1>0. /\ found \subseteq Sync /\ runs \subseteq Pushed /\ tracked \in [KBs -> SUBSET Pushed]
      /\ FoundAreTracked /\ TrackedCovers
  BY DEF RoutingInv, AddedTypeOK
<1>1. ASSUME NEW r \in Repos, Resolve(r) PROVE FoundAreTracked'
  <2>1. r \in Pushed /\ UNCHANGED << data, missed, tracked >>
    BY <1>0, <1>1 DEF Resolve, vars
  <2>2. data[r] \in KBs => data[r] \in missed \/ r \in tracked[data[r]]
    BY <1>0, <2>1 DEF TrackedCovers
  <2> DEFINE new == [repo |-> r, kb |-> data[r], outdated |-> data[r] \in missed]
  <2>3. found' = found \/ (data[r] \in KBs /\ found' = found \cup {new})
    BY <1>1 DEF Resolve
  <2>4. data[r] \in KBs => new.outdated \/ new.repo \in tracked[new.kb]
    BY <2>2
  <2> HIDE DEF new
  <2> QED
    BY <1>0, <2>1, <2>3, <2>4
<1>2. ASSUME NEW k \in KBs, ReleaseAll(k) PROVE FoundAreTracked'
  <2> SUFFICES ASSUME NEW t \in found' PROVE t.outdated \/ t.repo \in tracked'[t.kb]
    OBVIOUS
  <2>1. PICK s \in found : t = [s EXCEPT !.outdated = @ \/ s.kb = k]
    BY <1>2 DEF ReleaseAll
  <2>2. /\ s \in Sync /\ t.repo = s.repo /\ t.kb = s.kb
        /\ t.outdated <=> s.outdated \/ s.kb = k
    BY <1>0, <2>1 DEF Sync
  <2>3. s.kb # k => tracked'[s.kb] = tracked[s.kb]
    BY <1>0, <1>2, <2>2 DEF ReleaseAll, Sync
  <2> QED
    BY <1>0, <2>2, <2>3
<1>3. ASSUME NEW k \in KBs, UserStep(k) PROVE FoundAreTracked'
  <2>1. found' = found /\ \A j \in KBs : tracked[j] \subseteq tracked'[j]
    BY <1>0, <1>3 DEF UserStep
  <2>2. \A s \in found : s.kb \in KBs
    BY <1>0 DEF Sync
  <2> QED
    BY <1>0, <2>1, <2>2
<1>4. ASSUME found' \subseteq found, UNCHANGED tracked PROVE FoundAreTracked'
  BY <1>0, <1>4
<1>5. ASSUME NEW k \in KBs,
             \/ EnsureStores(k) \/ DropStores(k) \/ MapStep(k) \/ PutTemplate(k)
             \/ PutTrigger(k) \/ PassOver(k) \/ DropTrigger(k) \/ DropTemplate(k)
             \/ EndPass(k) \/ RoutingFault(k) \/ (Delete(k) /\ UNCHANGED added)
      PROVE  UNCHANGED << found, tracked >>
  BY <1>5 DEF EnsureStores, DropStores, MapStep, PutTemplate, PutTrigger, PassOver,
     DropTrigger, DropTemplate, EndPass, RoutingFault, added
<1>6. ASSUME \/ RoutingCrash \/ (Observe /\ UNCHANGED added) \/ UNCHANGED allVars
             \/ \E k \in KBs, kind \in Kinds : ObserveRoute(kind, k)
             \/ \E r \in Repos : Push(r)
      PROVE  UNCHANGED << found, tracked >>
  BY <1>6 DEF RoutingCrash, ObserveRoute, Push, added, allVars
<1>7. ASSUME NEW sync \in found, StartSync(sync) \/ LoseSync(sync)
      PROVE  found' \subseteq found /\ UNCHANGED tracked
  BY <1>7 DEF StartSync, LoseSync
<1> QED
  BY <1>1, <1>2, <1>3, <1>4, <1>5, <1>6, <1>7 DEF RoutingNext, RoutingPass

(* The invariant is inductive.                                             *)
LEMMA RoutingInvStep ==
  ASSUME RoutingInv, [RoutingNext]_allVars PROVE RoutingInv'
<1>1. MappingInv'
  BY RoutingStepMaps, InvStep DEF RoutingInv
<1>2. AddedTypeOK'
  BY AddedTypeStep DEF RoutingInv, MappingInv
<1>3. TemplateAroundTrigger' /\ TriggersHaveTemplates'
  BY TemplateStep DEF RoutingInv, MappingInv
<1> QED
  BY <1>1, <1>2, <1>3, StoresStep, MappedStep, TrackedStep, FoundStep DEF RoutingInv

(***************************************************************************)
(* Theorems.                                                               *)
(***************************************************************************)

(* In every reachable state every variable has its type.                   *)
THEOREM RoutingTypeCorrect == RoutingSpec => []RoutingTypeOK
<1>1. RoutingInit => TypeOK /\ AddedTypeOK
  BY RoutingInvInit DEF RoutingInv, MappingInv
<1>2. TypeOK /\ AddedTypeOK /\ [RoutingNext]_allVars => TypeOK' /\ AddedTypeOK'
  BY RoutingStepMaps, TypeStep, AddedTypeStep
<1>3. TypeOK /\ AddedTypeOK => RoutingTypeOK
  BY DEF AddedTypeOK, RoutingTypeOK
<1> QED
  BY <1>1, <1>2, <1>3, PTL DEF RoutingSpec

(* Whatever interrupts the passes and whatever their caches show, a        *)
(* trigger is without its template only after a cleanup that was not shown *)
(* the trigger.                                                            *)
THEOREM TriggersAreServed == RoutingSpec => []TriggersHaveTemplates
<1> DEFINE Inv == TypeOK /\ AddedTypeOK /\ TemplateAroundTrigger /\ TriggersHaveTemplates
<1>1. RoutingInit => Inv
  BY RoutingInvInit DEF RoutingInv, MappingInv
<1>2. Inv /\ [RoutingNext]_allVars => Inv'
  BY RoutingStepMaps, TypeStep, AddedTypeStep, TemplateStep
<1>3. Inv => TriggersHaveTemplates
  OBVIOUS
<1> QED
  BY <1>1, <1>2, <1>3, PTL DEF RoutingSpec

(* Whatever the caches show, a KnowledgeBase that stays is mapped without  *)
(* databases only by entries that a cleanup was not shown.                 *)
THEOREM RoutesAreServed == RoutingSpec => []MappedHaveStores
<1>1. RoutingInv /\ [RoutingNext]_allVars => RoutingInv'
  BY RoutingInvStep
<1>2. RoutingInv => MappedHaveStores
  BY DEF RoutingInv
<1> QED
  BY <1>1, <1>2, RoutingInvInit, PTL DEF RoutingSpec

(* However long ago the push was, however much happens between the lookup  *)
(* and the creation of the sync, and whatever the caches show: the sync is *)
(* one of a repository that its KnowledgeBase has tracked in its present   *)
(* life, or what the lookup found was passed over, or has since been let   *)
(* go.                                                                     *)
THEOREM SyncsAreWanted == RoutingSpec => SyncsServeTrackers
<1>1. RoutingInv /\ [RoutingNext]_allVars => RoutingInv'
  BY RoutingInvStep
<1>2. RoutingInv
        => [\A s \in found : StartSync(s) => s.outdated \/ s.repo \in tracked[s.kb]]_allVars
  BY DEF RoutingInv, FoundAreTracked
<1> QED
  BY <1>1, <1>2, RoutingInvInit, PTL DEF RoutingSpec, SyncsServeTrackers

(* In the composition, too, and whatever the caches show, writes of the    *)
(* mapping touch the writer's entries only, and none returns to a pass     *)
(* that has dropped it.                                                    *)
THEOREM RoutingWritesAreOwn == RoutingSpec => WritesAreOwn /\ []EntriesAreTracked
  BY ImplementsMapping, WritesTouchTheirOwn, NoEntryReturns

(* There, too, the writes appear atomic, and only who was shown no data    *)
(* goes without parting.                                                   *)
THEOREM RoutingIsAtomic == RoutingSpec => AppearsAtomic
  BY ImplementsMapping, UpdatesAreAtomic

==============================================================================
