---------------------------- MODULE TenancyProofs ----------------------------
(***************************************************************************)
(* Proofs about Tenancy: a KnowledgeBase whose name no other one bears     *)
(* loses nothing to the others, in whichever organizations they are.       *)
(***************************************************************************)
EXTENDS Tenancy, TLAPS

(* A pass cleans up only after its KnowledgeBase has begun to leave, and   *)
(* it leaves for good: no later step takes the deletion back.              *)
CleansUpLeaving == \A k \in KBs : pc[k] \in Cleanup => life[k] = "leaving"

IInv == TypeOK /\ CleansUpLeaving

(* The steps that change the objects of the cluster.                       *)
Writes(k) ==
  \/ EnsureSpace(k) \/ EnsureStores(k) \/ PutEntry(k) \/ PutRoute(k)
  \/ DropStores(k) \/ DropEntry(k) \/ DropRoute(k) \/ DropSpace(k)

(* Initially nobody is there.                                              *)
LEMMA InitInv == Init => IInv
BY NobodyAssumption, MaxBudgetAssumption DEF Init, IInv, TypeOK, CleansUpLeaving, Cleanup, Key

(* The types are kept.                                                     *)
LEMMA TypeStep == TypeOK /\ [Next]_vars => TypeOK'
<1> SUFFICES ASSUME TypeOK, [Next]_vars PROVE TypeOK'
  OBVIOUS
<1> USE DEF TypeOK
<1>1. CASE UNCHANGED vars
  BY <1>1 DEF vars, users, pass, objects
<1>2. CASE Next
  <2>1. PICK k \in KBs :
          Create(k) \/ EditOrganization(k) \/ Delete(k) \/ Fault(k) \/ PassStep(k)
    BY <1>2 DEF Next
  <2>n. NameAssumption /\ NobodyAssumption
    BY NameAssumption, NobodyAssumption
  <2>k. KeyOf(k, acting[k]) \in Key /\ Name[k] \in Names
    BY NameAssumption DEF KeyOf, Key
  <2>m. ASSUME NEW data \in [Repos -> Names \cup {Nobody}]
        PROVE  /\ With(data, k) \in [Repos -> Names \cup {Nobody}]
               /\ Without(data, Name[k]) \in [Repos -> Names \cup {Nobody}]
    BY <2>k DEF With, Without
  <2>o. mapping[acting[k]] \in [Repos -> Names \cup {Nobody}]
    OBVIOUS
  <2>s. ASSUME NEW what, Spend(what) PROVE budget' \in Budget
    BY <2>s DEF Spend, Budget
  <2>2. CASE Create(k)
    BY <2>2, <2>s DEF Create, pass, objects
  <2>3. CASE EditOrganization(k)
    <3>1. KeyOf(k, org[k]) \in Key
      BY NameAssumption DEF KeyOf, Key
    <3>2. org' \in [KBs -> Orgs]
      BY <2>3 DEF EditOrganization
    <3> QED
      BY <2>3, <2>s, <3>1, <3>2 DEF EditOrganization, pass, objects
  <2>4. CASE Delete(k)
    BY <2>4 DEF Delete, pass, objects
  <2>5. CASE Fault(k)
    BY <2>5, <2>s DEF Fault, users, objects
  <2>6. CASE PassStep(k)
    <3> USE DEF Goto, users, objects, Provisioning, Cleanup
    <3>1. CASE Begin(k)
      BY <3>1 DEF Begin
    <3>2. CASE EnsureSpace(k)
      BY <3>2, <2>k DEF EnsureSpace
    <3>3. CASE EnsureStores(k)
      BY <3>3, <2>k DEF EnsureStores
    <3>4. CASE Refused(k)
      BY <3>4 DEF Refused
    <3>5. CASE PutEntry(k)
      <4>1. mapping' \in [Orgs -> [Repos -> Names \cup {Nobody}]]
        BY <3>5, <2>m, <2>o DEF PutEntry
      <4> QED
        BY <3>5, <4>1 DEF PutEntry
    <3>6. CASE PutRoute(k)
      BY <3>6, <2>k DEF PutRoute
    <3>7. CASE Finish(k)
      BY <3>7 DEF Finish
    <3>8. CASE DropStores(k)
      BY <3>8 DEF DropStores
    <3>9. CASE DropEntry(k)
      <4>1. mapping' \in [Orgs -> [Repos -> Names \cup {Nobody}]]
        BY <3>9, <2>m, <2>o DEF DropEntry
      <4> QED
        BY <3>9, <4>1 DEF DropEntry
    <3>10. CASE DropRoute(k)
      BY <3>10, <2>k DEF DropRoute
    <3>11. CASE DropSpace(k)
      BY <3>11 DEF DropSpace
    <3>12. CASE Release(k)
      BY <3>12 DEF Release
    <3> QED
      BY <2>6, <3>1, <3>2, <3>3, <3>4, <3>5, <3>6, <3>7, <3>8, <3>9, <3>10, <3>11, <3>12
         DEF PassStep
  <2> QED
    BY <2>1, <2>2, <2>3, <2>4, <2>5, <2>6
<1> QED
  BY <1>1, <1>2

(* So is the order of deletion and cleanup.                                *)
LEMMA LeavingStep == IInv /\ [Next]_vars => CleansUpLeaving'
<1> SUFFICES ASSUME IInv, [Next]_vars, NEW j \in KBs, pc'[j] \in Cleanup
             PROVE  life'[j] = "leaving"
  BY DEF CleansUpLeaving
<1> USE DEF IInv, TypeOK, CleansUpLeaving, Provisioning, Cleanup
<1>1. CASE UNCHANGED vars
  BY <1>1 DEF vars, users, pass, objects
<1>2. CASE Next
  <2>1. PICK k \in KBs :
          Create(k) \/ EditOrganization(k) \/ Delete(k) \/ Fault(k) \/ PassStep(k)
    BY <1>2 DEF Next
  <2>2. CASE Create(k) \/ EditOrganization(k) \/ Delete(k)
    BY <2>2 DEF Create, EditOrganization, Delete, pass
  <2>3. CASE Fault(k)
    BY <2>3 DEF Fault, users
  <2>4. CASE Begin(k)
    BY <2>4 DEF Begin, users
  <2>5. CASE Release(k)
    BY <2>5 DEF Release
  <2>6. CASE Refused(k) \/ Finish(k) \/ Writes(k)
    <3>1. UNCHANGED life
      BY <2>6 DEF Writes, Refused, Finish, EnsureSpace, EnsureStores, PutEntry, PutRoute,
                  DropStores, DropEntry, DropRoute, DropSpace, Goto, users
    <3>2. pc'[j] \in Cleanup => pc[j] \in Cleanup
      BY <2>6 DEF Writes, Refused, Finish, EnsureSpace, EnsureStores, PutEntry, PutRoute,
                  DropStores, DropEntry, DropRoute, DropSpace, Goto
    <3> QED
      BY <3>1, <3>2
  <2> QED
    BY <2>1, <2>2, <2>3, <2>4, <2>5, <2>6 DEF PassStep, Writes
<1> QED
  BY <1>1, <1>2

(* In every reachable state all variables have their types, and databases  *)
(* exist only in an existing namespace.                                    *)
THEOREM TypeCorrect == Spec => []TypeOK
<1>1. Init => IInv
  BY InitInv
<1>2. IInv /\ [Next]_vars => IInv'
  BY TypeStep, LeavingStep DEF IInv
<1>3. IInv => TypeOK
  BY DEF IInv
<1> QED
  BY <1>1, <1>2, <1>3, PTL DEF Spec

(***************************************************************************)
(* NothingLeftBehind.  Whatever exists has a KnowledgeBase that is there   *)
(* and whose cleanup has not got past it; what namesakes share may change  *)
(* hands, but the last one to leave takes it along.                        *)
(***************************************************************************)

(* A pass belongs to a KnowledgeBase that is there.                        *)
PassesHaveOwners == \A k \in KBs : pc[k] # "idle" => life[k] # "absent"

SpacesHaveKeepers ==
  \A n \in spaces : \E k \in KBs : Name[k] = n /\ life[k] # "absent" /\ pc[k] # "release"

(* A pass acts in the organization of the spec, or in one that an edit has *)
(* deserted since it began.                                                *)
PassesAreAtHome ==
  \A k \in KBs : pc[k] # "idle" => acting[k] = org[k] \/ KeyOf(k, acting[k]) \in deserted

(* It bears the name in this organization, and its latest pass was there.  *)
Settled(k, key) == KeyOf(k, org[k]) = key /\ acting[k] = org[k] /\ life[k] # "absent"

EntriesHaveKeepers ==
  \A key \in Key \ deserted : Entered(key) => \E k \in KBs :
    Settled(k, key) /\ pc[k] \notin {"unroute", "unspace", "release"}

RoutesHaveKeepers ==
  \A key \in Key \ deserted : routes[key] # Nobody => \E k \in KBs :
    Settled(k, key) /\ pc[k] \notin {"unspace", "release"}

Kept == PassesHaveOwners /\ PassesAreAtHome
          /\ SpacesHaveKeepers /\ EntriesHaveKeepers /\ RoutesHaveKeepers

KeepInv == IInv /\ Kept

(* What another KnowledgeBase does leaves the users' part and the pass of  *)
(* this one alone.                                                         *)
LEMMA OthersStandStill ==
  ASSUME IInv, NEW j \in KBs, NEW k \in KBs \ {j},
         Create(j) \/ EditOrganization(j) \/ Delete(j) \/ Fault(j) \/ PassStep(j)
  PROVE  life'[k] = life[k] /\ org'[k] = org[k] /\ pc'[k] = pc[k] /\ acting'[k] = acting[k]
<1> USE DEF IInv, TypeOK, pass, users
<1>1. CASE Create(j) \/ EditOrganization(j) \/ Delete(j) \/ Fault(j)
  BY <1>1 DEF Create, EditOrganization, Delete, Fault
<1>2. CASE Begin(j) \/ Release(j)
  BY <1>2 DEF Begin, Release
<1>3. CASE Refused(j) \/ Finish(j) \/ Writes(j)
  BY <1>3 DEF Refused, Finish, Writes, EnsureSpace, EnsureStores, PutEntry, PutRoute,
     DropStores, DropEntry, DropRoute, DropSpace, Goto
<1> QED
  BY <1>1, <1>2, <1>3 DEF PassStep, Writes

(* A KnowledgeBase is absent only when it has released itself, and changes *)
(* its organization only by an edit, which is on record.                   *)
LEMMA OwnSteps ==
  ASSUME KeepInv, NEW j \in KBs,
         Create(j) \/ EditOrganization(j) \/ Delete(j) \/ Fault(j) \/ PassStep(j)
  PROVE  /\ life[j] # "absent" /\ pc[j] # "release" => life'[j] # "absent"
         /\ deserted \subseteq deserted'
         /\ org'[j] = org[j] \/ KeyOf(j, org[j]) \in deserted'
         /\ PassesHaveOwners' /\ PassesAreAtHome'
<1> USE DEF KeepInv, Kept, IInv, TypeOK, pass, users, PassesHaveOwners, PassesAreAtHome
<1>c. \A k \in KBs \ {j} :
        life'[k] = life[k] /\ org'[k] = org[k] /\ pc'[k] = pc[k] /\ acting'[k] = acting[k]
  BY OthersStandStill
<1>1. CASE EditOrganization(j)
  <2>1. deserted' = deserted \cup {KeyOf(j, org[j])}
    BY <1>1 DEF EditOrganization
  <2>2. UNCHANGED << life, pc, acting >>
    BY <1>1 DEF EditOrganization
  <2>3. PassesAreAtHome'
    <3> SUFFICES ASSUME NEW k \in KBs, pc[k] # "idle"
                 PROVE  acting[k] = org'[k] \/ KeyOf(k, acting[k]) \in deserted'
      BY <2>2 DEF KeyOf
    <3>1. CASE k # j
      BY <3>1, <2>1, <1>c
    <3>2. CASE k = j
      BY <3>2, <2>1
    <3> QED
      BY <3>1, <3>2
  <2> QED
    BY <2>1, <2>2, <2>3
<1>2. CASE Create(j)
  BY <1>2 DEF Create, KeyOf
<1>3. CASE Delete(j)
  BY <1>3 DEF Delete, KeyOf
<1>4. CASE Fault(j)
  BY <1>4 DEF Fault, KeyOf
<1>5. CASE Begin(j)
  BY <1>5 DEF Begin, KeyOf
<1>6. CASE Release(j)
  BY <1>6 DEF Release, KeyOf
<1>7. CASE Refused(j) \/ Finish(j) \/ Writes(j)
  <2>1. UNCHANGED << users, acting, deserted >> /\ pc[j] # "idle"
    BY <1>7 DEF Refused, Finish, Writes, EnsureSpace, EnsureStores, PutEntry, PutRoute,
       DropStores, DropEntry, DropRoute, DropSpace, Goto
  <2> QED
    BY <2>1, <1>c DEF KeyOf
<1> QED
  BY <1>1, <1>2, <1>3, <1>4, <1>5, <1>6, <1>7 DEF PassStep, Writes

(* What a write of the mapping does to the entries of a name.              *)
LEMMA EntriesWritten ==
  ASSUME IInv, NEW j \in KBs, NEW key \in Key
  PROVE  /\ PutEntry(j) /\ Entered(key)' => Entered(key) \/ key = KeyOf(j, acting[j])
         /\ DropEntry(j) /\ Entered(key)' => Entered(key) /\ key # KeyOf(j, acting[j])
<1> USE DEF IInv, TypeOK, Key, KeyOf
<1>1. ASSUME NEW r \in Repos, mapping'[key.org][r] = key.name, PutEntry(j)
      PROVE  mapping[key.org][r] = key.name \/ key = KeyOf(j, acting[j])
  <2>1. CASE key.org # acting[j]
    BY <1>1, <2>1 DEF PutEntry
  <2>2. CASE key.org = acting[j]
    <3>1. mapping'[key.org] = With(mapping[key.org], j)
      BY <1>1, <2>2 DEF PutEntry
    <3>2. key.name # Nobody
      BY NobodyAssumption
    <3> QED
      BY <1>1, <3>1, <3>2, <2>2 DEF With, Without
  <2> QED
    BY <2>1, <2>2
<1>2. ASSUME NEW r \in Repos, mapping'[key.org][r] = key.name, DropEntry(j)
      PROVE  mapping[key.org][r] = key.name /\ key # KeyOf(j, acting[j])
  <2>1. CASE key.org # acting[j]
    BY <1>2, <2>1 DEF DropEntry
  <2>2. CASE key.org = acting[j]
    <3>1. mapping'[key.org] = Without(mapping[key.org], Name[j])
      BY <1>2, <2>2 DEF DropEntry
    <3>2. key.name # Nobody
      BY NobodyAssumption
    <3> QED
      BY <1>2, <3>1, <3>2, <2>2 DEF Without
  <2> QED
    BY <2>1, <2>2
<1> QED
  BY <1>1, <1>2 DEF Entered

(* The last step of a cleanup that still touches a namespace removes it.   *)
LEMMA SpacesStep ==
  ASSUME KeepInv, NEW j \in KBs,
         Create(j) \/ EditOrganization(j) \/ Delete(j) \/ Fault(j) \/ PassStep(j)
  PROVE  SpacesHaveKeepers'
<1> USE DEF KeepInv, Kept, IInv, TypeOK
<1> SUFFICES ASSUME NEW n \in spaces'
             PROVE  \E k \in KBs : Name[k] = n /\ life'[k] # "absent" /\ pc'[k] # "release"
  BY DEF SpacesHaveKeepers
<1>1. CASE EnsureSpace(j) /\ n = Name[j]
  BY <1>1, OwnSteps DEF EnsureSpace, Goto, PassesHaveOwners
<1>2. CASE n \in spaces /\ ~(DropSpace(j) /\ n = Name[j])
  <2>1. PICK k \in KBs : Name[k] = n /\ life[k] # "absent" /\ pc[k] # "release"
    BY <1>2 DEF SpacesHaveKeepers
  <2>2. CASE k # j
    BY <2>1, <2>2, OthersStandStill
  <2>3. CASE k = j
    <3>1. ~DropSpace(j)
      BY <1>2, <2>1, <2>3
    <3>2. pc'[j] # "release"
      BY <3>1, <2>1, <2>3 DEF PassStep, Create, EditOrganization, Delete, Fault, Begin, Release,
         Refused, Finish, EnsureSpace, EnsureStores, PutEntry, PutRoute, DropStores, DropEntry,
         DropRoute, Goto, pass
    <3> QED
      BY <3>2, <2>1, <2>3, OwnSteps
  <2> QED
    BY <2>2, <2>3
<1>3. n \in spaces \/ (EnsureSpace(j) /\ n = Name[j])
  BY DEF PassStep, Create, EditOrganization, Delete, Fault, Begin, Release,
     Refused, Finish, EnsureSpace, EnsureStores, PutEntry, PutRoute, DropStores, DropEntry,
     DropRoute, DropSpace, objects
<1>4. ~(DropSpace(j) /\ n = Name[j])
  BY DEF DropSpace
<1> QED
  BY <1>1, <1>2, <1>3, <1>4

(* So with entries, in the organization where the pass has been all along. *)
LEMMA EntriesStep ==
  ASSUME KeepInv, NEW j \in KBs,
         Create(j) \/ EditOrganization(j) \/ Delete(j) \/ Fault(j) \/ PassStep(j)
  PROVE  EntriesHaveKeepers'
<1> USE DEF KeepInv, Kept, IInv, TypeOK
<1> DEFINE past == {"unroute", "unspace", "release"}
<1> SUFFICES ASSUME NEW key \in Key \ deserted', Entered(key)'
             PROVE  \E k \in KBs : Settled(k, key)' /\ pc'[k] \notin past
  BY DEF EntriesHaveKeepers, Settled, KeyOf
<1>s. key \notin deserted /\ (KeyOf(j, org[j]) = key => org'[j] = org[j])
  BY OwnSteps
<1>h. pc[j] # "idle" /\ key = KeyOf(j, acting[j]) => acting[j] = org[j]
  BY <1>s DEF PassesAreAtHome
<1>1. CASE PutEntry(j) /\ key = KeyOf(j, acting[j])
  <2>1. pc[j] = "entry" /\ pc'[j] = "route"
    BY <1>1 DEF PutEntry, Goto
  <2>2. acting[j] = org[j]
    BY <1>1, <2>1, <1>h
  <2>3. life'[j] # "absent"
    BY <2>1, OwnSteps DEF PassesHaveOwners
  <2>4. org'[j] = org[j] /\ acting'[j] = acting[j]
    BY <1>1, <1>s, <2>2 DEF PutEntry, PutRoute, Goto
  <2> QED
    BY <1>1, <2>1, <2>2, <2>3, <2>4 DEF Settled, KeyOf
<1>2. CASE Entered(key) /\ ~(DropEntry(j) /\ key = KeyOf(j, acting[j]))
  <2>1. PICK k \in KBs : Settled(k, key) /\ pc[k] \notin past
    BY <1>2, <1>s DEF EntriesHaveKeepers
  <2>2. CASE k # j
    BY <2>1, <2>2, OthersStandStill DEF Settled, KeyOf
  <2>3. CASE k = j
    <3>1. org'[j] = org[j]
      BY <1>s, <2>1, <2>3 DEF Settled
    <3>2. ~DropEntry(j)
      BY <1>2, <2>1, <2>3 DEF Settled
    <3>3. pc'[j] \notin past
      BY <3>2, <2>1, <2>3 DEF PassStep, Create, EditOrganization, Delete, Fault, Begin, Release,
         Refused, Finish, EnsureSpace, EnsureStores, PutEntry, PutRoute, DropStores, DropRoute,
         DropSpace, Goto, pass
    <3>4. life'[j] # "absent"
      BY <2>1, <2>3, OwnSteps DEF Settled
    <3>5. acting'[j] = acting[j]
      BY <2>1, <2>3 DEF Settled, PassStep, Create, EditOrganization, Delete, Fault, Begin, Release,
         Refused, Finish, EnsureSpace, EnsureStores, PutEntry, PutRoute, DropStores, DropEntry,
         DropRoute, DropSpace, Goto, pass
    <3> QED
      BY <3>1, <3>3, <3>4, <3>5, <2>1, <2>3 DEF Settled, KeyOf
  <2> QED
    BY <2>2, <2>3
<1>3. Entered(key) \/ (PutEntry(j) /\ key = KeyOf(j, acting[j]))
  <2>1. CASE PutEntry(j) \/ DropEntry(j)
    BY <2>1, EntriesWritten
  <2>2. CASE UNCHANGED mapping
    BY <2>2 DEF Entered
  <2> QED
    BY <2>1, <2>2 DEF PassStep, Create, EditOrganization, Delete, Fault, Begin, Release,
     Refused, Finish, EnsureSpace, EnsureStores, PutRoute, DropStores, DropRoute, DropSpace,
     objects
<1>4. ~(DropEntry(j) /\ key = KeyOf(j, acting[j]))
  BY EntriesWritten
<1> QED
  BY <1>1, <1>2, <1>3, <1>4

(* And with triggers and templates.                                        *)
LEMMA RoutesStep ==
  ASSUME KeepInv, NEW j \in KBs,
         Create(j) \/ EditOrganization(j) \/ Delete(j) \/ Fault(j) \/ PassStep(j)
  PROVE  RoutesHaveKeepers'
<1> USE DEF KeepInv, Kept, IInv, TypeOK
<1> DEFINE past == {"unspace", "release"}
<1> SUFFICES ASSUME NEW key \in Key \ deserted', routes'[key] # Nobody
             PROVE  \E k \in KBs : Settled(k, key)' /\ pc'[k] \notin past
  BY DEF RoutesHaveKeepers, Settled, KeyOf
<1>s. key \notin deserted /\ (KeyOf(j, org[j]) = key => org'[j] = org[j])
  BY OwnSteps
<1>h. pc[j] # "idle" /\ key = KeyOf(j, acting[j]) => acting[j] = org[j]
  BY <1>s DEF PassesAreAtHome
<1>1. CASE PutRoute(j) /\ key = KeyOf(j, acting[j])
  <2>1. pc[j] = "route" /\ pc'[j] = "end"
    BY <1>1 DEF PutRoute, Goto
  <2>2. acting[j] = org[j]
    BY <1>1, <2>1, <1>h
  <2>3. life'[j] # "absent"
    BY <2>1, OwnSteps DEF PassesHaveOwners
  <2>4. org'[j] = org[j] /\ acting'[j] = acting[j]
    BY <1>1, <1>s, <2>2 DEF PutEntry, PutRoute, Goto
  <2> QED
    BY <1>1, <2>1, <2>2, <2>3, <2>4 DEF Settled, KeyOf
<1>2. CASE routes[key] # Nobody /\ ~(DropRoute(j) /\ key = KeyOf(j, acting[j]))
  <2>1. PICK k \in KBs : Settled(k, key) /\ pc[k] \notin past
    BY <1>2, <1>s DEF RoutesHaveKeepers
  <2>2. CASE k # j
    BY <2>1, <2>2, OthersStandStill DEF Settled, KeyOf
  <2>3. CASE k = j
    <3>1. org'[j] = org[j]
      BY <1>s, <2>1, <2>3 DEF Settled
    <3>2. ~DropRoute(j)
      BY <1>2, <2>1, <2>3 DEF Settled
    <3>3. pc'[j] \notin past
      BY <3>2, <2>1, <2>3 DEF PassStep, Create, EditOrganization, Delete, Fault, Begin, Release,
         Refused, Finish, EnsureSpace, EnsureStores, PutEntry, PutRoute, DropStores, DropEntry,
         DropSpace, Goto, pass
    <3>4. life'[j] # "absent"
      BY <2>1, <2>3, OwnSteps DEF Settled
    <3>5. acting'[j] = acting[j]
      BY <2>1, <2>3 DEF Settled, PassStep, Create, EditOrganization, Delete, Fault, Begin, Release,
         Refused, Finish, EnsureSpace, EnsureStores, PutEntry, PutRoute, DropStores, DropEntry,
         DropRoute, DropSpace, Goto, pass
    <3> QED
      BY <3>1, <3>3, <3>4, <3>5, <2>1, <2>3 DEF Settled, KeyOf
  <2> QED
    BY <2>2, <2>3
<1>3. routes[key] # Nobody \/ (PutRoute(j) /\ key = KeyOf(j, acting[j]))
  <2>1. CASE PutRoute(j) \/ DropRoute(j)
    BY <2>1 DEF PutRoute, DropRoute
  <2>2. CASE UNCHANGED routes
    BY <2>2
  <2> QED
    BY <2>1, <2>2 DEF PassStep, Create, EditOrganization, Delete, Fault, Begin, Release,
       Refused, Finish, EnsureSpace, EnsureStores, PutEntry, DropStores, DropEntry,
       DropSpace, objects
<1>4. ~(DropRoute(j) /\ key = KeyOf(j, acting[j]))
  BY DEF DropRoute
<1> QED
  BY <1>1, <1>2, <1>3, <1>4

(* All of it is kept by every step.                                        *)
LEMMA KeepStep == KeepInv /\ [Next]_vars => KeepInv'
<1> SUFFICES ASSUME KeepInv, [Next]_vars PROVE KeepInv'
  OBVIOUS
<1>1. IInv'
  BY TypeStep, LeavingStep DEF KeepInv, IInv
<1>2. CASE UNCHANGED vars
  BY <1>1, <1>2 DEF vars, KeepInv, Kept, PassesHaveOwners, PassesAreAtHome, SpacesHaveKeepers,
     EntriesHaveKeepers, RoutesHaveKeepers, Settled, Entered, KeyOf, users, pass, objects
<1>3. CASE Next
  <2>1. PICK j \in KBs :
          Create(j) \/ EditOrganization(j) \/ Delete(j) \/ Fault(j) \/ PassStep(j)
    BY <1>3 DEF Next
  <2> QED
    BY <1>1, <2>1, OwnSteps, SpacesStep, EntriesStep, RoutesStep DEF KeepInv, Kept
<1> QED
  BY <1>2, <1>3

(* Initially there is nothing to keep.                                     *)
LEMMA KeepInit == Init => KeepInv
<1>1. Init => Kept
  <2> SUFFICES ASSUME Init PROVE Kept
    OBVIOUS
  <2>1. ASSUME NEW key \in Key PROVE ~Entered(key)
    BY NobodyAssumption DEF Init, Entered, Key
  <2> QED
    BY <2>1 DEF Init, Kept, PassesHaveOwners, PassesAreAtHome, SpacesHaveKeepers,
       EntriesHaveKeepers, RoutesHaveKeepers
<1> QED
  BY <1>1, InitInv DEF KeepInv

(* For any number of KnowledgeBases, namesakes and rivals for repositories *)
(* among them, of moves and of failures: no namespace exists for nobody,   *)
(* and no entry, trigger or template does, except under the name and in    *)
(* the organization that a KnowledgeBase has moved away from.              *)
THEOREM LastOneTidiesUp == Spec => []NothingLeftBehind
<1>1. KeepInv => NothingLeftBehind
  BY DEF KeepInv, Kept, SpacesHaveKeepers, EntriesHaveKeepers, RoutesHaveKeepers,
     Settled, NothingLeftBehind, SpacesBorne, LeftBehind, Borne
<1> QED
  BY <1>1, KeepInit, KeepStep, PTL DEF Spec

(* For any number of KnowledgeBases, organizations, edits and failures: no *)
(* step of another KnowledgeBase takes an object from one that stays and   *)
(* has no namesake, except a repository that the other one tracks and is   *)
(* there to serve; and none of its own does (infraNamespace, cleanup,      *)
(* reconcileRepoMapping).                                                  *)
THEOREM NoNamesakeSuffices == Spec => OthersUntouched
<1>1. KeepInv /\ [Next]_vars => [\A k \in KBs : NamesakeOf(k) = {} => Keeps(k)]_vars
  <2> SUFFICES ASSUME KeepInv, Next, NEW k \in KBs, NamesakeOf(k) = {},
                      life[k] = "held", life'[k] = "held", org'[k] = org[k]
               PROVE  /\ Belongings(k) \subseteq Belongings(k)'
                      /\ \A r \in Routed(k) \ Routed(k)' : TakenOver(k, r)'
    BY DEF Keeps
  <2> USE DEF KeepInv, IInv
  <2> DEFINE key == KeyOf(k, org[k])
  <2>1. key' = key /\ key \in Key
    BY NameAssumption DEF KeyOf, Key, TypeOK
  <2>2. PICK j \in KBs :
          Create(j) \/ EditOrganization(j) \/ Delete(j) \/ Fault(j) \/ PassStep(j)
    BY DEF Next
  <2>3. SUFFICES /\ Name[k] \in spaces => Name[k] \in spaces'
                 /\ Name[k] \in stores => Name[k] \in stores'
                 /\ routes[key] = k => routes'[key] = k
                 /\ \A r \in Tracks[k] :
                      mapping[org[k]][r] = Name[k] /\ mapping'[org[k]][r] # Name[k]
                        => TakenOver(k, r)'
    BY <2>1 DEF Belongings, Routed
  <2>4. CASE UNCHANGED objects
    BY <2>4 DEF objects
  <2>5. CASE Writes(j)
    <3>1. j = k => pc[k] \notin Cleanup
      BY DEF CleansUpLeaving
    <3>2. j # k => Name[j] # Name[k] /\ KeyOf(j, acting[j]) # key
      BY DEF KeyOf, NamesakeOf
    <3>3. routes \in [Key -> KBs \cup {Nobody}]
      BY DEF TypeOK
    <3>4. CASE EnsureSpace(j) \/ EnsureStores(j)
      BY <3>4 DEF EnsureSpace, EnsureStores
    <3>5. CASE PutRoute(j)
      BY <3>5, <3>2, <3>3, <2>1 DEF PutRoute
    <3>6. CASE DropStores(j)
      BY <3>6, <3>1, <3>2 DEF DropStores, Cleanup
    <3>7. CASE PutEntry(j) \/ DropEntry(j)
      <4> SUFFICES ASSUME NEW r \in Tracks[k],
                          mapping[org[k]][r] = Name[k], mapping'[org[k]][r] # Name[k]
                   PROVE  TakenOver(k, r)'
        BY <3>7 DEF PutEntry, DropEntry
      <4>r. r \in Repos /\ org[k] \in Orgs /\ mapping \in [Orgs -> [Repos -> Names \cup {Nobody}]]
        BY TracksAssumption DEF TypeOK
      <4>1. acting[j] = org[k]
        BY <3>7, <4>r DEF PutEntry, DropEntry
      <4>2. CASE DropEntry(j)
        <5>1. mapping'[org[k]] = Without(mapping[org[k]], Name[j])
          BY <4>1, <4>2, <4>r DEF DropEntry
        <5>2. j # k
          BY <3>1, <4>2 DEF DropEntry, Cleanup
        <5> QED
          BY <5>1, <5>2, <3>2, <4>r DEF Without
      <4>3. CASE PutEntry(j)
        <5>1. mapping'[org[k]] = With(mapping[org[k]], j)
          BY <4>1, <4>3, <4>r DEF PutEntry
        <5>2. j # k
          BY <5>1, <4>r DEF With
        <5>3. r \in Tracks[j] /\ mapping'[org[k]][r] = Name[j]
          BY <5>1, <5>2, <3>2, <4>r DEF With, Without
        <5>4. life'[j] # "absent"
          BY <4>3 DEF PutEntry, Goto, users, Kept, PassesHaveOwners
        <5> QED
          BY <5>2, <5>3, <5>4 DEF TakenOver
      <4> QED
        BY <3>7, <4>2, <4>3
    <3>8. CASE DropRoute(j)
      BY <3>8, <3>1, <3>2, <3>3, <2>1 DEF DropRoute, Cleanup
    <3>9. CASE DropSpace(j)
      BY <3>9, <3>1, <3>2 DEF DropSpace, Cleanup
    <3> QED
      BY <2>5, <3>4, <3>5, <3>6, <3>7, <3>8, <3>9 DEF Writes
  <2>6. \/ UNCHANGED objects \/ Writes(j)
    BY <2>2 DEF PassStep, Writes, Create, EditOrganization, Delete, Fault, Begin, Refused,
                Finish, Release
  <2> QED
    BY <2>4, <2>5, <2>6
<1> QED
  BY <1>1, KeepInit, KeepStep, PTL DEF Spec, OthersUntouched

(* Suppose all names differ: then organizations are isolated from each     *)
(* other, and what MCSharedNamespace.cfg shows takes two bearers of a name *)
(* (infraNamespace).                                                       *)
THEOREM UniqueNamesIsolate ==
  ASSUME \A j, k \in KBs : Name[j] = Name[k] => j = k
  PROVE  Spec => OrganizationsIsolated
<1>1. \A k \in KBs : NamesakeOf(k) = {}
  BY DEF NamesakeOf
<1>2. [\A k \in KBs : NamesakeOf(k) = {} => Keeps(k)]_vars
        => [\A k \in KBs : (\A j \in KBs \ {k} : org[j] # org[k]) => Keeps(k)]_vars
  BY <1>1
<1> QED
  BY <1>2, NoNamesakeSuffices, PTL DEF OthersUntouched, OrganizationsIsolated

==============================================================================
