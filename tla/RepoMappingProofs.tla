-------------------------- MODULE RepoMappingProofs --------------------------
(***************************************************************************)
(* Theorems about RepoMapping, for every number of KnowledgeBases and      *)
(* repositories and every budget.                                          *)
(***************************************************************************)
EXTENDS RepoMapping, TLAPS

USE DEF users, server, informer, pass

(***************************************************************************)
(* Type correctness.                                                       *)
(***************************************************************************)
(* A budget that is spent stays a budget.                                  *)
LEMMA SpendType ==
  ASSUME budget \in Budget, NEW what, Spend(what) PROVE budget' \in Budget
  BY DEF Spend, Budget

(* No entries at all are entries.                                          *)
LEMMA EmptyType == Empty \in Data
  BY DEF Empty, Data

(* Withdrawing makes entries of entries.                                   *)
LEMMA WithoutType == ASSUME NEW map \in Data, NEW k \in KBs PROVE Without(map, k) \in Data
  BY DEF Without, Data

(* So does claiming.                                                       *)
LEMMA WithType ==
  ASSUME NEW map \in Data, NEW k \in KBs, NEW repos \in SUBSET Repos
  PROVE  With(map, k, repos) \in Data
  BY DEF With, Without, Data

(* The end of a pass keeps the worker's types.                             *)
LEMMA EndType ==
  ASSUME TypeOK, NEW k \in KBs, End(k)
  PROVE  /\ pc' \in [KBs -> {"idle"} \cup Reconciling \cup CleaningUp]
         /\ spec' \in [KBs -> SUBSET Repos] /\ copy' \in [KBs -> Data]
         /\ current' \in [KBs -> BOOLEAN]
  BY EmptyType DEF End, TypeOK

(* So does a jump within it.                                               *)
LEMMA GotoType ==
  ASSUME TypeOK, NEW k \in KBs, NEW place \in {"idle"} \cup Reconciling \cup CleaningUp,
         Goto(k, place)
  PROVE  /\ pc' \in [KBs -> {"idle"} \cup Reconciling \cup CleaningUp]
         /\ spec' \in [KBs -> SUBSET Repos]
  BY DEF Goto, TypeOK

(* And a read.                                                             *)
LEMMA PrepareType ==
  ASSUME TypeOK, NEW k \in KBs, NEW map \in Data, Prepare(k, map)
  PROVE  copy' \in [KBs -> Data] /\ current' \in [KBs -> BOOLEAN]
  BY DEF Prepare, TypeOK

(* A write keeps the types of the ConfigMap and of what it outdates.       *)
LEMMA StoreType ==
  ASSUME TypeOK, NEW k \in KBs, Store(k)
  PROVE  /\ made' \in BOOLEAN /\ data' \in Data /\ fresh' \in BOOLEAN
         /\ copy' \in [KBs -> Data] /\ current' \in [KBs -> BOOLEAN]
         /\ missed' \subseteq KBs
  BY EmptyType DEF Store, TypeOK

(* The initial state is typed.                                             *)
LEMMA TypeInit == Init => TypeOK
<1> SUFFICES ASSUME Init PROVE TypeOK
  OBVIOUS
<1>1. copy \in [KBs -> Data] /\ data \in Data /\ cache \in Data
  BY EmptyType DEF Init
<1> QED
  BY <1>1, MaxBudgetAssumption DEF Init, TypeOK

(* Every action keeps the types, one case each.                            *)
LEMMA TypeStep == TypeOK /\ [Next]_vars => TypeOK'
<1> SUFFICES ASSUME TypeOK, [Next]_vars PROVE TypeOK'
  OBVIOUS
<1>1. ASSUME NEW k \in KBs, Join(k) PROVE TypeOK'
  BY <1>1, SpendType, ChoicesAssumption DEF Join, TypeOK
<1>2. ASSUME NEW k \in KBs, EditSources(k) PROVE TypeOK'
  BY <1>2, SpendType, ChoicesAssumption DEF EditSources, TypeOK
<1>3. ASSUME NEW k \in KBs, Delete(k) PROVE TypeOK'
  BY <1>3 DEF Delete, TypeOK
<1>4. CASE Observe
  BY <1>4 DEF Observe, TypeOK
<1>5. CASE Crash
  <2>1. copy' \in [KBs -> Data]
    BY <1>5, EmptyType DEF Crash
  <2> QED
    BY <1>5, <2>1, SpendType DEF Crash, TypeOK
<1>6. ASSUME NEW k \in KBs, Begin(k) PROVE TypeOK'
  BY <1>6 DEF Begin, TypeOK, Reconciling, CleaningUp
<1>7. ASSUME NEW k \in KBs, ReadMapping(k) PROVE TypeOK'
  <2>1. (IF shown THEN cache ELSE Empty) \in Data /\ spec[k] \in SUBSET Repos
    BY EmptyType DEF TypeOK
  <2>2. With(IF shown THEN cache ELSE Empty, k, spec[k]) \in Data
    BY <2>1, WithType
  <2>3. copy' \in [KBs -> Data] /\ current' \in [KBs -> BOOLEAN]
    BY <1>7, <2>2, PrepareType DEF ReadMapping
  <2>4. /\ pc' \in [KBs -> {"idle"} \cup Reconciling \cup CleaningUp]
        /\ spec' \in [KBs -> SUBSET Repos]
    BY <1>7 DEF ReadMapping, Goto, TypeOK, Reconciling
  <2> QED
    BY <1>7, <2>3, <2>4 DEF ReadMapping, TypeOK
<1>8. ASSUME NEW k \in KBs, CreateMapping(k) PROVE TypeOK'
  BY <1>8, StoreType, GotoType DEF CreateMapping, TypeOK, Reconciling
<1>9. ASSUME NEW k \in KBs, WriteMapping(k) PROVE TypeOK'
  BY <1>9, StoreType, GotoType DEF WriteMapping, TypeOK, Reconciling
<1>10. ASSUME NEW k \in KBs, Refused(k) PROVE TypeOK'
  BY <1>10, EndType DEF Refused, TypeOK
<1>11. ASSUME NEW k \in KBs, Finish(k) PROVE TypeOK'
  BY <1>11, EndType DEF Finish, TypeOK
<1>12. ASSUME NEW k \in KBs, SkipUnmapping(k) PROVE TypeOK'
  BY <1>12, GotoType DEF SkipUnmapping, TypeOK, CleaningUp
<1>13. ASSUME NEW k \in KBs, ReadForCleanup(k) PROVE TypeOK'
  <2>1. copy' \in [KBs -> Data] /\ current' \in [KBs -> BOOLEAN]
    BY <1>13, WithoutType, PrepareType DEF ReadForCleanup, TypeOK
  <2> QED
    BY <1>13, <2>1, GotoType DEF ReadForCleanup, TypeOK, CleaningUp
<1>14. ASSUME NEW k \in KBs, Unmap(k) PROVE TypeOK'
  BY <1>14, StoreType, GotoType DEF Unmap, TypeOK, CleaningUp
<1>15. ASSUME NEW k \in KBs, Release(k) PROVE TypeOK'
  BY <1>15, EndType DEF Release, TypeOK
<1>16. ASSUME NEW k \in KBs, Fault(k) PROVE TypeOK'
  BY <1>16, EndType, SpendType DEF Fault, TypeOK
<1>17. CASE UNCHANGED vars
  BY <1>17 DEF vars, TypeOK
<1> QED
  BY <1>1, <1>2, <1>3, <1>4, <1>5, <1>6, <1>7, <1>8, <1>9, <1>10, <1>11, <1>12, <1>13,
     <1>14, <1>15, <1>16, <1>17 DEF Next, PassStep, MappingStep

(* In every reachable state every variable has its type.                   *)
THEOREM TypeCorrect == Spec => []TypeOK
  BY TypeInit, TypeStep, PTL DEF Spec

(***************************************************************************)
(* The optimistic updates are atomic.  None of the properties is           *)
(* inductive: a write is as good as the copy it writes.                    *)
(***************************************************************************)

(* A fresh cache holds what the API server holds, and a ConfigMap that was *)
(* never made has no entries.                                              *)
CacheIsFresh ==
  /\ fresh => shown = made /\ cache = data
  /\ ~made => data = Empty

(* Passes run for KnowledgeBases that are there, cleanup only for those    *)
(* whose deletion was requested.                                           *)
PassesHaveOwners ==
  \A k \in KBs :
    /\ pc[k] \in Reconciling => life[k] # "absent"
    /\ pc[k] \in CleaningUp => life[k] = "leaving"

(* What a pass is about to write is its claim, or its withdrawal, applied  *)
(* to the present entries, if these have not changed since it read them.   *)
CopiesAreClaims ==
  \A k \in KBs :
    /\ pc[k] = "create" => copy[k] = With(Empty, k, spec[k])
    /\ pc[k] = "write" /\ current[k] => copy[k] = With(data, k, spec[k])
    /\ pc[k] = "unwrite" /\ current[k] => copy[k] = Without(data, k)

(* Behind the mapping step of a cleanup no entry is left, unless it was    *)
(* shown no data.                                                          *)
UnmappedHaveNone ==
  \A k \in KBs \ missed : pc[k] = "unmapped" => \A r \in Repos : data[r] # k

(* So every entry has an owner, or one that was not shown it.              *)
EntriesOwned ==
  \A r \in Repos : data[r] \in KBs => life[data[r]] # "absent" \/ data[r] \in missed

(* The first part stands by itself.                                        *)
ClaimsInv == TypeOK /\ CacheIsFresh /\ PassesHaveOwners /\ CopiesAreClaims

MappingInv ==
  /\ TypeOK /\ CacheIsFresh /\ PassesHaveOwners /\ CopiesAreClaims /\ UnmappedHaveNone
  /\ EntriesOwned

(* A write outdates the copies of the others, or changes nothing.          *)
LEMMA StoreKeeps ==
  ASSUME ClaimsInv, NEW k \in KBs, NEW place,
         life[k] # "absent", UNCHANGED << life, sources, shown, cache >>,
         Goto(k, place), place \in {"mapped", "unmapped"},
         Store(k), place = "unmapped" => life[k] = "leaving"
  PROVE  /\ CacheIsFresh' /\ PassesHaveOwners' /\ CopiesAreClaims'
<1> USE DEF ClaimsInv
<1>1. pc' = [pc EXCEPT ![k] = place] /\ spec' = spec /\ pc \in [KBs -> {"idle"} \cup Reconciling \cup CleaningUp]
  BY DEF Goto, TypeOK
<1>2. made' /\ data' = copy[k] /\ data \in Data
  BY DEF Store, TypeOK
<1>4. /\ \/ UNCHANGED << made, data, fresh >>
         \/ fresh' = FALSE /\ current' = [j \in KBs |-> FALSE]
      /\ \A j \in KBs \ {k} : copy'[j] = copy[j] /\ current'[j] \in {current[j], FALSE}
      /\ current' \in [KBs -> BOOLEAN]
  BY <1>2 DEF Store, TypeOK
<1>5. CacheIsFresh'
  <2>1. CASE UNCHANGED << made, data, fresh >>
    BY <2>1 DEF CacheIsFresh, Empty
  <2>2. CASE fresh' = FALSE
    BY <1>2, <2>2 DEF CacheIsFresh
  <2> QED
    BY <1>4, <2>1, <2>2
<1>6. PassesHaveOwners'
  BY <1>1 DEF PassesHaveOwners, Reconciling, CleaningUp
<1>7. CopiesAreClaims'
  <2> SUFFICES ASSUME NEW j \in KBs
        PROVE  /\ pc'[j] = "create" => copy'[j] = With(Empty, j, spec'[j])
               /\ pc'[j] = "write" /\ current'[j] => copy'[j] = With(data', j, spec'[j])
               /\ pc'[j] = "unwrite" /\ current'[j] => copy'[j] = Without(data', j)
    BY DEF CopiesAreClaims, With, Without, Empty
  <2> QED
    BY <1>1, <1>4 DEF CopiesAreClaims
<1> QED
  BY <1>5, <1>6, <1>7

(* A pass that ends keeps everything: it owes nothing.                     *)
LEMMA EndKeeps ==
  ASSUME ClaimsInv, NEW k \in KBs, End(k), UNCHANGED << server, informer, life >>
  PROVE  /\ CacheIsFresh' /\ PassesHaveOwners' /\ CopiesAreClaims'
<1> USE DEF ClaimsInv
<1>1. /\ pc' = [pc EXCEPT ![k] = "idle"] /\ pc \in [KBs -> {"idle"} \cup Reconciling \cup CleaningUp]
      /\ spec' = [spec EXCEPT ![k] = {}] /\ copy' = [copy EXCEPT ![k] = Empty]
      /\ current' = [current EXCEPT ![k] = FALSE]
      /\ spec \in [KBs -> SUBSET Repos] /\ copy \in [KBs -> Data] /\ current \in [KBs -> BOOLEAN]
  BY DEF End, TypeOK
<1>2. CacheIsFresh'
  BY DEF CacheIsFresh, Empty
<1>3. PassesHaveOwners'
  BY <1>1 DEF PassesHaveOwners, Reconciling, CleaningUp
<1>4. CopiesAreClaims'
  <2> SUFFICES ASSUME NEW j \in KBs
        PROVE  /\ pc'[j] = "create" => copy'[j] = With(Empty, j, spec'[j])
               /\ pc'[j] = "write" /\ current'[j] => copy'[j] = With(data, j, spec'[j])
               /\ pc'[j] = "unwrite" /\ current'[j] => copy'[j] = Without(data, j)
    BY DEF CopiesAreClaims, With, Without, Empty
  <2> QED
    BY <1>1 DEF CopiesAreClaims
<1> QED
  BY <1>2, <1>3, <1>4

(* The initial state satisfies the invariant.                              *)
LEMMA InvInit == Init => MappingInv
  BY TypeInit, NobodyAssumption
  DEF Init, MappingInv, CacheIsFresh, PassesHaveOwners, CopiesAreClaims, UnmappedHaveNone,
      EntriesOwned, Empty, Reconciling, CleaningUp

(* What users do disturbs no pass under way.                               *)
LEMMA UsersKeep ==
  ASSUME ClaimsInv, NEW k \in KBs, Join(k) \/ EditSources(k) \/ Delete(k)
  PROVE  /\ CacheIsFresh' /\ PassesHaveOwners' /\ CopiesAreClaims'
<1> USE DEF ClaimsInv
<1>1. UNCHANGED << server, informer, pass >>
  BY DEF Join, EditSources, Delete
<1>2. \/ life[k] = "absent" /\ life' = [life EXCEPT ![k] = "held"]
      \/ life' = life
      \/ life[k] = "held" /\ life' = [life EXCEPT ![k] = "leaving"]
  BY DEF Join, EditSources, Delete
<1>3. life \in [KBs -> {"absent", "held", "leaving"}]
  BY DEF TypeOK
<1>4. CacheIsFresh'
  BY <1>1 DEF CacheIsFresh, Empty
<1>5. CopiesAreClaims'
  BY <1>1 DEF CopiesAreClaims, With, Without, Empty
<1>6. PassesHaveOwners'
  BY <1>1, <1>2, <1>3 DEF PassesHaveOwners, Reconciling, CleaningUp
<1> QED
  BY <1>4, <1>5, <1>6

(* A read prepares the claim or the withdrawal it is meant to.             *)
LEMMA ReadsKeep ==
  ASSUME ClaimsInv, NEW k \in KBs, ReadMapping(k) \/ ReadForCleanup(k)
  PROVE  /\ CacheIsFresh' /\ PassesHaveOwners' /\ CopiesAreClaims'
<1> USE DEF ClaimsInv
<1>1. UNCHANGED << life, server, informer, spec >>
  BY DEF ReadMapping, ReadForCleanup, Goto
<1>2. CacheIsFresh'
  BY <1>1 DEF CacheIsFresh, Empty
<1>3. /\ pc \in [KBs -> {"idle"} \cup Reconciling \cup CleaningUp]
      /\ copy \in [KBs -> Data] /\ current \in [KBs -> BOOLEAN]
  BY DEF TypeOK
<1>4. /\ current' = [current EXCEPT ![k] = fresh]
      /\ \/ /\ pc[k] = "map" /\ shown
            /\ pc' = [pc EXCEPT ![k] = "write"]
            /\ copy' = [copy EXCEPT ![k] = With(cache, k, spec[k])]
         \/ /\ pc[k] = "map" /\ ~shown
            /\ pc' = [pc EXCEPT ![k] = "create"]
            /\ copy' = [copy EXCEPT ![k] = With(Empty, k, spec[k])]
         \/ /\ pc[k] = "unmap"
            /\ pc' = [pc EXCEPT ![k] = "unwrite"]
            /\ copy' = [copy EXCEPT ![k] = Without(cache, k)]
  BY DEF ReadMapping, ReadForCleanup, Prepare, Goto
<1>5. PassesHaveOwners'
  BY <1>1, <1>3, <1>4 DEF PassesHaveOwners, Reconciling, CleaningUp
<1>6. CopiesAreClaims'
  <2> SUFFICES ASSUME NEW j \in KBs
        PROVE  /\ pc'[j] = "create" => copy'[j] = With(Empty, j, spec'[j])
               /\ pc'[j] = "write" /\ current'[j] => copy'[j] = With(data', j, spec'[j])
               /\ pc'[j] = "unwrite" /\ current'[j] => copy'[j] = Without(data', j)
    BY DEF CopiesAreClaims, With, Without, Empty
  <2>1. CASE j # k
    BY <1>1, <1>3, <1>4, <2>1 DEF CopiesAreClaims
  <2>2. CASE j = k
    BY <1>1, <1>3, <1>4, <2>2 DEF CacheIsFresh
  <2> QED
    BY <2>1, <2>2
<1> QED
  BY <1>2, <1>5, <1>6

(* Every action keeps the claims, one case each.                           *)
LEMMA ClaimsStep == ClaimsInv /\ [Next]_vars => ClaimsInv'
<1> SUFFICES ASSUME ClaimsInv, [Next]_vars
      PROVE  /\ CacheIsFresh' /\ PassesHaveOwners' /\ CopiesAreClaims'
  BY TypeStep DEF ClaimsInv
<1>1. ASSUME NEW k \in KBs, Join(k) \/ EditSources(k) \/ Delete(k)
      PROVE  /\ CacheIsFresh' /\ PassesHaveOwners' /\ CopiesAreClaims'
  BY <1>1, UsersKeep
<1>2. CASE Observe
  <2>1. UNCHANGED << life, server, pass >> /\ shown' = made /\ cache' = data
    BY <1>2 DEF Observe
  <2>2. CacheIsFresh'
    BY <2>1 DEF ClaimsInv, CacheIsFresh, Empty
  <2> QED
    BY <2>1, <2>2 DEF ClaimsInv, PassesHaveOwners, CopiesAreClaims, With, Without, Empty
<1>3. CASE Crash
  <2>1. /\ UNCHANGED << life, server >> /\ shown' = made /\ cache' = data
        /\ pc' = [j \in KBs |-> "idle"]
    BY <1>3 DEF Crash
  <2>2. CacheIsFresh'
    BY <2>1 DEF ClaimsInv, CacheIsFresh, Empty
  <2> QED
    BY <2>1, <2>2 DEF ClaimsInv, PassesHaveOwners, CopiesAreClaims, Reconciling, CleaningUp
<1>4. ASSUME NEW k \in KBs, Begin(k)
      PROVE  /\ CacheIsFresh' /\ PassesHaveOwners' /\ CopiesAreClaims'
  <2>1. /\ life[k] # "absent" /\ UNCHANGED << life, server, informer, copy, current >>
        /\ pc' = [pc EXCEPT ![k] = IF life[k] = "held" THEN "map" ELSE "unmap"]
        /\ spec' = [spec EXCEPT ![k] = sources[k]]
        /\ life[k] \in {"absent", "held", "leaving"}
        /\ pc \in [KBs -> {"idle"} \cup Reconciling \cup CleaningUp]
        /\ spec \in [KBs -> SUBSET Repos]
    BY <1>4 DEF Begin, ClaimsInv, TypeOK
  <2>2. CacheIsFresh'
    BY <2>1 DEF ClaimsInv, CacheIsFresh, Empty
  <2>3. PassesHaveOwners'
    BY <2>1 DEF ClaimsInv, PassesHaveOwners, Reconciling, CleaningUp
  <2>4. CopiesAreClaims'
    <3> SUFFICES ASSUME NEW j \in KBs
          PROVE  /\ pc'[j] = "create" => copy'[j] = With(Empty, j, spec'[j])
                 /\ pc'[j] = "write" /\ current'[j] => copy'[j] = With(data, j, spec'[j])
                 /\ pc'[j] = "unwrite" /\ current'[j] => copy'[j] = Without(data, j)
      BY <2>1 DEF CopiesAreClaims, With, Without, Empty
    <3> QED
      BY <2>1 DEF ClaimsInv, CopiesAreClaims
  <2> QED
    BY <2>2, <2>3, <2>4
<1>5. ASSUME NEW k \in KBs, ReadMapping(k) \/ ReadForCleanup(k)
      PROVE  /\ CacheIsFresh' /\ PassesHaveOwners' /\ CopiesAreClaims'
  BY <1>5, ReadsKeep
<1>6. ASSUME NEW k \in KBs, CreateMapping(k) \/ WriteMapping(k)
      PROVE  /\ CacheIsFresh' /\ PassesHaveOwners' /\ CopiesAreClaims'
  <2>1. /\ Store(k) /\ Goto(k, "mapped")
        /\ UNCHANGED << life, sources, shown, cache >>
    BY <1>6 DEF CreateMapping, WriteMapping
  <2>2. life[k] # "absent"
    BY <1>6 DEF CreateMapping, WriteMapping, ClaimsInv, PassesHaveOwners, Reconciling
  <2> QED
    BY <2>1, <2>2, StoreKeeps
<1>7. ASSUME NEW k \in KBs, Unmap(k)
      PROVE  /\ CacheIsFresh' /\ PassesHaveOwners' /\ CopiesAreClaims'
  <2>1. /\ Store(k) /\ Goto(k, "unmapped")
        /\ UNCHANGED << life, sources, shown, cache >>
    BY <1>7 DEF Unmap
  <2>2. life[k] = "leaving"
    BY <1>7 DEF Unmap, ClaimsInv, PassesHaveOwners, CleaningUp
  <2> QED
    BY <2>1, <2>2, StoreKeeps
<1>8. ASSUME NEW k \in KBs, Refused(k) \/ Finish(k) \/ Fault(k)
      PROVE  /\ CacheIsFresh' /\ PassesHaveOwners' /\ CopiesAreClaims'
  BY <1>8, EndKeeps DEF Refused, Finish, Fault
<1>9. ASSUME NEW k \in KBs, SkipUnmapping(k)
      PROVE  /\ CacheIsFresh' /\ PassesHaveOwners' /\ CopiesAreClaims'
  <2>1. /\ pc[k] = "unmap"
        /\ pc' = [pc EXCEPT ![k] = "unmapped"]
        /\ UNCHANGED << life, server, informer, spec, copy, current >>
        /\ pc \in [KBs -> {"idle"} \cup Reconciling \cup CleaningUp]
    BY <1>9 DEF SkipUnmapping, Goto, ClaimsInv, TypeOK
  <2>2. CacheIsFresh'
    BY <2>1 DEF ClaimsInv, CacheIsFresh, Empty
  <2>3. PassesHaveOwners'
    BY <2>1 DEF ClaimsInv, PassesHaveOwners, Reconciling, CleaningUp
  <2>4. CopiesAreClaims'
    <3> SUFFICES ASSUME NEW j \in KBs
          PROVE  /\ pc'[j] = "create" => copy[j] = With(Empty, j, spec[j])
                 /\ pc'[j] = "write" /\ current[j] => copy[j] = With(data, j, spec[j])
                 /\ pc'[j] = "unwrite" /\ current[j] => copy[j] = Without(data, j)
      BY <2>1 DEF CopiesAreClaims, With, Without, Empty
    <3> QED
      BY <2>1 DEF ClaimsInv, CopiesAreClaims
  <2> QED
    BY <2>2, <2>3, <2>4
<1>10. ASSUME NEW k \in KBs, Release(k)
       PROVE  /\ CacheIsFresh' /\ PassesHaveOwners' /\ CopiesAreClaims'
  <2>1. /\ pc[k] = "unmapped" /\ life' = [life EXCEPT ![k] = "absent"]
        /\ pc' = [pc EXCEPT ![k] = "idle"]
        /\ spec' = [spec EXCEPT ![k] = {}] /\ copy' = [copy EXCEPT ![k] = Empty]
        /\ current' = [current EXCEPT ![k] = FALSE]
        /\ UNCHANGED << server, informer >>
    BY <1>10 DEF Release, End
  <2>2. /\ pc \in [KBs -> {"idle"} \cup Reconciling \cup CleaningUp]
        /\ life \in [KBs -> {"absent", "held", "leaving"}]
        /\ spec \in [KBs -> SUBSET Repos] /\ copy \in [KBs -> Data]
        /\ current \in [KBs -> BOOLEAN]
    BY DEF ClaimsInv, TypeOK
  <2>3. CacheIsFresh'
    BY <2>1 DEF ClaimsInv, CacheIsFresh, Empty
  <2>4. PassesHaveOwners'
    BY <2>1, <2>2 DEF ClaimsInv, PassesHaveOwners, Reconciling, CleaningUp
  <2>5. CopiesAreClaims'
    <3> SUFFICES ASSUME NEW j \in KBs
          PROVE  /\ pc'[j] = "create" => copy'[j] = With(Empty, j, spec'[j])
                 /\ pc'[j] = "write" /\ current'[j] => copy'[j] = With(data, j, spec'[j])
                 /\ pc'[j] = "unwrite" /\ current'[j] => copy'[j] = Without(data, j)
      BY <2>1 DEF CopiesAreClaims, With, Without, Empty
    <3> QED
      BY <2>1, <2>2 DEF ClaimsInv, CopiesAreClaims
  <2> QED
    BY <2>3, <2>4, <2>5
<1>11. CASE UNCHANGED vars
  BY <1>11 DEF vars, ClaimsInv, CacheIsFresh, PassesHaveOwners, CopiesAreClaims,
     With, Without, Empty
<1> QED
  BY <1>1, <1>2, <1>3, <1>4, <1>5, <1>6, <1>7, <1>8, <1>9, <1>10, <1>11
  DEF Next, PassStep, MappingStep

(* What a write leaves is the claim, or the withdrawal, of who writes.     *)
LEMMA WritesAreClaims ==
  ASSUME ClaimsInv, [Next]_vars
  PROVE  \/ data' = data
         \/ \E k \in KBs : /\ CreateMapping(k) \/ WriteMapping(k)
                         /\ data' = With(data, k, spec[k])
         \/ \E k \in KBs : Unmap(k) /\ data' = Without(data, k)
<1> USE DEF ClaimsInv
<1>1. ASSUME NEW k \in KBs, CreateMapping(k) \/ WriteMapping(k)
      PROVE  data' = With(data, k, spec[k])
  BY <1>1 DEF CreateMapping, WriteMapping, Store, CopiesAreClaims, CacheIsFresh
<1>2. ASSUME NEW k \in KBs, Unmap(k) PROVE data' = Without(data, k)
  BY <1>2 DEF Unmap, Store, CopiesAreClaims
<1>3. \/ data' = data
      \/ \E k \in KBs : CreateMapping(k) \/ WriteMapping(k) \/ Unmap(k)
  BY DEF Next, PassStep, MappingStep, Join, EditSources, Delete, Fault, Begin, ReadMapping,
     Refused, SkipUnmapping, ReadForCleanup, Finish, Release, Observe, Crash, vars
<1> QED
  BY <1>1, <1>2, <1>3

(* A pass is past its mapping step if it has just taken it, or was before  *)
(* and is still the same pass.                                             *)
LEMMA PlacesStep ==
  ASSUME TypeOK, [Next]_vars, NEW j \in KBs
  PROVE  /\ pc'[j] = "mapped" =>
              /\ spec'[j] = spec[j]
              /\ pc[j] = "mapped" \/ CreateMapping(j) \/ WriteMapping(j)
         /\ pc'[j] = "unmapped" => pc[j] = "unmapped" \/ SkipUnmapping(j) \/ Unmap(j)
<1> USE DEF TypeOK
<1>1. CASE UNCHANGED << pc, spec >>
  BY <1>1
<1>2. ASSUME NEW k \in KBs, Begin(k) \/ ReadMapping(k) \/ ReadForCleanup(k)
      PROVE  /\ pc'[j] \in {"mapped", "unmapped"} => k # j
             /\ k # j => pc'[j] = pc[j] /\ spec'[j] = spec[j]
  BY <1>2 DEF Begin, ReadMapping, ReadForCleanup, Goto
<1>3. ASSUME NEW k \in KBs, Refused(k) \/ Finish(k) \/ Release(k) \/ Fault(k)
      PROVE  /\ pc'[j] \in {"mapped", "unmapped"} => k # j
             /\ k # j => pc'[j] = pc[j] /\ spec'[j] = spec[j]
  BY <1>3 DEF Refused, Finish, Release, Fault, End
<1>4. ASSUME NEW k \in KBs, CreateMapping(k) \/ WriteMapping(k)
      PROVE  /\ pc'[j] = "unmapped" => k # j
             /\ k # j => pc'[j] = pc[j]
             /\ spec' = spec
  BY <1>4 DEF CreateMapping, WriteMapping, Goto
<1>5. ASSUME NEW k \in KBs, SkipUnmapping(k) \/ Unmap(k)
      PROVE  /\ pc'[j] = "mapped" => k # j
             /\ k # j => pc'[j] = pc[j]
             /\ spec' = spec
  BY <1>5 DEF SkipUnmapping, Unmap, Goto
<1>6. CASE Crash
  BY <1>6 DEF Crash
<1>7. \/ UNCHANGED << pc, spec >> \/ Crash
      \/ \E k \in KBs :
           \/ Begin(k) \/ ReadMapping(k) \/ ReadForCleanup(k)
           \/ Refused(k) \/ Finish(k) \/ Release(k) \/ Fault(k)
           \/ CreateMapping(k) \/ WriteMapping(k) \/ SkipUnmapping(k) \/ Unmap(k)
  BY DEF Next, PassStep, MappingStep, Join, EditSources, Delete, Observe, vars
<1> QED
  BY <1>1, <1>2, <1>3, <1>4, <1>5, <1>6, <1>7

(* Whatever the caches show: a write changes entries of its own            *)
(* KnowledgeBase only, takes over repositories only that its pass has      *)
(* read, and loses none but its own.                                       *)
THEOREM WritesTouchTheirOwn == Spec => WritesAreOwn
<1>1. Init => ClaimsInv
  BY InvInit DEF MappingInv, ClaimsInv
<1>2. ClaimsInv /\ [Next]_vars
        => [data' # data =>
              \E k \in KBs : \A r \in Repos :
                \/ data'[r] = data[r]
                \/ data'[r] = k /\ r \in spec[k]
                \/ data[r] = k /\ data'[r] = Nobody]_vars
  BY WritesAreClaims DEF With, Without
<1> QED
  BY <1>1, <1>2, ClaimsStep, PTL DEF Spec, WritesAreOwn

(* Between the write of a pass and its end the others write for            *)
(* themselves only.                                                        *)
LEMMA EntriesStep == ASSUME ClaimsInv, EntriesAreTracked, [Next]_vars PROVE EntriesAreTracked'
<1> SUFFICES ASSUME NEW j \in KBs, NEW r \in Repos, pc'[j] = "mapped", data'[r] = j
             PROVE  r \in spec'[j]
  BY DEF EntriesAreTracked
<1>p. spec'[j] = spec[j] /\ (pc[j] = "mapped" \/ CreateMapping(j) \/ WriteMapping(j))
  BY PlacesStep DEF ClaimsInv
<1>1. CASE data' = data
  <2>1. CASE pc[j] = "mapped"
    BY <1>1, <1>p, <2>1 DEF EntriesAreTracked
  <2>2. CASE CreateMapping(j) \/ WriteMapping(j)
    <3>1. data' = With(data, j, spec[j])
      BY <2>2 DEF CreateMapping, WriteMapping, Store, ClaimsInv, CopiesAreClaims, CacheIsFresh
    <3> QED
      BY <1>p, <3>1, NobodyAssumption DEF With, Without
  <2> QED
    BY <1>p, <2>1, <2>2
<1>2. ASSUME NEW k \in KBs, CreateMapping(k) \/ WriteMapping(k), data' = With(data, k, spec[k])
      PROVE  r \in spec'[j]
  <2>1. CASE k = j
    BY <1>2, <1>p, <2>1, NobodyAssumption DEF With, Without
  <2>2. CASE k # j
    <3>1. data[r] = j
      BY <1>2, <2>2, NobodyAssumption DEF With, Without
    <3>2. pc[j] = "mapped"
      BY <1>2, <1>p, <2>2 DEF CreateMapping, WriteMapping, Goto, ClaimsInv, TypeOK
    <3> QED
      BY <1>p, <3>1, <3>2 DEF EntriesAreTracked
  <2> QED
    BY <2>1, <2>2
<1>3. ASSUME NEW k \in KBs, Unmap(k), data' = Without(data, k) PROVE r \in spec'[j]
  <2>1. data[r] = j
    BY <1>3, NobodyAssumption DEF Without
  <2>2. pc[j] = "mapped"
    BY <1>3, <1>p DEF Unmap, Goto, CreateMapping, WriteMapping, ClaimsInv, TypeOK
  <2> QED
    BY <1>p, <2>1, <2>2 DEF EntriesAreTracked
<1> QED
  BY <1>1, <1>2, <1>3, WritesAreClaims

(* Whatever the caches show: until its end a pass that has written keeps   *)
(* its KnowledgeBase free of entries that its spec does not track.         *)
THEOREM NoEntryReturns == Spec => []EntriesAreTracked
<1>1. Init => ClaimsInv /\ EntriesAreTracked
  <2>1. Init => EntriesAreTracked
    BY DEF Init, EntriesAreTracked
  <2> QED
    BY <2>1, InvInit DEF MappingInv, ClaimsInv
<1> QED
  BY <1>1, ClaimsStep, EntriesStep, PTL DEF Spec

(* Only its own passes settle what a KnowledgeBase has missed.             *)
LEMMA MissedStep ==
  ASSUME MappingInv, [Next]_vars, NEW j \in KBs, j \in missed, j \notin missed'
  PROVE  life[j] # "absent" /\ life' = life /\ pc'[j] \in {"mapped", "unmapped"}
<1> USE DEF MappingInv, TypeOK
<1>1. ASSUME NEW k \in KBs, CreateMapping(k) \/ WriteMapping(k) \/ Unmap(k) \/ SkipUnmapping(k)
      PROVE  life[j] # "absent" /\ life' = life /\ pc'[j] \in {"mapped", "unmapped"}
  <2>1. k = j /\ life' = life
    BY <1>1 DEF CreateMapping, WriteMapping, Unmap, SkipUnmapping, Store
  <2>2. pc[k] \in {"create", "write", "unwrite", "unmap"} /\ pc'[k] \in {"mapped", "unmapped"}
    BY <1>1 DEF CreateMapping, WriteMapping, Unmap, SkipUnmapping, Goto
  <2> QED
    BY <2>1, <2>2 DEF PassesHaveOwners, Reconciling, CleaningUp
<1> QED
  BY <1>1 DEF Next, PassStep, MappingStep, Join, EditSources, Delete, Fault, Begin, ReadMapping,
     Refused, ReadForCleanup, Finish, Release, Observe, Crash, vars

(* The mapping step of a cleanup leaves no entry or misses them, and the   *)
(* finalizer goes only then.                                               *)
LEMMA OwnersStep ==
  ASSUME MappingInv, [Next]_vars PROVE UnmappedHaveNone' /\ EntriesOwned'
<1>c. ClaimsInv
  BY DEF MappingInv, ClaimsInv
<1>l. life \in [KBs -> {"absent", "held", "leaving"}] /\ data \in Data /\ missed \subseteq KBs
  BY DEF MappingInv, TypeOK
<1>w. ASSUME NEW k \in KBs, CreateMapping(k) \/ WriteMapping(k) \/ Unmap(k)
      PROVE  life[k] # "absent" /\ life' = life /\ missed' = missed \ {k}
  BY <1>w DEF CreateMapping, WriteMapping, Unmap, Store, MappingInv, PassesHaveOwners,
     Reconciling, CleaningUp
<1>1. UnmappedHaveNone'
  <2> SUFFICES ASSUME NEW j \in KBs, j \notin missed', pc'[j] = "unmapped", NEW r \in Repos
               PROVE  data'[r] # j
    BY DEF UnmappedHaveNone
  <2>1. CASE Unmap(j)
    <3>1. data' = Without(data, j)
      BY <2>1 DEF Unmap, Store, MappingInv, CopiesAreClaims
    <3> QED
      BY <3>1, NobodyAssumption DEF Without
  <2>2. CASE SkipUnmapping(j)
    <3>1. Entries(j) = {} /\ data' = data
      BY <2>2 DEF SkipUnmapping
    <3> QED
      BY <3>1 DEF Entries
  <2>3. CASE pc[j] = "unmapped" /\ ~Unmap(j) /\ ~SkipUnmapping(j)
    <3>0. j \notin missed
      BY <2>3 DEF MappingInv, TypeOK, Next, PassStep, MappingStep, Join, EditSources, Delete,
         Fault, Begin, ReadMapping, CreateMapping, WriteMapping, Refused, SkipUnmapping,
         ReadForCleanup, Unmap, Finish, Release, Store, Observe, Crash, vars
    <3>1. data[r] # j
      BY <2>3, <3>0 DEF MappingInv, UnmappedHaveNone
    <3>2. CASE data' = data
      BY <3>1, <3>2
    <3>3. ASSUME NEW k \in KBs, CreateMapping(k) \/ WriteMapping(k), data' = With(data, k, spec[k])
          PROVE  data'[r] # j
      <4>1. k # j
        BY <2>3, <3>3 DEF CreateMapping, WriteMapping
      <4> QED
        BY <3>1, <3>3, <4>1, NobodyAssumption DEF With, Without
    <3>4. ASSUME NEW k \in KBs, data' = Without(data, k) PROVE data'[r] # j
      BY <3>1, <3>4, NobodyAssumption DEF Without
    <3> QED
      BY <1>c, <3>2, <3>3, <3>4, WritesAreClaims
  <2> QED
    BY <2>1, <2>2, <2>3, PlacesStep DEF MappingInv
<1>2. EntriesOwned'
  <2> SUFFICES ASSUME NEW r \in Repos, data'[r] \in KBs
               PROVE  life'[data'[r]] # "absent" \/ data'[r] \in missed'
    BY DEF EntriesOwned
  <2>1. ASSUME NEW k \in KBs, CreateMapping(k) \/ WriteMapping(k), data' = With(data, k, spec[k])
        PROVE  life'[data'[r]] # "absent" \/ data'[r] \in missed'
    <3>1. data'[r] = k \/ data'[r] = data[r]
      BY <2>1, NobodyAssumption DEF With, Without
    <3> QED
      BY <1>w, <2>1, <3>1 DEF MappingInv, EntriesOwned
  <2>2. ASSUME NEW k \in KBs, Unmap(k), data' = Without(data, k)
        PROVE  life'[data'[r]] # "absent" \/ data'[r] \in missed'
    <3>1. data'[r] = data[r]
      BY <2>2, NobodyAssumption DEF Without
    <3> QED
      BY <1>w, <2>2, <3>1 DEF MappingInv, EntriesOwned
  <2>3. CASE data' = data
    <3>1. CASE \E k \in KBs : Release(k)
      <4>1. PICK k \in KBs : Release(k)
        BY <3>1
      <4>2. /\ data[r] # k \/ k \in missed
            /\ life' = [life EXCEPT ![k] = "absent"] /\ missed' = missed
        BY <4>1 DEF Release, MappingInv, UnmappedHaveNone
      <4> QED
        BY <1>l, <2>3, <4>2 DEF MappingInv, EntriesOwned
    <3>2. CASE ~(\E k \in KBs : Release(k))
      <4>1. \A j \in KBs : life[j] # "absent" => life'[j] # "absent"
        BY <1>l, <3>2 DEF Next, PassStep, MappingStep, Join, EditSources, Delete, Fault, Begin,
           ReadMapping, CreateMapping, WriteMapping, Refused, SkipUnmapping, ReadForCleanup,
           Unmap, Finish, Observe, Crash, vars
      <4>2. CASE data[r] \in missed /\ data[r] \notin missed'
        BY <2>3, <4>1, <4>2, MissedStep
      <4> QED
        BY <2>3, <4>1, <4>2 DEF MappingInv, EntriesOwned
    <3> QED
      BY <3>1, <3>2
  <2> QED
    BY <1>c, <2>1, <2>2, <2>3, WritesAreClaims
<1> QED
  BY <1>1, <1>2

(* So the whole invariant is inductive.                                    *)
LEMMA InvStep == MappingInv /\ [Next]_vars => MappingInv'
  BY ClaimsStep, OwnersStep DEF MappingInv, ClaimsInv

(* The set of those that are there or have missed entries, as one of them  *)
(* comes or goes.                                                          *)
Members == {k \in KBs : life[k] # "absent" \/ k \in missed}

(* A typed write by a KnowledgeBase that is there is its claim, or its     *)
(* withdrawal.                                                             *)
LEMMA ClaimsMatch ==
  ASSUME NEW map \in Data, NEW k \in KBs, NEW repos \in SUBSET Repos
  PROVE  /\ With(map, k, repos) = Atomic!Claimed(map, k, repos)
         /\ Without(map, k) = Atomic!Withdrawn(map, k)
  BY DEF With, Without, Atomic!Claimed, Atomic!Withdrawn

(* Every step is a claim, a withdrawal, a coming or a going, or changes    *)
(* neither the entries nor who is there.                                   *)
LEMMA StepIsAtomic ==
  ASSUME MappingInv, [Next]_vars PROVE [Atomic!Next]_(Atomic!vars)
<1> USE DEF MappingInv
<1> USE DEF Members
<1>0. life \in [KBs -> {"absent", "held", "leaving"}] /\ data \in Data /\ missed \subseteq KBs
  BY DEF TypeOK
<1>1. ASSUME NEW k \in KBs, Join(k) PROVE Atomic!Next \/ UNCHANGED Atomic!vars
  <2>1. /\ life[k] = "absent" /\ life' = [life EXCEPT ![k] = "held"]
        /\ UNCHANGED << data, missed >>
    BY <1>1 DEF Join
  <2>2. Members' = Members \cup {k}
    BY <1>0, <2>1
  <2>3. CASE k \notin missed
    <3>1. Atomic!Join(k)
      BY <2>1, <2>2, <2>3 DEF Atomic!Join
    <3> QED
      BY <3>1 DEF Atomic!Next
  <2>4. CASE k \in missed
    BY <2>1, <2>2, <2>4 DEF Atomic!vars
  <2> QED
    BY <2>3, <2>4
<1>2. ASSUME NEW k \in KBs, CreateMapping(k) \/ WriteMapping(k) PROVE Atomic!Next
  <2>1. life' = life /\ data' = copy[k] /\ missed' = missed \ {k}
    BY <1>2 DEF CreateMapping, WriteMapping, Store
  <2>2. life[k] # "absent" /\ k \in Members /\ spec[k] \in SUBSET Repos
    BY <1>2 DEF CreateMapping, WriteMapping, PassesHaveOwners, Reconciling, TypeOK
  <2>5. Members' = Members
    BY <2>1, <2>2
  <2>3. copy[k] = With(data, k, spec[k])
    BY <1>2 DEF CreateMapping, WriteMapping, CopiesAreClaims, CacheIsFresh
  <2>4. Atomic!Claim(k)
    BY <1>0, <2>1, <2>2, <2>3, <2>5, ClaimsMatch DEF Atomic!Claim
  <2> QED
    BY <2>4 DEF Atomic!Next
<1>3. ASSUME NEW k \in KBs, Unmap(k) PROVE Atomic!Next
  <2>1. life' = life /\ data' = copy[k] /\ missed' = missed \ {k}
    BY <1>3 DEF Unmap, Store
  <2>2. life[k] # "absent" /\ k \in Members
    BY <1>3 DEF Unmap, PassesHaveOwners, CleaningUp
  <2>5. Members' = Members
    BY <2>1, <2>2
  <2>3. copy[k] = Without(data, k)
    BY <1>3 DEF Unmap, CopiesAreClaims
  <2>4. Atomic!Withdraw(k)
    BY <1>0, <2>1, <2>2, <2>3, <2>5, ClaimsMatch DEF Atomic!Withdraw
  <2> QED
    BY <2>4 DEF Atomic!Next
<1>4. ASSUME NEW k \in KBs, Release(k) PROVE Atomic!Next \/ UNCHANGED Atomic!vars
  <2>1. life' = [life EXCEPT ![k] = "absent"] /\ UNCHANGED << data, missed >>
    BY <1>4 DEF Release
  <2>2. life[k] = "leaving" /\ (k \in missed \/ \A r \in Repos : data[r] # k)
    BY <1>4 DEF Release, PassesHaveOwners, CleaningUp, UnmappedHaveNone
  <2>3. CASE k \notin missed
    <3>1. Members' = Members \ {k} /\ k \in Members
      BY <1>0, <2>1, <2>2, <2>3
    <3>2. Atomic!Part(k)
      BY <2>1, <2>2, <2>3, <3>1 DEF Atomic!Part
    <3> QED
      BY <3>2 DEF Atomic!Next
  <2>4. CASE k \in missed
    <3>1. Members' = Members
      BY <1>0, <2>1, <2>4
    <3> QED
      BY <2>1, <3>1 DEF Atomic!vars
  <2> QED
    BY <2>3, <2>4
<1>5. ASSUME NEW k \in KBs, Delete(k) \/ SkipUnmapping(k) PROVE UNCHANGED Atomic!vars
  <2>1. CASE Delete(k)
    <3>1. /\ life[k] = "held" /\ life' = [life EXCEPT ![k] = "leaving"]
          /\ UNCHANGED << data, missed >>
      BY <2>1 DEF Delete
    <3>2. Members' = Members
      BY <1>0, <3>1
    <3> QED
      BY <3>1, <3>2 DEF Atomic!vars
  <2>2. CASE SkipUnmapping(k)
    <3>1. life[k] = "leaving" /\ life' = life /\ data' = data
      BY <2>2 DEF SkipUnmapping, PassesHaveOwners, CleaningUp
    <3>2. \A j \in KBs \ {k} : j \in missed' <=> j \in missed
      BY <2>2 DEF SkipUnmapping
    <3>3. Members' = Members
      BY <3>1, <3>2
    <3> QED
      BY <3>1, <3>3 DEF Atomic!vars
  <2> QED
    BY <1>5, <2>1, <2>2
<1>6. ASSUME UNCHANGED << life, data, missed >> PROVE UNCHANGED Atomic!vars
  BY <1>6 DEF Atomic!vars
<1>7. ASSUME NEW k \in KBs,
             \/ EditSources(k) \/ Fault(k) \/ Begin(k) \/ ReadMapping(k) \/ Refused(k)
             \/ ReadForCleanup(k) \/ Finish(k)
      PROVE  UNCHANGED << life, data, missed >>
  BY <1>7 DEF EditSources, Fault, Begin, ReadMapping, Refused, ReadForCleanup, Finish
<1>8. ASSUME Observe \/ Crash \/ UNCHANGED vars PROVE UNCHANGED << life, data, missed >>
  BY <1>8 DEF Observe, Crash, vars
<1> QED
  BY <1>1, <1>2, <1>3, <1>4, <1>5, <1>6, <1>7, <1>8 DEF Next, PassStep, MappingStep

(* The read-modify-writes of the passes implement atomic claims and        *)
(* withdrawals: no update is lost, whatever the caches and interleavings,  *)
(* and only who was shown no data goes without parting.                    *)
THEOREM UpdatesAreAtomic == Spec => AppearsAtomic
<1>1. Init => Atomic!Init
  BY DEF Init, Atomic!Init, Empty
<1>2. MappingInv /\ [Next]_vars => MappingInv'
  BY InvStep
<1>3. MappingInv /\ [Next]_vars => [Atomic!Next]_(Atomic!vars)
  BY StepIsAtomic
<1> QED
  BY <1>1, <1>2, <1>3, InvInit, PTL DEF Spec, AppearsAtomic, Atomic!Spec

==============================================================================
