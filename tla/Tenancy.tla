------------------------------- MODULE Tenancy -------------------------------
(***************************************************************************)
(* Several KnowledgeBases side by side: which of their objects have the    *)
(* same name.  infraNamespace is made of the name of a KnowledgeBase only, *)
(* triggers of its organization and its name; the namespace the            *)
(* KnowledgeBase itself lives in is part of neither.  The mapping of an    *)
(* organization has one entry for a repository, whoever tracks it, and its *)
(* value is made of a name only.                                           *)
(*                                                                         *)
(* Reads are those of the API server; KnowledgeBaseReconciler and          *)
(* RepoMapping have the caches.  What one cleanup or provisioning step     *)
(* leaves to the next is a step here if others can come between.           *)
(***************************************************************************)
EXTENDS Naturals

CONSTANTS
  KBs, Orgs,
  Names, Name,  \* Name[k] is the name of KnowledgeBase k
  Repos, Tracks,  \* Tracks[k] are the repositories of its sources
  Nobody,
  MaxBudget     \* how often users create and edit, and calls fail

Budget == [creates : Nat, edits : Nat, faults : Nat]

ASSUME NameAssumption == Name \in [KBs -> Names]
ASSUME TracksAssumption == Tracks \in [KBs -> SUBSET Repos]
ASSUME NobodyAssumption == Nobody \notin KBs \cup Names
ASSUME MaxBudgetAssumption == MaxBudget \in Budget

VARIABLES
  life,     \* "absent", "held" by its finalizer, "leaving"
  org,      \* its spec.organization
  pc,       \* the next step of its pass
  acting,   \* the organization the pass read
  spaces,   \* the names whose infrastructure namespace exists
  stores,   \* the names whose databases exist in it
  mapping,  \* of each organization: the name a repository is mapped to
  routes,   \* the KnowledgeBase that the trigger and template were made for
  budget,
  deserted  \* history: [organization, name] that an edit has moved away from

users   == << life, org >>
pass    == << pc, acting >>
objects == << spaces, stores, mapping, routes >>
vars == << users, pass, objects, budget, deserted >>

Key == [org : Orgs, name : Names]
KeyOf(k, o) == [org |-> o, name |-> Name[k]]

Provisioning == {"space", "stores", "entry", "route", "end"}
Cleanup      == {"unstore", "unentry", "unroute", "unspace", "release"}

TypeOK ==
  /\ life \in [KBs -> {"absent", "held", "leaving"}]
  /\ org \in [KBs -> Orgs] /\ acting \in [KBs -> Orgs]
  /\ pc \in [KBs -> {"idle"} \cup Provisioning \cup Cleanup]
  /\ spaces \subseteq Names /\ stores \subseteq spaces
  /\ mapping \in [Orgs -> [Repos -> Names \cup {Nobody}]]
  /\ routes \in [Key -> KBs \cup {Nobody}]
  /\ budget \in Budget
  /\ deserted \subseteq Key

Init ==
  /\ life = [k \in KBs |-> "absent"] /\ pc = [k \in KBs |-> "idle"]
  /\ org \in [KBs -> Orgs] /\ acting = org
  /\ spaces = {} /\ stores = {}
  /\ mapping = [o \in Orgs |-> [r \in Repos |-> Nobody]]
  /\ routes = [key \in Key |-> Nobody]
  /\ budget = MaxBudget /\ deserted = {}

Spend(what) ==
  /\ budget[what] > 0
  /\ budget' = [budget EXCEPT ![what] = @ - 1]

(***************************************************************************)
(* Users.                                                                  *)
(***************************************************************************)
Create(k) ==
  /\ life[k] = "absent" /\ Spend("creates")
  /\ life' = [life EXCEPT ![k] = "held"]
  /\ UNCHANGED << org, pass, objects, deserted >>

EditOrganization(k) ==
  /\ life[k] # "absent" /\ Spend("edits")
  /\ \E o \in Orgs \ {org[k]} : org' = [org EXCEPT ![k] = o]
  /\ deserted' = deserted \cup {KeyOf(k, org[k])}
  /\ UNCHANGED << life, pass, objects >>

Delete(k) ==
  /\ life[k] = "held"
  /\ life' = [life EXCEPT ![k] = "leaving"]
  /\ UNCHANGED << org, pass, objects, budget, deserted >>

(***************************************************************************)
(* Passes.                                                                 *)
(***************************************************************************)
Goto(k, place) == pc' = [pc EXCEPT ![k] = place] /\ UNCHANGED << users, acting, budget, deserted >>

Begin(k) ==
  /\ pc[k] = "idle" /\ life[k] # "absent"
  /\ pc' = [pc EXCEPT ![k] = IF life[k] = "held" THEN "space" ELSE "unstore"]
  /\ acting' = [acting EXCEPT ![k] = org[k]]
  /\ UNCHANGED << users, objects, budget, deserted >>

EnsureSpace(k) ==
  /\ pc[k] = "space"
  /\ spaces' = spaces \cup {Name[k]}
  /\ Goto(k, "stores")
  /\ UNCHANGED << stores, mapping, routes >>

(* Faulty: nobody minds whether the namespace is still there.              *)
EnsureStoresAnywhere(k) ==
  /\ pc[k] = "stores"
  /\ stores' = stores \cup {Name[k]}
  /\ Goto(k, "entry")
  /\ UNCHANGED << spaces, mapping, routes >>

EnsureStores(k) ==
  /\ pc[k] = "stores" /\ Name[k] \in spaces
  /\ stores' = stores \cup {Name[k]}
  /\ Goto(k, "entry")
  /\ UNCHANGED << spaces, mapping, routes >>

(* The namespace has gone meanwhile: the create fails, and the pass.       *)
Refused(k) ==
  /\ pc[k] = "stores" /\ Name[k] \notin spaces
  /\ Goto(k, "idle")
  /\ UNCHANGED objects

Without(data, n) == [r \in Repos |-> IF data[r] = n THEN Nobody ELSE data[r]]

(* Its name takes every repository it tracks, whoever has it, and no other *)
(* one (removeEntriesForKnowledgeBase, then the sources).                  *)
With(data, k) ==
  [r \in Repos |-> IF r \in Tracks[k] THEN Name[k] ELSE Without(data, Name[k])[r]]

PutEntry(k) ==
  /\ pc[k] = "entry"
  /\ mapping' = [mapping EXCEPT ![acting[k]] = With(@, k)]
  /\ Goto(k, "route")
  /\ UNCHANGED << spaces, stores, routes >>

PutRoute(k) ==
  /\ pc[k] = "route"
  /\ routes' = [routes EXCEPT ![KeyOf(k, acting[k])] = k]
  /\ Goto(k, "end")
  /\ UNCHANGED << spaces, stores, mapping >>

(* Faulty: a pass that succeeds is the last of its KnowledgeBase.          *)
FinishForGood(k) ==
  /\ pc[k] = "end"
  /\ Goto(k, "finished")
  /\ UNCHANGED objects

(* The pass ends and comes again after five minutes.                       *)
Finish(k) ==
  /\ pc[k] = "end"
  /\ Goto(k, "idle")
  /\ UNCHANGED objects

DropStores(k) ==
  /\ pc[k] = "unstore"
  /\ stores' = stores \ {Name[k]}
  /\ Goto(k, "unentry")
  /\ UNCHANGED << spaces, mapping, routes >>

DropEntry(k) ==
  /\ pc[k] = "unentry"
  /\ mapping' = [mapping EXCEPT ![acting[k]] = Without(@, Name[k])]
  /\ Goto(k, "unroute")
  /\ UNCHANGED << spaces, stores, routes >>

(* Faulty: the triggers of the whole organization go.                      *)
DropRoutesOfOrganization(k) ==
  /\ pc[k] = "unroute"
  /\ routes' = [key \in Key |-> IF key.org = acting[k] THEN Nobody ELSE routes[key]]
  /\ Goto(k, "unspace")
  /\ UNCHANGED << spaces, stores, mapping >>

(* Faulty: the triggers are left to themselves.                            *)
DropNoRoute(k) ==
  /\ pc[k] = "unroute"
  /\ Goto(k, "unspace")
  /\ UNCHANGED objects

DropRoute(k) ==
  /\ pc[k] = "unroute"
  /\ routes' = [routes EXCEPT ![KeyOf(k, acting[k])] = Nobody]
  /\ Goto(k, "unspace")
  /\ UNCHANGED << spaces, stores, mapping >>

DropSpace(k) ==
  /\ pc[k] = "unspace"
  /\ spaces' = spaces \ {Name[k]} /\ stores' = stores \ {Name[k]}
  /\ Goto(k, "release")
  /\ UNCHANGED << mapping, routes >>

Release(k) ==
  /\ pc[k] = "release"
  /\ life' = [life EXCEPT ![k] = "absent"]
  /\ pc' = [pc EXCEPT ![k] = "idle"]
  /\ UNCHANGED << org, acting, objects, budget, deserted >>

(* A call fails or the controller stops: the pass begins again.            *)
Fault(k) ==
  /\ pc[k] # "idle" /\ Spend("faults")
  /\ pc' = [pc EXCEPT ![k] = "idle"]
  /\ UNCHANGED << users, acting, objects, deserted >>

(***************************************************************************)
(* The specification.                                                      *)
(***************************************************************************)
PassStep(k) ==
  \/ Begin(k)
  \/ EnsureSpace(k) \/ EnsureStores(k) \/ Refused(k) \/ PutEntry(k) \/ PutRoute(k) \/ Finish(k)
  \/ DropStores(k) \/ DropEntry(k) \/ DropRoute(k) \/ DropSpace(k) \/ Release(k)

Next ==
  \E k \in KBs : Create(k) \/ EditOrganization(k) \/ Delete(k) \/ Fault(k) \/ PassStep(k)

Spec == Init /\ [][Next]_vars

FairSpec == Spec /\ \A k \in KBs : WF_vars(PassStep(k))

(***************************************************************************)
(* Properties.                                                             *)
(***************************************************************************)

(* What exists of the objects a KnowledgeBase asks for.                    *)
Parts == {"space", "stores", "route"}

Belongings(k) ==
  {part \in Parts :
     \/ part = "space"  /\ Name[k] \in spaces
     \/ part = "stores" /\ Name[k] \in stores
     \/ part = "route"  /\ routes[KeyOf(k, org[k])] = k}

Routed(k) == {r \in Tracks[k] : mapping[org[k]][r] = Name[k]}

(* The repository is with another one that tracks it.                      *)
TakenOver(k, r) ==
  \E j \in KBs \ {k} : /\ life[j] # "absent" /\ r \in Tracks[j]
                       /\ mapping[org[k]][r] = Name[j]

(* A KnowledgeBase that nobody deletes or moves keeps what it has, but for *)
(* repositories it shares, which go to whoever wrote last.                 *)
Keeps(k) ==
  life[k] = "held" /\ life'[k] = "held" /\ org'[k] = org[k] =>
    /\ Belongings(k) \subseteq Belongings(k)'
    /\ \A r \in Routed(k) \ Routed(k)' : TakenOver(k, r)'

NamesakeOf(k) == {j \in KBs \ {k} : Name[j] = Name[k]}

(* Whatever happens to the others - creation, move, deletion, failure half *)
(* way - a KnowledgeBase without a namesake loses nothing to them, except  *)
(* a repository to one that tracks it too (cleanup steps, infraNamespace,  *)
(* names of trigger and template, reconcileRepoMapping).                   *)
OthersUntouched == [][\A k \in KBs : NamesakeOf(k) = {} => Keeps(k)]_vars

(* TestProperty_MultiOrgNamespaceIsolation wants KnowledgeBases of         *)
(* different organizations to be in different namespaces: none of them     *)
(* could take anything from another.                                       *)
OrganizationsIsolated ==
  [][\A k \in KBs : (\A j \in KBs \ {k} : org[j] # org[k]) => Keeps(k)]_vars

(* The names that some KnowledgeBase of the organization bears.            *)
Borne(key) == \E k \in KBs : life[k] # "absent" /\ KeyOf(k, org[k]) = key

(* Every namespace, entry, trigger and template is for one that is there.  *)
SpacesBorne == \A n \in spaces : \E k \in KBs : life[k] # "absent" /\ Name[k] = n

Entered(key) == \E r \in Repos : mapping[key.org][r] = key.name

LeftBehind == {key \in Key : (Entered(key) \/ routes[key] # Nobody) /\ ~Borne(key)}

(* At no time is there a namespace that nobody will clean up, nor an       *)
(* entry, trigger or template, except where an edit has moved its          *)
(* KnowledgeBase to another organization: not while namesakes build and    *)
(* clean up at the same time, nor when a cleanup fails half way (order of  *)
(* the cleanup steps).                                                     *)
NothingLeftBehind == SpacesBorne /\ LeftBehind \subseteq deserted

(* TestProperty_TriggerCleanupRemovesOnlyOwnedResources expects a deleted  *)
(* KnowledgeBase to leave no trigger or template, moved or not.            *)
MovesLeaveNothingBehind == <>[](LeftBehind = {})

(* A KnowledgeBase whose objects were deleted with those of a namesake,    *)
(* gets them all back, made for it, when it is the only one left to bear   *)
(* the name; of its entries, those that nobody else has taken (the         *)
(* periodic pass, and the order of its steps).                             *)
SurvivorRecovers ==
  \A k \in KBs :
    <>[](life[k] = "held" /\ (\A j \in NamesakeOf(k) : life[j] = "absent")
           => /\ Belongings(k) = Parts
              /\ \A r \in Tracks[k] \ Routed(k) : TakenOver(k, r))

==============================================================================
