----------------------------- MODULE RepoMapping -----------------------------
(***************************************************************************)
(* The ConfigMap repo-mapping that the KnowledgeBases of one organization  *)
(* share: reconcileRepoMapping and cleanupRepoMapping read it from an      *)
(* informer cache, change the copy and write it back, one worker per       *)
(* KnowledgeBase, several at a time (MaxConcurrentReconciles).             *)
(*                                                                         *)
(* Resource versions are modelled by what they decide: a copy is current   *)
(* until the ConfigMap changes, and the API server takes an update only    *)
(* from a current copy.  The rest of a pass is Finish and Release.         *)
(***************************************************************************)
EXTENDS Naturals

CONSTANTS
  KBs,       \* the KnowledgeBases, by name
  Repos,     \* repositories, by the key repoOrg_repoName
  Choices,   \* the sets of them that users let a KnowledgeBase track
  Nobody,    \* no entry
  MaxBudget  \* how often the environment acts: see Budget

Data == [Repos -> KBs \cup {Nobody}]

ASSUME NobodyAssumption == Nobody \notin KBs
ASSUME ChoicesAssumption == Choices \subseteq (SUBSET Repos) \ {{}}

(* The bounds: creations and edits by users, failed calls and crashes.     *)
Budget == [creates : Nat, edits : Nat, faults : Nat]

ASSUME MaxBudgetAssumption == MaxBudget \in Budget

VARIABLES
  life,     \* of each KnowledgeBase: "absent", "held" by its finalizer, "leaving"
  sources,  \* the repositories its spec tracks
  made,     \* the ConfigMap exists at the API server
  data,     \* its entries
  shown,    \* the informer cache holds the ConfigMap
  cache,    \* the entries the cache holds
  fresh,    \* the cache holds what the API server holds
  pc,       \* where the worker of each KnowledgeBase is
  spec,     \* the repositories its pass read
  copy,     \* the entries its pass is about to write
  current,  \* nothing has changed since its pass read them
  missed,   \* those whose cleanup was shown no data and passed over their entries (history)
  budget    \* what the environment may still do

users    == << life, sources >>
server   == << made, data >>
informer == << shown, cache, fresh >>
pass     == << pc, spec, copy, current >>
vars == << life, sources, made, data, shown, cache, fresh, pc, spec, copy, current, missed,
           budget >>

Empty == [r \in Repos |-> Nobody]

Reconciling == {"map", "create", "write", "mapped"}
CleaningUp  == {"unmap", "unwrite", "unmapped"}

TypeOK ==
  /\ life \in [KBs -> {"absent", "held", "leaving"}]
  /\ sources \in [KBs -> SUBSET Repos]
  /\ made \in BOOLEAN /\ data \in Data
  /\ shown \in BOOLEAN /\ cache \in Data /\ fresh \in BOOLEAN
  /\ pc \in [KBs -> {"idle"} \cup Reconciling \cup CleaningUp]
  /\ spec \in [KBs -> SUBSET Repos]
  /\ copy \in [KBs -> Data]
  /\ current \in [KBs -> BOOLEAN]
  /\ missed \subseteq KBs
  /\ budget \in Budget

Init ==
  /\ life = [k \in KBs |-> "absent"] /\ sources = [k \in KBs |-> {}]
  /\ made = FALSE /\ data = Empty
  /\ shown = FALSE /\ cache = Empty /\ fresh = TRUE
  /\ pc = [k \in KBs |-> "idle"] /\ spec = [k \in KBs |-> {}]
  /\ copy = [k \in KBs |-> Empty] /\ current = [k \in KBs |-> FALSE]
  /\ missed = {}
  /\ budget = MaxBudget

Spend(what) ==
  /\ budget[what] > 0
  /\ budget' = [budget EXCEPT ![what] = @ - 1]

(***************************************************************************)
(* Users, the informer, crashes.                                           *)
(***************************************************************************)
Join(k) ==
  /\ life[k] = "absent"
  /\ Spend("creates")
  /\ life' = [life EXCEPT ![k] = "held"]
  /\ \E repos \in Choices : sources' = [sources EXCEPT ![k] = repos]
  /\ UNCHANGED << server, informer, pass, missed >>

EditSources(k) ==
  /\ life[k] = "held"
  /\ Spend("edits")
  /\ \E repos \in Choices \ {sources[k]} : sources' = [sources EXCEPT ![k] = repos]
  /\ UNCHANGED << life, server, informer, pass, missed >>

Delete(k) ==
  /\ life[k] = "held"
  /\ life' = [life EXCEPT ![k] = "leaving"]
  /\ UNCHANGED << sources, server, informer, pass, missed, budget >>

Observe ==
  /\ ~fresh
  /\ shown' = made /\ cache' = data /\ fresh' = TRUE
  /\ UNCHANGED << users, server, pass, missed, budget >>

(* A crash ends all passes; the restart lists everything.                  *)
Crash ==
  /\ Spend("faults")
  /\ pc' = [k \in KBs |-> "idle"]
  /\ spec' = [k \in KBs |-> {}]
  /\ copy' = [k \in KBs |-> Empty] /\ current' = [k \in KBs |-> FALSE]
  /\ shown' = made /\ cache' = data /\ fresh' = TRUE
  /\ UNCHANGED << users, server, missed >>

(***************************************************************************)
(* The passes.  A pass that ends comes again: back-off or the five minutes. *)
(***************************************************************************)
End(k) ==
  /\ pc' = [pc EXCEPT ![k] = "idle"]
  /\ spec' = [spec EXCEPT ![k] = {}]
  /\ copy' = [copy EXCEPT ![k] = Empty]
  /\ current' = [current EXCEPT ![k] = FALSE]

Goto(k, place) ==
  /\ pc' = [pc EXCEPT ![k] = place]
  /\ UNCHANGED spec

Begin(k) ==
  /\ pc[k] = "idle" /\ life[k] # "absent"
  /\ pc' = [pc EXCEPT ![k] = IF life[k] = "held" THEN "map" ELSE "unmap"]
  /\ spec' = [spec EXCEPT ![k] = sources[k]]
  /\ UNCHANGED << users, server, informer, copy, current, missed, budget >>

(* removeEntriesForKnowledgeBase, and what reconcile then sets.            *)
Without(map, k) == [r \in Repos |-> IF map[r] = k THEN Nobody ELSE map[r]]

With(map, k, repos) == [r \in Repos |-> IF r \in repos THEN k ELSE Without(map, k)[r]]

Prepare(k, map) ==
  /\ copy' = [copy EXCEPT ![k] = map]
  /\ current' = [current EXCEPT ![k] = fresh]

ReadMapping(k) ==
  /\ pc[k] = "map"
  /\ Prepare(k, With(IF shown THEN cache ELSE Empty, k, spec[k]))
  /\ Goto(k, IF shown THEN "write" ELSE "create")
  /\ UNCHANGED << users, server, informer, missed, budget >>

(* A write that changes something outdates the cache and every copy; one   *)
(* that changes nothing gets no new version.  Either has dealt with the    *)
(* entries of its KnowledgeBase.                                           *)
Store(k) ==
  /\ made' = TRUE /\ data' = copy[k]
  /\ missed' = missed \ {k}
  /\ copy' = [copy EXCEPT ![k] = Empty]
  /\ IF made /\ copy[k] = data
     THEN current' = [current EXCEPT ![k] = FALSE] /\ UNCHANGED fresh
     ELSE current' = [j \in KBs |-> FALSE] /\ fresh' = FALSE

CreateMapping(k) ==
  /\ pc[k] = "create" /\ ~made
  /\ Store(k)
  /\ Goto(k, "mapped")
  /\ UNCHANGED << users, shown, cache, budget >>

(* Faulty: an update that does not mind the version it was read at.        *)
WriteMappingUnversioned(k) ==
  /\ pc[k] = "write"
  /\ Store(k)
  /\ Goto(k, "mapped")
  /\ UNCHANGED << users, shown, cache, budget >>

WriteMapping(k) ==
  /\ pc[k] = "write" /\ current[k]
  /\ Store(k)
  /\ Goto(k, "mapped")
  /\ UNCHANGED << users, shown, cache, budget >>

(* AlreadyExists, or a conflict: the pass fails and comes again.           *)
Refused(k) ==
  /\ \/ pc[k] = "create" /\ made
     \/ pc[k] \in {"write", "unwrite"} /\ ~current[k]
  /\ End(k)
  /\ UNCHANGED << users, server, informer, missed, budget >>

Finish(k) ==
  /\ pc[k] = "mapped"
  /\ End(k)
  /\ UNCHANGED << users, server, informer, missed, budget >>

(* Cleanup is done when it is shown no ConfigMap, or one without data,     *)
(* however old that is.                                                    *)
NothingShown == ~shown \/ cache = Empty

Entries(k) == {r \in Repos : data[r] = k}

SkipUnmapping(k) ==
  /\ pc[k] = "unmap" /\ NothingShown
  /\ missed' = IF Entries(k) = {} THEN missed \ {k} ELSE missed \cup {k}
  /\ Goto(k, "unmapped")
  /\ UNCHANGED << users, server, informer, copy, current, budget >>

(* Faulty: cleanup removes the keys of the present sources only.           *)
ReadForCleanupBySources(k) ==
  /\ pc[k] = "unmap" /\ ~NothingShown
  /\ Prepare(k, [r \in Repos |-> IF r \in spec[k] THEN Nobody ELSE cache[r]])
  /\ Goto(k, "unwrite")
  /\ UNCHANGED << users, server, informer, missed, budget >>

ReadForCleanup(k) ==
  /\ pc[k] = "unmap" /\ ~NothingShown
  /\ Prepare(k, Without(cache, k))
  /\ Goto(k, "unwrite")
  /\ UNCHANGED << users, server, informer, missed, budget >>

Unmap(k) ==
  /\ pc[k] = "unwrite" /\ current[k]
  /\ Store(k)
  /\ Goto(k, "unmapped")
  /\ UNCHANGED << users, shown, cache, budget >>

(* Faulty: the KnowledgeBase stays behind in a state that nobody knows.    *)
ReleaseHalfway(k) ==
  /\ pc[k] = "unmapped"
  /\ life' = [life EXCEPT ![k] = "released"]
  /\ End(k)
  /\ UNCHANGED << sources, server, informer, missed, budget >>

(* The remaining cleanup steps, and the finalizer.                         *)
Release(k) ==
  /\ pc[k] = "unmapped"
  /\ life' = [life EXCEPT ![k] = "absent"]
  /\ sources' = [sources EXCEPT ![k] = {}]
  /\ End(k)
  /\ UNCHANGED << server, informer, missed, budget >>

(* A call fails.  A write whose reply is lost is that write, then this.    *)
Fault(k) ==
  /\ pc[k] # "idle"
  /\ Spend("faults")
  /\ End(k)
  /\ UNCHANGED << users, server, informer, missed >>

(***************************************************************************)
(* The specification.                                                      *)
(***************************************************************************)
MappingStep(k) ==
  \/ Begin(k) \/ ReadMapping(k) \/ CreateMapping(k) \/ WriteMapping(k)
  \/ Refused(k) \/ SkipUnmapping(k) \/ ReadForCleanup(k) \/ Unmap(k)

PassStep(k) == MappingStep(k) \/ Finish(k) \/ Release(k)

Next ==
  \/ \E k \in KBs : Join(k) \/ EditSources(k) \/ Delete(k) \/ Fault(k) \/ PassStep(k)
  \/ Observe \/ Crash

Spec == Init /\ [][Next]_vars

(***************************************************************************)
(* Properties.                                                             *)
(***************************************************************************)

(* Concurrent read-modify-writes through a lagging cache (helpers of       *)
(* reconcileRepoMapping and cleanupRepoMapping) come out as if each were   *)
(* one atomic claim or withdrawal by a KnowledgeBase that is there: no     *)
(* entry of another is lost or brought back, and none is left behind -     *)
(* except by a cleanup that was shown no data: its KnowledgeBase has not   *)
(* parted from the mapping, whoever thinks it is gone.                     *)
Atomic == INSTANCE AtomicMapping WITH
  members <- {k \in KBs : life[k] # "absent" \/ k \in missed}, entries <- data

AppearsAtomic == Atomic!Spec

(* Every entry belongs to a KnowledgeBase whose finalizer will still be    *)
(* able to remove it (cleanupRepoMapping before the finalizer goes): not   *)
(* so after a cleanup that was shown no data.                              *)
NoOrphanEntry == \A r \in Repos : data[r] \in KBs => life[data[r]] # "absent"

(* A write through a stale cache never harms the others: what changes are  *)
(* entries of one KnowledgeBase, those it gains are of repositories its    *)
(* pass has read, those it loses are free (removeEntriesForKnowledgeBase,  *)
(* conflicts).                                                             *)
WritesAreOwn ==
  [][data' # data =>
       \E k \in KBs : \A r \in Repos :
         \/ data'[r] = data[r]
         \/ data'[r] = k /\ r \in spec[k]
         \/ data[r] = k /\ data'[r] = Nobody]_vars

(* From its write to its end, a pass leaves its KnowledgeBase no entry of  *)
(* a repository that the spec does not track any more, and nobody's        *)
(* concurrent write brings one back (reconcileRepoMapping).                *)
EntriesAreTracked ==
  \A k \in KBs, r \in Repos : pc[k] = "mapped" /\ data[r] = k => r \in spec[k]

(* Who tracks a repository.                                                *)
Trackers(r) == {k \in KBs : life[k] = "held" /\ r \in sources[k]}

(* TestProperty_RepoMappingProducesCorrectEntries demands of the mapping   *)
(* that each source of a KnowledgeBase maps to it; in the shared ConfigMap *)
(* that would have to become and stay so for each of them.                 *)
EachSourceMapsToItsTracker ==
  \A k \in KBs, r \in Repos : <>[](k \in Trackers(r) => data[r] = k)

==============================================================================
