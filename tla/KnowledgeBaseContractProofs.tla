--------------------- MODULE KnowledgeBaseContractProofs ---------------------
(***************************************************************************)
(* What follows from the contract alone, whoever keeps it.                 *)
(***************************************************************************)
EXTENDS KnowledgeBaseContract, TLAPS

(* An owner that goes, goes from a clean cluster, and one that comes finds *)
(* a clean one.                                                            *)
CleanHandover ==
  [][owner # owner' /\ "none" \in {owner, owner'} => footprint = {} /\ footprint' = {}]_vars

ContractSafe == TypeOK /\ Accounted

(* Each step of the contract keeps the footprint accounted for.            *)
LEMMA ContractStep == ContractSafe /\ [Next]_vars => ContractSafe'
<1> SUFFICES ASSUME ContractSafe, [Next]_vars PROVE ContractSafe'
  OBVIOUS
<1> USE DEF ContractSafe, TypeOK, Accounted
<1>1. CASE Appear \/ Vanish \/ Hold \/ Leave \/ Release
  BY <1>1 DEF Appear, Vanish, Hold, Leave, Release
<1>2. CASE \E thing \in Things : Build(thing) \/ Clear(thing)
  BY <1>2 DEF Build, Clear
<1>3. CASE UNCHANGED vars
  BY <1>3 DEF vars
<1> QED
  BY <1>1, <1>2, <1>3 DEF Next

(* Who keeps the contract (the finalizer, handleDeletionWithHelper) leaves *)
(* nothing in the cluster that no finalizer can clear, and hands nothing   *)
(* over from one KnowledgeBase to the next of its name.                    *)
THEOREM NothingOutlivesItsOwner == Spec => []Accounted /\ CleanHandover
<1>1. Init => ContractSafe
  BY DEF Init, ContractSafe, TypeOK, Accounted
<1>2. ContractSafe /\ [Next]_vars
        => [owner # owner' /\ "none" \in {owner, owner'} => footprint = {} /\ footprint' = {}]_vars
  <2> SUFFICES ASSUME ContractSafe, Next, owner # owner', "none" \in {owner, owner'}
               PROVE  footprint = {} /\ footprint' = {}
    BY DEF vars
  <2>1. Appear \/ Vanish \/ Release
    BY DEF Next, Hold, Leave, Build, Clear
  <2> QED
    BY <2>1 DEF Appear, Vanish, Release, ContractSafe, Accounted
<1>3. ContractSafe => Accounted
  BY DEF ContractSafe
<1> QED
  BY <1>1, <1>2, <1>3, ContractStep, PTL DEF Spec, CleanHandover

==============================================================================
