--------------------------- MODULE LlamaShimProofs ---------------------------
(***************************************************************************)
(* Theorems about LlamaShim, for every number of threads and loads.        *)
(***************************************************************************)
EXTENDS LlamaShim, TLAPS

\* What a thread owns is told by the place it is at.
OwnershipInv ==
  \A t \in Threads :
    /\ t \in models <=> pc[t] \in {"context", "alloc", "loaded", "drop"}
    /\ t \in contexts <=> pc[t] \in {"alloc", "loaded"}
    /\ t \in handles <=> pc[t] \in {"loaded", "drop"}

ShimInv == TypeOK /\ InitOnce /\ OwnershipInv

\* ShimInv holds at the start.
LEMMA ShimInit == Init => ShimInv
<1> SUFFICES ASSUME Init PROVE ShimInv
  OBVIOUS
<1>1. 0 \in 0..MaxLoads
  BY ThreadsAssumption
<1>2. TypeOK
  BY <1>1 DEF Init, TypeOK, Places
<1>3. InitOnce /\ OwnershipInv
  BY DEF Init, InitOnce, OwnershipInv
<1> QED
  BY <1>2, <1>3 DEF ShimInv

\* Every call of a thread, failing or not, keeps ShimInv.
LEMMA ShimNext == ShimInv /\ [Next]_vars => ShimInv'
<1> SUFFICES ASSUME ShimInv, [Next]_vars PROVE ShimInv'
  OBVIOUS
<1> USE DEF ShimInv, Places, Goto
<1>1. ASSUME NEW t \in Threads, Begin(t) PROVE ShimInv'
  <2>1. loads[t] + 1 \in 0..MaxLoads
    BY <1>1, ThreadsAssumption DEF Begin, TypeOK
  <2> QED
    BY <1>1, <2>1 DEF Begin, TypeOK, InitOnce, OwnershipInv
<1>2. ASSUME NEW t \in Threads, Guard(t) PROVE ShimInv'
  BY <1>2 DEF Guard, TypeOK, InitOnce, OwnershipInv
<1>3. ASSUME NEW t \in Threads, BackendInit(t) PROVE ShimInv'
  BY <1>3 DEF BackendInit, TypeOK, InitOnce, OwnershipInv
<1>4. ASSUME NEW t \in Threads, LoadModel(t) PROVE ShimInv'
  BY <1>4 DEF LoadModel, TypeOK, InitOnce, OwnershipInv
<1>5. ASSUME NEW t \in Threads, NewContext(t) PROVE ShimInv'
  BY <1>5 DEF NewContext, TypeOK, InitOnce, OwnershipInv
<1>6. ASSUME NEW t \in Threads, Alloc(t) PROVE ShimInv'
  BY <1>6 DEF Alloc, TypeOK, InitOnce, OwnershipInv
<1>7. ASSUME NEW t \in Threads, DropContext(t) PROVE ShimInv'
  BY <1>7 DEF DropContext, TypeOK, InitOnce, OwnershipInv
<1>8. ASSUME NEW t \in Threads, DropModel(t) PROVE ShimInv'
  BY <1>8 DEF DropModel, TypeOK, InitOnce, OwnershipInv
<1>9. CASE UNCHANGED vars
  BY <1>9 DEF vars, TypeOK, InitOnce, OwnershipInv
<1> QED
  BY <1>1, <1>2, <1>3, <1>4, <1>5, <1>6, <1>7, <1>8, <1>9 DEF Next, Step

\* The inductive invariant holds in every behaviour.
THEOREM ShimInvariance == Spec => []ShimInv
BY ShimInit, ShimNext, PTL DEF Spec

\* llama_backend_init is called at most once, for any number of threads.
THEOREM InitOnceHolds == Spec => []InitOnce
<1>1. ShimInv => InitOnce
  BY DEF ShimInv
<1> QED
  BY <1>1, ShimInvariance, PTL

\* No failing load leaks what it had.
THEOREM NothingLeaksHolds == Spec => []NothingLeaks
<1>1. ShimInv => NothingLeaks
  BY DEF ShimInv, OwnershipInv, NothingLeaks
<1> QED
  BY <1>1, ShimInvariance, PTL

\* A context lives within its model.
THEOREM ContextWithinModelHolds == Spec => []ContextWithinModel
<1>1. ShimInv => ContextWithinModel
  BY DEF ShimInv, TypeOK, OwnershipInv, ContextWithinModel
<1> QED
  BY <1>1, ShimInvariance, PTL
=============================================================================
