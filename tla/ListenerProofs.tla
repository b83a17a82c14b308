--------------------------- MODULE ListenerProofs ---------------------------
(***************************************************************************)
(* Theorems about Listener, for every finite set of connections and every  *)
(* number of sockets.                                                      *)
(***************************************************************************)
EXTENDS Listener, SequenceTheorems, TLAPS

\* No connection was accepted at a version the file has not reached yet.
AcceptedBefore == \A c \in Conns : asOf[c] <= file.version

ListenInv == TypeOK /\ AcceptedBefore /\ ProbeIsCurrent

\* ListenInv holds at the start.
LEMMA ListenInit == Init => ListenInv
<1> SUFFICES ASSUME Init PROVE ListenInv
  OBVIOUS
<1>1. TypeOK
  <2>1. <<>> \in Seq(Conns)
    BY EmptySeq
  <2> QED
    BY <2>1 DEF Init, TypeOK, Open, Stages
<1> QED
  BY <1>1 DEF Init, ListenInv, AcceptedBefore, ProbeIsCurrent

\* What a failing turn of the loop leaves behind.
LEMMA EndKeeps == ASSUME ListenInv, End PROVE ListenInv'
<1>1. TypeOK'
  <2>1. <<>> \in Seq(Conns)
    BY EmptySeq
  <2>2. conn' \in [Conns -> Stages]
    BY DEF ListenInv, TypeOK, Open, End, Stages
  <2> QED
    BY <2>1, <2>2 DEF ListenInv, TypeOK, Open, End
<1>2. \A c \in Conns : conn'[c] # "serving"
  BY DEF ListenInv, TypeOK, Open, End, Stages
<1> QED
  BY <1>1, <1>2 DEF ListenInv, AcceptedBefore, ProbeIsCurrent, End

\* Every step of the loop, of a task, of a peer and of the file keeps ListenInv.
LEMMA ListenNext == ListenInv /\ [Next]_vars => ListenInv'
<1> SUFFICES ASSUME ListenInv, [Next]_vars PROVE ListenInv'
  OBVIOUS
<1> USE DEF ListenInv
<1>1. CASE Bind
  BY <1>1 DEF Bind, TypeOK, Open, AcceptedBefore, ProbeIsCurrent
<1>2. CASE Accept
  <2>1. Head(backlog) \in Conns /\ Tail(backlog) \in Seq(Conns)
    BY <1>2, HeadTailProperties DEF Accept, TypeOK, Open
  <2>2. Append(tasks, Head(backlog)) \in Seq(Conns)
    BY <2>1, AppendProperties DEF TypeOK, Open
  <2>3. TypeOK'
    BY <1>2, <2>1, <2>2 DEF Accept, TypeOK, Open, Stages
  <2>4. AcceptedBefore'
    BY <1>2, <2>1 DEF Accept, TypeOK, Open, AcceptedBefore
  <2>5. /\ firewall' = firewall /\ file' = file
        /\ \A c \in Conns : conn'[c] = "serving" => conn[c] = "serving" /\ asOf'[c] = asOf[c]
    BY <1>2, <2>1 DEF Accept, TypeOK
  <2>6. ProbeIsCurrent'
    BY <2>5 DEF ProbeIsCurrent
  <2> QED
    BY <2>3, <2>4, <2>6
<1>3. CASE TurnFails
  BY <1>3, EndKeeps DEF TurnFails
<1>4. CASE Start
  <2>1. Head(tasks) \in Conns /\ Tail(tasks) \in Seq(Conns)
    BY <1>4, HeadTailProperties DEF Start, TypeOK, Open
  <2>2. TypeOK'
    BY <1>4, <2>1 DEF Start, TypeOK, Open, Stages
  <2>3. AcceptedBefore'
    BY <1>4 DEF Start, AcceptedBefore
  <2>4. /\ asOf' = asOf /\ file' = file
        /\ \A c \in Conns : conn'[c] = "serving" =>
             (conn[c] = "serving" /\ firewall'[c] = firewall[c]) \/ firewall'[c] = file.version
    BY <1>4, <2>1 DEF Start, TypeOK
  <2>5. \A c \in Conns : file.version \in asOf[c]..file.version
    BY DEF TypeOK, AcceptedBefore
  <2>6. ProbeIsCurrent'
    BY <2>4, <2>5 DEF ProbeIsCurrent
  <2> QED
    BY <2>2, <2>3, <2>6
<1>5. ASSUME NEW c \in Conns, Connect(c) PROVE ListenInv'
  <2>1. Append(backlog, c) \in Seq(Conns)
    BY AppendProperties DEF TypeOK, Open
  <2> QED
    BY <1>5, <2>1 DEF Connect, TypeOK, Open, Stages, AcceptedBefore, ProbeIsCurrent
<1>6. ASSUME NEW c \in Conns, Leave(c) PROVE ListenInv'
  BY <1>6 DEF Leave, TypeOK, Open, AcceptedBefore, ProbeIsCurrent
<1>7. ASSUME NEW c \in Conns, Finish(c) PROVE ListenInv'
  BY <1>7 DEF Finish, TypeOK, Open, Stages, AcceptedBefore, ProbeIsCurrent
<1>8. ASSUME NEW l \in BOOLEAN, Edit(l) PROVE ListenInv'
  BY <1>8 DEF Edit, TypeOK, Open, AcceptedBefore, ProbeIsCurrent
<1>9. CASE UNCHANGED vars
  BY <1>9 DEF vars, TypeOK, Open, AcceptedBefore, ProbeIsCurrent
<1> QED
  BY <1>1, <1>2, <1>3, <1>4, <1>5, <1>6, <1>7, <1>8, <1>9 DEF Next

\* The invariant of the listener holds in every behaviour.
THEOREM ListenInvariance == Spec => []ListenInv
BY ListenInit, ListenNext, PTL DEF Spec

\* The listener's variables have their types in every behaviour.
THEOREM ListenerTypeCorrect == Spec => []TypeOK
<1>1. ListenInv => TypeOK
  BY DEF ListenInv
<1> QED
  BY <1>1, ListenInvariance, PTL

\* A connection is never screened by a probe older than its accept.
THEOREM ProbeIsCurrentHolds == Spec => []ProbeIsCurrent
<1>1. ListenInv => ProbeIsCurrent
  BY DEF ListenInv
<1> QED
  BY <1>1, ListenInvariance, PTL

\* The step that ends a connection is about it alone, or is a failing turn.
LEMMA StepContained ==
  ASSUME ListenInv, [Next]_vars, NEW c \in Open, conn'[c] # conn[c]
  PROVE  \/ \A d \in Conns \ {c} : conn'[d] = conn[d]
         \/ backlog # <<>> /\ (Cardinality(Open) = MaxFiles \/ Head(backlog) \in gone)
<1> USE DEF ListenInv, TypeOK, Open
<1>1. CASE Bind \/ (\E l \in BOOLEAN : Edit(l)) \/ UNCHANGED vars
  BY <1>1 DEF Bind, Edit, vars
<1>2. CASE Accept
  BY <1>2 DEF Accept
<1>3. CASE TurnFails
  BY <1>3 DEF TurnFails
<1>4. CASE Start
  BY <1>4 DEF Start
<1>5. CASE \E d \in Conns : Connect(d) \/ Leave(d) \/ Finish(d)
  BY <1>5 DEF Connect, Leave, Finish
<1> QED
  BY <1>1, <1>2, <1>3, <1>4, <1>5 DEF Next

\* A connection's failure ends it alone.
THEOREM ContainedHolds == Spec => Contained
<1>1. ListenInv /\ [Next]_vars =>
        [\A c \in Open : conn'[c] # conn[c] =>
           \/ \A d \in Conns \ {c} : conn'[d] = conn[d]
           \/ backlog # <<>> /\ (Cardinality(Open) = MaxFiles \/ Head(backlog) \in gone)]_vars
  BY StepContained
<1> QED
  BY <1>1, ListenInvariance, PTL DEF Spec, Contained
=============================================================================
