----------------------------- MODULE AptpProofs -----------------------------
(***************************************************************************)
(* Theorems about AptpRpcServer, for any finite set of calls, any capacity *)
(* of the channel and any configuration, and about an AptpClient and its   *)
(* server.  The server next to one AptpClient is the server next to any    *)
(* peer, so that what is shown of the second holds of the first.  What is  *)
(* true of this peer only follows from ClientIInv: a step of the server is *)
(* seen through Frame, what it does to the calls and the channel; a step   *)
(* of the client appends to the wire; a message that is read shifts it.    *)
(***************************************************************************)
EXTENDS AptpClient, FiniteSetTheorems, SequenceTheorems, TLAPS
-----------------------------------------------------------------------------
(* Sequences *)

\* Removing an element leaves a sequence over the same set.
LEMMA RemoveAtType ==
  ASSUME NEW S, NEW s \in Seq(S), NEW i \in 1..Len(s)
  PROVE  RemoveAt(s, i) \in Seq(S)
<1>1. SubSeq(s, 1, i-1) \in Seq(S)
  BY SubSeqProperties, \A k \in 1..(i-1) : s[k] \in S
<1>2. SubSeq(s, i+1, Len(s)) \in Seq(S)
  BY SubSeqProperties, \A k \in (i+1)..Len(s) : s[k] \in S
<1> QED
  BY <1>1, <1>2, ConcatProperties DEF RemoveAt

\* Appending an element to a sequence adds it to the range, once.
LEMMA AppendRange ==
  ASSUME NEW S, NEW s \in Seq(S), NEW e \in S
  PROVE  /\ Append(s, e) \in Seq(S)
         /\ Len(Append(s, e)) = Len(s) + 1
         /\ Range(Append(s, e)) = Range(s) \cup {e}
         /\ IsInjective(s) /\ e \notin Range(s) => IsInjective(Append(s, e))
<1> DEFINE t == Append(s, e)
<1>1. /\ t \in Seq(S) /\ Len(t) = Len(s) + 1
      /\ \A k \in 1..Len(s) : t[k] = s[k]
      /\ t[Len(s) + 1] = e
      /\ DOMAIN s = 1..Len(s) /\ DOMAIN t = 1..(Len(s) + 1) /\ Len(s) \in Nat
  BY AppendProperties
<1> HIDE DEF t
<1>2. Range(t) = Range(s) \cup {e}
  BY <1>1 DEF Range
<1>3. ASSUME IsInjective(s), e \notin Range(s) PROVE IsInjective(t)
  <2> SUFFICES ASSUME NEW a \in DOMAIN t, NEW b \in DOMAIN t, t[a] = t[b]
               PROVE  a = b
    BY DEF IsInjective
  <2>1. \A k \in 1..Len(s) : s[k] # e
    BY <1>1, <1>3 DEF Range
  <2> QED
    BY <1>1, <1>3, <2>1 DEF IsInjective
<1> QED
  BY <1>1, <1>2, <1>3 DEF t
-----------------------------------------------------------------------------
(* Types of the server *)

\* What the handlers answer is in Replies.
LEMMA ReplyTypes ==
  /\ {Ack, Nack, Failed, Rejected} \subseteq Replies
  /\ \A n \in Nat : Total(n) \in Replies
  /\ \A s \in Calls, h \in HiddenSizes : Opened(s, Decision(h)) \in Replies
<1>1. \A n \in Nat : Total(n) \in [kind : {"total"}, count : Nat]
  BY DEF Total
<1>2. \A h \in HiddenSizes : Decision(h) \in Decisions
  BY DEF Decisions
<1> QED
  BY <1>1, <1>2 DEF Replies

\* What a request of each kind carries.
LEMMA RequestFields ==
  ASSUME NEW r \in Requests \cup {NoRequest}
  PROVE  /\ r.op = "handshake" => r.version \in Versions /\ r.hidden \in HiddenSizes
         /\ r.op = "stream" => r.session \in SessionIds /\ r.payload \in Payloads
         /\ r.op = "finalize" => r.session \in SessionIds
BY DEF Requests, NoRequest

\* An answer keeps the types of the two variables it sets.
LEMMA RespondType ==
  ASSUME TypeOK, NEW c \in Calls, NEW r \in Replies, Respond(c, r)
  PROVE  stage' \in [Calls -> Stages] /\ reply' \in [Calls -> Replies]
BY DEF TypeOK, Respond, Stages

\* sink.send keeps the types of what it touches.
LEMMA SendType ==
  ASSUME TypeOK, NEW c \in Calls, Send(c)
  PROVE  /\ stage' \in [Calls -> Stages] /\ reply' \in [Calls -> Replies]
         /\ sink' \in Seq(Calls) /\ Len(sink') >= Len(sink)
         /\ waiters' \in Seq(Calls)
<1>1. CASE ~rx /\ Respond(c, Failed) /\ UNCHANGED <<sink, waiters>>
  BY <1>1, RespondType, ReplyTypes, LenProperties DEF TypeOK
<1>2. CASE Push(c) /\ UNCHANGED waiters
  BY <1>2, AppendProperties, LenProperties DEF TypeOK, Push, Stages
<1>3. CASE /\ waiters' = Append(waiters, c)
           /\ stage' = [stage EXCEPT ![c] = "waiting"]
           /\ UNCHANGED <<reply, sink>>
  BY <1>3, AppendProperties, LenProperties DEF TypeOK, Stages
<1> QED
  BY <1>1, <1>2, <1>3 DEF Send

\* increment() adds one to the count of one open session and leaves the others.
LEMMA IncrementEffect ==
  ASSUME TypeOK, NEW s \in DOMAIN sessions, Increment(s)
  PROVE  /\ DOMAIN sessions' = DOMAIN sessions
         /\ sessions' \in [DOMAIN sessions -> SessionState]
         /\ sessions'[s].received_count = sessions[s].received_count + 1
         /\ \A t \in DOMAIN sessions \ {s} : sessions'[t] = sessions[t]
<1> DEFINE e == [sessions[s] EXCEPT !.received_count = @ + 1]
<1>1. sessions \in [DOMAIN sessions -> SessionState]
  BY DEF TypeOK
<1>2. sessions' = [sessions EXCEPT ![s] = e]
  BY DEF Increment
<1>3. sessions[s] \in SessionState
  BY <1>1
<1>4. e \in SessionState /\ e.received_count = sessions[s].received_count + 1
  BY <1>3 DEF SessionState
<1> HIDE DEF e
<1> QED
  BY <1>1, <1>2, <1>4

\* The variables have their types at the start.
LEMMA InitType == Init => TypeOK
<1> SUFFICES ASSUME Init PROVE TypeOK
  OBVIOUS
<1> USE DEF Init
<1>1. sink \in Seq(Calls) /\ waiters \in Seq(Calls) /\ taken \in 0..Len(sink)
  BY EmptySeq
<1>2. DOMAIN sessions = {}
  BY EmptySeq
<1>3. sessions \in [DOMAIN sessions -> SessionState]
  BY <1>2
<1>4. reply \in [Calls -> Replies]
  BY DEF Replies
<1> QED
  BY <1>1, <1>2, <1>3, <1>4, ReceiverAssumption DEF TypeOK, Stages

\* Every step keeps the types.
LEMMA NextType == TypeOK /\ [Next]_vars => TypeOK'
<1> SUFFICES ASSUME TypeOK, [Next]_vars PROVE TypeOK'
  OBVIOUS
<1> USE DEF TypeOK
<1>1. ASSUME NEW c \in Calls, NEW r \in Requests, Arrive(c, r) PROVE TypeOK'
  BY <1>1 DEF Arrive, Stages
<1>2. ASSUME NEW c \in Calls, Malformed(c) PROVE TypeOK'
  BY <1>2, RespondType, ReplyTypes DEF Malformed
<1>3. ASSUME NEW c \in Calls, Handshake(c) PROVE TypeOK'
  <2>1. req[c].hidden \in HiddenSizes
    BY <1>3, RequestFields DEF Handshake
  <2>2. CASE Respond(c, Rejected) /\ UNCHANGED sessions
    BY <1>3, <2>2, RespondType, ReplyTypes DEF Handshake
  <2>3. CASE /\ Open(c, Decision(req[c].hidden).adapter)
             /\ Respond(c, Opened(c, Decision(req[c].hidden)))
    <3> DEFINE a == Decision(req[c].hidden).adapter
    <3>1. [received_count |-> 0, adapter |-> a] \in SessionState
      BY <2>1 DEF SessionState, Decisions
    <3>2. /\ DOMAIN sessions' = DOMAIN sessions \cup {c}
          /\ \A t \in DOMAIN sessions' :
               sessions'[t] = IF t = c THEN [received_count |-> 0, adapter |-> a]
                                       ELSE sessions[t]
          /\ sessions' = [t \in DOMAIN sessions' |-> sessions'[t]]
      BY <2>3 DEF Open
    <3>3. \A t \in DOMAIN sessions' : sessions'[t] \in SessionState
      BY <3>1, <3>2
    <3>4. sessions' \in [DOMAIN sessions' -> SessionState]
      BY <3>2, <3>3
    <3> QED
      BY <1>3, <2>1, <2>3, <3>2, <3>4, RespondType, ReplyTypes DEF Handshake
  <2> QED
    BY <1>3, <2>2, <2>3 DEF Handshake
<1>4. ASSUME NEW c \in Calls, StreamPrimitive(c) PROVE TypeOK'
  <2>1. CASE Respond(c, Nack) /\ UNCHANGED <<sink, waiters>>
    BY <1>4, <2>1, RespondType, ReplyTypes DEF StreamPrimitive
  <2>2. CASE Send(c)
    <3>1. Len(sink) \in Nat /\ Len(sink') \in Nat
      BY <2>2, SendType, LenProperties
    <3> QED
      BY <1>4, <2>2, <3>1, SendType DEF StreamPrimitive
  <2> QED
    BY <1>4, <2>1, <2>2 DEF StreamPrimitive
<1>5. ASSUME NEW c \in Calls, ResumeSend(c) PROVE TypeOK'
  <2>1. PICK i \in 1..Len(waiters) :
          /\ waiters' = RemoveAt(waiters, i)
          /\ \/ Respond(c, Failed) /\ UNCHANGED sink
             \/ Push(c)
    BY <1>5 DEF ResumeSend
  <2>2. waiters' \in Seq(Calls)
    BY <2>1, RemoveAtType
  <2>3. CASE Respond(c, Failed) /\ UNCHANGED sink
    BY <1>5, <2>2, <2>3, RespondType, ReplyTypes DEF ResumeSend
  <2>4. CASE Push(c)
    <3>1. sink' \in Seq(Calls) /\ Len(sink') = Len(sink) + 1 /\ Len(sink) \in Nat
      BY <2>4, AppendProperties, LenProperties DEF Push
    <3>2. stage' \in [Calls -> Stages]
      BY <2>4 DEF Push, Stages
    <3> QED
      BY <1>5, <2>2, <2>4, <3>1, <3>2 DEF ResumeSend, Push
  <2> QED
    BY <2>1, <2>3, <2>4
<1>6. ASSUME NEW c \in Calls, CountPacket(c) PROVE TypeOK'
  <2>1. CASE /\ req[c].session \in DOMAIN sessions
             /\ Increment(req[c].session)
             /\ Respond(c, Ack)
    <3>1. /\ DOMAIN sessions' = DOMAIN sessions
          /\ sessions' \in [DOMAIN sessions -> SessionState]
      BY <2>1, IncrementEffect
    <3> QED
      BY <1>6, <2>1, <3>1, RespondType, ReplyTypes DEF CountPacket
  <2>2. CASE Respond(c, Failed) /\ UNCHANGED sessions
    BY <1>6, <2>2, RespondType, ReplyTypes DEF CountPacket
  <2> QED
    BY <1>6, <2>1, <2>2 DEF CountPacket
<1>7. ASSUME NEW c \in Calls, Finalize(c) PROVE TypeOK'
  <2>1. CASE /\ req[c].session \in DOMAIN sessions
             /\ Drain(req[c].session)
             /\ Respond(c, Total(sessions[req[c].session].received_count))
    <3>1. sessions[req[c].session].received_count \in Nat
      BY <2>1 DEF SessionState
    <3>2. /\ DOMAIN sessions' = DOMAIN sessions \ {req[c].session}
          /\ sessions' \in [DOMAIN sessions' -> SessionState]
      BY <2>1 DEF Drain
    <3> QED
      BY <1>7, <2>1, <3>1, <3>2, RespondType, ReplyTypes DEF Finalize
  <2>2. CASE Respond(c, Failed) /\ UNCHANGED sessions
    BY <1>7, <2>2, RespondType, ReplyTypes DEF Finalize
  <2> QED
    BY <1>7, <2>1, <2>2 DEF Finalize
<1>8. ASSUME NEW c \in Calls, Cancel(c) PROVE TypeOK'
  <2>1. waiters' \in Seq(Calls)
    BY <1>8, RemoveAtType DEF Cancel
  <2> QED
    BY <1>8, <2>1 DEF Cancel, Stages
<1>9. CASE Disconnect
  <2>1. /\ waiters' \in Seq(Calls)
        /\ DOMAIN sessions' = {} /\ sessions' \in [DOMAIN sessions' -> SessionState]
    BY <1>9, EmptySeq DEF Disconnect
  <2> QED
    BY <1>9, <2>1 DEF Disconnect, Stages
<1>10. CASE Consume
  <2>1. Len(sink) \in Nat
    BY LenProperties
  <2> QED
    BY <1>10, <2>1 DEF Consume
<1>11. CASE DropReceiver
  BY <1>11 DEF DropReceiver
<1>12. CASE UNCHANGED vars
  BY <1>12 DEF vars
<1> QED
  BY <1>1, <1>2, <1>3, <1>4, <1>5, <1>6, <1>7, <1>8, <1>9, <1>10, <1>11, <1>12
  DEF Next, Handle

\* The variables keep their types in every behaviour.
THEOREM TypeCorrect == Spec => []TypeOK
BY InitType, NextType, PTL DEF Spec
-----------------------------------------------------------------------------
(* The inductive invariant of the server *)

\* What Respond does to a function at c and leaves elsewhere.
LEMMA RespondEffect ==
  ASSUME TypeOK, NEW c \in Calls, NEW r, Respond(c, r)
  PROVE  /\ stage'[c] = "replied" /\ reply'[c] = r
         /\ \A d \in Calls \ {c} : stage'[d] = stage[d] /\ reply'[d] = reply[d]
BY DEF TypeOK, Respond

\* A call that has not been through sink.send is not in the channel.
LEMMA NotYetSent ==
  ASSUME IInv
  PROVE  /\ Range(sink) \subseteq Calls
         /\ \A c \in Calls : stage[c] \in {"idle", "arrived", "waiting"} => c \notin Range(sink)
<1>1. Range(sink) \subseteq Calls
  BY DEF IInv, TypeOK, Range
<1> QED
  BY <1>1 DEF IInv, SinkInv

\* A refusal or an error leaves the history of every session as it was.
LEMMA RefusalKeepsHistory ==
  ASSUME IInv, NEW c \in Calls, NEW r \in {Nack, Failed, Rejected},
         stage[c] # "replied", Respond(c, r), req' = req
  PROVE  /\ \A s : Acked(s)' = Acked(s) /\ Finalized(s)' = Finalized(s)
         /\ Issued' = Issued
<1>1. reply[c].kind = "none"
  BY DEF IInv, CallInv
<1>2. /\ reply'[c] = r
      /\ \A d \in Calls \ {c} : reply'[d] = reply[d]
  BY RespondEffect DEF IInv
<1>3. /\ reply[c] # Ack /\ reply[c].kind # "total" /\ reply[c].kind # "handshake"
      /\ r # Ack /\ r.kind # "total"
      /\ r.kind = "handshake" => r.session # c
  BY <1>1, CallsAssumption DEF Ack, Nack, Failed, Rejected
<1>4. \A s : Acked(s)' = Acked(s)
  BY <1>2, <1>3 DEF Acked
<1>5. \A s : Finalized(s)' = Finalized(s)
  BY <1>2, <1>3 DEF Finalized
<1>6. Issued' = Issued
  BY <1>2, <1>3 DEF Issued
<1> QED
  BY <1>4, <1>5, <1>6

\* A step that touches neither the registry nor a request nor a session's history
\* keeps what is said of counts, totals and the registry.
LEMMA HistoryKept ==
  ASSUME IInv, UNCHANGED <<sessions, req>>,
         \A s : Acked(s)' = Acked(s) /\ Finalized(s)' = Finalized(s),
         Issued' = Issued,
         \A c \in Calls : reply[c].kind = "total" => reply'[c] = reply[c]
  PROVE  RegistryInv' /\ CountIsAcks' /\ TotalsAreFinal'
<1>1. RegistryInv'
  BY DEF IInv, RegistryInv
<1>2. CountIsAcks'
  BY DEF IInv, CountIsAcks
<1>3. TotalsAreFinal'
  BY DEF IInv, TotalsAreFinal, Finalized
<1> QED
  BY <1>1, <1>2, <1>3

\* A refusal or an error before the packet is sent keeps the invariant.
LEMMA RefusalInv ==
  ASSUME IInv, TypeOK', NEW c \in Calls, NEW r \in {Nack, Failed, Rejected},
         stage[c] \in {"arrived", "waiting"}, Respond(c, r),
         UNCHANGED <<req, sessions, sink, taken>>
  PROVE  IInv'
<1>1. /\ \A s : Acked(s)' = Acked(s) /\ Finalized(s)' = Finalized(s)
      /\ Issued' = Issued
  BY RefusalKeepsHistory
<1>2. /\ stage'[c] = "replied" /\ reply'[c] = r
      /\ \A d \in Calls \ {c} : stage'[d] = stage[d] /\ reply'[d] = reply[d]
  BY RespondEffect DEF IInv
<1>3. reply[c].kind = "none" /\ c \notin Range(sink)
  BY NotYetSent DEF IInv, CallInv
<1>4. r.kind # "none" /\ r.kind # "total" /\ r # Ack
  BY DEF Nack, Failed, Rejected, Ack
<1>5. Range(sink) \subseteq Calls
  BY NotYetSent
<1>6. RegistryInv' /\ CountIsAcks' /\ TotalsAreFinal'
  BY <1>1, <1>2, <1>3, HistoryKept
<1>7. CallInv'
  BY <1>1, <1>2, <1>4 DEF IInv, CallInv
<1>8. SinkInv'
  BY <1>2, <1>3, <1>5 DEF IInv, SinkInv
<1>9. AckedIsQueued'
  BY <1>2, <1>4 DEF IInv, AckedIsQueued
<1>10. ScreenedSink' /\ FailedIsUndelivered'
  BY <1>2, <1>3, <1>5 DEF IInv, ScreenedSink, FailedIsUndelivered
<1> QED
  BY <1>6, <1>7, <1>8, <1>9, <1>10 DEF IInv, Backpressure

\* A packet that passed the firewall and has a permit keeps the invariant.
LEMMA PushInv ==
  ASSUME IInv, TypeOK', NEW c \in Calls, stage[c] \in {"arrived", "waiting"}, Push(c),
         req[c].op = "stream", req[c].payload \in Admissible,
         Free >= 1, UNCHANGED <<req, sessions, taken>>
  PROVE  IInv'
<1>1. /\ Len(sink') = Len(sink) + 1
      /\ Range(sink') = Range(sink) \cup {c}
      /\ IsInjective(sink) /\ c \notin Range(sink) => IsInjective(sink')
  BY AppendRange DEF IInv, TypeOK, Push
<1>2. /\ stage'[c] = "sent" /\ reply' = reply
      /\ \A d \in Calls \ {c} : stage'[d] = stage[d]
  BY DEF IInv, TypeOK, Push
<1>3. reply[c].kind = "none" /\ c \notin Range(sink) /\ Range(sink) \subseteq Calls
  BY NotYetSent DEF IInv, CallInv
<1>4. RegistryInv' /\ CountIsAcks' /\ TotalsAreFinal'
  BY <1>2, HistoryKept DEF Acked, Finalized, Issued
<1>5. CallInv'
  BY <1>1, <1>2, <1>3 DEF IInv, CallInv, Issued
<1>6. SinkInv' /\ AckedIsQueued'
  BY <1>1, <1>2, <1>3 DEF IInv, SinkInv, AckedIsQueued
<1>7. ScreenedSink'
  BY <1>1, <1>2, <1>3 DEF IInv, ScreenedSink, Nack
<1>8. FailedIsUndelivered'
  BY <1>1, <1>2, <1>3 DEF IInv, FailedIsUndelivered, Failed
<1>9. Backpressure'
  BY <1>1, LenProperties, CapacityAssumption DEF IInv, TypeOK, Backpressure, Free
<1> QED
  BY <1>4, <1>5, <1>6, <1>7, <1>8, <1>9 DEF IInv

\* IInv holds at the start: nothing was asked, sent or answered.
LEMMA InitInv == Init => IInv
<1> SUFFICES ASSUME Init PROVE IInv
  OBVIOUS
<1> USE DEF Init
<1>1. TypeOK
  BY InitType
<1>2. Range(sink) = {} /\ IsInjective(sink) /\ Len(sink) = 0 /\ DOMAIN sessions = {}
  BY EmptySeq DEF Range, IsInjective
<1>3. CallInv
  BY DEF CallInv, NoRequest, Ack
<1>4. SinkInv /\ RegistryInv /\ CountIsAcks /\ ScreenedSink /\ FailedIsUndelivered
  BY <1>2 DEF SinkInv, RegistryInv, CountIsAcks, ScreenedSink, FailedIsUndelivered
<1>5. TotalsAreFinal
  BY DEF TotalsAreFinal, Finalized
<1>6. AckedIsQueued
  BY <1>2 DEF AckedIsQueued, Ack
<1> QED
  BY <1>1, <1>2, <1>3, <1>4, <1>5, <1>6, CapacityAssumption DEF IInv, Backpressure

\* A call that arrives was not asked before and is not in the channel.
LEMMA ArriveInv ==
  ASSUME IInv, TypeOK', NEW c \in Calls, NEW r \in Requests, Arrive(c, r)
  PROVE  IInv'
<1> USE DEF Arrive
<1>1. /\ stage[c] = "idle" /\ stage'[c] = "arrived" /\ req'[c] = r
      /\ \A d \in Calls \ {c} : stage'[d] = stage[d] /\ req'[d] = req[d]
      /\ reply' = reply /\ sink' = sink /\ sessions' = sessions /\ taken' = taken
  BY DEF IInv, TypeOK
<1>2. reply[c].kind = "none" /\ c \notin Range(sink) /\ Range(sink) \subseteq Calls
  BY <1>1, NotYetSent DEF IInv, CallInv
<1>3. \A s : Acked(s)' = Acked(s) /\ Finalized(s)' = Finalized(s)
  BY <1>1, <1>2 DEF Acked, Finalized, Ack
<1>4. Issued' = Issued
  BY <1>1 DEF Issued
<1>5. CallInv'
  BY <1>1, <1>2, <1>4 DEF IInv, CallInv, Ack
<1>6. SinkInv' /\ AckedIsQueued'
  BY <1>1, <1>2 DEF IInv, SinkInv, AckedIsQueued
<1>7. ScreenedSink' /\ FailedIsUndelivered'
  BY <1>1, <1>2 DEF IInv, ScreenedSink, FailedIsUndelivered
<1>8. RegistryInv' /\ CountIsAcks'
  BY <1>1, <1>3, <1>4 DEF IInv, RegistryInv, CountIsAcks
<1>9. TotalsAreFinal'
  BY <1>1, <1>3 DEF IInv, TotalsAreFinal
<1> QED
  BY <1>1, <1>5, <1>6, <1>7, <1>8, <1>9 DEF IInv, Backpressure

\* A handshake issues an id that no session, reply or packet names yet, or is rejected.
LEMMA HandshakeInv ==
  ASSUME IInv, TypeOK', NEW c \in Calls, Handshake(c)
  PROVE  IInv'
<1> DEFINE d == Decision(req[c].hidden)
<1>1. stage[c] = "arrived" /\ UNCHANGED <<req, sink, taken>>
  BY DEF Handshake
<1>2. CASE Respond(c, Rejected) /\ UNCHANGED sessions
  BY <1>1, <1>2, RefusalInv
<1>3. CASE Open(c, d.adapter) /\ Respond(c, Opened(c, d))
  <2>1. /\ stage'[c] = "replied" /\ reply'[c] = Opened(c, d)
        /\ \A e \in Calls \ {c} : stage'[e] = stage[e] /\ reply'[e] = reply[e]
    BY <1>3, RespondEffect DEF IInv
  <2>2. /\ reply[c].kind = "none" /\ c \notin Issued /\ c \notin Range(sink)
        /\ Range(sink) \subseteq Calls /\ c # NoSession
    BY <1>1, NotYetSent, CallsAssumption DEF IInv, CallInv, Issued
  <2>3. /\ DOMAIN sessions' = DOMAIN sessions \cup {c}
        /\ sessions'[c].received_count = 0
        /\ \A t \in DOMAIN sessions \ {c} : sessions'[t] = sessions[t]
    BY <1>3 DEF Open
  <2>4. /\ reply'[c].kind = "handshake" /\ reply'[c].session = c
    BY <2>1 DEF Opened
  <2>5. Issued' = Issued \cup {c}
    BY <2>1, <2>4 DEF Issued
  <2>6. \A s : Acked(s)' = Acked(s) /\ Finalized(s)' = Finalized(s)
    BY <1>1, <2>1, <2>2, <2>4 DEF Acked, Finalized, Ack
  <2>7. Acked(c) = {} /\ Finalized(c) = {}
    BY <2>2 DEF IInv, CallInv, Acked, Finalized
  <2>8. CallInv'
    BY <1>1, <2>1, <2>4, <2>5 DEF IInv, CallInv, Ack
  <2>9. SinkInv' /\ AckedIsQueued'
    BY <1>1, <2>1, <2>2, <2>4 DEF IInv, SinkInv, AckedIsQueued, Ack
  <2>10. ScreenedSink'
    BY <1>1, <2>1, <2>2 DEF IInv, ScreenedSink
  <2>11. RegistryInv'
    BY <2>3, <2>5, <2>6, <2>7 DEF IInv, RegistryInv
  <2>12. CountIsAcks'
    BY <2>3, <2>6, <2>7, <2>2, FS_EmptySet DEF IInv, CountIsAcks, RegistryInv
  <2>13. TotalsAreFinal'
    <3>1. \A s : Finalized(s) \subseteq Calls \ {c}
      BY <2>2 DEF Finalized
    <3> QED
      BY <2>1, <2>6, <3>1 DEF IInv, TotalsAreFinal
  <2>14. FailedIsUndelivered'
    BY <1>1, <2>1, <2>2, <2>3 DEF IInv, FailedIsUndelivered, ScreenedSink, CallInv
  <2> QED
    BY <1>1, <2>8, <2>9, <2>10, <2>11, <2>12, <2>13, <2>14 DEF IInv, Backpressure
<1> QED
  BY <1>2, <1>3 DEF Handshake

\* A stream call is refused, or takes a place in the channel or in the queue for one.
LEMMA StreamPrimitiveInv ==
  ASSUME IInv, TypeOK', NEW c \in Calls, StreamPrimitive(c)
  PROVE  IInv'
<1>1. /\ stage[c] = "arrived" /\ req[c].op = "stream"
      /\ UNCHANGED <<req, sessions, taken>>
  BY DEF StreamPrimitive
<1>2. CASE Respond(c, Nack) /\ UNCHANGED sink
  BY <1>1, <1>2, RefusalInv
<1>3. CASE Respond(c, Failed) /\ UNCHANGED sink
  BY <1>1, <1>3, RefusalInv
<1>4. CASE req[c].payload \in Admissible /\ Free > Len(waiters) /\ Push(c)
  <2>1. Free >= 1
    BY <1>4, LenProperties, CapacityAssumption DEF IInv, TypeOK, Free
  <2> QED
    BY <1>1, <1>4, <2>1, PushInv
<1>5. CASE /\ req[c].payload \in Admissible
           /\ stage' = [stage EXCEPT ![c] = "waiting"]
           /\ UNCHANGED <<reply, sink>>
  <2>1. /\ stage'[c] = "waiting"
        /\ \A d \in Calls \ {c} : stage'[d] = stage[d]
    BY <1>5 DEF IInv, TypeOK
  <2>2. c \notin Range(sink) /\ Range(sink) \subseteq Calls
    BY <1>1, NotYetSent
  <2>3. RegistryInv' /\ CountIsAcks' /\ TotalsAreFinal'
    BY <1>1, <1>5, HistoryKept DEF Acked, Finalized, Issued
  <2>4. CallInv'
    BY <1>1, <1>5, <2>1 DEF IInv, CallInv, Issued
  <2>5. SinkInv' /\ AckedIsQueued' /\ ScreenedSink' /\ FailedIsUndelivered'
    BY <1>1, <1>5, <2>1, <2>2
    DEF IInv, SinkInv, AckedIsQueued, ScreenedSink, FailedIsUndelivered
  <2> QED
    BY <1>1, <1>5, <2>3, <2>4, <2>5 DEF IInv, Backpressure
<1> QED
  BY <1>1, <1>2, <1>3, <1>4, <1>5 DEF StreamPrimitive, Send

\* A waiting call finds the channel closed, or enters it once there is a free place.
LEMMA ResumeSendInv ==
  ASSUME IInv, TypeOK', NEW c \in Calls, ResumeSend(c)
  PROVE  IInv'
<1>1. /\ stage[c] = "waiting" /\ UNCHANGED <<req, sessions, taken>>
      /\ req[c].op = "stream" /\ req[c].payload \in Admissible
  BY DEF ResumeSend, IInv, CallInv
<1>2. PICK i \in 1..Len(waiters) :
        \/ Respond(c, Failed) /\ UNCHANGED sink
        \/ i <= Free /\ Push(c)
  BY DEF ResumeSend
<1>3. CASE Respond(c, Failed) /\ UNCHANGED sink
  BY <1>1, <1>3, RefusalInv
<1>4. CASE i <= Free /\ Push(c)
  <2>1. Free >= 1
    BY <1>4, LenProperties, CapacityAssumption DEF IInv, TypeOK, Free
  <2> QED
    BY <1>1, <1>4, <2>1, PushInv
<1> QED
  BY <1>2, <1>3, <1>4

\* One more ack: the one place where a session's history and its count move together.
LEMMA CountPacketInv ==
  ASSUME IInv, TypeOK', NEW c \in Calls, CountPacket(c)
  PROVE  IInv'
<1> PICK s : s = req[c].session
  OBVIOUS
<1>1. /\ stage[c] = "sent" /\ req[c].op = "stream" /\ req[c].payload \in Admissible
      /\ c \in Range(sink) /\ reply[c].kind = "none" /\ Range(sink) \subseteq Calls
      /\ UNCHANGED <<req, sink, taken>>
  BY NotYetSent DEF CountPacket, IInv, CallInv
<1>2. CASE s \in DOMAIN sessions /\ Increment(s) /\ Respond(c, Ack)
  <2>1. /\ stage'[c] = "replied" /\ reply'[c] = Ack
        /\ \A d \in Calls \ {c} : stage'[d] = stage[d] /\ reply'[d] = reply[d]
    BY <1>2, RespondEffect DEF IInv
  <2>2. /\ DOMAIN sessions' = DOMAIN sessions
        /\ sessions'[s].received_count = sessions[s].received_count + 1
        /\ \A t \in DOMAIN sessions \ {s} : sessions'[t] = sessions[t]
    BY <1>2, IncrementEffect DEF IInv
  <2>3. Issued' = Issued
    BY <1>1, <2>1 DEF Issued, Ack
  <2>4. \A t : Finalized(t)' = Finalized(t) /\ Finalized(t) \subseteq Calls \ {c}
    BY <1>1, <2>1 DEF Finalized, Ack
  <2>5. /\ Acked(s)' = Acked(s) \cup {c} /\ c \notin Acked(s)
        /\ \A t : t # s => Acked(t)' = Acked(t)
    BY <1>1, <2>1 DEF Acked, Ack
  <2>6. Cardinality(Acked(s)') = Cardinality(Acked(s)) + 1
    <3>1. IsFiniteSet(Acked(s))
      BY FS_Subset, CallsAssumption DEF Acked
    <3> QED
      BY <2>5, <3>1, FS_AddElement
  <2>7. CallInv'
    BY <1>1, <2>1, <2>3 DEF IInv, CallInv, Ack
  <2>8. SinkInv' /\ AckedIsQueued'
    BY <1>1, <2>1 DEF IInv, SinkInv, AckedIsQueued
  <2>9. ScreenedSink'
    BY <1>1, <2>1 DEF IInv, ScreenedSink, Ack, Nack
  <2>10. FailedIsUndelivered'
    BY <1>1, <2>1, <2>2 DEF IInv, FailedIsUndelivered, Ack, Failed
  <2>11. RegistryInv'
    BY <2>2, <2>3, <2>4 DEF IInv, RegistryInv
  <2>12. CountIsAcks'
    BY <1>2, <2>2, <2>5, <2>6 DEF IInv, CountIsAcks
  <2>13. TotalsAreFinal'
    <3>1. Finalized(s) = {}
      BY <1>2 DEF IInv, RegistryInv
    <3> QED
      BY <2>1, <2>4, <2>5, <3>1 DEF IInv, TotalsAreFinal
  <2> QED
    BY <1>1, <2>7, <2>8, <2>9, <2>10, <2>11, <2>12, <2>13 DEF IInv, Backpressure
<1>3. CASE s \notin DOMAIN sessions /\ Respond(c, Failed) /\ UNCHANGED sessions
  <2>1. /\ stage'[c] = "replied" /\ reply'[c] = Failed
        /\ \A d \in Calls \ {c} : stage'[d] = stage[d] /\ reply'[d] = reply[d]
    BY <1>3, RespondEffect DEF IInv
  <2>2. /\ \A t : Acked(t)' = Acked(t) /\ Finalized(t)' = Finalized(t)
        /\ Issued' = Issued
    BY <1>1, <1>3, RefusalKeepsHistory
  <2>3. RegistryInv' /\ CountIsAcks' /\ TotalsAreFinal'
    BY <1>1, <1>3, <2>1, <2>2, HistoryKept
  <2>4. CallInv'
    BY <1>1, <2>1, <2>2 DEF IInv, CallInv, Failed, Ack
  <2>5. SinkInv' /\ AckedIsQueued'
    BY <1>1, <2>1 DEF IInv, SinkInv, AckedIsQueued, Failed, Ack
  <2>6. ScreenedSink'
    BY <1>1, <2>1 DEF IInv, ScreenedSink, Failed, Nack
  <2>7. FailedIsUndelivered'
    BY <1>1, <1>3, <2>1 DEF IInv, FailedIsUndelivered
  <2> QED
    BY <1>1, <2>3, <2>4, <2>5, <2>6, <2>7 DEF IInv, Backpressure
<1> QED
  BY <1>2, <1>3 DEF CountPacket

\* The count leaves the registry and becomes the total of the session.
LEMMA FinalizeInv ==
  ASSUME IInv, TypeOK', NEW c \in Calls, Finalize(c)
  PROVE  IInv'
<1> PICK s, n : s = req[c].session /\ n = sessions[s].received_count
  OBVIOUS
<1>1. /\ stage[c] = "arrived" /\ req[c].op = "finalize"
      /\ UNCHANGED <<req, sink, taken>>
  BY DEF Finalize
<1>2. CASE s \in DOMAIN sessions /\ Drain(s) /\ Respond(c, Total(n))
  <2>1. /\ stage'[c] = "replied" /\ reply'[c] = Total(n)
        /\ \A d \in Calls \ {c} : stage'[d] = stage[d] /\ reply'[d] = reply[d]
    BY <1>2, RespondEffect DEF IInv
  <2>2. reply'[c].kind = "total" /\ reply'[c].count = n
    BY <2>1 DEF Total
  <2>3. /\ reply[c].kind = "none" /\ c \notin Range(sink) /\ Range(sink) \subseteq Calls
    BY <1>1, NotYetSent DEF IInv, CallInv
  <2>4. /\ DOMAIN sessions' = DOMAIN sessions \ {s}
        /\ \A t \in DOMAIN sessions' : sessions'[t] = sessions[t]
    BY <1>2 DEF Drain
  <2>5. Issued' = Issued
    BY <2>1, <2>2, <2>3 DEF Issued
  <2>6. \A t : Acked(t)' = Acked(t)
    BY <1>1, <2>1, <2>2, <2>3 DEF Acked, Ack
  <2>7. /\ Finalized(s)' = Finalized(s) \cup {c}
        /\ \A t : t # s => Finalized(t)' = Finalized(t)
        /\ \A t : Finalized(t) \subseteq Calls \ {c}
    BY <1>1, <2>1, <2>2, <2>3 DEF Finalized
  <2>8. Finalized(s)' = {c} /\ n = Cardinality(Acked(s))
    BY <1>2, <2>7 DEF IInv, RegistryInv, CountIsAcks
  <2>9. CallInv'
    BY <1>1, <2>1, <2>2, <2>5 DEF IInv, CallInv, Ack
  <2>10. SinkInv' /\ AckedIsQueued'
    BY <1>1, <2>1, <2>2, <2>3 DEF IInv, SinkInv, AckedIsQueued, Ack
  <2>11. ScreenedSink' /\ FailedIsUndelivered'
    BY <1>1, <2>1, <2>3, <2>4 DEF IInv, ScreenedSink, FailedIsUndelivered
  <2>12. RegistryInv' /\ CountIsAcks'
    BY <2>4, <2>5, <2>6, <2>7 DEF IInv, RegistryInv, CountIsAcks
  <2>13. TotalsAreFinal'
    <3>1. ASSUME NEW t \in Calls, t # s, NEW e \in Finalized(t)'
          PROVE  reply'[e].count = Cardinality(Acked(t)') /\ Finalized(t)' = {e}
      BY <2>1, <2>6, <2>7, <3>1 DEF IInv, TotalsAreFinal
    <3>2. ASSUME NEW e \in Finalized(s)'
          PROVE  reply'[e].count = Cardinality(Acked(s)') /\ Finalized(s)' = {e}
      <4>1. e = c
        BY <2>8, <3>2
      <4> QED
        BY <2>2, <2>6, <2>8, <4>1
    <3> QED
      BY <3>1, <3>2 DEF TotalsAreFinal
  <2> QED
    BY <1>1, <2>9, <2>10, <2>11, <2>12, <2>13 DEF IInv, Backpressure
<1>3. CASE Respond(c, Failed) /\ UNCHANGED sessions
  BY <1>1, <1>3, RefusalInv
<1> QED
  BY <1>2, <1>3 DEF Finalize

\* Some of the futures in progress are dropped.
FuturesDropped ==
  \A c \in Calls :
    \/ stage'[c] = stage[c]
    \/ stage[c] \in InProgress /\ stage'[c] = "cancelled"

\* Futures that are dropped take back nothing that was sent, counted or answered.
LEMMA DropInv ==
  ASSUME IInv, TypeOK', UNCHANGED <<req, reply, sink, taken>>, FuturesDropped,
         sessions' = sessions \/ DOMAIN sessions' = {}
  PROVE  IInv'
<1>1. \A s : Acked(s)' = Acked(s) /\ Finalized(s)' = Finalized(s)
  BY DEF Acked, Finalized
<1>2. Issued' = Issued /\ Range(sink) \subseteq Calls
  BY NotYetSent DEF Issued
<1>3. CallInv'
  BY <1>2 DEF IInv, CallInv, InProgress, FuturesDropped
<1>4. SinkInv' /\ AckedIsQueued'
  BY <1>2 DEF IInv, SinkInv, AckedIsQueued, InProgress, FuturesDropped
<1>5. ScreenedSink' /\ FailedIsUndelivered'
  BY DEF IInv, ScreenedSink, FailedIsUndelivered
<1>6. RegistryInv' /\ CountIsAcks'
  BY <1>1, <1>2 DEF IInv, RegistryInv, CountIsAcks
<1>7. TotalsAreFinal'
  BY <1>1 DEF IInv, TotalsAreFinal
<1> QED
  BY <1>3, <1>4, <1>5, <1>6, <1>7 DEF IInv, Backpressure

\* The owner of the Receiver changes nothing the handlers rely on.
LEMMA ReceiverInv ==
  ASSUME IInv, TypeOK', UNCHANGED <<stage, req, reply, sessions, sink>>, taken' >= taken
  PROVE  IInv'
<1>1. \A s : Acked(s)' = Acked(s) /\ Finalized(s)' = Finalized(s)
  BY DEF Acked, Finalized
<1>2. Issued' = Issued
  BY DEF Issued
<1>3. CallInv' /\ SinkInv' /\ AckedIsQueued' /\ ScreenedSink' /\ FailedIsUndelivered'
  BY <1>2 DEF IInv, CallInv, SinkInv, AckedIsQueued, ScreenedSink, FailedIsUndelivered
<1>4. RegistryInv' /\ CountIsAcks' /\ TotalsAreFinal'
  BY <1>1, <1>2 DEF IInv, RegistryInv, CountIsAcks, TotalsAreFinal
<1>5. Backpressure'
  BY LenProperties, CapacityAssumption DEF IInv, TypeOK, Backpressure
<1> QED
  BY <1>3, <1>4, <1>5 DEF IInv

\* Every step keeps the invariant.
LEMMA NextInv == IInv /\ [Next]_vars => IInv'
<1> SUFFICES ASSUME IInv, [Next]_vars PROVE IInv'
  OBVIOUS
<1>1. TypeOK'
  BY NextType DEF IInv
<1>2. ASSUME NEW c \in Calls, NEW r \in Requests, Arrive(c, r) PROVE IInv'
  BY <1>1, <1>2, ArriveInv
<1>3. ASSUME NEW c \in Calls, Malformed(c) PROVE IInv'
  BY <1>1, <1>3, RefusalInv DEF Malformed
<1>4. ASSUME NEW c \in Calls, Handshake(c) PROVE IInv'
  BY <1>1, <1>4, HandshakeInv
<1>5. ASSUME NEW c \in Calls, StreamPrimitive(c) PROVE IInv'
  BY <1>1, <1>5, StreamPrimitiveInv
<1>6. ASSUME NEW c \in Calls, ResumeSend(c) PROVE IInv'
  BY <1>1, <1>6, ResumeSendInv
<1>7. ASSUME NEW c \in Calls, CountPacket(c) PROVE IInv'
  BY <1>1, <1>7, CountPacketInv
<1>8. ASSUME NEW c \in Calls, Finalize(c) PROVE IInv'
  BY <1>1, <1>8, FinalizeInv
<1>9. ASSUME NEW c \in Calls, Cancel(c) PROVE IInv'
  <2>1. FuturesDropped /\ UNCHANGED <<req, reply, sink, taken, sessions>>
    BY <1>9 DEF Cancel, IInv, TypeOK, FuturesDropped
  <2> QED
    BY <1>1, <2>1, DropInv
<1>10. CASE Disconnect
  <2>1. DOMAIN sessions' = {}
    BY <1>10, EmptySeq DEF Disconnect
  <2>2. FuturesDropped /\ UNCHANGED <<req, reply, sink, taken>>
    BY <1>10 DEF Disconnect, FuturesDropped
  <2> QED
    BY <1>1, <2>1, <2>2, DropInv
<1>11. CASE Consume
  BY <1>1, <1>11, ReceiverInv DEF Consume, IInv, TypeOK
<1>12. CASE DropReceiver
  BY <1>1, <1>12, ReceiverInv DEF DropReceiver, IInv, TypeOK
<1>13. CASE UNCHANGED vars
  BY <1>1, <1>13, ReceiverInv DEF vars, IInv, TypeOK
<1> QED
  BY <1>2, <1>3, <1>4, <1>5, <1>6, <1>7, <1>8, <1>9, <1>10, <1>11, <1>12, <1>13
  DEF Next, Handle

\* The invariant holds in every behaviour.
THEOREM Invariance == Spec => []IInv
BY InitInv, NextInv, PTL DEF Spec

\* The channel never holds more packets than its bound, however sends are
\* suspended, resumed and dropped.
THEOREM BackpressureHolds == Spec => []Backpressure
<1>1. IInv => Backpressure
  BY DEF IInv
<1> QED
  BY <1>1, Invariance, PTL

\* The registry's count of an open session is the number of its acks.
THEOREM CountsHold == Spec => []CountIsAcks
<1>1. IInv => CountIsAcks
  BY DEF IInv
<1> QED
  BY <1>1, Invariance, PTL

\* The total that finalize answers is the number of acks, then and for ever, and
\* only one finalize of a session succeeds.
THEOREM TotalsHold == Spec => []TotalsAreFinal
<1>1. IInv => TotalsAreFinal
  BY DEF IInv
<1> QED
  BY <1>1, Invariance, PTL

\* An acknowledged packet entered the channel, exactly once.
THEOREM AcksHold == Spec => []AckedIsQueued
<1>1. IInv => AckedIsQueued
  BY DEF IInv
<1> QED
  BY <1>1, Invariance, PTL

\* Only admissible packets enter the channel, and none that was refused.
THEOREM ScreeningHolds == Spec => []ScreenedSink
<1>1. IInv => ScreenedSink
  BY DEF IInv
<1> QED
  BY <1>1, Invariance, PTL

\* A packet that was delivered and answered with an error names no open session.
THEOREM FailuresHold == Spec => []FailedIsUndelivered
<1>1. IInv => FailedIsUndelivered
  BY DEF IInv
<1> QED
  BY <1>1, Invariance, PTL
-----------------------------------------------------------------------------
(* The server keeps a ledger *)

\* The ledger counts as the server does.
LEMMA SameCardinality == \A S : Ledger!Cardinality(S) = Cardinality(S)
BY DEF Ledger!Cardinality, Cardinality

\* An answer that is no ack and no total, and opens no session, is a step the
\* ledger does not see.
LEMMA SilentAnswer ==
  ASSUME IInv, NEW c \in Calls, NEW r \in {Nack, Failed, Rejected},
         stage[c] # "replied", Respond(c, r), UNCHANGED <<req, sessions, sink>>
  PROVE  UNCHANGED Ledger!vars
<1>1. /\ \A s : Acked(s)' = Acked(s) /\ Finalized(s)' = Finalized(s)
      /\ Issued' = Issued
  BY RefusalKeepsHistory
<1>2. /\ reply'[c] = r /\ reply[c].kind = "none"
      /\ \A d \in Calls \ {c} : reply'[d] = reply[d]
  BY RespondEffect DEF IInv, CallInv
<1>3. reply[c] # Ack /\ reply'[c] # Ack /\ \A s : c \notin Finalized(s)
  BY <1>2 DEF Ack, Nack, Failed, Rejected, Finalized
<1>4. LedgerStatus' = LedgerStatus
  BY <1>1 DEF LedgerStatus
<1>5. LedgerCredit' = LedgerCredit
  BY <1>2, <1>3 DEF LedgerCredit
<1>6. LedgerStatement' = LedgerStatement
  <2>1. \A s : \A d \in Finalized(s) : reply'[d] = reply[d]
    BY <1>2, <1>3 DEF Finalized
  <2> QED
    BY <1>1, <2>1 DEF LedgerStatement
<1> QED
  BY <1>4, <1>5, <1>6 DEF Ledger!vars

\* A packet that enters the channel is a deposit.
LEMMA PushDeposits ==
  ASSUME IInv, NEW c \in Calls, stage[c] \in {"arrived", "waiting"}, Push(c),
         UNCHANGED <<req, sessions>>
  PROVE  Ledger!Deposit(c)
<1>1. c \notin Range(sink) /\ sink' = Append(sink, c) /\ reply' = reply
  BY NotYetSent DEF Push
<1>2. LedgerStatus' = LedgerStatus /\ LedgerCredit' = LedgerCredit
  BY <1>1 DEF LedgerStatus, LedgerCredit, Issued
<1>3. LedgerStatement' = LedgerStatement
  BY <1>1 DEF LedgerStatement, Finalized
<1> QED
  BY <1>1, <1>2, <1>3 DEF Ledger!Deposit, Ledger!Range, Range

\* An accepted handshake opens an account.
LEMMA HandshakeOpens ==
  ASSUME IInv, NEW c \in Calls, Handshake(c)
  PROVE  Ledger!OpenAccount(c) \/ UNCHANGED Ledger!vars
<1> DEFINE d == Decision(req[c].hidden)
<1>1. stage[c] = "arrived" /\ reply[c].kind = "none" /\ UNCHANGED <<req, sink>>
  BY DEF Handshake, IInv, CallInv
<1>2. CASE Respond(c, Rejected) /\ UNCHANGED sessions
  BY <1>1, <1>2, SilentAnswer
<1>3. CASE Open(c, d.adapter) /\ Respond(c, Opened(c, d))
  <2>1. /\ reply'[c].kind = "handshake" /\ reply'[c].session = c
        /\ \A e \in Calls \ {c} : reply'[e] = reply[e]
    BY <1>3, RespondEffect DEF IInv, Opened
  <2>2. DOMAIN sessions' = DOMAIN sessions \cup {c}
    BY <1>3 DEF Open
  <2>3. c \notin Issued /\ Issued' = Issued \cup {c} /\ c \notin DOMAIN sessions
    BY <1>1, <2>1 DEF Issued, IInv, RegistryInv
  <2>4. LedgerStatus[c] = "new" /\ LedgerStatus' = [LedgerStatus EXCEPT ![c] = "open"]
    BY <2>2, <2>3 DEF LedgerStatus
  <2>5. LedgerCredit' = LedgerCredit
    BY <1>1, <2>1 DEF LedgerCredit, Ack
  <2>6. LedgerStatement' = LedgerStatement
    <3>1. \A s : Finalized(s)' = Finalized(s) /\ c \notin Finalized(s)
      BY <1>1, <2>1 DEF Finalized
    <3>2. \A s : \A e \in Finalized(s) : reply'[e] = reply[e]
      BY <2>1, <3>1 DEF Finalized
    <3> QED
      BY <3>1, <3>2 DEF LedgerStatement
  <2> QED
    BY <1>1, <2>4, <2>5, <2>6 DEF Ledger!OpenAccount
<1> QED
  BY <1>2, <1>3 DEF Handshake

\* A packet is counted for the session it names: its item is credited there.
LEMMA CountPacketCredits ==
  ASSUME IInv, NEW c \in Calls, CountPacket(c)
  PROVE  (\E a \in Calls : Ledger!Credit(c, a)) \/ UNCHANGED Ledger!vars
<1> PICK s : s = req[c].session
  OBVIOUS
<1>1. /\ stage[c] = "sent" /\ reply[c].kind = "none" /\ c \in Range(sink)
      /\ UNCHANGED <<req, sink>>
  BY DEF CountPacket, IInv, CallInv
<1>2. CASE s \in DOMAIN sessions /\ Increment(s) /\ Respond(c, Ack)
  <2>1. reply'[c] = Ack /\ \A d \in Calls \ {c} : reply'[d] = reply[d]
    BY <1>2, RespondEffect DEF IInv
  <2>2. DOMAIN sessions' = DOMAIN sessions /\ s \in Calls
    BY <1>2, IncrementEffect DEF IInv, TypeOK
  <2>3. Issued' = Issued
    BY <1>1, <2>1 DEF Issued, Ack
  <2>4. LedgerStatus' = LedgerStatus /\ LedgerStatus[s] = "open"
    BY <1>2, <2>2, <2>3 DEF LedgerStatus
  <2>5. LedgerCredit[c] = {} /\ LedgerCredit' = [LedgerCredit EXCEPT ![c] = {s}]
    <3>1. reply[c] # Ack
      BY <1>1 DEF Ack
    <3>2. LedgerCredit[c] = {} /\ LedgerCredit'[c] = {s}
      BY <1>1, <2>1, <3>1 DEF LedgerCredit
    <3>3. \A d \in Calls \ {c} : LedgerCredit'[d] = LedgerCredit[d]
      BY <1>1, <2>1 DEF LedgerCredit
    <3> QED
      BY <3>2, <3>3 DEF LedgerCredit
  <2>6. LedgerStatement' = LedgerStatement
    <3>1. \A t : Finalized(t)' = Finalized(t) /\ c \notin Finalized(t)
      BY <1>1, <2>1 DEF Finalized, Ack
    <3>2. \A t : \A e \in Finalized(t) : reply'[e] = reply[e]
      BY <2>1, <3>1 DEF Finalized
    <3> QED
      BY <3>1, <3>2 DEF LedgerStatement
  <2>7. Ledger!Credit(c, s)
    BY <1>1, <2>4, <2>5, <2>6 DEF Ledger!Credit, Ledger!Range, Range
  <2> QED
    BY <2>2, <2>7
<1>3. CASE Respond(c, Failed) /\ UNCHANGED sessions
  BY <1>1, <1>3, SilentAnswer
<1> QED
  BY <1>2, <1>3 DEF CountPacket

\* The drained session states its count, which is the number of its credits.
LEMMA FinalizeSettles ==
  ASSUME IInv, NEW c \in Calls, Finalize(c)
  PROVE  (\E a \in Calls : Ledger!Settle(a)) \/ UNCHANGED Ledger!vars
<1> PICK s, n : s = req[c].session /\ n = sessions[s].received_count
  OBVIOUS
<1>1. /\ stage[c] = "arrived" /\ reply[c].kind = "none"
      /\ UNCHANGED <<req, sink>>
  BY DEF Finalize, IInv, CallInv
<1>2. CASE s \in DOMAIN sessions /\ Drain(s) /\ Respond(c, Total(n))
  <2>1. /\ reply'[c].kind = "total" /\ reply'[c].count = n
        /\ \A d \in Calls \ {c} : reply'[d] = reply[d]
    BY <1>2, RespondEffect DEF IInv, Total
  <2>2. /\ DOMAIN sessions' = DOMAIN sessions \ {s} /\ s \in Calls /\ s \in Issued
        /\ Finalized(s) = {} /\ n = Cardinality(Acked(s))
    BY <1>2 DEF Drain, IInv, TypeOK, RegistryInv, CountIsAcks
  <2>3. Issued' = Issued
    BY <1>1, <2>1 DEF Issued
  <2>4. LedgerStatus[s] = "open" /\ LedgerStatus' = [LedgerStatus EXCEPT ![s] = "closed"]
    BY <1>2, <2>2, <2>3 DEF LedgerStatus
  <2>5. LedgerCredit' = LedgerCredit
    BY <1>1, <2>1 DEF LedgerCredit, Ack
  <2>6. n = Ledger!Cardinality(Ledger!CreditedTo(s))
    <3>1. Ledger!CreditedTo(s) = Acked(s)
      BY DEF Ledger!CreditedTo, LedgerCredit, Acked
    <3> QED
      BY <2>2, <3>1, SameCardinality
  <2>7. LedgerStatement' = [LedgerStatement EXCEPT ![s] = {n}]
    <3>1. /\ Finalized(s)' = {c}
          /\ \A t : t # s => Finalized(t)' = Finalized(t)
          /\ \A t : c \notin Finalized(t)
      BY <1>1, <2>1, <2>2 DEF Finalized
    <3>2. \A t : \A e \in Finalized(t) : reply'[e] = reply[e]
      BY <2>1, <3>1 DEF Finalized
    <3>3. \A t \in Calls \ {s} : LedgerStatement'[t] = LedgerStatement[t]
      BY <3>1, <3>2 DEF LedgerStatement
    <3>4. LedgerStatement'[s] = {n}
      BY <2>1, <2>2, <3>1 DEF LedgerStatement
    <3> QED
      BY <3>3, <3>4 DEF LedgerStatement
  <2> QED
    BY <1>1, <2>2, <2>4, <2>5, <2>6, <2>7 DEF Ledger!Settle
<1>3. CASE Respond(c, Failed) /\ UNCHANGED sessions
  BY <1>1, <1>3, SilentAnswer
<1> QED
  BY <1>2, <1>3 DEF Finalize

\* Every step of the server is a step of the ledger or does not touch it.
LEMMA NextLedger == IInv /\ [Next]_vars => [Ledger!Next]_(Ledger!vars)
<1> SUFFICES ASSUME IInv, [Next]_vars PROVE Ledger!Next \/ UNCHANGED Ledger!vars
  OBVIOUS
<1>1. ASSUME UNCHANGED <<req, reply, sessions, sink>> PROVE UNCHANGED Ledger!vars
  BY <1>1 DEF Ledger!vars, LedgerStatus, LedgerCredit, LedgerStatement, Issued, Finalized
<1>2. ASSUME NEW c \in Calls, NEW r \in Requests, Arrive(c, r)
      PROVE  UNCHANGED Ledger!vars
  <2>1. /\ reply[c].kind = "none" /\ UNCHANGED <<reply, sessions, sink>>
        /\ \A d \in Calls \ {c} : req'[d] = req[d]
    BY <1>2 DEF Arrive, IInv, TypeOK, CallInv
  <2>2. LedgerStatus' = LedgerStatus
    BY <2>1 DEF LedgerStatus, Issued
  <2>3. LedgerCredit' = LedgerCredit
    BY <2>1 DEF LedgerCredit, Ack
  <2>4. LedgerStatement' = LedgerStatement
    <3>1. \A s : Finalized(s)' = Finalized(s)
      BY <2>1 DEF Finalized
    <3> QED
      BY <2>1, <3>1 DEF LedgerStatement
  <2> QED
    BY <2>1, <2>2, <2>3, <2>4 DEF Ledger!vars
<1>3. ASSUME NEW c \in Calls, Malformed(c) PROVE UNCHANGED Ledger!vars
  BY <1>3, SilentAnswer DEF Malformed
<1>4. ASSUME NEW c \in Calls, Handshake(c) PROVE Ledger!Next \/ UNCHANGED Ledger!vars
  BY <1>4, HandshakeOpens DEF Ledger!Next
<1>5. ASSUME NEW c \in Calls, StreamPrimitive(c)
      PROVE  Ledger!Next \/ UNCHANGED Ledger!vars
  <2>1. stage[c] = "arrived" /\ UNCHANGED <<req, sessions>>
    BY <1>5 DEF StreamPrimitive
  <2>2. \/ Respond(c, Nack) /\ UNCHANGED sink
        \/ Respond(c, Failed) /\ UNCHANGED sink
        \/ Push(c)
        \/ UNCHANGED <<reply, sink>>
    BY <1>5 DEF StreamPrimitive, Send
  <2> QED
    BY <1>1, <2>1, <2>2, SilentAnswer, PushDeposits DEF Ledger!Next
<1>6. ASSUME NEW c \in Calls, ResumeSend(c) PROVE Ledger!Next \/ UNCHANGED Ledger!vars
  <2>1. stage[c] = "waiting" /\ UNCHANGED <<req, sessions>>
    BY <1>6 DEF ResumeSend
  <2>2. (Respond(c, Failed) /\ UNCHANGED sink) \/ Push(c)
    BY <1>6 DEF ResumeSend
  <2> QED
    BY <2>1, <2>2, SilentAnswer, PushDeposits DEF Ledger!Next
<1>7. ASSUME NEW c \in Calls, CountPacket(c) PROVE Ledger!Next \/ UNCHANGED Ledger!vars
  BY <1>7, CountPacketCredits DEF Ledger!Next
<1>8. ASSUME NEW c \in Calls, Finalize(c) PROVE Ledger!Next \/ UNCHANGED Ledger!vars
  BY <1>8, FinalizeSettles DEF Ledger!Next
<1>9. ASSUME NEW c \in Calls, Cancel(c) PROVE UNCHANGED Ledger!vars
  BY <1>1, <1>9 DEF Cancel
<1>10. CASE Disconnect
  <2>1. DOMAIN sessions' = {} /\ UNCHANGED <<req, reply, sink>> /\ Issued' = Issued
    BY <1>10, EmptySeq DEF Disconnect, Issued
  <2>2. LedgerStatus' = [a \in Calls |-> IF LedgerStatus[a] = "open" THEN "closed"
                                         ELSE LedgerStatus[a]]
    BY <2>1 DEF LedgerStatus, IInv, RegistryInv
  <2>3. UNCHANGED <<sink, LedgerCredit, LedgerStatement>>
    BY <2>1 DEF LedgerCredit, LedgerStatement, Finalized
  <2> QED
    BY <2>2, <2>3 DEF Ledger!Next, Ledger!VoidAll
<1>11. CASE Consume \/ DropReceiver
  BY <1>1, <1>11 DEF Consume, DropReceiver
<1>12. CASE UNCHANGED vars
  BY <1>1, <1>12 DEF vars
<1> QED
  BY <1>2, <1>3, <1>4, <1>5, <1>6, <1>7, <1>8, <1>9, <1>10, <1>11, <1>12
  DEF Next, Handle

\* The ledger starts empty.
LEMMA InitLedger == Init => Ledger!Init
<1> SUFFICES ASSUME Init PROVE Ledger!Init
  OBVIOUS
<1>1. DOMAIN sessions = {} /\ Issued = {} /\ \A s : Finalized(s) = {}
  BY EmptySeq DEF Init, Issued, Finalized
<1>2. LedgerStatus = [a \in Calls |-> "new"] /\ LedgerStatement = [a \in Calls |-> {}]
  BY <1>1 DEF LedgerStatus, LedgerStatement
<1>3. LedgerCredit = [i \in Calls |-> {}]
  BY DEF Init, LedgerCredit, Ack
<1> QED
  BY <1>2, <1>3 DEF Init, Ledger!Init

\* The server implements the ledger, for every finite set of calls and every
\* capacity of the channel.
THEOREM LedgerRefinement == Spec => LedgerSpec
BY InitLedger, NextLedger, Invariance, PTL DEF Spec, LedgerSpec, Ledger!Spec
-----------------------------------------------------------------------------
(* Types of the client *)

\* What the client puts on the wire is a message.
LEMMA AskType ==
  ASSUME ClientTypeOK, NEW c \in Calls, NEW r \in Requests, Ask(c, r)
  PROVE  /\ pending' \subseteq Calls /\ asked' \in Seq(Calls) /\ wire' \in Seq(Message)
         /\ seen' \subseteq Calls /\ unanswered' \subseteq Calls /\ UNCHANGED vars
<1>1. [kind |-> "call", call |-> c, body |-> r] \in Message
  BY DEF Message
<1> QED
  BY <1>1, AppendProperties DEF ClientTypeOK, Ask

\* The client's variables, and its server's, have their types at the start.
LEMMA ClientInitType == ClientInit => TypeOK /\ ClientTypeOK
<1> SUFFICES ASSUME ClientInit PROVE TypeOK /\ ClientTypeOK
  OBVIOUS
<1> QED
  BY InitType, EmptySeq DEF ClientInit, ClientTypeOK, SessionIds

\* The session a handshake answers with is one of this server's, or none.
LEMMA AdoptedSession ==
  ASSUME TypeOK, NEW c \in Calls, reply[c].kind = "handshake"
  PROVE  reply[c].session \in SessionIds
<1>1. reply[c] \in Replies
  BY DEF TypeOK
<1> QED
  BY <1>1 DEF Replies, Ack, Nack, Failed, Rejected, Opened, SessionIds

\* A step of the client is no step of the server and keeps the client's types.
LEMMA ClientStepType ==
  ASSUME TypeOK, ClientTypeOK, ClientStep
  PROVE  ClientTypeOK' /\ UNCHANGED vars
<1>1. ASSUME NEW c \in Calls, NEW v \in Versions, NEW h \in HiddenSizes,
             AskHandshake(c, v, h)
      PROVE  ClientTypeOK' /\ UNCHANGED vars
  <2>1. [op |-> "handshake", version |-> v, hidden |-> h] \in Requests
    BY DEF Requests
  <2> QED
    BY <1>1, <2>1, AskType DEF AskHandshake, ClientTypeOK
<1>2. ASSUME NEW c \in Calls, NEW s \in SessionIds, NEW p \in Payloads, AskSend(c, s, p)
      PROVE  ClientTypeOK' /\ UNCHANGED vars
  <2>1. [op |-> "stream", session |-> s, payload |-> p] \in Requests
    BY DEF Requests
  <2> QED
    BY <1>2, <2>1, AskType DEF AskSend, ClientTypeOK
<1>3. ASSUME NEW c \in Calls, AskFinalize(c)
      PROVE  ClientTypeOK' /\ UNCHANGED vars
  <2>1. [op |-> "finalize", session |-> session] \in Requests
    BY DEF Requests, ClientTypeOK
  <2> QED
    BY <1>3, <2>1, AskType DEF AskFinalize, ClientTypeOK, SessionIds
<1>4. ASSUME FinalizeUnopened PROVE ClientTypeOK' /\ UNCHANGED vars
  BY <1>4 DEF FinalizeUnopened, ClientTypeOK
<1>5. ASSUME NEW c \in Calls, Receive(c) PROVE ClientTypeOK' /\ UNCHANGED vars
  BY <1>5, AdoptedSession DEF Receive, ClientTypeOK
<1>6. ASSUME NEW c \in Calls, GiveUp(c) PROVE ClientTypeOK' /\ UNCHANGED vars
  <2>1. [kind |-> "finish", call |-> c] \in Message
    BY DEF Message
  <2> QED
    BY <1>6, <2>1, AppendProperties DEF GiveUp, ClientTypeOK
<1>7. ASSUME NEW c \in Calls, Lost(c) PROVE ClientTypeOK' /\ UNCHANGED vars
  BY <1>7 DEF Lost, ClientTypeOK
<1> QED
  BY <1>1, <1>2, <1>3, <1>4, <1>5, <1>6, <1>7 DEF ClientStep

\* Reading a message is an arrival, a cancellation, or nothing to the server.
LEMMA AcceptType ==
  ASSUME ClientTypeOK, Accept
  PROVE  ClientTypeOK' /\ [Next]_vars
<1>1. wire # <<>> /\ wire \in Seq(Message)
  BY DEF Accept, ClientTypeOK
<1>2. Head(wire) \in Message /\ wire' \in Seq(Message)
  BY <1>1, HeadTailProperties DEF Accept
<1>3. ClientTypeOK'
  BY <1>2 DEF Accept, ClientTypeOK
<1>4. [Next]_vars
  <2> PICK m \in Message :
        \/ m.kind = "call" /\ Arrive(m.call, m.body)
        \/ m.kind = "finish" /\ Cancel(m.call)
        \/ UNCHANGED vars
    BY <1>2 DEF Accept
  <2>1. m.call \in Calls /\ (m.kind = "call" => m.body \in Requests)
    BY DEF Message
  <2> QED
    BY <2>1 DEF Next
<1> QED
  BY <1>3, <1>4

\* Every step of the pair keeps the types and is a step of the server or a stutter.
LEMMA ClientNextType ==
  TypeOK /\ ClientTypeOK /\ [ClientNext]_allVars
    => TypeOK' /\ ClientTypeOK' /\ [Next]_vars
<1> SUFFICES ASSUME TypeOK, ClientTypeOK, [ClientNext]_allVars
             PROVE  ClientTypeOK' /\ [Next]_vars
  BY NextType
<1>1. CASE ClientStep
  BY <1>1, ClientStepType
<1>2. CASE Accept
  BY <1>2, AcceptType
<1>3. CASE ServerStep
  BY <1>3 DEF ServerStep, Next, clientVars, ClientTypeOK
<1>4. CASE UNCHANGED allVars
  BY <1>4 DEF allVars, clientVars, ClientTypeOK
<1> QED
  BY <1>1, <1>2, <1>3, <1>4 DEF ClientNext

\* The variables of the client keep their types.
THEOREM ClientTypeCorrect == ClientSpec => []ClientTypeOK
<1>1. ClientInit => TypeOK /\ ClientTypeOK
  BY ClientInitType
<1> QED
  BY <1>1, ClientNextType, PTL DEF ClientSpec

\* An AptpClient is one of the peers the server was specified for.
THEOREM ClientIsAPeer == ClientSpec => Spec
<1>1. ClientInit => Init /\ TypeOK /\ ClientTypeOK
  BY ClientInitType DEF ClientInit
<1> QED
  BY <1>1, ClientNextType, PTL DEF ClientSpec, Spec

\* With an AptpClient at the other end, too, every item is deposited once and
\* credited once, to an account that is open, and a statement is exact.
THEOREM ClientLedger == ClientSpec => LedgerSpec
BY ClientIsAPeer, LedgerRefinement

-----------------------------------------------------------------------------
(* What a step of the server, other than an arrival, means to its peer *)

\* No call goes back to where it was, and what was answered stays answered.
Onward ==
  /\ req' = req /\ (up' => up) /\ (rx' => rx)
  /\ \A c \in Calls :
       /\ stage'[c] \in InProgress => stage[c] \in InProgress
       /\ stage'[c] = "idle" <=> stage[c] = "idle"
       /\ stage[c] = "replied" => stage'[c] = "replied" /\ reply'[c] = reply[c]

\* At most one packet enters the channel, and its call is in progress.
Delivering ==
  \/ sink' = sink
  \/ \E c \in Calls :
       /\ stage[c] \in InProgress /\ c \notin Range(sink) /\ req[c].op = "stream"
       /\ stage'[c] = "sent" /\ sink' = Append(sink, c)

\* A stream call of an open session is answered with an ack.
Answering ==
  \A c \in Calls : stage'[c] = "replied" /\ stage[c] # "replied" =>
    /\ stage[c] \in InProgress /\ sink' = sink
    /\ req[c].op = "stream" /\ req[c].session \in DOMAIN sessions
         /\ (c \in Range(sink) \/ (rx /\ req[c].payload \in Admissible)) => reply'[c] = Ack

Frame == Onward /\ Delivering /\ Answering

\* An answer is such a step, if an admissible packet of an open session gets an ack.
LEMMA RespondFrame ==
  ASSUME IInv, NEW c \in Calls, NEW r, stage[c] \in InProgress, Respond(c, r),
         UNCHANGED <<up, req, rx, sink>>,
         req[c].op = "stream" /\ req[c].session \in DOMAIN sessions
           /\ (c \in Range(sink) \/ (rx /\ req[c].payload \in Admissible)) => r = Ack
  PROVE  Frame
<1>1. /\ stage'[c] = "replied" /\ reply'[c] = r
      /\ \A d \in Calls \ {c} : stage'[d] = stage[d] /\ reply'[d] = reply[d]
  BY RespondEffect DEF IInv
<1>2. Onward
  BY <1>1 DEF Onward, InProgress
<1>3. Answering
  BY <1>1 DEF Answering
<1> QED
  BY <1>2, <1>3 DEF Frame, Delivering

\* Entering the channel is such a step.
LEMMA PushFrame ==
  ASSUME IInv, NEW c \in Calls, stage[c] \in {"arrived", "waiting"}, Push(c),
         req[c].op = "stream", UNCHANGED <<up, req, rx>>
  PROVE  Frame
<1>1. /\ stage'[c] = "sent" /\ reply' = reply /\ sink' = Append(sink, c)
      /\ \A d \in Calls \ {c} : stage'[d] = stage[d]
  BY DEF Push, IInv, TypeOK
<1>2. c \notin Range(sink)
  BY NotYetSent
<1>3. Onward
  BY <1>1 DEF Onward, InProgress
<1>4. Delivering
  BY <1>1, <1>2 DEF Delivering, InProgress
<1>5. Answering
  BY <1>1 DEF Answering
<1> QED
  BY <1>3, <1>4, <1>5 DEF Frame

\* Both ways to the send are such steps.
LEMMA SendFrame ==
  ASSUME IInv, NEW c \in Calls, StreamPrimitive(c) \/ ResumeSend(c)
  PROVE  Frame
<1>1. /\ stage[c] \in {"arrived", "waiting"} /\ req[c].op = "stream"
      /\ c \notin Range(sink) /\ UNCHANGED <<up, req, rx>>
  BY NotYetSent DEF StreamPrimitive, ResumeSend, IInv, CallInv
<1>2. CASE Push(c)
  BY <1>1, <1>2, PushFrame
<1>3. CASE /\ Respond(c, Nack) \/ Respond(c, Failed)
           /\ ~rx \/ req[c].payload \notin Admissible
           /\ UNCHANGED sink
  <2> PICK r : Respond(c, r)
    BY <1>3
  <2> QED
    BY <1>1, <1>3, RespondFrame DEF InProgress
<1>4. CASE /\ stage' = [stage EXCEPT ![c] = "waiting"]
           /\ UNCHANGED <<reply, sink>>
  BY <1>1, <1>4 DEF Frame, Onward, Delivering, Answering, InProgress, IInv, TypeOK
<1> QED
  BY <1>2, <1>3, <1>4 DEF StreamPrimitive, Send, ResumeSend

\* What the handler of a call does is seen in that call and in the channel.
LEMMA HandleFrame ==
  ASSUME IInv, NEW c \in Calls, Handle(c)
  PROVE  Frame
<1>1. CASE Malformed(c)
  BY <1>1, RespondFrame DEF Malformed, InProgress
<1>2. CASE Handshake(c)
  <2>1. stage[c] \in InProgress /\ req[c].op # "stream" /\ UNCHANGED <<up, req, rx, sink>>
    BY <1>2 DEF Handshake, InProgress
  <2> PICK r : Respond(c, r)
    BY <1>2 DEF Handshake
  <2> QED
    BY <2>1, RespondFrame
<1>3. CASE StreamPrimitive(c) \/ ResumeSend(c)
  BY <1>3, SendFrame
<1>4. CASE CountPacket(c)
  <2>1. stage[c] \in InProgress /\ UNCHANGED <<up, req, rx, sink>>
    BY <1>4 DEF CountPacket, InProgress
  <2> PICK r : Respond(c, r) /\ (req[c].session \in DOMAIN sessions => r = Ack)
    BY <1>4 DEF CountPacket
  <2> QED
    BY <2>1, RespondFrame
<1>5. CASE Finalize(c)
  <2>1. stage[c] \in InProgress /\ req[c].op # "stream" /\ UNCHANGED <<up, req, rx, sink>>
    BY <1>5 DEF Finalize, InProgress
  <2> PICK r : Respond(c, r)
    BY <1>5 DEF Finalize
  <2> QED
    BY <2>1, RespondFrame
<1> QED
  BY <1>1, <1>2, <1>3, <1>4, <1>5 DEF Handle

\* A call that is dropped, a connection that ends, the owner of the Receiver.
LEMMA SurroundingFrame ==
  ASSUME IInv, (\E c \in Calls : Cancel(c)) \/ Disconnect \/ Consume \/ DropReceiver
  PROVE  Frame
<1>1. ASSUME NEW c \in Calls, Cancel(c) PROVE Frame
  BY <1>1 DEF Cancel, Frame, Onward, Delivering, Answering, InProgress, IInv, TypeOK
<1>2. CASE Disconnect
  BY <1>2 DEF Disconnect, Frame, Onward, Delivering, Answering, InProgress, IInv, TypeOK
<1>3. CASE Consume \/ DropReceiver
  BY <1>3 DEF Consume, DropReceiver, Frame, Onward, Delivering, Answering, InProgress
<1> QED
  BY <1>1, <1>2, <1>3

\* What was issued or finalized stays so.
LEMMA HistoryGrows ==
  ASSUME IInv, Onward
  PROVE  Issued \subseteq Issued' /\ \A s : Finalized(s) \subseteq Finalized(s)'
<1>1. \A c \in Calls : reply[c].kind # "none" => reply'[c] = reply[c]
  BY DEF IInv, CallInv, Onward
<1>2. Issued \subseteq Issued'
  BY <1>1 DEF Issued
<1>3. \A s : Finalized(s) \subseteq Finalized(s)'
  BY <1>1 DEF Finalized, Onward
<1> QED
  BY <1>2, <1>3

\* A step that opens and closes nothing.
LEMMA ServedKept ==
  ASSUME IInv, ServedInv, Onward, up' => DOMAIN sessions' = DOMAIN sessions,
         \A c \in Calls : ~up' => stage'[c] \notin InProgress,
         \A c \in Calls : \/ reply'[c] = reply[c]
                          \/ reply'[c].kind \notin {"handshake", "total"}
                          \/ reply'[c] = Rejected /\ req[c].op = "handshake"
  PROVE  ServedInv'
<1>1. Issued' \subseteq Issued /\ \A s : Finalized(s) \subseteq Finalized(s)'
  BY HistoryGrows, CallsAssumption DEF Issued, Rejected
<1>2. \A c \in Calls : reply'[c].kind = "handshake" =>
        /\ req'[c].op = "handshake"
        /\ reply'[c].status # "rejected" => reply'[c].session = c
  BY DEF ServedInv, Onward, Rejected
<1>3. \A c \in Calls : reply'[c].kind = "total" => req'[c].session \in Issued'
  BY HistoryGrows DEF ServedInv, Onward, Rejected
<1> QED
  BY <1>1, <1>2, <1>3 DEF ServedInv, Onward

\* An answer that opens no session.
LEMMA ServedByAnswer ==
  ASSUME IInv, ServedInv, NEW c \in Calls, NEW r, Frame, Respond(c, r), up' = up,
         DOMAIN sessions' = DOMAIN sessions,
         r.kind \notin {"handshake", "total"} \/ (r = Rejected /\ req[c].op = "handshake")
  PROVE  ServedInv'
<1>1. reply'[c] = r /\ \A d \in Calls \ {c} : reply'[d] = reply[d]
  BY RespondEffect DEF IInv
<1>2. Onward /\ \A d \in Calls : ~up' => stage'[d] \notin InProgress
  BY DEF Frame, Onward, ServedInv
<1> QED
  BY <1>1, <1>2, ServedKept

\* A handshake adds a session that is issued; those there stay.
LEMMA ServedByHandshake ==
  ASSUME IInv, ServedInv, NEW c \in Calls, Handshake(c)
  PROVE  ServedInv'
<1> PICK d : d = Decision(req[c].hidden)
  OBVIOUS
<1>1. Frame /\ Handle(c)
  BY HandleFrame DEF Handle
<1>2. CASE Respond(c, Rejected) /\ UNCHANGED sessions
  BY <1>1, <1>2, ServedByAnswer DEF Handshake
<1>3. CASE Open(c, d.adapter) /\ Respond(c, Opened(c, d))
  <2>1. /\ reply'[c].kind = "handshake" /\ reply'[c].session = c
        /\ \A e \in Calls \ {c} : reply'[e] = reply[e]
    BY <1>3, RespondEffect DEF IInv, Opened
  <2>2. DOMAIN sessions' = DOMAIN sessions \cup {c}
    BY <1>3 DEF Open
  <2>3. /\ Issued' \subseteq Issued \cup {c} /\ Issued \subseteq Issued'
        /\ \A s : Finalized(s) \subseteq Finalized(s)'
    BY <1>1, <2>1, HistoryGrows DEF Issued, Frame
  <2>4. req' = req /\ up' = up /\ req[c].op = "handshake"
    BY DEF Handshake
  <2> QED
    BY <1>1, <2>1, <2>2, <2>3, <2>4 DEF ServedInv, Frame, Onward
<1> QED
  BY <1>2, <1>3 DEF Handshake

\* A finalize takes out one session, which is finalized from then on.
LEMMA ServedByFinalize ==
  ASSUME IInv, ServedInv, NEW c \in Calls, Finalize(c)
  PROVE  ServedInv'
<1> PICK s, n : s = req[c].session /\ n = sessions[s].received_count
  OBVIOUS
<1>1. Frame /\ req' = req /\ up' = up
  BY HandleFrame DEF Handle, Finalize
<1>2. CASE s \in DOMAIN sessions /\ Drain(s) /\ Respond(c, Total(n))
  <2>1. /\ reply'[c].kind = "total"
        /\ \A d \in Calls \ {c} : reply'[d] = reply[d]
    BY <1>2, RespondEffect DEF IInv, Total
  <2>2. DOMAIN sessions' = DOMAIN sessions \ {s} /\ c \in Finalized(s)'
    BY <1>1, <1>2, <2>1 DEF Drain, Finalized
  <2>3. Issued' = Issued /\ \A t : Finalized(t) \subseteq Finalized(t)'
    BY <1>1, <2>1, HistoryGrows DEF Issued, Frame
  <2>4. req[c].session \in Issued
    BY <1>2 DEF IInv, RegistryInv
  <2> QED
    BY <1>1, <2>1, <2>2, <2>3, <2>4 DEF ServedInv, Frame, Onward
<1>3. CASE Respond(c, Failed) /\ UNCHANGED sessions
  BY <1>1, <1>3, ServedByAnswer DEF Failed
<1> QED
  BY <1>2, <1>3 DEF Finalize

\* Whoever the peer is: an open session stays open until it is finalized.
LEMMA ServedNext == IInv /\ ServedInv /\ [Next]_vars => ServedInv'
<1> SUFFICES ASSUME IInv, ServedInv, [Next]_vars PROVE ServedInv'
  OBVIOUS
<1>1. ASSUME NEW c \in Calls, NEW r \in Requests, Arrive(c, r) PROVE ServedInv'
  <2>1. /\ \A d \in Calls \ {c} : stage'[d] = stage[d] /\ req'[d] = req[d]
        /\ stage'[c] = "arrived" /\ stage[c] = "idle" /\ up /\ up'
        /\ UNCHANGED <<reply, sessions>>
    BY <1>1 DEF Arrive, IInv, TypeOK
  <2>2. reply[c].kind = "none"
    BY <2>1 DEF IInv, CallInv
  <2>3. Issued' = Issued /\ \A s : Finalized(s)' = Finalized(s)
    BY <2>1, <2>2 DEF Issued, Finalized
  <2> QED
    BY <2>1, <2>2, <2>3 DEF ServedInv
<1>2. ASSUME NEW c \in Calls, Handle(c) PROVE ServedInv'
  <2>1. Frame /\ up' = up
    BY <1>2, HandleFrame
    DEF Handle, Malformed, Handshake, StreamPrimitive, ResumeSend, CountPacket, Finalize
  <2>2. CASE Malformed(c)
    BY <2>1, <2>2, ServedByAnswer DEF Malformed, Failed
  <2>3. CASE StreamPrimitive(c) \/ ResumeSend(c)
    <3>1. sessions' = sessions
      BY <2>3 DEF StreamPrimitive, ResumeSend
    <3>2. CASE \E r \in {Nack, Failed} : Respond(c, r)
      BY <2>1, <3>1, <3>2, ServedByAnswer DEF Nack, Failed
    <3>3. CASE reply' = reply
      BY <2>1, <3>1, <3>3, ServedKept DEF Frame, Onward, ServedInv
    <3> QED
      BY <2>3, <3>2, <3>3 DEF StreamPrimitive, ResumeSend, Send, Push
  <2>4. CASE CountPacket(c)
    <3>1. CASE req[c].session \in DOMAIN sessions /\ Increment(req[c].session) /\ Respond(c, Ack)
      BY <2>1, <3>1, IncrementEffect, ServedByAnswer DEF IInv, Ack
    <3>2. CASE UNCHANGED sessions /\ Respond(c, Failed)
      BY <2>1, <3>2, ServedByAnswer DEF Failed
    <3> QED
      BY <2>4, <3>1, <3>2 DEF CountPacket
  <2> QED
    BY <1>2, <2>2, <2>3, <2>4, ServedByHandshake, ServedByFinalize DEF Handle
<1>3. CASE (\E c \in Calls : Cancel(c)) \/ Disconnect \/ Consume \/ DropReceiver
  <2>1. Frame /\ reply' = reply
    BY <1>3, SurroundingFrame DEF Cancel, Disconnect, Consume, DropReceiver
  <2>2. up' => DOMAIN sessions' = DOMAIN sessions
    BY <1>3 DEF Cancel, Disconnect, Consume, DropReceiver
  <2>3. \A c \in Calls : ~up' => stage'[c] \notin InProgress
    BY <1>3 DEF Cancel, Disconnect, Consume, DropReceiver, ServedInv, InProgress, IInv, TypeOK
  <2> QED
    BY <2>1, <2>2, <2>3, ServedKept DEF Frame
<1>4. CASE UNCHANGED vars
  BY <1>4 DEF vars, ServedInv, Issued, Finalized
<1> QED
  BY <1>1, <1>2, <1>3, <1>4 DEF Next
-----------------------------------------------------------------------------
(* The wire and the order of the calls *)

\* A message is sent.
LEMMA SendEffect ==
  ASSUME ClientTypeOK, NEW m \in Message, wire' = Append(wire, m)
  PROVE  /\ Len(wire) \in Nat /\ Len(wire') = Len(wire) + 1
         /\ \A i \in 1..Len(wire) : wire'[i] = wire[i]
         /\ wire'[Len(wire) + 1] = m
BY AppendProperties, LenProperties DEF ClientTypeOK

\* A call is appended to those that were asked.
LEMMA AskedEffect ==
  ASSUME ClientTypeOK, NEW c \in Calls, asked' = Append(asked, c)
  PROVE  /\ Range(asked') = Range(asked) \cup {c}
         /\ \A d \in Range(asked) : Before(asked', d, c)
         /\ \A d, e : Before(asked, d, e) => Before(asked', d, e)
<1>1. /\ Len(asked) \in Nat /\ Len(asked') = Len(asked) + 1
      /\ \A i \in 1..Len(asked) : asked'[i] = asked[i]
      /\ asked'[Len(asked) + 1] = c
  BY AppendProperties, LenProperties DEF ClientTypeOK
<1>2. Range(asked') = Range(asked) \cup {c}
  BY AppendRange DEF ClientTypeOK
<1>3. ASSUME NEW d \in Range(asked) PROVE Before(asked', d, c)
  <2> PICK k \in 1..Len(asked) : asked[k] = d
    BY LenProperties DEF Range, ClientTypeOK
  <2>1. k \in 1..Len(asked') /\ Len(asked) + 1 \in 1..Len(asked') /\ k < Len(asked) + 1
    BY <1>1
  <2> QED
    BY <1>1, <2>1 DEF Before
<1>4. ASSUME NEW d, NEW e, Before(asked, d, e) PROVE Before(asked', d, e)
  <2> PICK k, l \in 1..Len(asked) : k < l /\ asked[k] = d /\ asked[l] = e
    BY <1>4 DEF Before
  <2>1. k \in 1..Len(asked') /\ l \in 1..Len(asked')
    BY <1>1
  <2> QED
    BY <1>1, <2>1 DEF Before
<1> QED
  BY <1>2, <1>3, <1>4

\* A message is read.
LEMMA ReadEffect ==
  ASSUME ClientTypeOK, wire # <<>>, wire' = Tail(wire)
  PROVE  /\ Len(wire) \in Nat \ {0} /\ Len(wire') = Len(wire) - 1
         /\ \A i \in 1..Len(wire') : wire'[i] = wire[i + 1]
         /\ Head(wire) = wire[1] /\ wire[1] \in Message
<1>1. wire \in Seq(Message) /\ Len(wire) \in Nat \ {0}
  BY LenProperties, EmptySeq DEF ClientTypeOK
<1>2. Len(wire') = Len(wire) - 1 /\ \A i \in 1..Len(wire') : wire'[i] = wire[i + 1]
  BY <1>1, HeadTailProperties
<1>3. wire[1] \in Message
  BY <1>1, LenProperties
<1>4. Head(wire) = wire[1]
  BY <1>1
<1> QED
  BY <1>1, <1>2, <1>3, <1>4

\* What is on the wire names a call and, if it is one, a request.
LEMMA WireTypes ==
  ASSUME ClientTypeOK, NEW i \in 1..Len(wire)
  PROVE  wire[i].call \in Calls /\ (CallAt(wire, i) => wire[i].body \in Requests)
<1>1. wire[i] \in Message
  BY LenProperties DEF ClientTypeOK
<1> QED
  BY <1>1 DEF Message, CallAt
-----------------------------------------------------------------------------
(* Steps of the server *)

\* The order in which the packets enter the channel.
LEMMA FrameOrder ==
  ASSUME ClientIInv, Frame, asked' = asked
  PROVE  /\ \A e \in Range(sink'), c \in Calls :
              stage'[c] \in InProgress /\ c \notin Range(sink') => Before(asked', e, c)
         /\ SentInOrder'
<1>1. CASE sink' = sink
  BY <1>1 DEF ClientIInv, OrderInv, SentInOrder, Frame, Onward
<1>2. ASSUME NEW d \in Calls, stage[d] \in InProgress, d \notin Range(sink),
             sink' = Append(sink, d)
      PROVE  /\ \A e \in Range(sink'), c \in Calls :
                  stage'[c] \in InProgress /\ c \notin Range(sink') => Before(asked', e, c)
             /\ SentInOrder'
  <2>1. /\ Range(sink') = Range(sink) \cup {d}
        /\ Len(sink) \in Nat /\ Len(sink') = Len(sink) + 1
        /\ \A i \in 1..Len(sink) : sink'[i] = sink[i] /\ sink[i] \in Range(sink)
        /\ sink'[Len(sink) + 1] = d
    <3>1. sink \in Seq(Calls)
      BY DEF ClientIInv, IInv, TypeOK
    <3>2. Range(sink') = Range(sink) \cup {d}
      BY <1>2, <3>1, AppendRange
    <3>3. \A i \in 1..Len(sink) : sink[i] \in Range(sink)
      BY <3>1, LenProperties DEF Range
    <3> QED
      BY <1>2, <3>1, <3>2, <3>3, AppendProperties, LenProperties
  <2>2. ASSUME NEW e \in Range(sink'), NEW c \in Calls,
               stage'[c] \in InProgress, c \notin Range(sink')
        PROVE  Before(asked, e, c)
    <3>1. stage[c] \in InProgress
      BY <2>2 DEF Frame, Onward
    <3>2. c # d
      BY <2>1, <2>2
    <3> QED
      BY <1>2, <3>1, <3>2 DEF ClientIInv, OneInv
  <2>3. \A e \in Range(sink) : Before(asked, e, d)
    BY <1>2 DEF ClientIInv, OrderInv
  <2>4. \A i, j \in 1..Len(sink') : i < j => Before(asked, sink'[i], sink'[j])
    <3> SUFFICES ASSUME NEW i \in 1..Len(sink'), NEW j \in 1..Len(sink'), i < j
                 PROVE  Before(asked, sink'[i], sink'[j])
      OBVIOUS
    <3>1. i \in 1..Len(sink)
      BY <2>1
    <3>2. CASE j \in 1..Len(sink)
      BY <2>1, <3>1, <3>2 DEF ClientIInv, OrderInv, SentInOrder
    <3>3. CASE j = Len(sink) + 1
      BY <2>1, <2>3, <3>1, <3>3
    <3> QED
      BY <2>1, <3>2, <3>3
  <2> QED
    BY <2>2, <2>4 DEF SentInOrder
<1> QED
  BY <1>1, <1>2 DEF Frame, Delivering

\* A stream call is answered within an open session, and so with an ack.
LEMMA FrameAck ==
  ASSUME ClientIInv, Frame
  PROVE  AckInv'
<1> SUFFICES ASSUME NEW c \in Calls, stage'[c] = "replied", req'[c].op = "stream",
                    req'[c].session # NoSession
             PROVE  /\ c \in Range(sink') => reply'[c] = Ack
                    /\ rx' /\ req'[c].payload \in Admissible => reply'[c] = Ack
  BY DEF AckInv
<1>1. req' = req /\ (rx' => rx)
  BY DEF Frame, Onward
<1>2. CASE stage[c] = "replied"
  <2>1. reply'[c] = reply[c]
    BY <1>2 DEF Frame, Onward
  <2>2. c \in Range(sink') => c \in Range(sink)
    <3>1. ASSUME NEW d \in Calls, stage'[d] = "sent", sink' = Append(sink, d)
          PROVE  c \in Range(sink') => c \in Range(sink)
      BY <3>1, AppendRange DEF ClientIInv, IInv, TypeOK
    <3> QED
      BY <3>1 DEF Frame, Delivering
  <2> QED
    BY <1>1, <1>2, <2>1, <2>2 DEF ClientIInv, AckInv
<1>3. CASE stage[c] # "replied"
  <2>1. stage[c] \in InProgress /\ sink' = sink
    BY <1>3 DEF Frame, Answering
  <2>2. up
    BY <2>1 DEF ClientIInv, ServedInv
  <2>3. req[c].session \in Issued
    BY <1>1 DEF ClientIInv, IInv, CallInv
  <2>4. Finalized(req[c].session) = {}
    <3> SUFFICES ASSUME NEW f \in Finalized(req[c].session) PROVE FALSE
      OBVIOUS
    <3>1. f \in Calls /\ req[f].op = "finalize"
      BY DEF Finalized, ClientIInv, IInv, CallInv
    <3> QED
      BY <1>1, <2>1, <3>1 DEF ClientIInv, LastInv
  <2>5. req[c].session \in DOMAIN sessions
    BY <2>2, <2>3, <2>4 DEF ClientIInv, ServedInv
  <2> QED
    BY <1>1, <1>3, <2>1, <2>5 DEF Frame, Answering
<1> QED
  BY <1>2, <1>3

\* A step of the server that reads nothing keeps what the client and the wire promise.
LEMMA FrameKeeps ==
  ASSUME ClientIInv, Frame, UNCHANGED clientVars
  PROVE  /\ AskedInv' /\ SessionInv' /\ WireInv' /\ OneInv' /\ LastInv'
         /\ OrderInv' /\ AckInv' /\ CounterInv'
<1> USE DEF ClientIInv, Frame, Onward, clientVars, CallAt, FinishAt
<1>1. AskedInv'
  BY DEF AskedInv, ClientTypeOK
<1>2. SessionInv'
  BY HistoryGrows DEF SessionInv
<1>3. WireInv'
  BY WireTypes DEF WireInv
<1>4. OneInv' /\ LastInv'
  BY DEF OneInv, LastInv
<1>5. CounterInv'
  BY DEF CounterInv, Streamed
<1>6. OrderInv'
  BY FrameOrder DEF OrderInv
<1> QED
  BY <1>1, <1>2, <1>3, <1>4, <1>5, <1>6, FrameAck
-----------------------------------------------------------------------------
(* Steps of the client *)

\* The parts of the invariant that the client's steps may disturb.
Kept ==
  /\ AskedInv' /\ SessionInv' /\ WireInv' /\ OneInv' /\ LastInv' /\ OrderInv' /\ CounterInv'

\* A call that was not asked is unknown everywhere.
LEMMA UnaskedCall ==
  ASSUME ClientIInv, NEW c \in Calls, c \notin Range(asked)
  PROVE  /\ stage[c] = "idle" /\ req[c].op = "none"
         /\ \A i \in 1..Len(wire) : wire[i].call # c
         /\ c \notin seen
BY DEF ClientIInv, AskedInv, ServedInv

\* A call that is asked is the last on the wire, and the one in flight.
LEMMA AskKeeps ==
  ASSUME ClientIInv, NEW c \in Calls, NEW r \in Requests, Ask(c, r), ~consumed,
         \/ r.op # "finalize" /\ UNCHANGED <<session, consumed>>
         \/ r.op = "finalize" /\ session' = NoSession /\ consumed' = TRUE,
         sequence_counter' = IF r.op = "stream" THEN sequence_counter + 1 ELSE sequence_counter
  PROVE  Kept
<1>1. /\ stage[c] = "idle" /\ req[c].op = "none" /\ c \notin seen
      /\ \A i \in 1..Len(wire) : wire[i].call # c
      /\ pending = {} /\ pending' = {c}
      /\ UNCHANGED <<up, stage, req, reply, sink, seen, unanswered>>
  BY UnaskedCall DEF Ask, vars
<1>2. Issued' = Issued
  BY <1>1 DEF Issued
<1>3. /\ Len(wire) \in Nat /\ Len(wire') = Len(wire) + 1
      /\ \A i \in 1..Len(wire) : wire'[i] = wire[i]
      /\ wire'[Len(wire) + 1] = [kind |-> "call", call |-> c, body |-> r]
  <2>1. [kind |-> "call", call |-> c, body |-> r] \in Message
    BY DEF Message
  <2> QED
    BY <2>1, SendEffect DEF Ask, ClientIInv
<1>4. /\ Range(asked') = Range(asked) \cup {c}
      /\ \A d \in Range(asked) : Before(asked', d, c)
      /\ \A d, e : Before(asked, d, e) => Before(asked', d, e)
  BY AskedEffect DEF Ask, ClientIInv
<1> PICK n \in Nat : n = Len(wire)
  BY <1>3
<1>5. \A i \in 1..Len(wire') : i \in 1..n \/ i = n + 1
  BY <1>3
<1>6. AskedInv'
  BY <1>1, <1>3, <1>4, <1>5 DEF ClientIInv, AskedInv
<1>7. SessionInv'
  BY <1>1, <1>2, <1>3, <1>5 DEF ClientIInv, SessionInv, CallAt
<1>8. WireInv'
  <2> SUFFICES ASSUME up PROVE WireInv'
    BY <1>1 DEF WireInv
  <2>1. ASSUME NEW i \in 1..n, CallAt(wire, i)
        PROVE  \E k \in 1..n : i < k /\ FinishAt(wire, k, wire[i].call)
    BY <1>1, <2>1 DEF ClientIInv, WireInv
  <2>2. ASSUME NEW d \in Calls, stage[d] \in InProgress
        PROVE  \E k \in 1..n : FinishAt(wire, k, d)
    BY <1>1, <2>2 DEF ClientIInv, WireInv
  <2>3. ASSUME NEW i \in 1..Len(wire'), CallAt(wire', i)
        PROVE  /\ stage'[wire'[i].call] = "idle"
               /\ \/ wire'[i].call \in pending'
                  \/ \E k \in 1..Len(wire') : i < k /\ FinishAt(wire', k, wire'[i].call)
    <3>1. CASE i = n + 1
      BY <1>1, <1>3, <3>1
    <3>2. CASE i \in 1..n
      <4>1. CallAt(wire, i) /\ wire'[i] = wire[i]
        BY <1>3, <2>3, <3>2 DEF CallAt
      <4> PICK k \in 1..n : i < k /\ FinishAt(wire, k, wire[i].call)
        BY <2>1, <3>2, <4>1
      <4>2. k \in 1..Len(wire') /\ FinishAt(wire', k, wire'[i].call)
        BY <1>3, <4>1 DEF FinishAt
      <4> QED
        BY <1>1, <3>2, <4>1, <4>2 DEF ClientIInv, WireInv
    <3> QED
      BY <1>5, <3>1, <3>2
  <2>4. ASSUME NEW i \in 1..Len(wire'), CallAt(wire', i),
               NEW j \in 1..Len(wire'), i < j, CallAt(wire', j)
        PROVE  /\ wire'[j].call # wire'[i].call
               /\ \E k \in 1..Len(wire') : i < k /\ k < j /\ FinishAt(wire', k, wire'[i].call)
    <3>1. i \in 1..n /\ CallAt(wire, i) /\ wire'[i] = wire[i]
      BY <1>3, <1>5, <2>4 DEF CallAt
    <3>2. /\ wire'[j].call # wire[i].call
          /\ \E k \in 1..n : i < k /\ k < j /\ FinishAt(wire, k, wire[i].call)
      <4>1. CASE j = n + 1
        BY <1>1, <1>3, <2>1, <3>1, <4>1
      <4>2. CASE j \in 1..n
        BY <1>3, <2>4, <3>1, <4>2 DEF ClientIInv, WireInv, CallAt
      <4> QED
        BY <1>5, <4>1, <4>2
    <3> QED
      BY <1>3, <3>1, <3>2 DEF FinishAt
  <2>5. ASSUME NEW d \in Calls, stage'[d] \in InProgress
        PROVE  /\ \E k \in 1..Len(wire') : FinishAt(wire', k, d)
               /\ \A j \in 1..Len(wire') : CallAt(wire', j) =>
                    \E k \in 1..Len(wire') : k < j /\ FinishAt(wire', k, d)
    <3> PICK k \in 1..n : FinishAt(wire, k, d)
      BY <1>1, <2>2, <2>5
    <3>1. k \in 1..Len(wire') /\ FinishAt(wire', k, d)
      BY <1>3 DEF FinishAt
    <3>2. ASSUME NEW j \in 1..Len(wire'), CallAt(wire', j)
          PROVE  \E l \in 1..Len(wire') : l < j /\ FinishAt(wire', l, d)
      <4>1. CASE j = n + 1
        BY <3>1, <4>1
      <4>2. CASE j \in 1..n
        <5> PICK l \in 1..n : l < j /\ FinishAt(wire, l, d)
          BY <1>1, <1>3, <2>5, <3>2, <4>2 DEF ClientIInv, WireInv, CallAt
        <5> QED
          BY <1>3 DEF FinishAt
      <4> QED
        BY <1>5, <4>1, <4>2
    <3> QED
      BY <3>1, <3>2
  <2> QED
    BY <2>3, <2>4, <2>5 DEF WireInv
<1>9. OneInv'
  BY <1>1 DEF ClientIInv, OneInv
<1>10. LastInv'
  BY <1>1, <1>3, <1>5 DEF ClientIInv, SessionInv, LastInv, CallAt
<1>11. OrderInv'
  <2>1. \A j \in 1..n : wire[j].call \in Range(asked)
    BY DEF ClientIInv, AskedInv
  <2>2. \A d \in Calls : stage[d] # "idle" => d \in Range(asked)
    BY DEF ClientIInv, AskedInv
  <2>3. ASSUME NEW j \in 1..Len(wire'), CallAt(wire', j)
        PROVE  /\ \A i \in 1..Len(wire') : i < j /\ CallAt(wire', i) =>
                    Before(asked', wire'[i].call, wire'[j].call)
               /\ \A d \in Calls : up' /\ stage'[d] # "idle" => Before(asked', d, wire'[j].call)
    <3>1. CASE j = n + 1
      BY <1>1, <1>3, <1>4, <1>5, <2>1, <2>2, <3>1
    <3>2. CASE j \in 1..n
      <4>1. CallAt(wire, j) /\ wire'[j] = wire[j]
        BY <1>3, <2>3, <3>2 DEF CallAt
      <4>2. \A i \in 1..n : i < j /\ CallAt(wire, i) => Before(asked, wire[i].call, wire[j].call)
        BY <3>2, <4>1 DEF ClientIInv, OrderInv
      <4>3. \A d \in Calls : up /\ stage[d] # "idle" => Before(asked, d, wire[j].call)
        BY <3>2, <4>1 DEF ClientIInv, OrderInv
      <4>4. \A i \in 1..Len(wire') : i < j /\ CallAt(wire', i) =>
               i \in 1..n /\ CallAt(wire, i) /\ wire'[i] = wire[i]
        BY <1>3, <1>5, <3>2 DEF CallAt
      <4> QED
        BY <1>1, <1>4, <4>1, <4>2, <4>3, <4>4
    <3> QED
      BY <1>5, <3>1, <3>2
  <2>4. SentInOrder'
    BY <1>1, <1>4 DEF ClientIInv, OrderInv, SentInOrder
  <2> QED
    BY <1>1, <1>4, <2>3, <2>4 DEF ClientIInv, OrderInv
<1>12. CounterInv'
  <2> PICK S : S = Streamed
    OBVIOUS
  <2>1. IsFiniteSet(S) /\ Cardinality(S) <= sequence_counter /\ sequence_counter \in Nat
    BY CallsAssumption, FS_Subset DEF Streamed, ClientIInv, CounterInv, ClientTypeOK
  <2>2. Cardinality(S) \in Nat /\ Cardinality(S \cup {c}) \in Nat
        /\ Cardinality(S \cup {c}) <= Cardinality(S) + 1
    <3>1. IsFiniteSet(S \cup {c}) /\ Cardinality(S) \in Nat
      BY <2>1, FS_CardinalityType, FS_AddElement
    <3>2. Cardinality(S \cup {c}) = IF c \in S THEN Cardinality(S) ELSE Cardinality(S) + 1
      BY <2>1, FS_AddElement
    <3> QED
      BY <3>1, <3>2
  <2>3. CASE r.op = "stream"
    <3>1. Streamed' = S \cup {c}
      BY <1>1, <1>3, <1>5, <2>3 DEF Streamed, CallAt
    <3> QED
      BY <2>1, <2>2, <2>3, <3>1 DEF CounterInv
  <2>4. CASE r.op # "stream"
    <3>1. Streamed' = S
      BY <1>1, <1>3, <1>5, <2>4 DEF Streamed, CallAt
    <3> QED
      BY <2>1, <2>4, <3>1 DEF CounterInv
  <2> QED
    BY <2>3, <2>4
<1> QED
  BY <1>6, <1>7, <1>8, <1>9, <1>10, <1>11, <1>12 DEF Kept

\* A call that is given up is finished by the last message on the wire.
LEMMA GiveUpKeeps ==
  ASSUME ClientIInv, NEW c \in Calls, GiveUp(c)
  PROVE  Kept
<1>1. /\ pending = {c} /\ pending' = {} /\ c \in Range(asked)
      /\ UNCHANGED <<up, stage, req, reply, sink, session, consumed, asked, seen, sequence_counter>>
      /\ unanswered' = unanswered \cup {c}
  BY DEF GiveUp, vars, ClientIInv, AskedInv
<1>2. Issued' = Issued
  BY <1>1 DEF Issued
<1>3. /\ Len(wire) \in Nat /\ Len(wire') = Len(wire) + 1
      /\ \A i \in 1..Len(wire) : wire'[i] = wire[i]
      /\ wire'[Len(wire) + 1] = [kind |-> "finish", call |-> c]
  <2>1. [kind |-> "finish", call |-> c] \in Message
    BY DEF Message
  <2> QED
    BY <2>1, SendEffect DEF GiveUp, ClientIInv
<1> PICK n \in Nat : n = Len(wire)
  BY <1>3
<1>4. \A i \in 1..Len(wire') : i \in 1..n \/ i = n + 1
  BY <1>3
<1>5. FinishAt(wire', n + 1, c) /\ ~CallAt(wire', n + 1)
  BY <1>3 DEF FinishAt, CallAt
<1>6. \A i \in 1..n : /\ CallAt(wire', i) <=> CallAt(wire, i)
                      /\ \A d : FinishAt(wire, i, d) => FinishAt(wire', i, d)
                      /\ i \in 1..Len(wire')
  BY <1>3 DEF CallAt, FinishAt
<1>7. AskedInv'
  BY <1>1, <1>3, <1>4 DEF ClientIInv, AskedInv
<1>8. SessionInv'
  BY <1>1, <1>2, <1>3, <1>4, <1>5, <1>6 DEF ClientIInv, SessionInv
<1>9. WireInv'
  <2> SUFFICES ASSUME up PROVE WireInv'
    BY <1>1 DEF WireInv
  <2>1. ASSUME NEW i \in 1..Len(wire'), CallAt(wire', i)
        PROVE  /\ i \in 1..n /\ CallAt(wire, i) /\ stage[wire[i].call] = "idle"
               /\ \E k \in 1..Len(wire') : i < k /\ FinishAt(wire', k, wire[i].call)
    <3>1. i \in 1..n /\ CallAt(wire, i)
      BY <1>4, <1>5, <1>6, <2>1
    <3>2. /\ stage[wire[i].call] = "idle"
          /\ \/ wire[i].call \in pending
             \/ \E k \in 1..n : i < k /\ FinishAt(wire, k, wire[i].call)
      BY <3>1 DEF ClientIInv, WireInv
    <3>3. CASE wire[i].call \in pending
      <4>1. wire[i].call = c /\ n + 1 \in 1..Len(wire') /\ i < n + 1
        BY <1>1, <1>3, <3>1, <3>3
      <4> QED
        BY <1>5, <3>1, <3>2, <4>1
    <3> QED
      BY <1>6, <3>1, <3>2, <3>3
  <2>2. ASSUME NEW i \in 1..n, CallAt(wire, i), NEW j \in 1..n, i < j, CallAt(wire, j)
        PROVE  /\ wire[j].call # wire[i].call
               /\ \E k \in 1..Len(wire') : i < k /\ k < j /\ FinishAt(wire', k, wire[i].call)
    <3>1. /\ wire[j].call # wire[i].call
          /\ \E k \in 1..n : i < k /\ k < j /\ FinishAt(wire, k, wire[i].call)
      BY <2>2 DEF ClientIInv, WireInv
    <3> QED
      BY <1>6, <3>1
  <2>3. ASSUME NEW d \in Calls, stage[d] \in InProgress
        PROVE  /\ \E k \in 1..Len(wire') : FinishAt(wire', k, d)
               /\ \A j \in 1..n : CallAt(wire, j) =>
                    \E k \in 1..Len(wire') : k < j /\ FinishAt(wire', k, d)
    <3>1. /\ d \in pending \/ \E k \in 1..n : FinishAt(wire, k, d)
          /\ \A j \in 1..n : CallAt(wire, j) => \E k \in 1..n : k < j /\ FinishAt(wire, k, d)
      BY <2>3 DEF ClientIInv, WireInv
    <3>2. CASE d \in pending
      <4>1. d = c /\ n + 1 \in 1..Len(wire')
        BY <1>1, <1>3, <3>2
      <4> QED
        BY <1>5, <1>6, <3>1, <4>1
    <3> QED
      BY <1>6, <3>1, <3>2
  <2> QED
    BY <1>1, <1>3, <2>1, <2>2, <2>3 DEF WireInv
<1>10. OneInv'
  BY <1>1 DEF ClientIInv, OneInv
<1>11. LastInv'
  BY <1>1, <1>3, <1>4, <1>5, <1>6 DEF ClientIInv, LastInv
<1>12. OrderInv'
  <2>1. ASSUME NEW j \in 1..Len(wire'), CallAt(wire', j)
        PROVE  /\ \A i \in 1..Len(wire') :
                    i < j /\ CallAt(wire', i) => Before(asked', wire'[i].call, wire'[j].call)
               /\ \A d \in Calls : up' /\ stage'[d] # "idle" => Before(asked', d, wire'[j].call)
    <3>1. j \in 1..n /\ CallAt(wire, j)
      BY <1>4, <1>5, <1>6, <2>1
    <3>2. /\ \A i \in 1..n :
               i < j /\ CallAt(wire, i) => Before(asked, wire[i].call, wire[j].call)
          /\ \A d \in Calls : up /\ stage[d] # "idle" => Before(asked, d, wire[j].call)
      BY <3>1 DEF ClientIInv, OrderInv
    <3> QED
      BY <1>1, <1>3, <1>4, <1>5, <1>6, <3>1, <3>2
  <2>2. SentInOrder'
    BY <1>1 DEF ClientIInv, OrderInv, SentInOrder
  <2> QED
    BY <1>1, <2>1, <2>2 DEF ClientIInv, OrderInv
<1>13. CounterInv'
  <2>1. Streamed' = Streamed
    BY <1>1, <1>3, <1>4, <1>5, <1>6 DEF Streamed
  <2> QED
    BY <1>1, <2>1 DEF ClientIInv, CounterInv
<1> QED
  BY <1>7, <1>8, <1>9, <1>10, <1>11, <1>12, <1>13 DEF Kept

\* A call ends at the client, and nothing is sent.
LEMMA EndKeeps ==
  ASSUME ClientIInv, NEW c \in pending, pending' = {},
         UNCHANGED <<vars, consumed, sequence_counter, asked, wire>>,
         seen' \cup unanswered' = seen \cup unanswered \cup {c},
         \A d \in seen' : stage[d] = "replied",
         up => stage[c] = "replied",
         session' = session \/ (~consumed /\ session' \in Issued)
  PROVE  Kept
<1>1. pending = {c} /\ c \in Calls
  BY DEF ClientIInv, AskedInv, ClientTypeOK
<1>2. UNCHANGED <<up, stage, req, reply, sink>> /\ Issued' = Issued
  BY DEF vars, Issued
<1>3. AskedInv'
  BY <1>1, <1>2 DEF ClientIInv, AskedInv
<1>4. SessionInv'
  BY <1>1, <1>2 DEF ClientIInv, SessionInv
<1>5. WireInv'
  <2>1. ASSUME up, NEW i \in 1..Len(wire), CallAt(wire, i) PROVE wire[i].call # c
    BY <2>1 DEF ClientIInv, WireInv
  <2>2. up => stage[c] \notin InProgress
    BY DEF InProgress
  <2> QED
    BY <1>1, <1>2, <2>1, <2>2 DEF ClientIInv, WireInv
<1>6. OneInv' /\ LastInv'
  BY <1>2 DEF ClientIInv, OneInv, LastInv
<1>7. OrderInv'
  BY <1>2 DEF ClientIInv, OrderInv, SentInOrder
<1>8. CounterInv'
  BY <1>2 DEF ClientIInv, CounterInv, Streamed
<1> QED
  BY <1>3, <1>4, <1>5, <1>6, <1>7, <1>8 DEF Kept

\* An answer ends the call in flight; the session it brings was issued.
LEMMA ReceiveKeeps ==
  ASSUME ClientIInv, NEW c \in Calls, Receive(c)
  PROVE  Kept
<1>1. session' = session \/ (~consumed /\ session' \in Issued)
  <2>1. ASSUME reply[c].kind = "handshake", reply[c].status # "rejected"
        PROVE  ~consumed /\ reply[c].session \in Issued
    <3>1. req[c].op = "handshake" /\ reply[c].session = c
      BY <2>1 DEF ClientIInv, ServedInv
    <3>2. ~consumed
      BY <3>1 DEF Receive, ClientIInv, SessionInv
    <3> QED
      BY <2>1, <3>1, <3>2 DEF Issued
  <2>2. CASE reply[c].kind = "handshake" /\ reply[c].status # "rejected"
    <3>1. session' = reply[c].session
      BY <2>2 DEF Receive
    <3> QED
      BY <2>1, <2>2, <3>1
  <2>3. CASE ~(reply[c].kind = "handshake" /\ reply[c].status # "rejected")
    BY <2>3 DEF Receive
  <2> QED
    BY <2>2, <2>3
<1>2. /\ c \in pending /\ pending' = {} /\ stage[c] = "replied"
      /\ UNCHANGED <<vars, consumed, sequence_counter, asked, wire>>
      /\ seen' = seen \cup {c} /\ unanswered' = unanswered
  BY DEF Receive
<1>3. \A d \in seen' : stage[d] = "replied"
  BY <1>2 DEF ClientIInv, AskedInv
<1> QED
  BY <1>1, <1>2, <1>3, EndKeeps

\* The loss of the connection ends the call in flight.
LEMMA LostKeeps ==
  ASSUME ClientIInv, NEW c \in Calls, Lost(c)
  PROVE  Kept
BY EndKeeps DEF Lost, ClientIInv, AskedInv

\* A finalize without a session ends the client and asks nothing.
LEMMA UnopenedKeeps == ASSUME ClientIInv, FinalizeUnopened PROVE Kept
<1>1. /\ UNCHANGED <<up, stage, req, reply, sink, session, pending, asked, seen, unanswered, wire,
                     sequence_counter>>
      /\ Issued' = Issued
  BY DEF FinalizeUnopened, vars, Issued
<1>2. AskedInv'
  BY <1>1 DEF ClientIInv, AskedInv
<1>3. SessionInv'
  BY <1>1 DEF ClientIInv, SessionInv, FinalizeUnopened
<1>4. WireInv'
  BY <1>1 DEF ClientIInv, WireInv
<1>5. OneInv' /\ LastInv'
  BY <1>1 DEF ClientIInv, OneInv, LastInv
<1>6. OrderInv'
  BY <1>1 DEF ClientIInv, OrderInv, SentInOrder
<1>7. CounterInv'
  BY <1>1 DEF ClientIInv, CounterInv, Streamed
<1> QED
  BY <1>2, <1>3, <1>4, <1>5, <1>6, <1>7 DEF Kept

\* A step of the client.
LEMMA ClientStepKeeps == ASSUME ClientIInv, ClientStep PROVE Kept
<1>1. ASSUME NEW c \in Calls, NEW v \in Versions, NEW h \in HiddenSizes,
             AskHandshake(c, v, h)
      PROVE  Kept
  <2> PICK r \in Requests : r = [op |-> "handshake", version |-> v, hidden |-> h]
    BY DEF Requests
  <2>1. r.op = "handshake"
    OBVIOUS
  <2> QED
    BY <1>1, <2>1, AskKeeps DEF AskHandshake
<1>2. ASSUME NEW c \in Calls, NEW s \in SessionIds, NEW p \in Payloads, AskSend(c, s, p)
      PROVE  Kept
  <2> PICK r \in Requests : r = [op |-> "stream", session |-> s, payload |-> p]
    BY DEF Requests
  <2>1. r.op = "stream"
    OBVIOUS
  <2> QED
    BY <1>2, <2>1, AskKeeps DEF AskSend
<1>3. ASSUME NEW c \in Calls, AskFinalize(c) PROVE Kept
  <2> PICK r \in Requests : r = [op |-> "finalize", session |-> session]
    BY DEF Requests, ClientIInv, ClientTypeOK
  <2>1. r.op = "finalize"
    OBVIOUS
  <2> QED
    BY <1>3, <2>1, AskKeeps DEF AskFinalize
<1> QED
  BY <1>1, <1>2, <1>3, GiveUpKeeps, ReceiveKeeps, LostKeeps, UnopenedKeeps DEF ClientStep
-----------------------------------------------------------------------------
(* Messages that the server reads *)

\* What is left of the wire when its first message is read.
LEMMA Shift ==
  ASSUME ClientTypeOK, wire # <<>>, wire' = Tail(wire), NEW i \in 1..Len(wire')
  PROVE  /\ i + 1 \in 1..Len(wire) /\ 1 < i + 1 /\ wire'[i] = wire[i + 1]
         /\ CallAt(wire', i) <=> CallAt(wire, i + 1)
<1>1. /\ Len(wire) \in Nat \ {0} /\ Len(wire') = Len(wire) - 1
      /\ wire'[i] = wire[i + 1]
  BY ReadEffect
<1> QED
  BY <1>1 DEF CallAt

\* A Finish that was on the wire, and is not the message that is read.
LEMMA StillFinished ==
  ASSUME ClientTypeOK, wire # <<>>, wire' = Tail(wire), NEW k \in 1..Len(wire), k # 1,
         NEW d, FinishAt(wire, k, d)
  PROVE  k - 1 \in 1..Len(wire') /\ FinishAt(wire', k - 1, d)
<1>1. /\ Len(wire) \in Nat \ {0} /\ Len(wire') = Len(wire) - 1
      /\ \A i \in 1..Len(wire') : wire'[i] = wire[i + 1]
  BY ReadEffect
<1>2. k - 1 \in 1..Len(wire') /\ (k - 1) + 1 = k
  BY <1>1
<1> QED
  BY <1>1, <1>2 DEF FinishAt

\* What holds of the calls on the wire whatever message is read.
LEMMA ReadKeepsWire ==
  ASSUME ClientIInv, wire # <<>>, wire' = Tail(wire), up,
         NEW i \in 1..Len(wire'), CallAt(wire', i)
  PROVE  /\ \/ wire'[i].call \in pending
            \/ \E k \in 1..Len(wire') : i < k /\ FinishAt(wire', k, wire'[i].call)
         /\ \A j \in 1..Len(wire') : i < j /\ CallAt(wire', j) =>
              /\ wire'[j].call # wire'[i].call
              /\ \E k \in 1..Len(wire') : i < k /\ k < j /\ FinishAt(wire', k, wire'[i].call)
<1>1. /\ i + 1 \in 1..Len(wire) /\ wire'[i] = wire[i + 1] /\ CallAt(wire, i + 1)
      /\ Len(wire) \in Nat \ {0} /\ Len(wire') = Len(wire) - 1
  BY Shift, ReadEffect DEF ClientIInv
<1> PICK d : d = wire[i + 1].call
  OBVIOUS
<1>2. /\ \/ d \in pending
         \/ \E k \in 1..Len(wire) : i + 1 < k /\ FinishAt(wire, k, d)
      /\ \A j \in 1..Len(wire) : i + 1 < j /\ CallAt(wire, j) =>
           /\ wire[j].call # d
           /\ \E k \in 1..Len(wire) : i + 1 < k /\ k < j /\ FinishAt(wire, k, d)
  BY <1>1 DEF ClientIInv, WireInv
<1>3. ASSUME NEW k \in 1..Len(wire), i + 1 < k, FinishAt(wire, k, d)
      PROVE  k - 1 \in 1..Len(wire') /\ i < k - 1 /\ FinishAt(wire', k - 1, d)
  <2>1. k # 1 /\ i < k - 1
    BY <1>1, <1>3
  <2> QED
    BY <1>3, <2>1, StillFinished DEF ClientIInv
<1>4. ASSUME NEW j \in 1..Len(wire'), i < j, CallAt(wire', j)
      PROVE  /\ wire'[j].call # d
             /\ \E k \in 1..Len(wire') : i < k /\ k < j /\ FinishAt(wire', k, d)
  <2>1. /\ j + 1 \in 1..Len(wire) /\ wire'[j] = wire[j + 1] /\ CallAt(wire, j + 1)
        /\ i + 1 < j + 1
    BY <1>4, Shift DEF ClientIInv
  <2> PICK k \in 1..Len(wire) : i + 1 < k /\ k < j + 1 /\ FinishAt(wire, k, d)
    BY <1>2, <2>1
  <2>2. k - 1 < j
    BY <1>1
  <2> QED
    BY <1>2, <1>3, <2>1, <2>2
<1> QED
  BY <1>1, <1>2, <1>3, <1>4

\* What is left on the wire was asked after what was read, and after what is known
\* to the server.
LEMMA ReadKeepsOrder ==
  ASSUME ClientIInv, wire # <<>>, wire' = Tail(wire),
         NEW j \in 1..Len(wire'), CallAt(wire', j)
  PROVE  /\ \A i \in 1..Len(wire') : i < j /\ CallAt(wire', i) =>
              /\ Before(asked, wire'[i].call, wire'[j].call)
              /\ wire'[i].body.op # "finalize"
         /\ CallAt(wire, 1) =>
              /\ Before(asked, wire[1].call, wire'[j].call)
              /\ wire[1].body.op # "finalize"
         /\ \A d \in Calls : up /\ stage[d] # "idle" => Before(asked, d, wire'[j].call)
<1>1. /\ j + 1 \in 1..Len(wire) /\ 1 < j + 1
      /\ wire'[j] = wire[j + 1] /\ CallAt(wire, j + 1)
      /\ Len(wire) \in Nat \ {0}
  BY Shift, ReadEffect DEF ClientIInv
<1>2. /\ \A i \in 1..Len(wire) :
           i < j + 1 /\ CallAt(wire, i) => Before(asked, wire[i].call, wire[j + 1].call)
      /\ \A d \in Calls : up /\ stage[d] # "idle" => Before(asked, d, wire[j + 1].call)
  BY <1>1 DEF ClientIInv, OrderInv
<1>3. \A i \in 1..Len(wire) : i < j + 1 /\ CallAt(wire, i) => wire[i].body.op # "finalize"
  BY <1>1 DEF ClientIInv, LastInv
<1>4. ASSUME NEW i \in 1..Len(wire'), i < j, CallAt(wire', i)
      PROVE  /\ Before(asked, wire'[i].call, wire'[j].call)
             /\ wire'[i].body.op # "finalize"
  <2>1. i + 1 \in 1..Len(wire) /\ i + 1 < j + 1 /\ wire'[i] = wire[i + 1] /\ CallAt(wire, i + 1)
    BY <1>4, Shift DEF ClientIInv
  <2> QED
    BY <1>1, <1>2, <1>3, <2>1
<1> QED
  BY <1>1, <1>2, <1>3, <1>4

\* A Finish is read; the call it is for is over, whatever became of it.
LEMMA AcceptFinish ==
  ASSUME ClientIInv, NEW c \in Calls, wire # <<>>, wire' = Tail(wire), FinishAt(wire, 1, c),
         Frame, stage'[c] \notin InProgress, up' = up, up,
         UNCHANGED <<session, consumed, sequence_counter, pending, asked, seen, unanswered>>
  PROVE  Kept /\ AckInv'
<1>1. req' = req /\ Issued \subseteq Issued'
  BY HistoryGrows DEF Frame, Onward, ClientIInv
<1>2. /\ Len(wire) \in Nat \ {0} /\ Len(wire') = Len(wire) - 1
      /\ \A i \in 1..Len(wire') : /\ i + 1 \in 1..Len(wire) /\ wire'[i] = wire[i + 1]
                                  /\ CallAt(wire', i) <=> CallAt(wire, i + 1)
  BY ReadEffect, Shift DEF ClientIInv
<1>3. AskedInv'
  BY <1>2 DEF ClientIInv, AskedInv, Frame, Onward, ClientTypeOK
<1>4. SessionInv'
  BY <1>1, <1>2 DEF ClientIInv, SessionInv
<1>5. WireInv'
  <2>1. ASSUME NEW i \in 1..Len(wire'), CallAt(wire', i) PROVE stage'[wire'[i].call] = "idle"
    <3>1. i + 1 \in 1..Len(wire) /\ wire'[i] = wire[i + 1] /\ CallAt(wire, i + 1)
      BY <1>2, <2>1
    <3>2. stage[wire[i + 1].call] = "idle" /\ wire[i + 1].call \in Calls
      BY <3>1, WireTypes DEF ClientIInv, WireInv
    <3> QED
      BY <3>1, <3>2 DEF Frame, Onward
  <2>2. ASSUME NEW d \in Calls, stage'[d] \in InProgress
        PROVE  /\ d \in pending \/ \E k \in 1..Len(wire') : FinishAt(wire', k, d)
               /\ \A j \in 1..Len(wire') : CallAt(wire', j) =>
                    \E k \in 1..Len(wire') : k < j /\ FinishAt(wire', k, d)
    <3>1. stage[d] \in InProgress /\ d # c
      BY <2>2 DEF Frame, Onward
    <3>2. ASSUME NEW k \in 1..Len(wire), FinishAt(wire, k, d)
          PROVE  k - 1 \in 1..Len(wire') /\ FinishAt(wire', k - 1, d)
      <4>1. k # 1
        BY <3>1, <3>2 DEF FinishAt
      <4> QED
        BY <3>2, <4>1, StillFinished DEF ClientIInv
    <3>3. /\ d \in pending \/ \E k \in 1..Len(wire) : FinishAt(wire, k, d)
          /\ \A j \in 1..Len(wire) : CallAt(wire, j) =>
               \E k \in 1..Len(wire) : k < j /\ FinishAt(wire, k, d)
      BY <3>1 DEF ClientIInv, WireInv
    <3>4. ASSUME NEW j \in 1..Len(wire'), CallAt(wire', j)
          PROVE  \E k \in 1..Len(wire') : k < j /\ FinishAt(wire', k, d)
      <4>1. j + 1 \in 1..Len(wire) /\ CallAt(wire, j + 1)
        BY <1>2, <3>4
      <4> PICK k \in 1..Len(wire) : k < j + 1 /\ FinishAt(wire, k, d)
        BY <3>3, <4>1
      <4>2. k - 1 < j
        BY <1>2
      <4> QED
        BY <3>2, <4>2
    <3> QED
      BY <3>2, <3>3, <3>4
  <2> QED
    BY <2>1, <2>2, ReadKeepsWire DEF WireInv
<1>6. OneInv'
  BY DEF ClientIInv, OneInv, Frame, Onward
<1>7. LastInv'
  <2>1. \A i, j \in 1..Len(wire') :
          CallAt(wire', i) /\ wire'[i].body.op = "finalize" /\ i < j => ~CallAt(wire', j)
    BY ReadKeepsOrder DEF ClientIInv
  <2>2. (\E f \in Calls : req[f].op = "finalize") =>
          /\ \A i \in 1..Len(wire') : ~CallAt(wire', i)
          /\ \A d \in Calls : stage'[d] \in InProgress => req[d].op = "finalize"
    BY <1>2 DEF ClientIInv, LastInv, Frame, Onward
  <2> QED
    BY <1>1, <2>1, <2>2 DEF LastInv
<1>8. OrderInv'
  <2>1. ASSUME NEW j \in 1..Len(wire'), CallAt(wire', j), NEW d \in Calls, stage'[d] # "idle"
        PROVE  Before(asked, d, wire'[j].call)
    BY <2>1, ReadKeepsOrder DEF Frame, Onward
  <2>2. ASSUME NEW j \in 1..Len(wire'), CallAt(wire', j),
               NEW i \in 1..Len(wire'), i < j, CallAt(wire', i)
        PROVE  Before(asked, wire'[i].call, wire'[j].call)
    BY <2>2, ReadKeepsOrder
  <2> QED
    BY <2>1, <2>2, FrameOrder DEF OrderInv
<1>9. CounterInv'
  <2>1. Streamed' = Streamed
    <3>1. ASSUME NEW i \in 1..Len(wire), CallAt(wire, i)
          PROVE  i - 1 \in 1..Len(wire') /\ CallAt(wire', i - 1) /\ wire'[i - 1] = wire[i]
      <4>1. i # 1
        BY <3>1 DEF CallAt, FinishAt
      <4>2. i - 1 \in 1..Len(wire') /\ (i - 1) + 1 = i
        BY <1>2, <4>1
      <4> QED
        BY <1>2, <3>1, <4>2
    <3> QED
      BY <1>1, <1>2, <3>1 DEF Streamed
  <2> QED
    BY <2>1 DEF ClientIInv, CounterInv
<1> QED
  BY <1>3, <1>4, <1>5, <1>6, <1>7, <1>8, <1>9, FrameAck DEF Kept

\* A call is read: it is the only one in progress.
LEMMA AcceptCall ==
  ASSUME ClientIInv, wire # <<>>, wire' = Tail(wire), CallAt(wire, 1),
         Arrive(wire[1].call, wire[1].body),
         UNCHANGED <<session, consumed, sequence_counter, pending, asked, seen, unanswered>>
  PROVE  Kept /\ AckInv'
<1> PICK c \in Calls, r \in Requests : c = wire[1].call /\ r = wire[1].body
  BY WireTypes, ReadEffect DEF ClientIInv
<1>1. /\ up /\ up' /\ stage[c] = "idle" /\ stage'[c] = "arrived" /\ req'[c] = r
      /\ \A d \in Calls \ {c} : stage'[d] = stage[d] /\ req'[d] = req[d]
      /\ UNCHANGED <<reply, sink, rx>>
  BY DEF Arrive, ClientIInv, IInv, TypeOK
<1>2. /\ Len(wire) \in Nat \ {0} /\ Len(wire') = Len(wire) - 1 /\ 1 \in 1..Len(wire)
      /\ \A i \in 1..Len(wire') : /\ i + 1 \in 1..Len(wire) /\ wire'[i] = wire[i + 1]
                                  /\ CallAt(wire', i) <=> CallAt(wire, i + 1)
  BY ReadEffect, Shift DEF ClientIInv
<1>3. Issued' = Issued
  BY <1>1 DEF Issued
<1>4. \A d \in Calls : stage[d] \notin InProgress
  <2> SUFFICES ASSUME NEW d \in Calls, stage[d] \in InProgress PROVE FALSE
    OBVIOUS
  <2> PICK k \in 1..Len(wire) : k < 1
    BY <1>1, <1>2 DEF ClientIInv, WireInv
  <2> QED
    BY <1>2
<1>5. \A d \in Calls : stage'[d] \in InProgress => d = c
  BY <1>1, <1>4
<1>6. AskedInv'
  <2>1. c \in Range(asked) /\ c \notin seen
    BY <1>1, <1>2 DEF ClientIInv, AskedInv
  <2> QED
    BY <1>1, <1>2, <2>1 DEF ClientIInv, AskedInv, ClientTypeOK
<1>7. SessionInv'
  <2>1. consumed => \A d \in pending : req'[d].op \in {"none", "finalize"}
    BY <1>1, <1>2 DEF ClientIInv, SessionInv, ClientTypeOK
  <2>2. ~consumed => \A d \in Calls : req'[d].op # "finalize"
    BY <1>1, <1>2 DEF ClientIInv, SessionInv
  <2> QED
    BY <1>2, <1>3, <2>1, <2>2 DEF ClientIInv, SessionInv
<1>8. WireInv'
  <2>1. ASSUME NEW i \in 1..Len(wire'), CallAt(wire', i)
        PROVE  /\ stage'[wire'[i].call] = "idle"
               /\ \E k \in 1..Len(wire') : k < i /\ FinishAt(wire', k, c)
    <3>1. /\ i + 1 \in 1..Len(wire) /\ wire'[i] = wire[i + 1] /\ CallAt(wire, i + 1)
          /\ 1 < i + 1
      BY <1>2, <2>1
    <3>2. /\ stage[wire[i + 1].call] = "idle" /\ wire[i + 1].call \in Calls
          /\ wire[i + 1].call # c
      BY <1>1, <1>2, <3>1, WireTypes DEF ClientIInv, WireInv
    <3> PICK k \in 1..Len(wire) : 1 < k /\ k < i + 1 /\ FinishAt(wire, k, c)
      BY <1>1, <1>2, <3>1 DEF ClientIInv, WireInv
    <3>3. k - 1 \in 1..Len(wire') /\ FinishAt(wire', k - 1, c) /\ k - 1 < i
      BY <1>2, StillFinished DEF ClientIInv
    <3> QED
      BY <1>1, <3>1, <3>2, <3>3
  <2>2. c \in pending \/ \E k \in 1..Len(wire') : FinishAt(wire', k, c)
    <3>1. c \in pending \/ \E k \in 1..Len(wire) : 1 < k /\ FinishAt(wire, k, c)
      BY <1>1, <1>2 DEF ClientIInv, WireInv
    <3>2. ASSUME NEW k \in 1..Len(wire), 1 < k, FinishAt(wire, k, c)
          PROVE  k - 1 \in 1..Len(wire') /\ FinishAt(wire', k - 1, c)
      <4>1. k # 1
        BY <3>2
      <4> QED
        BY <3>2, <4>1, StillFinished DEF ClientIInv
    <3> QED
      BY <3>1, <3>2
  <2> QED
    BY <1>1, <1>5, <2>1, <2>2, ReadKeepsWire DEF WireInv
<1>9. OneInv'
  BY <1>5 DEF OneInv
<1>10. LastInv'
  <2>1. \A i, j \in 1..Len(wire') :
          CallAt(wire', i) /\ wire'[i].body.op = "finalize" /\ i < j => ~CallAt(wire', j)
    BY ReadKeepsOrder
  <2>2. ASSUME NEW f \in Calls, req'[f].op = "finalize"
        PROVE  f = c /\ \A i \in 1..Len(wire') : ~CallAt(wire', i)
    <3>1. f = c
      BY <1>1, <1>2, <2>2 DEF ClientIInv, LastInv
    <3>2. wire[1].body.op = "finalize"
      BY <1>1, <2>2, <3>1
    <3> QED
      BY <3>1, <3>2, ReadKeepsOrder
  <2> QED
    BY <1>5, <2>1, <2>2 DEF LastInv
<1>11. OrderInv'
  <2>1. ASSUME NEW j \in 1..Len(wire'), CallAt(wire', j)
        PROVE  /\ \A i \in 1..Len(wire') :
                    i < j /\ CallAt(wire', i) => Before(asked, wire'[i].call, wire'[j].call)
               /\ \A d \in Calls : stage'[d] # "idle" => Before(asked, d, wire'[j].call)
    BY <1>1, <2>1, ReadKeepsOrder
  <2>2. \A e \in Range(sink) : Before(asked, e, c)
    <3> SUFFICES ASSUME NEW e \in Range(sink) PROVE Before(asked, e, c)
      OBVIOUS
    <3>1. e \in Calls
      BY RangeOfSeq DEF ClientIInv, IInv, TypeOK, Range
    <3>2. stage[e] # "idle"
      BY DEF ClientIInv, IInv, SinkInv
    <3> QED
      BY <1>1, <1>2, <3>1, <3>2 DEF ClientIInv, OrderInv
  <2>3. SentInOrder'
    BY <1>1 DEF ClientIInv, OrderInv, SentInOrder
  <2> QED
    BY <1>1, <1>5, <2>1, <2>2, <2>3 DEF OrderInv
<1>12. AckInv'
  BY <1>1 DEF ClientIInv, AckInv
<1>13. CounterInv'
  <2>1. req[c].op = "none"
    BY <1>1 DEF ClientIInv, ServedInv
  <2>2. ASSUME NEW d \in Calls, d \in Streamed' PROVE d \in Streamed
    <3>1. CASE req'[d].op = "stream"
      BY <1>1, <1>2, <3>1 DEF Streamed
    <3>2. ASSUME NEW i \in 1..Len(wire'), CallAt(wire', i), wire'[i].call = d,
                 wire'[i].body.op = "stream"
          PROVE  d \in Streamed
      BY <1>2, <3>2 DEF Streamed
    <3> QED
      BY <2>2, <3>1, <3>2 DEF Streamed
  <2>3. ASSUME NEW d \in Streamed PROVE d \in Streamed'
    <3>1. CASE req[d].op = "stream"
      BY <1>1, <2>1, <3>1 DEF Streamed
    <3>2. ASSUME NEW i \in 1..Len(wire), CallAt(wire, i), wire[i].call = d,
                 wire[i].body.op = "stream"
          PROVE  d \in Streamed'
      <4>1. CASE i = 1
        BY <1>1, <3>2, <4>1 DEF Streamed
      <4>2. CASE i # 1
        <5>1. i - 1 \in 1..Len(wire') /\ (i - 1) + 1 = i
          BY <1>2, <4>2
        <5>2. CallAt(wire', i - 1) /\ wire'[i - 1] = wire[i]
          BY <1>2, <3>2, <5>1
        <5> QED
          BY <3>2, <5>1, <5>2 DEF Streamed
      <4> QED
        BY <4>1, <4>2
    <3> QED
      BY <2>3, <3>1, <3>2 DEF Streamed
  <2>4. Streamed' = Streamed
    <3>1. \A d : d \in Streamed => d \in Calls
      BY DEF Streamed
    <3>2. \A d : d \in Streamed' => d \in Calls
      BY DEF Streamed
    <3> QED
      BY <2>2, <2>3, <3>1, <3>2
  <2> QED
    BY <2>4 DEF ClientIInv, CounterInv
<1> QED
  BY <1>6, <1>7, <1>8, <1>9, <1>10, <1>11, <1>12, <1>13 DEF Kept

\* The server reads a call, or the Finish of one.
LEMMA AcceptKeeps == ASSUME ClientIInv, Accept PROVE Kept /\ AckInv'
<1>1. /\ up /\ wire # <<>> /\ wire' = Tail(wire) /\ Head(wire) = wire[1] /\ wire[1] \in Message
      /\ UNCHANGED <<session, consumed, sequence_counter, pending, asked, seen, unanswered>>
  BY ReadEffect DEF Accept, ClientIInv
<1> PICK m \in Message : m = wire[1]
  BY <1>1
<1>2. m.call \in Calls
  BY DEF Message
<1>3. CASE m.kind = "call" /\ Arrive(m.call, m.body)
  BY <1>1, <1>3, AcceptCall DEF CallAt
<1>4. CASE m.kind = "finish" /\ Cancel(m.call)
  <2>1. Frame /\ stage'[m.call] \notin InProgress /\ up' = up
    BY <1>2, <1>4, SurroundingFrame DEF Cancel, ClientIInv, IInv, TypeOK, InProgress
  <2>2. FinishAt(wire, 1, m.call)
    BY <1>4 DEF FinishAt
  <2> QED
    BY <1>1, <1>2, <2>1, <2>2, AcceptFinish
<1>5. CASE m.kind = "finish" /\ stage[m.call] \notin InProgress /\ UNCHANGED vars
  <2>1. Frame /\ stage'[m.call] \notin InProgress /\ up' = up
    BY <1>5 DEF vars, Frame, Onward, Delivering, Answering
  <2>2. FinishAt(wire, 1, m.call)
    BY <1>5 DEF FinishAt
  <2> QED
    BY <1>1, <1>2, <2>1, <2>2, AcceptFinish
<1> QED
  BY <1>1, <1>3, <1>4, <1>5 DEF Accept
-----------------------------------------------------------------------------
(* The invariant of the client *)

\* ClientIInv holds at the start.
LEMMA ClientInitInv == ClientInit => ClientIInv
<1> SUFFICES ASSUME ClientInit PROVE ClientIInv
  OBVIOUS
<1>1. IInv /\ ClientTypeOK
  BY InitInv, ClientInitType DEF ClientInit
<1>2. /\ Len(wire) = 0 /\ Range(asked) = {} /\ Range(sink) = {} /\ Len(sink) = 0
      /\ pending = {} /\ seen = {} /\ unanswered = {} /\ session = NoSession
      /\ consumed = FALSE /\ sequence_counter = 0 /\ up = TRUE
      /\ \A c \in Calls : stage[c] = "idle" /\ req[c] = NoRequest /\ reply[c] = [kind |-> "none"]
  BY EmptySeq, LenProperties DEF ClientInit, Init, Range
<1>3. Issued = {} /\ \A c \in Calls : req[c].op = "none"
  BY <1>2 DEF Issued, NoRequest
<1>4. Streamed = {}
  BY <1>2, <1>3 DEF Streamed
<1>5. ServedInv /\ AskedInv /\ SessionInv
  BY <1>2, <1>3 DEF ServedInv, AskedInv, SessionInv, InProgress
<1>6. WireInv /\ OneInv /\ LastInv
  BY <1>2, <1>3 DEF WireInv, OneInv, LastInv, InProgress
<1>7. OrderInv /\ AckInv
  BY <1>2, <1>3 DEF OrderInv, SentInOrder, AckInv
<1>8. CounterInv
  BY <1>2, <1>4, FS_EmptySet DEF CounterInv
<1> QED
  BY <1>1, <1>5, <1>6, <1>7, <1>8 DEF ClientIInv

\* Every step of the client, of the wire and of the server keeps ClientIInv.
LEMMA ClientNextInv == ClientIInv /\ [ClientNext]_allVars => ClientIInv'
<1> SUFFICES ASSUME ClientIInv, [ClientNext]_allVars PROVE ClientIInv'
  OBVIOUS
<1>1. IInv' /\ ClientTypeOK' /\ ServedInv'
  BY ClientNextType, NextInv, ServedNext DEF ClientIInv, IInv
<1>2. CASE ClientStep
  <2>1. Kept
    BY <1>2, ClientStepKeeps
  <2>2. AckInv'
    BY <1>2, ClientStepType DEF ClientIInv, IInv, AckInv, vars
  <2> QED
    BY <1>1, <2>1, <2>2 DEF Kept, ClientIInv
<1>3. CASE Accept
  BY <1>1, <1>3, AcceptKeeps DEF Kept, ClientIInv
<1>4. CASE ServerStep
  <2>1. Frame /\ UNCHANGED clientVars
    BY <1>4, HandleFrame, SurroundingFrame DEF ServerStep, ClientIInv
  <2> QED
    BY <1>1, <2>1, FrameKeeps DEF ClientIInv
<1>5. CASE UNCHANGED allVars
  <2>1. Frame /\ UNCHANGED clientVars
    BY <1>5 DEF allVars, vars, Frame, Onward, Delivering, Answering
  <2> QED
    BY <1>1, <2>1, FrameKeeps DEF ClientIInv
<1> QED
  BY <1>2, <1>3, <1>4, <1>5 DEF ClientNext

\* What the client knows, what is on the wire and what the server did fit together.
THEOREM ClientInvariance == ClientSpec => []ClientIInv
BY ClientInitInv, ClientNextInv, PTL DEF ClientSpec

\* The session the client holds is open while the connection lives: the registry keeps
\* what it issued until a finalize, and the client forgets the session it finalizes.
THEOREM SessionIsLiveHolds == ClientSpec => []SessionIsLive
<1>1. ClientIInv => SessionIsLive
  <2> SUFFICES ASSUME ClientIInv, up, session # NoSession PROVE session \in DOMAIN sessions
    BY DEF SessionIsLive
  <2>1. session \in Issued /\ ~consumed
    BY DEF ClientIInv, SessionInv
  <2>2. Finalized(session) = {}
    BY <2>1 DEF Finalized, ClientIInv, SessionInv, IInv, CallInv
  <2> QED
    BY <2>1, <2>2 DEF ClientIInv, ServedInv
<1> QED
  BY <1>1, ClientInvariance, PTL

\* An admissible packet of the client's own session is acknowledged while the
\* Receiver lives, if it is answered.
THEOREM AdmissibleIsAckedHolds == ClientSpec => []AdmissibleIsAcked
<1>1. ClientIInv => AdmissibleIsAcked
  BY DEF ClientIInv, AskedInv, AckInv, AdmissibleIsAcked, ClientTypeOK
<1> QED
  BY <1>1, ClientInvariance, PTL

\* The packets are in the channel in the order in which the client sent them.
THEOREM SentInOrderHolds == ClientSpec => []SentInOrder
<1>1. ClientIInv => SentInOrder
  BY DEF ClientIInv, OrderInv
<1> QED
  BY <1>1, ClientInvariance, PTL

\* What finalize answers covers every ack the client saw, counts no more than the client
\* sent, and falls short of what was delivered by the sends that were given up at most.
THEOREM TotalAccountsHolds == ClientSpec => []TotalAccounts
<1>1. ClientIInv => TotalAccounts
  <2> SUFFICES ASSUME ClientIInv, NEW f \in seen, reply[f].kind = "total",
                      NEW s, s = req[f].session
               PROVE  /\ Cardinality(Acked(s) \cap seen) <= reply[f].count
                      /\ reply[f].count <= sequence_counter
                      /\ reply[f].count <= Cardinality(Delivered(s))
                      /\ Cardinality(Delivered(s))
                           <= reply[f].count + Cardinality(Delivered(s) \cap unanswered)
    BY DEF TotalAccounts
  <2>1. f \in Calls /\ s \in Issued /\ s \in Calls /\ s # NoSession /\ req[f].op = "finalize"
    BY CallsAssumption DEF ClientIInv, ClientTypeOK, ServedInv, Issued, IInv, CallInv
  <2>2. reply[f].count = Cardinality(Acked(s))
    BY <2>1 DEF ClientIInv, IInv, TotalsAreFinal, Finalized
  <2>3. Acked(s) \subseteq Streamed /\ Acked(s) \subseteq Delivered(s)
    BY DEF ClientIInv, IInv, CallInv, AckedIsQueued, Acked, Streamed, Delivered
  <2>4. consumed
    BY <2>1 DEF ClientIInv, SessionInv
  <2>5. ASSUME NEW c \in Delivered(s) PROVE c \in Acked(s) \cup (Delivered(s) \cap unanswered)
    <3>1. c \in Calls /\ c \in Range(sink) /\ req[c].session = s
      BY RangeOfSeq DEF Delivered, ClientIInv, IInv, TypeOK, Range
    <3>2. stage[c] # "idle" /\ req[c].op = "stream"
      BY <3>1 DEF ClientIInv, IInv, SinkInv, ScreenedSink
    <3>3. c \in seen \cup unanswered
      BY <2>4, <3>1, <3>2 DEF ClientIInv, AskedInv, SessionInv
    <3>4. c \in seen => reply[c] = Ack
      BY <2>1, <3>1, <3>2 DEF ClientIInv, AskedInv, AckInv
    <3> QED
      BY <3>1, <3>3, <3>4 DEF Acked
  <2>6. /\ IsFiniteSet(Calls) /\ Streamed \subseteq Calls /\ Delivered(s) \subseteq Calls
        /\ Acked(s) \subseteq Calls
    BY CallsAssumption, RangeOfSeq
    DEF Streamed, Delivered, Acked, ClientIInv, IInv, TypeOK, Range
  <2> PICK A, D, S, U : A = Acked(s) /\ D = Delivered(s) /\ S = Streamed /\ U = D \cap unanswered
    OBVIOUS
  <2>7. IsFiniteSet(A) /\ IsFiniteSet(D) /\ IsFiniteSet(S) /\ IsFiniteSet(U)
    BY <2>6, FS_Subset
  <2>8. /\ Cardinality(A) \in Nat /\ Cardinality(D) \in Nat /\ Cardinality(S) \in Nat
        /\ Cardinality(U) \in Nat /\ sequence_counter \in Nat
    BY <2>7, FS_CardinalityType DEF ClientIInv, ClientTypeOK
  <2>9. Cardinality(A \cap seen) <= Cardinality(A)
    BY <2>7, FS_Subset
  <2>10. Cardinality(A) <= Cardinality(S) /\ Cardinality(A) <= Cardinality(D)
    BY <2>3, <2>7, FS_Subset
  <2>11. Cardinality(S) <= sequence_counter
    BY DEF ClientIInv, CounterInv
  <2>12. Cardinality(D) <= Cardinality(A) + Cardinality(U)
    <3>1. D \subseteq A \cup U
      BY <2>5
    <3>2. /\ IsFiniteSet(A \cup U)
          /\ Cardinality(A \cup U) = Cardinality(A) + Cardinality(U) - Cardinality(A \cap U)
      BY <2>7, FS_Union
    <3>3. IsFiniteSet(A \cap U)
      BY <2>7, FS_Subset
    <3>4. Cardinality(A \cap U) \in Nat /\ Cardinality(A \cup U) \in Nat
      BY <3>2, <3>3, FS_CardinalityType
    <3>5. Cardinality(D) <= Cardinality(A \cup U)
      BY <3>1, <3>2, FS_Subset
    <3> QED
      BY <2>8, <3>2, <3>4, <3>5
  <2>13. Cardinality(A) <= sequence_counter
    BY <2>8, <2>10, <2>11
  <2> QED
    BY <2>2, <2>9, <2>10, <2>12, <2>13
<1> QED
  BY <1>1, ClientInvariance, PTL

\* Once a finalize was answered with its count, no packet of the session enters the
\* channel: the client has no other call in progress, and asks no more.
THEOREM NothingAfterFinalizeHolds == ClientSpec => NothingAfterFinalize
<1> DEFINE Closed ==
      \A c \in Calls : c \in Range(sink') \ Range(sink) => Finalized(req[c].session) = {}
<1>1. ASSUME ClientIInv, [ClientNext]_allVars PROVE [Closed]_vars
  <2>1. CASE Frame
    <3> SUFFICES ASSUME NEW c \in Calls, c \in Range(sink') \ Range(sink),
                        NEW f \in Finalized(req[c].session)
                 PROVE  FALSE
      OBVIOUS
    <3>1. stage[c] \in InProgress /\ req[c].op = "stream"
      <4>1. ASSUME NEW d \in Calls, sink' = Append(sink, d)
            PROVE  Range(sink') = Range(sink) \cup {d}
        BY <1>1, <4>1, AppendRange DEF ClientIInv, IInv, TypeOK
      <4> QED
        BY <2>1, <4>1 DEF Frame, Delivering
    <3>2. f \in Calls /\ req[f].op = "finalize"
      BY <1>1 DEF Finalized, ClientIInv, IInv, CallInv
    <3> QED
      BY <1>1, <3>1, <3>2 DEF ClientIInv, LastInv
  <2>2. CASE sink' = sink
    BY <2>2
  <2>3. CASE ClientStep
    BY <1>1, <2>3, ClientStepType DEF ClientIInv, IInv
  <2>4. CASE Accept
    <3>1. sink' = sink
      BY <2>4 DEF Accept, Arrive, Cancel, vars
    <3> QED
      BY <2>2, <3>1
  <2>5. CASE ServerStep
    <3>1. Frame
      BY <1>1, <2>5, HandleFrame, SurroundingFrame DEF ServerStep, ClientIInv
    <3> QED
      BY <2>1, <3>1
  <2>6. CASE UNCHANGED allVars
    BY <2>6 DEF allVars
  <2> QED
    BY <1>1, <2>3, <2>4, <2>5, <2>6 DEF ClientNext
<1> QED
  BY <1>1, ClientInvariance, PTL DEF ClientSpec, NothingAfterFinalize
=============================================================================
