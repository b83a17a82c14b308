--------------------------- MODULE AptpRpcServer ---------------------------
(***************************************************************************)
(* One AptpRpcServer (src/src/rpc): the object that serves one Cap'n Proto *)
(* connection, with its SessionRegistry, its bounded PacketSink and the    *)
(* handlers of handshake, streamPrimitive and finalize.                    *)
(*                                                                         *)
(* Every call is a future of its own.  Futures run one at a time and can   *)
(* be switched, or dropped, only where they await: sink.send(..).await and *)
(* sessions.lock().await.  An action is what a handler does between two    *)
(* such points.  A peer may have any number of calls outstanding.          *)
(***************************************************************************)
EXTENDS Adapters, FiniteSets

CONSTANTS
  Calls,         \* the calls made on the connection in its lifetime
  NoSession,     \* a session id that this server never issued
  Versions,      \* protocol versions a card may carry
  AptpVersion,   \* APTP_VERSION
  HiddenSizes,   \* hidden sizes a card may carry
  Payloads,      \* what a streamed packet may carry
  Admissible,    \* those that decode and pass the NeuralFirewall
  Capacity,      \* sink_buffer, the bound of the packet channel
  KeepReceiver   \* whether somebody keeps the channel's Receiver

ASSUME CallsAssumption == IsFiniteSet(Calls) /\ NoSession \notin Calls
ASSUME DataAssumption == Admissible \subseteq Payloads
ASSUME CapacityAssumption == Capacity \in Nat \ {0}
ASSUME ReceiverAssumption == KeepReceiver \in BOOLEAN

VARIABLES
  up,        \* the connection, and with it the server object, is alive
  stage,     \* where the future of each call stands
  req,       \* what each call asked
  reply,     \* what each call was answered
  sessions,  \* SessionRegistry.sessions
  sink,      \* the calls whose packets entered the channel, oldest first
  taken,     \* how many of them the owner of the Receiver has received
  waiters,   \* the calls suspended in sink.send, in the order they came
  rx         \* the Receiver has not been dropped

vars == <<up, stage, req, reply, sessions, sink, taken, waiters, rx>>
-----------------------------------------------------------------------------
\* open() names a session by a fresh UUIDv4; here the id is the call that opened it.
SessionIds == Calls \cup {NoSession}

NoRequest == [op |-> "none"]
Requests ==
  [op : {"handshake"}, version : Versions, hidden : HiddenSizes]
    \cup [op : {"stream"}, session : SessionIds, payload : Payloads]
    \cup [op : {"finalize"}, session : SessionIds]
    \cup {[op |-> "malformed"]}

Ack == [kind |-> "ack"]         \* Ok(true)
Nack == [kind |-> "nack"]       \* Ok(false)
Failed == [kind |-> "failed"]   \* Err: a capnp::Error travels back
Total(n) == [kind |-> "total", count |-> n]
Rejected == [kind |-> "handshake", status |-> "rejected",
             session |-> NoSession, adapter |-> "identity"]
Opened(s, d) == [kind |-> "handshake", status |-> d.status,
                 session |-> s, adapter |-> d.adapter]

Decisions == {Decision(h) : h \in HiddenSizes}
Replies ==
  {[kind |-> "none"], Ack, Nack, Failed, Rejected}
    \cup [kind : {"total"}, count : Nat]
    \cup {Opened(s, d) : s \in Calls, d \in Decisions}

Stages == {"idle", "arrived", "waiting", "sent", "replied", "cancelled"}
InProgress == {"arrived", "waiting", "sent"}
SessionState == [received_count : Nat, adapter : {d.adapter : d \in Decisions}]

\* The sessions a handshake opened on this connection.
Issued == {s \in Calls : reply[s].kind = "handshake" /\ reply[s].session = s}
-----------------------------------------------------------------------------
Init ==
  /\ up = TRUE
  /\ stage = [c \in Calls |-> "idle"]
  /\ req = [c \in Calls |-> NoRequest]
  /\ reply = [c \in Calls |-> [kind |-> "none"]]
  /\ sessions = <<>>
  /\ sink = <<>>
  /\ taken = 0
  /\ waiters = <<>>
  /\ rx = KeepReceiver

Respond(c, r) ==
  /\ stage' = [stage EXCEPT ![c] = "replied"]
  /\ reply' = [reply EXCEPT ![c] = r]

\* The peer makes a call.  The session ids it can name are those a handshake
\* issued here, and ids this registry never held.
Arrive(c, r) ==
  /\ up
  /\ stage[c] = "idle"
  /\ r.op \in {"stream", "finalize"} => r.session \in Issued \cup {NoSession}
  /\ stage' = [stage EXCEPT ![c] = "arrived"]
  /\ req' = [req EXCEPT ![c] = r]
  /\ UNCHANGED <<up, reply, sessions, sink, taken, waiters, rx>>

\* The card or the session id does not decode.
Malformed(c) ==
  /\ stage[c] = "arrived" /\ req[c].op = "malformed"
  /\ Respond(c, Failed)
  /\ UNCHANGED <<up, req, sessions, sink, taken, waiters, rx>>
-----------------------------------------------------------------------------
(* SessionRegistry *)

Open(s, adapter) ==
  sessions' = [t \in DOMAIN sessions \cup {s} |->
                 IF t = s THEN [received_count |-> 0, adapter |-> adapter]
                          ELSE sessions[t]]

\* Fault: the entry is written back as if it were new.
IncrementByInsert(s) == sessions' = [sessions EXCEPT ![s].received_count = 1]

Increment(s) == sessions' = [sessions EXCEPT ![s].received_count = @ + 1]

\* Fault: the entry is read with get() instead of remove().
DrainByGet(s) == UNCHANGED sessions

Drain(s) == sessions' = [t \in DOMAIN sessions \ {s} |-> sessions[t]]
-----------------------------------------------------------------------------
(* handshake *)

Handshake(c) ==
  /\ stage[c] = "arrived" /\ req[c].op = "handshake"
  /\ \/ /\ req[c].version # AptpVersion
        /\ Respond(c, Rejected)
        /\ UNCHANGED sessions
     \/ /\ req[c].version = AptpVersion
        /\ Open(c, Decision(req[c].hidden).adapter)
        /\ Respond(c, Opened(c, Decision(req[c].hidden)))
  /\ UNCHANGED <<up, req, sink, taken, waiters, rx>>
-----------------------------------------------------------------------------
(* streamPrimitive, up to the first await *)

\* Fault: the bound is off by one.
FreeOffByOne == Capacity + 1 - (Len(sink) - taken)

Free == Capacity - (Len(sink) - taken)

\* Fault: try_send with its result ignored.
PushByTrySend(c) ==
  /\ stage' = [stage EXCEPT ![c] = "sent"]
  /\ UNCHANGED <<sink, reply>>

Push(c) ==
  /\ sink' = Append(sink, c)
  /\ stage' = [stage EXCEPT ![c] = "sent"]
  /\ UNCHANGED reply

\* The first poll of sink.send: the channel is closed, or a permit is left after
\* those the waiters are due, or the future joins the queue for a permit.
Send(c) ==
  \/ /\ ~rx
     /\ Respond(c, Failed)
     /\ UNCHANGED <<sink, waiters>>
  \/ /\ rx /\ Free > Len(waiters)
     /\ Push(c)
     /\ UNCHANGED waiters
  \/ /\ rx /\ Free <= Len(waiters)
     /\ waiters' = Append(waiters, c)
     /\ stage' = [stage EXCEPT ![c] = "waiting"]
     /\ UNCHANGED <<reply, sink>>

\* The packet's session is not looked at before it is sent.  verify_provenance
\* compares a hash with the one just computed from the same packet and so is
\* always passed: a packet that is Admissible goes straight to the sink.
StreamPrimitive(c) ==
  /\ stage[c] = "arrived" /\ req[c].op = "stream"
  /\ \/ /\ req[c].payload \notin Admissible
        /\ Respond(c, Nack)
        /\ UNCHANGED <<sink, waiters>>
     \/ /\ req[c].payload \in Admissible
        /\ Send(c)
  /\ UNCHANGED <<up, req, sessions, taken, rx>>

\* A suspended sink.send goes on.  Permits go to the waiters in the order they
\* came; the futures that hold one may be polled in any order.
ResumeSend(c) ==
  /\ stage[c] = "waiting"
  /\ \E i \in 1..Len(waiters) :
       /\ waiters[i] = c
       /\ waiters' = RemoveAt(waiters, i)
       /\ \/ ~rx /\ Respond(c, Failed) /\ UNCHANGED sink
          \/ rx /\ i <= Free /\ Push(c)
  /\ UNCHANGED <<up, req, sessions, taken, rx>>

\* Fault: the session is created if it is not there (entry().or_default()).
CountPacketUpsert(c) ==
  /\ stage[c] = "sent"
  /\ LET s == req[c].session IN
       IF s \in DOMAIN sessions THEN Increment(s)
       ELSE sessions' = [t \in DOMAIN sessions \cup {s} |->
              IF t = s THEN [received_count |-> 1, adapter |-> "identity"] ELSE sessions[t]]
  /\ Respond(c, Ack)
  /\ UNCHANGED <<up, req, sink, taken, waiters, rx>>

\* Fault: an error of increment() is retried until the session shows up.
CountPacketRetrying(c) ==
  /\ stage[c] = "sent" /\ req[c].session \in DOMAIN sessions
  /\ Increment(req[c].session)
  /\ Respond(c, Ack)
  /\ UNCHANGED <<up, req, sink, taken, waiters, rx>>

\* Fault: any error of increment() is answered, also after a count that stands.
CountPacketFailing(c) ==
  /\ stage[c] = "sent"
  /\ Respond(c, Failed)
  /\ UNCHANGED <<up, req, sessions, sink, taken, waiters, rx>>

\* The registry's lock is taken and the packet is counted, or its session is unknown.
CountPacket(c) ==
  /\ stage[c] = "sent"
  /\ \/ /\ req[c].session \in DOMAIN sessions
        /\ Increment(req[c].session)
        /\ Respond(c, Ack)
     \/ /\ req[c].session \notin DOMAIN sessions
        /\ Respond(c, Failed)
        /\ UNCHANGED sessions
  /\ UNCHANGED <<up, req, sink, taken, waiters, rx>>
-----------------------------------------------------------------------------
(* finalize *)

Finalize(c) ==
  /\ stage[c] = "arrived" /\ req[c].op = "finalize"
  /\ \/ /\ req[c].session \in DOMAIN sessions
        /\ Drain(req[c].session)
        /\ Respond(c, Total(sessions[req[c].session].received_count))
     \/ /\ req[c].session \notin DOMAIN sessions
        /\ Respond(c, Failed)
        /\ UNCHANGED sessions
  /\ UNCHANGED <<up, req, sink, taken, waiters, rx>>
-----------------------------------------------------------------------------
(* What surrounds the handlers: the peer, the connection, the Receiver *)

\* Fault: a dropped send keeps its place in the queue for a permit.
CancelKeepingPlace(c) ==
  /\ stage[c] \in InProgress
  /\ stage' = [stage EXCEPT ![c] = "cancelled"]
  /\ UNCHANGED <<up, req, reply, sessions, sink, taken, waiters, rx>>

\* The peer drops the promise of a call: the RPC system drops its future.
Cancel(c) ==
  /\ stage[c] \in InProgress
  /\ stage' = [stage EXCEPT ![c] = "cancelled"]
  /\ IF stage[c] = "waiting"
     THEN \E i \in 1..Len(waiters) :
            waiters[i] = c /\ waiters' = RemoveAt(waiters, i)
     ELSE UNCHANGED waiters
  /\ UNCHANGED <<up, req, reply, sessions, sink, taken, rx>>

\* Fault: the packets still in the channel go with the connection.
DisconnectDroppingQueue ==
  /\ up
  /\ up' = FALSE
  /\ stage' = [c \in Calls |->
                 IF stage[c] \in InProgress THEN "cancelled" ELSE stage[c]]
  /\ sessions' = <<>>
  /\ waiters' = <<>>
  /\ sink' = SubSeq(sink, 1, taken)
  /\ UNCHANGED <<req, reply, taken, rx>>

\* The connection ends: every future is dropped, then the server and its registry.
Disconnect ==
  /\ up
  /\ up' = FALSE
  /\ stage' = [c \in Calls |->
                 IF stage[c] \in InProgress THEN "cancelled" ELSE stage[c]]
  /\ sessions' = <<>>
  /\ waiters' = <<>>
  /\ UNCHANGED <<req, reply, sink, taken, rx>>

\* The owner of the Receiver takes the oldest packet; the packets left in the
\* channel outlive the connection.
Consume ==
  /\ rx /\ taken < Len(sink)
  /\ taken' = taken + 1
  /\ UNCHANGED <<up, stage, req, reply, sessions, sink, waiters, rx>>

\* The owner drops the Receiver.
DropReceiver ==
  /\ rx
  /\ rx' = FALSE
  /\ UNCHANGED <<up, stage, req, reply, sessions, sink, taken, waiters>>

Handle(c) ==
  \/ Malformed(c) \/ Handshake(c) \/ StreamPrimitive(c)
  \/ ResumeSend(c) \/ CountPacket(c) \/ Finalize(c)

Next ==
  \/ \E c \in Calls, r \in Requests : Arrive(c, r)
  \/ \E c \in Calls : Handle(c)
  \/ \E c \in Calls : Cancel(c)
  \/ Disconnect
  \/ Consume
  \/ DropReceiver

Spec == Init /\ [][Next]_vars

\* A future that can go on is polled, and the owner of the Receiver goes on
\* receiving until it drops it.  Nothing is assumed of the peer.
FairSpec ==
  /\ Spec
  /\ \A c \in Calls : WF_vars(Handle(c))
  /\ WF_vars(Consume)
-----------------------------------------------------------------------------
(* Properties *)

\* The calls acknowledged for a session, and those that finalized it.
Acked(s) == {c \in Calls : reply[c] = Ack /\ req[c].session = s}
Finalized(s) == {c \in Calls : reply[c].kind = "total" /\ req[c].session = s}

\* Every variable has its type; the Receiver never runs ahead of the channel.
TypeOK ==
  /\ up \in BOOLEAN
  /\ stage \in [Calls -> Stages]
  /\ req \in [Calls -> Requests \cup {NoRequest}]
  /\ reply \in [Calls -> Replies]
  /\ DOMAIN sessions \subseteq Calls
  /\ sessions \in [DOMAIN sessions -> SessionState]
  /\ sink \in Seq(Calls)
  /\ taken \in 0..Len(sink)
  /\ waiters \in Seq(Calls)
  /\ rx \in BOOLEAN

\* However many sends are suspended, resumed in any order or dropped, the channel
\* (PacketSink, rpc/mod.rs) never holds more than sink_buffer packets.
Backpressure == Len(sink) <= taken + Capacity

\* stream::handle sends, awaits and only then counts, and the handlers of a
\* session may overlap: all the same the registry's received_count is at every
\* moment the number of calls of the session answered with ack = true.
CountIsAcks ==
  \A s \in DOMAIN sessions :
    sessions[s].received_count = Cardinality(Acked(s))

\* The receivedCount that finalize answers is the number of acks of the session,
\* and stays so: a stream call that was in flight when the session was drained is
\* not acknowledged later, and no second finalize succeeds.
TotalsAreFinal ==
  \A s \in Calls : \A c \in Finalized(s) :
    /\ reply[c].count = Cardinality(Acked(s))
    /\ Finalized(s) = {c}

\* A packet whose call was acknowledged is in the channel's history exactly once,
\* whatever was suspended, dropped or disconnected since.
AckedIsQueued ==
  /\ \A c \in Calls : reply[c] = Ack => c \in Range(sink)
  /\ IsInjective(sink)

\* Nothing the firewall refuses reaches the owner of the Receiver, and a call
\* answered with ack = false never put its packet there.
ScreenedSink ==
  \A c \in Range(sink) :
    /\ req[c].op = "stream" /\ req[c].payload \in Admissible
    /\ reply[c] # Nack

\* An error answered to a call whose packet is in the channel all the same
\* (stream.rs sends before it looks the session up) always means that the session
\* is unknown or closed: a sender that meets an error while its session is open
\* knows that its packet was not delivered.
FailedIsUndelivered ==
  \A c \in Range(sink) :
    reply[c] = Failed => req[c].session \notin DOMAIN sessions

\* What the future of a call has done by the time it stands at a stage.
CallInv ==
  \A c \in Calls :
    /\ reply[c].kind = "none" <=> stage[c] # "replied"
    /\ stage[c] \in {"waiting", "sent"} =>
         req[c].op = "stream" /\ req[c].payload \in Admissible
    /\ stage[c] = "sent" => c \in Range(sink)
    /\ req[c].op \in {"stream", "finalize"} => req[c].session \in Issued \cup {NoSession}
    /\ reply[c] = Ack => req[c].op = "stream"
    /\ reply[c].kind = "total" => req[c].op = "finalize"

\* Only a call that went through sink.send is in the channel.
SinkInv ==
  \A c \in Range(sink) : stage[c] \in {"sent", "replied", "cancelled"}

\* The registry holds sessions that were issued and not yet finalized.
RegistryInv ==
  \A s \in DOMAIN sessions : s \in Issued /\ Finalized(s) = {}

\* The inductive invariant of Spec.
IInv ==
  /\ TypeOK /\ Backpressure
  /\ CallInv /\ SinkInv /\ RegistryInv
  /\ CountIsAcks /\ TotalsAreFinal
  /\ AckedIsQueued /\ ScreenedSink /\ FailedIsUndelivered

\* How the ledger is read off the server's state.
LedgerStatus ==
  [s \in Calls |-> IF s \in DOMAIN sessions THEN "open"
                   ELSE IF s \in Issued THEN "closed" ELSE "new"]
LedgerCredit ==
  [c \in Calls |-> IF reply[c] = Ack THEN {req[c].session} ELSE {}]
LedgerStatement ==
  [s \in Calls |-> {reply[c].count : c \in Finalized(s)}]

Ledger == INSTANCE TransferLedger WITH
  Accounts <- Calls,
  Items <- Calls,
  status <- LedgerStatus,
  deposits <- sink,
  credit <- LedgerCredit,
  statement <- LedgerStatement

\* The registry, the channel and the answers together keep a ledger: a packet is
\* delivered at most once, credited at most once, only to an open session and
\* only after its delivery, and a session is settled at most once, for exactly
\* what was credited to it.
LedgerSpec == Ledger!Spec

\* finalize is a half-close: no packet of a session enters the channel after the
\* session's finalize was answered with its count.
NothingAfterFinalize ==
  [][\A c \in Calls : c \in Range(sink') \ Range(sink) => Finalized(req[c].session) = {}]_vars

\* Every call that arrives is answered or its promise is dropped, also when the
\* channel is full and other sends are dropped while they wait in front of it.
EveryCallEnds ==
  \A c \in Calls : stage[c] = "arrived" ~> stage[c] \in {"replied", "cancelled"}

\* An acknowledged packet is handed to the owner of the Receiver, even when the
\* connection ends first, unless the owner drops the Receiver.
AckedIsConsumed ==
  \A c \in Calls :
    reply[c] = Ack ~> (c \in Range(SubSeq(sink, 1, taken)) \/ ~rx)
=============================================================================
