----------------------------- MODULE AptpClient -----------------------------
(***************************************************************************)
(* One AptpClient (src/src/transport/client.rs) at the other end of the    *)
(* connection of an AptpRpcServer.  handshake and send_primitive borrow    *)
(* the client mutably and finalize consumes it, so at most one call is     *)
(* pending; its future may be dropped before the answer comes (a timeout   *)
(* around it, a select), and the RPC system then sends a Finish for it.    *)
(* Calls and Finishes travel in order; answers are read from the server.   *)
(***************************************************************************)
EXTENDS AptpRpcServer

VARIABLES
  session,           \* AptpClient.session_id; NoSession stands for None
  consumed,          \* finalize() took the client by value
  sequence_counter,  \* AptpClient.sequence_counter
  pending,           \* the call that is awaited: a set of at most one
  asked,             \* the calls made, in order
  seen,              \* the calls whose answer the client read
  unanswered,        \* the calls that ended without an answer
  wire               \* what the RPC system sent and the server has not read

clientVars ==
  <<session, consumed, sequence_counter, pending, asked, seen, unanswered, wire>>
allVars == <<vars, clientVars>>

Message ==
  [kind : {"call"}, call : Calls, body : Requests]
    \cup [kind : {"finish"}, call : Calls]

\* The sessions a handshake gave the client.
Learned == {c \in seen : c \in Issued}
-----------------------------------------------------------------------------
ClientInit ==
  /\ Init
  /\ session = NoSession
  /\ consumed = FALSE
  /\ sequence_counter = 0
  /\ pending = {}
  /\ asked = <<>>
  /\ seen = {}
  /\ unanswered = {}
  /\ wire = <<>>

\* request.send(): the call goes on the wire and its promise is awaited.
Ask(c, r) ==
  /\ pending = {} /\ c \notin Range(asked)
  /\ pending' = {c}
  /\ asked' = Append(asked, c)
  /\ wire' = Append(wire, [kind |-> "call", call |-> c, body |-> r])
  /\ UNCHANGED <<seen, unanswered, vars>>

\* Fault: set_aptp_version is forgotten; an unset field of the card reads as 0.
AskHandshakeUnversioned(c, version, hidden) ==
  /\ ~consumed
  /\ Ask(c, [op |-> "handshake", version |-> 0, hidden |-> hidden])
  /\ UNCHANGED <<session, consumed, sequence_counter>>

AskHandshake(c, version, hidden) ==
  /\ ~consumed
  /\ Ask(c, [op |-> "handshake", version |-> version, hidden |-> hidden])
  /\ UNCHANGED <<session, consumed, sequence_counter>>

\* The application fills in the packet's session: one it was given, or another.
AskSend(c, s, payload) ==
  /\ ~consumed /\ session # NoSession
  /\ s \in Learned \cup {NoSession}
  /\ sequence_counter' = sequence_counter + 1
  /\ Ask(c, [op |-> "stream", session |-> s, payload |-> payload])
  /\ UNCHANGED <<session, consumed>>

\* Fault: finalize(&self), which reads session_id where it should take it.
AskFinalizeByRef(c) ==
  /\ ~consumed /\ session # NoSession
  /\ Ask(c, [op |-> "finalize", session |-> session])
  /\ UNCHANGED <<session, consumed, sequence_counter>>

AskFinalize(c) ==
  /\ ~consumed /\ session # NoSession
  /\ session' = NoSession
  /\ consumed' = TRUE
  /\ Ask(c, [op |-> "finalize", session |-> session])
  /\ UNCHANGED sequence_counter

\* finalize() without a session is an error, and the client is gone as well.
FinalizeUnopened ==
  /\ ~consumed /\ session = NoSession /\ pending = {}
  /\ consumed' = TRUE
  /\ UNCHANGED <<vars, session, sequence_counter, pending, asked, seen, unanswered, wire>>

\* Fault: the session is adopted before the status of the answer is looked at.
ReceiveUnchecked(c) ==
  /\ c \in pending /\ stage[c] = "replied"
  /\ pending' = {}
  /\ seen' = seen \cup {c}
  /\ session' = IF reply[c].kind = "handshake" THEN c ELSE session
  /\ UNCHANGED <<vars, consumed, sequence_counter, asked, unanswered, wire>>

\* The answer arrives, the last ones perhaps after the server is gone.  A session
\* is adopted unless the handshake was rejected; an earlier one is forgotten.
Receive(c) ==
  /\ c \in pending /\ stage[c] = "replied"
  /\ pending' = {}
  /\ seen' = seen \cup {c}
  /\ session' = IF reply[c].kind = "handshake" /\ reply[c].status # "rejected"
                THEN reply[c].session ELSE session
  /\ UNCHANGED <<vars, consumed, sequence_counter, asked, unanswered, wire>>

\* Fault: no Finish follows a promise that is dropped.
GiveUpSilently(c) ==
  /\ c \in pending
  /\ pending' = {}
  /\ unanswered' = unanswered \cup {c}
  /\ UNCHANGED <<vars, session, consumed, sequence_counter, asked, seen, wire>>

\* The application drops the future of the pending call.
GiveUp(c) ==
  /\ c \in pending
  /\ pending' = {}
  /\ unanswered' = unanswered \cup {c}
  /\ wire' = Append(wire, [kind |-> "finish", call |-> c])
  /\ UNCHANGED <<vars, session, consumed, sequence_counter, asked, seen>>

\* The connection was lost: the pending promise fails.
Lost(c) ==
  /\ c \in pending /\ ~up
  /\ pending' = {}
  /\ unanswered' = unanswered \cup {c}
  /\ UNCHANGED <<vars, session, consumed, sequence_counter, asked, seen, wire>>
-----------------------------------------------------------------------------
(* The server end *)

\* The server's RPC system reads the next message.  A Finish for a call that was
\* answered already changes nothing.
Accept ==
  /\ up /\ wire # <<>>
  /\ wire' = Tail(wire)
  /\ LET m == Head(wire) IN
       \/ m.kind = "call" /\ Arrive(m.call, m.body)
       \/ m.kind = "finish" /\ Cancel(m.call)
       \/ m.kind = "finish" /\ stage[m.call] \notin InProgress /\ UNCHANGED vars
  /\ UNCHANGED <<session, consumed, sequence_counter, pending, asked, seen, unanswered>>

ServerStep ==
  /\ \/ \E c \in Calls : Handle(c)
     \/ Disconnect
     \/ Consume
     \/ DropReceiver
  /\ UNCHANGED clientVars

ClientStep ==
  \/ \E c \in Calls, v \in Versions, h \in HiddenSizes : AskHandshake(c, v, h)
  \/ \E c \in Calls, s \in SessionIds, p \in Payloads : AskSend(c, s, p)
  \/ \E c \in Calls : AskFinalize(c)
  \/ FinalizeUnopened
  \/ \E c \in Calls : Receive(c) \/ GiveUp(c) \/ Lost(c)

ClientNext == ClientStep \/ Accept \/ ServerStep

ClientSpec == ClientInit /\ [][ClientNext]_allVars

\* Both RPC systems are polled, the network delivers or fails, and the owner of
\* the Receiver goes on receiving until it drops it.
FairClientSpec ==
  /\ ClientSpec
  /\ \A c \in Calls : WF_allVars(Handle(c) /\ UNCHANGED clientVars)
  /\ WF_allVars(Consume /\ UNCHANGED clientVars)
  /\ WF_allVars(Accept)
  /\ \A c \in Calls : WF_allVars(Receive(c) \/ Lost(c))
-----------------------------------------------------------------------------
(* Properties *)

\* Every variable of the client has its type.
ClientTypeOK ==
  /\ session \in SessionIds
  /\ consumed \in BOOLEAN
  /\ sequence_counter \in Nat
  /\ pending \subseteq Calls
  /\ asked \in Seq(Calls)
  /\ seen \subseteq Calls
  /\ unanswered \subseteq Calls
  /\ wire \in Seq(Message)

\* The session the client holds is open on the server for as long as the
\* connection lives, through rejected or repeated handshakes, sends that were
\* given up and answers still on their way.
SessionIsLive == up /\ session # NoSession => session \in DOMAIN sessions

\* As long as the Receiver lives, a packet that passes the firewall and names a
\* session the client was given is answered with ack = true, if it is answered.
AdmissibleIsAcked ==
  rx => \A c \in seen :
          req[c].op = "stream" /\ req[c].payload \in Admissible
            /\ req[c].session # NoSession => reply[c] = Ack

\* The demo client (bin/aptp-client.rs) asserts that every packet it sends in the
\* session of its handshake is acknowledged.
DemoSendsAcked ==
  \A c \in seen :
    req[c].op = "stream" /\ req[c].payload \in Admissible /\ req[c].session # NoSession
      => reply[c] = Ack

Delivered(s) == {c \in Range(sink) : req[c].session = s}

\* What the receivedCount of finalize tells the client: all the acks it saw are in
\* it, it counts nothing that was not sent and delivered, and it falls short of
\* what was delivered by no more than the sends that were given up.
TotalAccounts ==
  \A f \in seen : reply[f].kind = "total" =>
    LET s == req[f].session
        n == reply[f].count
    IN /\ Cardinality(Acked(s) \cap seen) <= n
       /\ n <= sequence_counter
       /\ n <= Cardinality(Delivered(s))
       /\ Cardinality(Delivered(s)) <= n + Cardinality(Delivered(s) \cap unanswered)

\* c is somewhere before d in the sequence q.
Before(q, c, d) == \E k, l \in 1..Len(q) : k < l /\ q[k] = c /\ q[l] = d

\* The packets reach the owner of the Receiver in the order they were sent, also
\* when some of the sends were given up while the channel was full.
SentInOrder == \A i, j \in 1..Len(sink) : i < j => Before(asked, sink[i], sink[j])

\* A call that is made is answered, given up, or fails with the connection.
CallsResolve == \A c \in Calls : c \in pending ~> c \in seen \cup unanswered
-----------------------------------------------------------------------------
(* The inductive invariant of ClientSpec, next to the server's *)

CallAt(q, i) == q[i].kind = "call"
FinishAt(q, i, c) == q[i].kind = "finish" /\ q[i].call = c

\* What the server did for a call, whoever the peer is.
ServedInv ==
  /\ \A c \in Calls :
       /\ stage[c] = "idle" => req[c].op = "none"
       /\ ~up => stage[c] \notin InProgress
       /\ reply[c].kind = "handshake" =>
            /\ req[c].op = "handshake"
            /\ reply[c].status # "rejected" => reply[c].session = c
       /\ reply[c].kind = "total" => req[c].session \in Issued
  /\ up => \A s \in Issued : s \in DOMAIN sessions \/ Finalized(s) # {}

\* Whatever is known of a call, it was asked; a call that was asked is awaited or over,
\* and at most one is awaited.
AskedInv ==
  /\ pending \subseteq Range(asked) /\ \A c, d \in pending : c = d
  /\ \A c \in Calls : stage[c] # "idle" => c \in Range(asked)
  /\ \A i \in 1..Len(wire) : wire[i].call \in Range(asked)
  /\ Range(asked) \subseteq pending \cup seen \cup unanswered
  /\ \A c \in seen : stage[c] = "replied"

\* The client forgets its session when it asks to finalize it, and asks no more.
SessionInv ==
  /\ session # NoSession => session \in Issued
  /\ consumed =>
       /\ session = NoSession
       /\ \A c \in pending :
            /\ req[c].op \in {"none", "finalize"}
            /\ \A i \in 1..Len(wire) : CallAt(wire, i) /\ wire[i].call = c =>
                 wire[i].body.op = "finalize"
  /\ ~consumed =>
       /\ \A c \in Calls : req[c].op # "finalize"
       /\ \A i \in 1..Len(wire) : CallAt(wire, i) => wire[i].body.op # "finalize"

\* On the wire a call is new to the server, and a call that is given up is
\* finished before the next one is made.
WireInv ==
  up =>
    /\ \A i \in 1..Len(wire) : CallAt(wire, i) =>
         /\ stage[wire[i].call] = "idle"
         /\ \/ wire[i].call \in pending
            \/ \E k \in 1..Len(wire) : i < k /\ FinishAt(wire, k, wire[i].call)
         /\ \A j \in 1..Len(wire) : i < j /\ CallAt(wire, j) =>
              /\ wire[j].call # wire[i].call
              /\ \E k \in 1..Len(wire) : i < k /\ k < j /\ FinishAt(wire, k, wire[i].call)
    /\ \A c \in Calls : stage[c] \in InProgress =>
         /\ c \in pending \/ \E k \in 1..Len(wire) : FinishAt(wire, k, c)
         /\ \A j \in 1..Len(wire) : CallAt(wire, j) =>
              \E k \in 1..Len(wire) : k < j /\ FinishAt(wire, k, c)

\* At most one call is in progress.
OneInv ==
  \A c, d \in Calls : stage[c] \in InProgress /\ stage[d] \in InProgress => c = d

\* finalize is the last call, and nothing else is in progress once it has arrived.
LastInv ==
  /\ \A i, j \in 1..Len(wire) :
       CallAt(wire, i) /\ wire[i].body.op = "finalize" /\ i < j => ~CallAt(wire, j)
  /\ (\E f \in Calls : req[f].op = "finalize") =>
       /\ \A i \in 1..Len(wire) : up => ~CallAt(wire, i)
       /\ \A c \in Calls : stage[c] \in InProgress => req[c].op = "finalize"

\* Calls arrive, and their packets enter the channel, in the order they were asked.
OrderInv ==
  /\ \A j \in 1..Len(wire) : CallAt(wire, j) =>
       /\ \A i \in 1..Len(wire) :
            i < j /\ CallAt(wire, i) => Before(asked, wire[i].call, wire[j].call)
       /\ \A c \in Calls : up /\ stage[c] # "idle" => Before(asked, c, wire[j].call)
  /\ \A e \in Range(sink), c \in Calls :
       stage[c] \in InProgress /\ c \notin Range(sink) => Before(asked, e, c)
  /\ SentInOrder

\* A stream call of an issued session that was answered was acknowledged, if its
\* packet entered the channel or if it could.
AckInv ==
  \A c \in Calls :
    stage[c] = "replied" /\ req[c].op = "stream" /\ req[c].session # NoSession =>
      /\ c \in Range(sink) => reply[c] = Ack
      /\ rx /\ req[c].payload \in Admissible => reply[c] = Ack

\* The stream calls that were made.
Streamed ==
  {c \in Calls : \/ req[c].op = "stream"
                 \/ \E i \in 1..Len(wire) :
                      CallAt(wire, i) /\ wire[i].call = c /\ wire[i].body.op = "stream"}
CounterInv == Cardinality(Streamed) <= sequence_counter

\* The inductive invariant of ClientSpec.
ClientIInv ==
  /\ IInv /\ ClientTypeOK /\ ServedInv /\ AskedInv /\ SessionInv /\ WireInv
  /\ OneInv /\ LastInv /\ OrderInv /\ AckInv /\ CounterInv
=============================================================================
