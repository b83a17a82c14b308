------------------------------ MODULE Listener ------------------------------
(***************************************************************************)
(* run_server (src/src/transport/server.rs): the accept loop, the local    *)
(* tasks it spawns and the firewall each of them makes.  One thread polls  *)
(* the loop and the tasks (bin/aptp-server.rs runs them in a LocalSet).    *)
(* What happens within a connection is AptpRpcServer's.                    *)
(***************************************************************************)
EXTENDS Integers, Sequences, SequencesExt, FiniteSets

CONSTANTS
  Conns,     \* the connections peers may make
  MaxFiles,  \* the sockets the process may have open
  MaxEdits   \* bound on the changes of the probe file

ASSUME ConnsAssumption == IsFiniteSet(Conns)
ASSUME LimitsAssumption == MaxFiles \in Nat /\ MaxEdits \in Nat

VARIABLES
  loop,      \* "created" (not polled yet), "listening" or "ended"
  conn,      \* where each connection is
  backlog,   \* connections the kernel holds for accept, oldest first
  tasks,     \* spawned tasks that were not polled yet, oldest first
  gone,      \* connections whose peer has left
  file,      \* the probe file: its version, and whether it can be loaded
  asOf,      \* the version of the file when a connection was accepted
  firewall   \* the version of the file its firewall was made from

vars == <<loop, conn, backlog, tasks, gone, file, asOf, firewall>>

Stages == {"none", "queued", "spawned", "serving", "done", "dropped"}

\* The connections the process has a socket and a task for.
Open == {c \in Conns : conn[c] \in {"spawned", "serving"}}
-----------------------------------------------------------------------------
Init ==
  /\ loop = "created"
  /\ conn = [c \in Conns |-> "none"]
  /\ backlog = <<>> /\ tasks = <<>> /\ gone = {}
  /\ file \in [version : {0}, loadable : BOOLEAN]
  /\ asOf = [c \in Conns |-> 0]
  /\ firewall = [c \in Conns |-> 0]

\* The first poll of run_server: the address is parsed and bound, or it is not.
Bind ==
  /\ loop = "created"
  /\ loop' \in {"listening", "ended"}
  /\ UNCHANGED <<conn, backlog, tasks, gone, file, asOf, firewall>>

Connect(c) ==
  /\ loop = "listening" /\ conn[c] = "none"
  /\ conn' = [conn EXCEPT ![c] = "queued"]
  /\ backlog' = Append(backlog, c)
  /\ UNCHANGED <<loop, tasks, gone, file, asOf, firewall>>

\* A peer leaves, before or after it was accepted.
Leave(c) ==
  /\ conn[c] \in {"queued", "spawned", "serving"} /\ c \notin gone
  /\ gone' = gone \cup {c}
  /\ UNCHANGED <<loop, conn, backlog, tasks, file, asOf, firewall>>

\* The probe file is replaced, damaged or mended.  (A configuration without a probe
\* is a file that can be loaded and is never touched.)
Edit(loadable) ==
  /\ file.version < MaxEdits
  /\ file' = [version |-> file.version + 1, loadable |-> loadable]
  /\ UNCHANGED <<loop, conn, backlog, tasks, gone, asOf, firewall>>

\* Fault: the tasks outlive the loop.
EndDetached == loop' = "ended" /\ UNCHANGED <<conn, backlog, tasks, gone, file, asOf, firewall>>

\* run_server returns an error, main returns it, and the LocalSet drops its tasks.
End ==
  /\ loop' = "ended"
  /\ conn' = [c \in Conns |-> IF conn[c] \in {"queued", "spawned", "serving"}
                              THEN "dropped" ELSE conn[c]]
  /\ backlog' = <<>> /\ tasks' = <<>>
  /\ UNCHANGED <<gone, file, asOf, firewall>>

\* Fault: the connection is awaited where it should be spawned.
AcceptInLine ==
  /\ loop = "listening" /\ backlog # <<>> /\ Open = {}
  /\ conn' = [conn EXCEPT ![Head(backlog)] = "spawned"]
  /\ backlog' = Tail(backlog)
  /\ tasks' = Append(tasks, Head(backlog))
  /\ asOf' = [asOf EXCEPT ![Head(backlog)] = file.version]
  /\ UNCHANGED <<loop, gone, file, firewall>>

\* One turn of the loop.
Accept ==
  /\ loop = "listening" /\ backlog # <<>>
  /\ Cardinality(Open) < MaxFiles
  /\ conn' = [conn EXCEPT ![Head(backlog)] = "spawned"]
  /\ backlog' = Tail(backlog)
  /\ tasks' = Append(tasks, Head(backlog))
  /\ asOf' = [asOf EXCEPT ![Head(backlog)] = file.version]
  /\ UNCHANGED <<loop, gone, file, firewall>>

\* accept fails when no socket is left or the peer has left the queue, and
\* set_nodelay on a socket whose peer has reset it.
TurnFails ==
  /\ loop = "listening" /\ backlog # <<>>
  /\ Cardinality(Open) = MaxFiles \/ Head(backlog) \in gone
  /\ End

\* Fault: AptpRpcServer::new moves to the loop, where its error is the loop's.
StartInLoop ==
  /\ tasks # <<>>
  /\ IF file.loadable
     THEN /\ tasks' = Tail(tasks)
          /\ conn' = [conn EXCEPT ![Head(tasks)] = "serving"]
          /\ firewall' = [firewall EXCEPT ![Head(tasks)] = file.version]
          /\ UNCHANGED <<loop, backlog, gone, file, asOf>>
     ELSE End

\* Fault: a task waits until the file can be loaded.
StartRetrying ==
  /\ tasks # <<>> /\ file.loadable
  /\ tasks' = Tail(tasks)
  /\ conn' = [conn EXCEPT ![Head(tasks)] = "serving"]
  /\ firewall' = [firewall EXCEPT ![Head(tasks)] = file.version]
  /\ UNCHANGED <<loop, backlog, gone, file, asOf>>

\* Fault: the firewall is made once and shared by the connections.
StartShared ==
  /\ tasks # <<>>
  /\ tasks' = Tail(tasks)
  /\ conn' = [conn EXCEPT ![Head(tasks)] = "serving"]
  /\ firewall' = [firewall EXCEPT ![Head(tasks)] = 0]
  /\ UNCHANGED <<loop, backlog, gone, file, asOf>>

\* The first poll of handle_connection, in the order of the spawns: the firewall
\* is made from the file as it is now; an error ends this task and is logged.
Start ==
  /\ tasks # <<>>
  /\ tasks' = Tail(tasks)
  /\ IF file.loadable
     THEN /\ conn' = [conn EXCEPT ![Head(tasks)] = "serving"]
          /\ firewall' = [firewall EXCEPT ![Head(tasks)] = file.version]
     ELSE /\ conn' = [conn EXCEPT ![Head(tasks)] = "done"]
          /\ UNCHANGED firewall
  /\ UNCHANGED <<loop, backlog, gone, file, asOf>>

\* rpc_system.await ends, with an error or without, when the peer has left.
Finish(c) ==
  /\ conn[c] = "serving" /\ c \in gone
  /\ conn' = [conn EXCEPT ![c] = "done"]
  /\ UNCHANGED <<loop, backlog, tasks, gone, file, asOf, firewall>>

Next ==
  \/ Bind \/ Accept \/ TurnFails \/ Start
  \/ \E c \in Conns : Connect(c) \/ Leave(c) \/ Finish(c)
  \/ \E l \in BOOLEAN : Edit(l)

Spec == Init /\ [][Next]_vars

\* The executor polls the loop and the tasks; nothing obliges peers or the file.
FairSpec ==
  /\ Spec
  /\ WF_vars(Accept \/ TurnFails)
  /\ WF_vars(Start)
  /\ \A c \in Conns : WF_vars(Finish(c))
-----------------------------------------------------------------------------
(* Properties *)

\* Every variable has its type, and where no loop runs nothing is queued or served.
TypeOK ==
  /\ loop \in {"created", "listening", "ended"}
  /\ conn \in [Conns -> Stages]
  /\ backlog \in Seq(Conns) /\ tasks \in Seq(Conns)
  /\ gone \subseteq Conns
  /\ file \in [version : Nat, loadable : BOOLEAN]
  /\ asOf \in [Conns -> Nat] /\ firewall \in [Conns -> Nat]
  /\ loop # "listening" => backlog = <<>> /\ tasks = <<>> /\ Open = {}

\* A connection is screened by the probe file as it was at some moment since it was
\* accepted, however long its task waited for its first poll (server.rs:48).
ProbeIsCurrent ==
  \A c \in Conns : conn[c] = "serving" => firewall[c] \in asOf[c]..file.version

\* What fails in one connection (its probe, its RPC) ends it alone: others end
\* with it only when the loop does, for want of a socket or because a peer left
\* before it was served (server.rs:19, 22, 29).
Contained ==
  [][\A c \in Open : conn'[c] # conn[c] =>
       \/ \A d \in Conns \ {c} : conn'[d] = conn[d]
       \/ backlog # <<>> /\ (Cardinality(Open) = MaxFiles \/ Head(backlog) \in gone)]_vars

\* Every peer that connects is served, refused for the probe's sake, or dropped with
\* the process; no connection keeps the others waiting.
EveryPeerTaken == \A c \in Conns : conn[c] = "queued" ~> conn[c] \notin {"queued", "spawned"}

\* The socket of a peer that has left is given back.
SocketsReturn == \A c \in Conns : c \in gone ~> c \notin Open
=============================================================================
