# A TLA+ model of APTP

APTP (`src/`, a Rust crate over Cap'n Proto RPC) lets one model-serving agent
stream internal tensors, *primitives*, to another: the two shake hands, the
server says whether their hidden sizes are compatible, packets are streamed into
a bounded queue that the embedding application drains, and a final call settles
how many packets were received.

This directory holds TLA+ modules translated from that source, TLC
configurations that check them on small instances, and theorems about them
proved with TLAPS. Paths below are relative to the repository (`src/src/rpc/mod.rs`
is `rpc/mod.rs` in the text).

## Inventory

| component | state | operations | who it talks to |
|---|---|---|---|
| **RPC server** (`rpc/mod.rs`, `rpc/handshake.rs`, `rpc/stream.rs`, `transport/server.rs`) | `SessionRegistry.sessions` (id → `received_count`, adapter) behind an async mutex; the bounded channel of `PacketSink`; one future per outstanding call | `handshake`, `streamPrimitive`, `finalize`, `negotiateAlignment` | the peer (calls, answers, Finish, loss of the connection); the owner of the channel's `Receiver` |
| **Client** (`transport/client.rs`, `bin/aptp-client.rs`) | `session_id`, `sequence_counter`, the promise it awaits | `connect_to`, `handshake`, `send_primitive`, `finalize` | the server |
| **Listener** (`transport/server.rs`, `bin/aptp-server.rs`) | the listening socket, the queue of the kernel, the local tasks, the probe file each connection reads anew | bind, accept, spawn, start and end a connection | one server object and one firewall per connection |
| **Firewall** (`validation/gate.rs`, `validation/probe.rs`) | a frozen safety vector; a constitutional vector and `min_score` | `check`, `score` | called by `stream::handle` |
| **Primitives** (`primitives.rs`, `schemas/aptp.capnp`) | none | Cap'n Proto conversions, `provenance_hash`, `verify_provenance` | client, server |
| **Alignment** (`rpc/negotiate.rs`, `adapter/`) | a seed counter | `negotiate`, `from_spec`, `adapt` | called by the server; its answer is for the client |
| **Backend** (`backend/llama.rs`, `include/aptp_llama_shim.c`) | `n_past`, the native handle; the flag `g_aptp_backend_initialized`, shared by all threads | `new`, `infer`, `snapshot_to_packet`, drop | llama.cpp; the application that sends the packets |
| configuration, errors, build script, benches, tests | none | – | – |

What is hard here:

* **Interleaving on one connection.** The handlers are futures on one thread; they
  can be switched at `sink.send(..).await` and at `sessions.lock().await`. The
  interface does not order the calls: a peer may pipeline as many as it likes.
  `stream::handle` sends first and counts second, so a `finalize` (or the end of
  the connection) can come between.
* **Back-pressure.** The channel is bounded; a send waits for a permit, permits are
  dealt in order of arrival, a waiting send can be dropped.
* **Cancellation.** Dropping a promise at the client sends a Finish, which drops the
  handler's future wherever it stands: before the send, in the queue, or after the
  packet is delivered but before it is counted.
* **Partial failure.** The packet may be in the channel although the call
  failed; the connection may end with packets still queued; the Receiver may be gone.
* **Repeated and stale sessions.** A client may shake hands again, be rejected, send
  in an older session, lose the answer of a handshake whose session exists all the same.
* **Inference.** A forward pass advances the position in the cache before the
  results are read; reading can fail, leaving the position advanced. States, cache and
  position are captured by separate calls. Threads that load their first model together
  share one flag; each of the three allocations of a load may fail.
* **One loop for all connections.** An error of `accept` or `set_nodelay` ends `run_server` and
  every connection with it; any other error of a connection ends that one. Each connection
  makes its own firewall, from the probe file as it is at that moment.

What makes each component correct is stated by the properties below; what no property covers
is named at the end.

## The modules

| module | what it models |
|---|---|
| `AptpRpcServer` | one server object on one connection: registry, channel, the futures of all calls, the end of the connection, the Receiver's owner |
| `TransferLedger` | the abstract specification of what the server promises: accounts that are opened and settled, items that are deposited at most once and credited at most once |
| `AptpClient` | `AptpRpcServer` with one `AptpClient` at the other end and the wire between them |
| `DotProduct` | the sum of the products of two float lists, which the firewall and the adapters compute |
| `Adapters` | the handshake's verdict on two hidden sizes, `from_spec` and the two adapters, as operators; extended by `AptpRpcServer` and `Alignment` |
| `Alignment` | an agent that goes from the verdict or from `negotiateAlignment` to an adapter and applies it |
| `Firewall` | the probe that is read from a file and the verdict on a payload |
| `Primitives` | a card and a packet on their way from the client's memory through a message to the owner of the Receiver, and what its tag says of it there |
| `Listener` | the accept loop, the connections' tasks up to the firewall each makes, and the end of the process |
| `LlamaBackend` | `infer` with each call of the shim failing, the context behind it, and the packet made of a snapshot |
| `LlamaShim` | threads that load and drop models behind one initialisation flag |
| `MCAptpRpcServer`, `MCAptpClient`, `MCAlignment`, `MCFirewall`, `MCPrimitives`, `MCListener`, `MCLlamaBackend`, `MCLlamaShim` | small instances for TLC |
| `AptpProofs` (server and client), `DotProductProofs`, `AlignmentProofs`, `FirewallProofs`, `PrimitivesProofs`, `ListenerProofs`, `LlamaBackendProofs`, `LlamaShimProofs` | theorems |

`AptpClient` extends `AptpRpcServer`, which extends `Adapters` and instantiates `TransferLedger`. The
other modules meet them in a parameter: the verdict of `Firewall` is `Admissible` of
`AptpRpcServer`, a connection that is `serving` in `Listener` is one `AptpRpcServer`, and the packet of
`LlamaBackend` is one of the packets of `Primitives`.

### AptpRpcServer

*State.* `sessions` is `SessionRegistry.sessions`. `sink` is the history of the
channel (the calls whose packets entered it, in order) and `taken` how many of
them were received, so the channel holds `Len(sink) - taken`. `waiters` is
tokio's queue for permits. `stage[c]` is where the future of call `c` stands:
`arrived` (dispatched, not yet past its first await), `waiting` (in `sink.send`),
`sent` (packet in the channel, lock not yet taken), `replied`, `cancelled`.
`req` and `reply` are the call and its answer. `rx` says whether the Receiver lives,
`up` whether the connection does.

*Identities.* `open()` names a session by a fresh UUIDv4. In the model the id *is*
the handshake call that opened it, which states its freshness. `NoSession` is an id
this server never issued. A call is used once; a finite `Calls` is the bound
on the length of a behaviour and no other counter needs one.

*Granularity.* An action is the code between two awaits. `Handshake` and `Finalize`
are one action because the lock is the last await and all they do lies behind it
(the lock is never held across an await, so waiting for it is waiting for a poll).
`StreamPrimitive` runs from the dispatch to the send; if a permit is free the send
completes in that poll; `ResumeSend` is a waiter that got a permit or met the closed channel;
`CountPacket` is the lock, the count and the answer. The lock (and tokio's cooperative budget, which can
suspend any await) separates `CountPacket` from the send. Every future may be polled
in any order: Cap'n Proto dispatches calls in order of arrival, but each is a promise of its own, and the
registry and the sink are public (`rpc/mod.rs`), so the embedder may share them.

*Permits.* `Send` takes the direct path only if a permit is left beyond those owed to
the waiters, and the first `Free` waiters may go on in any order, as tokio assigns
permits to waiters in order but polls them as the executor likes.

*Surroundings.* `Cancel` is the Finish of a dropped promise. `Disconnect` drops all
futures and the registry; the channel survives with the Receiver. `Consume` and
`DropReceiver` are the owner of the Receiver. `KeepReceiver` is a parameter because
`AptpRpcServer::new` drops the Receiver it creates (`rpc/mod.rs`: `let (sink, _rx) = PacketSink::new(..)`); an
embedder that wants the packets builds the server from its public fields and keeps the
Receiver (`TRUE`); the server the repository ships is `FALSE`.

*Abstracted.* A card is its version and hidden size. A payload is a model value, and
`Admissible` those that decode and that the firewall lets through. The provenance
check of `stream.rs` compares a hash with the one just computed from the same
packet: it always passes, and the model has no branch for it. `negotiateAlignment` changes no state of
the server. The connection stays usable after `finalize`.

### AptpClient

`session` is `session_id`, `pending` the promise in flight (at most one, since
`handshake` and `send_primitive` take `&mut self` and `finalize` takes `self`), `wire` what
the server has not read yet. `GiveUp` is the drop of a future, as by a
timeout around it. `finalize` takes the session id and the client, so nothing is asked
after it. Card fields come from the caller: the version is any of `Versions`. The
session of a packet is filled in by the application, which may name any
session it was given, or a foreign one.

### TransferLedger

Accounts go new → open → closed; `deposits` is the queue; `credit` says which item
was credited to which account; `statement` the amounts settled. Deposit, credit and
settlement are separate steps; an item is deposited once, credited once,
only to an open account and only after its deposit; settling closes the account and states exactly its credits.
`AptpRpcServer` implements it under the mapping `LedgerStatus`, `LedgerCredit`, `LedgerStatement`.

### Adapters and Alignment

`from_spec` and `adapt` are operators that yield a set: the adapter or the vector, or
nothing where the code returns an error. Entries and weights are integers, and the factor of `NormMatchAdapter`
(a quotient with a square root) is kept as the square of itself, a fraction, so that all
comparisons are exact; f32 rounding is left out, and 1e-9, the
threshold below which a vector counts as zero, becomes zero. The random weights of
`kaiming_uniform_weights` are any weights. In `Alignment` an agent of any hidden size learns the verdict of a
handshake and follows it or negotiates; it may ask for sizes that are neither its own nor the
server's. `FollowVerdict`, `Build` and `Adapt` are steps of the embedding application: nothing
in the repository calls `from_spec`, and no vector on its way to the sink is adapted.

### Firewall

`ReadLine` is one turn of the loop of `SafetyProbe::load`, `Build` and `Fail` its ends;
`Init` also starts without a probe file. The centroid is kept as the sum of the lines: the code divides it by the number of lines and by its norm,
neither of which changes a cosine. The cosine is kept as its signed square, a fraction, and compared with the signed square
of the minimum. `Validate` checks the parts of a payload; its verdict `ok` is
what `Admissible` is in `AptpRpcServer`. Entries are integers: NaN, infinities and rounding are left out.

### Primitives

The life of one packet: the client introduces itself with the card `new_from_config` makes, the
application sends a packet (`Send`, written field by field by `send_primitive`), or a foreign
peer sends a message with an unknown union or a text that is no UTF-8 (`SendForeign`);
`Receive` is `stream::handle` up to the sink, with the firewall's verdict left open; the owner of
the Receiver stores the packet with `packet_to_bytes` and loads it with `packet_from_capnp`
(`Store`, `Load`), changes an entry, as the test of `primitives.rs` does, or verifies the tag.
Texts, fingerprints and floats are sequences over `Byte`; a SHA-256 hash is the
sequence it is taken of, that is, free of collisions. What it covers is modelled as in the code: the sender and the
fingerprint, one behind the other, and a prefix of the vector or of a cache's keys; a cache's
values, the shape and the metadata are not covered.

### Listener

`loop` is where `run_server` is, `conn` where each connection is: in the kernel's queue (`queued`), accepted and spawned, its
task polled for the first time (`serving`, or `done` if its firewall could not be made), ended, or dropped with the process.
`Accept` is a whole turn of the loop (accept, `set_nodelay`, `spawn_local`), `Start` the first poll of
`handle_connection`, `Finish` its end, `TurnFails` the errors of `accept` and `set_nodelay`, which leave the loop through `?`.
`main` awaits the loop inside a `LocalSet`, so all tasks go with it (`End`). The probe file is a version and whether
it can be loaded; a configuration without a probe is a file that is never touched. `accept` is taken to fail when the process has
`MaxFiles` sockets, and may fail when the peer at the head of the queue has left; both are the system's.

### LlamaBackend and LlamaShim

llama.cpp is external and modelled by what the code relies on: a decode that succeeds puts its tokens behind
`n_past`; one that fails may leave some of them there. `cells` is that context, `fed` the history of the
tokens that were decoded. `DecodeFails`, `NoLogits`, `Infer` and `InferPanics` are the ways
`infer` ends, in the order of its early returns. A hidden state is its layer and its position, a cache its layer and
dimensions; `patched` says whether the llama.cpp behind the shim has the two extensions of `llama_ext.h` or the weak stubs that have
nothing. Any set of layers of `Missing` may lack a state.

In `LlamaShim` an action is one call of the library or one atomic operation. A thread is a `LlamaCppBackend` that is made
and dropped; `Guard` is the `atomic_exchange`, `BackendInit` the return of `llama_backend_init`, and the ends of
`LoadModel`, `NewContext` and `Alloc` are the three NULLs `aptp_load_model` can meet.

## Runs

All runs use `CHECK_DEADLOCK FALSE`: calls, connections, loads, lines and batches are finite and a peer may stop, so a
behaviour may end.

| run | what it asks | bounds | result |
|---|---|---|---|
| `server_safety` | do counts, totals, acks and the channel agree, whatever is suspended, dropped or lost, and does the server implement `TransferLedger`? | 5 calls, capacity 2, one good and one bad payload, two versions, symmetric calls | holds |
| `server_live` | does every call end, and does every acknowledged packet reach the Receiver? | 3 calls, capacity 1, two hidden sizes, no symmetry | holds |
| `client_safety` | is the client's session live, are its packets acknowledged and in order, does the total account for what was delivered, is finalize a half-close for this client? | 4 calls, capacity 1, symmetric calls | holds |
| `client_live` | does every call of the client resolve? | 3 calls, capacity 1 | holds |
| `alignment` | can what is negotiated be built, and does it produce the right size, use every weight and forget the norm? | sizes 0..3, server size 2, two weights, three entries | holds |
| `firewall` | is the probe the centroid of its lines, and does the gate refuse what points against it or exceeds the norm in any part? | up to 3 lines, 8 vectors of length 0 to 2, minimum -1/2 | holds |
| `primitives` | is what the owner holds what was sent, does its tag say so, does the server know the client's card? | vectors of up to 3 entries with 2 of them hashed, caches of up to 2 keys and values with 1 key hashed, one change | holds |
| `listener` | does a connection fail alone, is its probe no older than its accept, is every peer taken and every socket given back? | 3 connections, 2 sockets, 2 edits of the file | holds |
| `backend` | do `n_past` and the context agree after any failure, is a snapshot of one moment, does a packet name its layer? | 3 positions, batches of up to 2, models of 1 and 3 layers, any layer missing, a model without heads | holds |
| `shim` | is the library initialised once, does nothing leak, does no context outlive its model? | 3 threads, 2 loads each | holds |
| `as_built_demo` | does the shipped server acknowledge the demo client's packets? | 3 calls, `KeepReceiver = FALSE` | violated |
| `half_close` | does finalize end the session for any peer? | 4 calls | violated |

*Why the bounds are enough.* The interesting cases of the server need a handshake, two streams that compete
and a finalize: four calls, with one more to overtake or be dropped. Capacity 2 with five calls
makes one call wait behind a full channel with another already in it; capacity 1 makes two wait in
line. Two versions make handshakes that open and handshakes that are rejected; two hidden sizes give both
verdicts of an accepted one. A projection between sizes 2 and 3 in both directions
has rows shorter and longer than columns. Lists of up to three entries
are empty, shorter than the hashed prefix, as long, and longer. Three connections are one more than the sockets, and one to fail next to one
that serves. Two edits damage the file and mend it. A context of three positions is filled by a batch of two and one of one,
and refuses another. With three threads one can be in `llama_backend_init`, one past the guard and one loaded.

*Symmetry* permutes calls, and is used only where no liveness property is checked.

*Fairness.* `FairSpec` of `AptpRpcServer` has weak fairness of each call's handler (an executor polls a future that
was woken) and of `Consume` (an owner of the Receiver that keeps it goes on reading it; the code
has no timeout on `sink.send`, so without that a call may wait for ever, and `DropReceiver` is always open to it).
Nothing obliges the peer, the connection, or an application that gives up. `FairClientSpec` adds that
messages are read (`Accept`) and that an answer, or the loss of the connection, reaches the
promise (`Receive`, `Lost`). `FairSpec` of `Listener` has weak fairness of a turn of the loop, of the first poll of a task and
of the end of a connection whose peer has left, all of which the one executor polls; no peer and no edit of the file is obliged to come.

## What the violated runs show

* `as_built_demo`: `AptpRpcServer::new` drops the Receiver at once, so every send fails and
  `streamPrimitive` answers an error; `bin/aptp-client.rs:32` asserts an ack. All other runs
  assume an embedder that keeps the Receiver.
* `half_close`: the repository's README (line 275) calls finalize a graceful half-close. `stream::handle` sends before
  it looks up the session, so a packet of a finalized session still reaches the Receiver.
  The run shows a peer that streams after finalize or pipelines. The
  client of the repository cannot do it: `client_safety` checks the same property, it holds, and it is proved.

Observed while reading, in the models as the code has it, and not the subject of a run:

* `from_spec` builds `NormMatchAdapter` with norm 1 for `Identity`, which the
  README (line 331) describes as a no-op passthrough. `NormIsMatched` states what the code does.
* The README (line 314) says that an empty `agent_id` is replaced by a generated one.
  `AgentCard::new_from_config` does so for the card; the demo client's packets and the server's own card carry
  the empty one.
* `MEMORY.md:38` says that the `ManifoldAdapter` is invoked; no code outside the tests calls `from_spec` or `adapt`.
* The sessions of handshakes that were given up or replaced stay in the registry until the connection ends.
* Nothing resets `n_past`: once the context is full, `infer` fails until the backend is dropped.
* `infer` divides by `n_head` when a patched llama.cpp returns a cache, and panics for a model without heads;
  `backend/mod.rs:34` says that it must not panic (`InferPanics`).
* With embeddings enabled a snapshot holds the hidden state of the final layer only, also with a patched llama.cpp, for which
  `backend/mod.rs:15` says one vector per layer.
* A packet that falls back to the logits states the dimensions `[1, hidden_size]`, for a vector with an entry
  per word of the vocabulary (`backend/mod.rs:11`).
* A thread that finds the flag set loads its model although `llama_backend_init` may not have returned in the thread that set it
  (`aptp_llama_shim.c:50`); `ready` is FALSE there.
* `LlamaCppBackend` holds a raw pointer and is not `Send`,
  as the trait `PrimitiveExtractor: Send` (`backend/mod.rs:38`) requires, so the crate does not build with the
  feature `backend-llama`. The modules are of the code as it is written.

## Proofs

`AptpProofs` proves of `AptpRpcServer`, for every finite set of calls, every capacity of at least one, all sets of
versions, sizes and payloads, and with or without a Receiver:

* `TypeCorrect`, and `Invariance`: `IInv` is inductive. The safety properties are not inductive alone.
  `CountIsAcks` needs to know that an acknowledged call names a session that was issued and whose handshake was answered
  (`CallInv`), `TotalsAreFinal` that a session once drained is not in the registry again
  (`RegistryInv`: it holds only sessions issued and not finalized), and `AckedIsQueued`
  that only a call past its send is in the channel (`SinkInv`) and that a call at stage `sent` is in it.
  The proof has a lemma per action, and under it one step per conjunct that the action touches.
* `BackpressureHolds`, `CountsHold`, `TotalsHold`, `AcksHold`, `ScreeningHolds`,
  `FailuresHold`: the safety properties, from `IInv`.
* `LedgerRefinement`: every step of the server maps to a step of the ledger or a stutter.

Of `AptpClient` it proves, for the same constants and however many calls are made and given up:

* `ClientTypeCorrect` and `ClientIsAPeer`: with a client at the other
  end the server still satisfies its own `Spec`, so that the theorems above hold of the composed
  system; `ClientLedger` states this of the ledger.
* `ClientInvariance`: `ClientIInv` is inductive. It adds to `IInv` what this peer, and no other, keeps to. A call that is given
  up is finished on the wire before the next one follows (`WireInv`), so that whenever the server reads a call no other is in
  progress (`OneInv`), although the server itself would run any number at once. A finalize is the last call the client makes,
  and nothing else is in progress once it has arrived (`LastInv`, `SessionInv`). Calls are read, and their packets enter the channel, in the order they
  were asked (`OrderInv`). A session stays in the registry until it is finalized, whoever the peer is (`ServedInv`), so a stream
  call that is answered was answered within an open session (`AckInv`).
* The argument goes by kinds of step. Of a step of the server only its effect on calls and channel matters (`Frame`,
  established once for every handler by `HandleFrame`); a step of the client appends to the wire or ends the pending call (`AskKeeps`, `GiveUpKeeps`,
  `EndKeeps`); a message that is read shifts the wire by one (`AcceptCall`, `AcceptFinish`).
* `SessionIsLiveHolds`, `AdmissibleIsAckedHolds`, `SentInOrderHolds`, `TotalAccountsHolds` and
  `NothingAfterFinalizeHolds`, from `ClientIInv`. The last is an action property: a packet enters the channel only for a call in
  progress, which after a finalize is no stream call.

`DotProductProofs` is about sums. `SumFunction` of the community modules folds over an order of the domain that is
chosen; `SumOf` shows that its value is that of a function which adds one element after another, in any order, and from it come
the lemmas the proofs about vectors use: a factor moves out of a sum, a sum of squares is not negative, one term that is not zero is the sum,
and one more term adds to it. Induction is on sets: `NaturalsFrom` and `SubsetsFrom` derive it from the existence of a
minimal element in a well-founded order, so that a fact about every length becomes membership of a set. `LlamaBackendProofs`
uses `NaturalsFrom` too.

`AlignmentProofs` proves, for all sizes, weights and entries and from the invariant `AlignInv` (`HoldingInv` says which
spec an adapter came from, how many weights a spec has, and of which adapter and vector the output is):

* `AdaptedFitsHolds` and `RefusedForCauseHolds`.
* `NormIsMatchedHolds`: the output is what the one adapter that is held made of the input (`HeldAdapter`), its norm an
  integer, and doubling a vector multiplies the square of its norm by four (`DoubleIsSame`).
* `EveryWeightCountsHolds`: every weight has a row and a place in it (`WeightHasPlace`, by induction on the rows), and the unit vector of that
  place takes just that weight out of the row (`UnitTakesEntry`, `ProjectsColumn`); two weight vectors that differ, differ at one.

`FirewallProofs` proves, for all probe files, bounds and payloads, from `GateInv`:

* `AcceptedIsBoundedHolds`.
* `ProbeIsCentroidHolds`: the running sum is that of the columns of the lines read so far, if all of them have one
  length (`CentroidInv`, `ColumnsGrow`). The code never checks that they do; without the condition the statement is false.
* `DirectionAloneHolds`: doubling a vector multiplies both sides of the comparison with the minimum by four (`DoubledOrder`). It needs
  that the gate refuses *only* what fails its check, which `VerdictInv` says in both directions.
* `OneDirectionHolds`: lines that are all one vector sum to a positive multiple of it (`SameLines`), so that the
  cosine is 1 or -1 (`AlongAndAgainst`). Its hypothesis is that the configured minimum lies above -1 and not above 1 (`aptp.toml` has -0.95); at -1 the
  gate refuses nothing for its direction.

`PrimitivesProofs` proves every property of its run for all packets, configurations and lengths of the
prefix. `PacketKept` is the codec's round trip; `CoveredChange` says that a change within the prefix changes
the hash; `PacketInv` carries both through stores and loads: every tag that is held or stored is the hash of its packet, until a
covered change sets them apart.

`ListenerProofs` proves `ListenerTypeCorrect`, `ProbeIsCurrentHolds` and `ContainedHolds` for all numbers of connections, sockets and edits. The
invariant adds to the types that no connection was accepted at a version of the file that is not there yet (`AcceptedBefore`):
without it the interval of versions `ProbeIsCurrent` speaks of could be empty when the firewall is made.

`LlamaBackendProofs` proves `ContextIsDecodedHolds` and `SnapshotIsOfOneMomentHolds` for all models, contexts and batches:
each way `infer` ends either leaves `n_past`, or advances it by the batch it wrote behind it. `PacketNamesItsLayerHolds` rests on
`LayersInOrder`: the loop over the layers, a recursive function, ends with as many states as the model has layers only
if it skipped none, and then each is at the place its number says (`LayersInv`).

`LlamaShimProofs` proves `InitOnceHolds`, `NothingLeaksHolds` and `ContextWithinModelHolds` for all numbers of threads and loads: what a
thread owns is a function of where it is, and the flag is set by the first that passes the guard.

Assumptions are the ASSUMEs of the modules: `Calls` is finite, an unknown id is no call, admissible payloads are payloads,
the capacity is positive (tokio's channel panics at zero), sizes are naturals, packets and messages have the types of the schema, at least one
entry is hashed, connections and threads are finite, a position that holds nothing holds no token. TLC evaluates them in the runs.

*Only proved:* the type invariants of `Alignment`, `Firewall`, `Primitives`, `LlamaBackend` and `LlamaShim`, as conjuncts of
the inductive invariants, and `ScreenedSink` of the server.

*Only model-checked:* the liveness properties (`EveryCallEnds`, `AckedIsConsumed`,
`CallsResolve`, `EveryPeerTaken`, `SocketsReturn`), which need fairness and `ENABLED`. Every other property of a run that
holds is a theorem.

## Not modelled

* Configuration and error types: a file that is deserialised and an enumeration; what the handlers read of them are CONSTANTS.
* The build script, the benches and the tests; the integration test is a behaviour of `AptpClient`.
* TLS (a feature flag and a configuration field that no code reads), formatting and logging.
* Floats: entries are integers, so rounding, infinities and values that are no number are out of reach of the models of
  the firewall and the adapters.
* Widths of sizes: `source_dim * target_dim` is exact here; in the code it is a `usize`, which on 64 bits holds any product of the
  `u32` sizes of the wire. The limits Cap'n Proto puts on lists and messages belong to its library.
* What llama.cpp computes: only which call may fail, and what it leaves behind.

With that the components that keep state are modelled as far as the source determines their behaviour.
