---------------------------- MODULE LlamaBackend ----------------------------
(***************************************************************************)
(* LlamaCppBackend (src/src/backend/llama.rs): what infer() does with the  *)
(* native context behind the C shim, each call of which may fail, and what *)
(* snapshot_to_packet makes of a snapshot.  A vector is abstracted to the  *)
(* layer and the position it belongs to and the number of its entries.     *)
(* llama.cpp is external: a decode that succeeds puts its tokens at the    *)
(* positions from n_past on, one that fails may leave some of them there.  *)
(***************************************************************************)
EXTENDS Integers, Sequences, FiniteSets, FiniteSetsExt

CONSTANTS
  Models,    \* what aptp_load_model may load, and how it was built
  NCtx,      \* the positions of the context
  Tokens,
  NoToken,   \* a position that holds nothing
  MaxBatch,  \* bound on the tokens of a batch
  Missing    \* the sets of layers for which a call may find no hidden state

ASSUME ModelsAssumption ==
  Models \subseteq [n_vocab : Nat, n_embd : Nat, n_layer : Nat, n_head : Nat,
                    embeddings_on : BOOLEAN, patched : BOOLEAN]
ASSUME ContextAssumption == NCtx \in Nat /\ NoToken \notin Tokens /\ MaxBatch \in Nat

VARIABLES
  model,     \* the model of this backend
  cells,     \* the native context: the token at each position
  n_past,    \* LlamaCppBackend.n_past
  fed,       \* the tokens of the decodes that succeeded, in order
  result,    \* how the last infer() ended
  snapshot,  \* the snapshot it returned: a set of at most one
  packet     \* a packet made of it: a set of at most one

vars == <<model, cells, n_past, fed, result, snapshot, packet>>

Batches == UNION {[1..n -> Tokens] : n \in 0..MaxBatch}
-----------------------------------------------------------------------------
Init ==
  /\ model \in Models
  /\ cells = [p \in 1..NCtx |-> NoToken]
  /\ n_past = 0 /\ fed = <<>>
  /\ result = "none" /\ snapshot = {} /\ packet = {}

\* The context after the first n tokens of a batch were put behind n_past.
Written(b, n) ==
  [p \in 1..NCtx |-> IF p \in n_past + 1..n_past + n THEN b[p - n_past] ELSE cells[p]]

\* last_pos, as a position of the context.
LastPos(b) == n_past + Len(b) - 1

\* Fault: layers are counted from one.
LayersFromOne(missing) ==
  LET states[n \in 0..model.n_layer] ==
        IF n = 0 THEN <<>>
        ELSE IF n \in missing THEN states[n - 1] ELSE Append(states[n - 1], n)
  IN states[model.n_layer]

\* aptp_get_hidden_state, layer by layer; a layer that has none is skipped.
LayersThere(missing) ==
  LET states[n \in 0..model.n_layer] ==
        IF n = 0 THEN <<>>
        ELSE IF n - 1 \in missing THEN states[n - 1] ELSE Append(states[n - 1], n - 1)
  IN states[model.n_layer]

\* The final layer's embedding if it was asked for and is there, or what a patched
\* llama.cpp has; the stubs of the shim have nothing.
capture_hidden_states(b, embedding, missing) ==
  [at |-> LastPos(b),
   layers |-> IF model.embeddings_on /\ embedding THEN <<model.n_layer - 1>>
              ELSE IF model.patched THEN LayersThere(missing) ELSE <<>>]

\* The cache of the last layer, of a patched llama.cpp.
capture_kv_cache(past, kv) ==
  IF model.patched /\ kv
  THEN {[layer |-> Max({model.n_layer - 1, 0}) % 65536,
         dims |-> <<1, model.n_head, past, model.n_embd \div model.n_head>>]}
  ELSE {}

\* n_embd / n_head of a cache that is there panics for a model without heads.
DividesByZero(kv) == model.patched /\ kv /\ model.n_head = 0

\* aptp_decode returns an error: n_past stays.
DecodeFails(b, n) ==
  /\ n <= Len(b) /\ n_past + n <= NCtx
  /\ cells' = Written(b, n)
  /\ result' = "err"
  /\ UNCHANGED <<model, n_past, fed, snapshot, packet>>

\* aptp_decode returns 0 (it has no success for an empty batch or a full context).
Decodes(b) ==
  /\ Len(b) > 0 /\ n_past + Len(b) <= NCtx
  /\ cells' = Written(b, Len(b))
  /\ fed' = fed \o b
  /\ n_past' = n_past + Len(b)

\* Fault: n_past advances only when there are logits.
NoLogitsStill(b) ==
  /\ Len(b) > 0 /\ n_past + Len(b) <= NCtx
  /\ cells' = Written(b, Len(b))
  /\ fed' = fed \o b
  /\ result' = "err"
  /\ UNCHANGED <<model, n_past, snapshot, packet>>

\* aptp_get_logits returns NULL: an error, with the tokens in the context.
NoLogits(b) ==
  /\ Decodes(b)
  /\ result' = "err"
  /\ UNCHANGED <<model, snapshot, packet>>

\* Fault: the cache is captured before n_past advances.
InferStale(b, embedding, missing, kv) ==
  /\ Decodes(b) /\ ~DividesByZero(kv)
  /\ result' = "ok"
  /\ snapshot' = {[n_past |-> n_past', logits |-> model.n_vocab,
                   hidden_states |-> capture_hidden_states(b, embedding, missing),
                   kv_cache_layer |-> capture_kv_cache(n_past, kv)]}
  /\ UNCHANGED <<model, packet>>

Infer(b, embedding, missing, kv) ==
  /\ Decodes(b) /\ ~DividesByZero(kv)
  /\ result' = "ok"
  /\ snapshot' = {[n_past |-> n_past', logits |-> model.n_vocab,
                   hidden_states |-> capture_hidden_states(b, embedding, missing),
                   kv_cache_layer |-> capture_kv_cache(n_past', kv)]}
  /\ UNCHANGED <<model, packet>>

InferPanics(b, kv) ==
  /\ Decodes(b) /\ DividesByZero(kv)
  /\ result' = "panic"
  /\ UNCHANGED <<model, snapshot, packet>>

StateAt(layers, layer_index) == layers[Min({layer_index + 1, Len(layers)})]

\* What a packet of a snapshot carries, how many entries, and the dimensions it states.
Payload(s, layer_index) ==
  IF s.kv_cache_layer # {}
  THEN LET kv == CHOOSE k \in s.kv_cache_layer : TRUE
       IN [kind |-> "kvCache", layer |-> kv.layer, dims |-> kv.dims]
  ELSE IF s.hidden_states.layers # <<>>
  THEN [kind |-> "hiddenState", layer |-> StateAt(s.hidden_states.layers, layer_index),
        len |-> model.n_embd, dims |-> <<1, 1, model.n_embd>>]
  ELSE [kind |-> "latentThought", len |-> s.logits, dims |-> <<1, model.n_embd>>]

snapshot_to_packet(layer_index) ==
  \E s \in snapshot :
    /\ packet' = {[layer_index |-> layer_index, payload |-> Payload(s, layer_index)]}
    /\ UNCHANGED <<model, cells, n_past, fed, result, snapshot>>

Next ==
  /\ result # "panic"
  /\ \/ \E b \in Batches :
          \/ \E n \in 0..MaxBatch : DecodeFails(b, n)
          \/ NoLogits(b)
          \/ \E embedding, kv \in BOOLEAN, missing \in Missing :
               Infer(b, embedding, missing, kv)
          \/ InferPanics(b, TRUE)
     \/ \E i \in 0..model.n_layer : snapshot_to_packet(i)

Spec == Init /\ [][Next]_vars
-----------------------------------------------------------------------------
(* Properties *)

\* Every variable has its type.
TypeOK ==
  /\ model \in Models
  /\ cells \in [1..NCtx -> Tokens \cup {NoToken}]
  /\ n_past \in 0..NCtx
  /\ fed \in Seq(Tokens)
  /\ result \in {"none", "err", "ok", "panic"}

\* Whatever failed in between, the positions below n_past hold the tokens that were
\* decoded, in order and without a gap: after an infer() that failed before the
\* decode a retry continues where it should, and after one that found no logits
\* (llama.rs:171) the context and n_past still agree.
ContextIsDecoded ==
  /\ n_past = Len(fed)
  /\ \A p \in 1..n_past : cells[p] = fed[p]

\* What a snapshot holds is of one moment: the cache's dimensions count the tokens up
\* to and with the batch, and the hidden states are those of its last token.
SnapshotIsOfOneMoment ==
  \A s \in snapshot :
    /\ s.hidden_states.at = s.n_past - 1
    /\ \A kv \in s.kv_cache_layer : kv.dims[3] = s.n_past

\* A packet of hidden states names the layer its state is of, if the backend had
\* the states of all layers; of a layer that the model has not, the last one stands in.
PacketNamesItsLayer ==
  \A s \in snapshot, k \in packet :
    Len(s.hidden_states.layers) = model.n_layer /\ k.payload.kind = "hiddenState"
        /\ k.payload = Payload(s, k.layer_index) =>
      k.payload.layer = Min({k.layer_index, model.n_layer - 1})
=============================================================================
