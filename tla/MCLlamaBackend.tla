--------------------------- MODULE MCLlamaBackend ---------------------------
(* Small instances of LlamaBackend for TLC. *)
EXTENDS LlamaBackend

Model(layers, heads, embeddings_on, patched) ==
  [n_vocab |-> 5, n_embd |-> 4, n_layer |-> layers, n_head |-> heads,
   embeddings_on |-> embeddings_on, patched |-> patched]
MCModels == {Model(l, 2, e, p) : l \in {1, 3}, e, p \in BOOLEAN}
MCAll == MCModels \cup {Model(1, 0, FALSE, TRUE)}
MCMissing == SUBSET (0..2)
MCTokens == {"a", "b"}
=============================================================================
