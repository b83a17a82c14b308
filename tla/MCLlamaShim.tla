----------------------------- MODULE MCLlamaShim -----------------------------
(* Small instances of LlamaShim for TLC. *)
EXTENDS LlamaShim
=============================================================================
