---------------------------- MODULE MCAlignment ----------------------------
(* Small instances of Alignment for TLC. *)
EXTENDS Alignment

MCDims == 0..3
MCWeights == {-1, 2}
MCEntries == {-1, 0, 2}
=============================================================================
