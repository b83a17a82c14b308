---------------------------- MODULE DotProduct ----------------------------
(***************************************************************************)
(* The sum of the products of two float lists' entries, which the firewall *)
(* (src/src/validation) and the adapters (src/src/adapter) compute with    *)
(* zip, map and sum.  Entries are integers.                                *)
(***************************************************************************)
EXTENDS Integers, Sequences, SequencesExt, FiniteSetsExt

Products(v, w) == [j \in 1..Len(v) |-> v[j] * w[j]]

\* Dot(v, v) is the square of the L2 norm.
Dot(v, w) == SumFunction(Products(v, w))
=============================================================================
