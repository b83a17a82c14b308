----------------------------- MODULE MCFirewall -----------------------------
(* Small instances of Firewall for TLC. *)
EXTENDS Firewall

MCVectors == {<<>>, <<2>>, <<1, 0>>, <<0, -1>>, <<1, 1>>, <<-1, -1>>, <<2, -1>>, <<-3, 1>>}
MCCosineMin == -1
=============================================================================
