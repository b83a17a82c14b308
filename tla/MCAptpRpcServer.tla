--------------------------- MODULE MCAptpRpcServer ---------------------------
(* Small instances of AptpRpcServer for TLC. *)
EXTENDS AptpRpcServer, TLC

CONSTANTS c1, c2, c3, c4, c5, good, bad

MCThree == {c1, c2, c3}
MCFour == {c1, c2, c3, c4}
MCFive == {c1, c2, c3, c4, c5}
MCVersions == {1, 2}
MCOneVersion == {1}
MCHiddenSizes == {1, 2}
MCOneHidden == {1}
MCPayloads == {good, bad}
MCGood == {good}
MCSymmetry == Permutations(Calls)
=============================================================================
