---------------------------- MODULE MCPrimitives ----------------------------
(* Small instances of Primitives for TLC. *)
EXTENDS Primitives

MCByte == {0, 1}
MCTexts == {<<>>, <<1>>, <<1, 1>>}
MCFreshId == <<1, 1>>

MCConfig ==
  [agentId |-> <<1>>, modelFamily |-> <<1, 1>>, hiddenSize |-> 2, numLayers |-> 3,
   numHeads |-> 4, vocabSize |-> 5, aptpVersion |-> 1]

Vectors(n) == UNION {[1..k -> MCByte] : k \in 0..n}

MCPayloads ==
  [kind : {"hiddenState", "latentThought"}, v : Vectors(3)]
    \cup [kind : {"kvCache"}, layerIdx : {6}, keys : Vectors(2), values : Vectors(2),
          shape : {<<1, 7>>}]

MCMetadata == [timestampNs |-> 3, sequenceId |-> 4, sessionId |-> <<1>>, compressionAlg |-> <<1, 1>>]

MCPackets ==
  [version : {1}, senderId : MCTexts, modelFingerprint : {<<>>, <<0>>}, layerIndex : {2},
   payload : MCPayloads, shape : {<<1, 8>>}, metadata : {MCMetadata}]

MCSent == MCPackets \cup {DemoPacket(v, MCMetadata) : v \in Vectors(3)}

\* Nothing set; a member unknown to the schema; texts that are no texts.
MCMessages ==
  {EmptyPacket, [EmptyPacket EXCEPT !.primitive.list = <<1>>],
   [EmptyPacket EXCEPT !.primitive = [which |-> "unknown"]],
   [EmptyPacket EXCEPT !.senderId = <<0>>], [EmptyPacket EXCEPT !.metadata.sessionId = <<0>>]}
=============================================================================
