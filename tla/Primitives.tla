----------------------------- MODULE Primitives -----------------------------
(***************************************************************************)
(* The primitives on their way from one agent to another                   *)
(* (src/src/primitives.rs): an agent introduces itself with a card, its    *)
(* client writes a packet into a Cap'n Proto message, the server reads and *)
(* tags it, and the owner of the tagged packet stores it, loads it again,  *)
(* changes it or verifies it.  Texts, fingerprints and lists of floats are *)
(* sequences over Byte; a hash is what it was taken of.                    *)
(***************************************************************************)
EXTENDS Integers, Sequences, SequencesExt

CONSTANTS
  Byte,          \* the values of a byte, and of a float
  Texts,         \* the byte sequences that are UTF-8
  Packets,       \* the packets an application sends
  Messages,      \* the messages a peer that is no AptpClient sends
  Config,        \* cfg.agent
  FreshId,       \* the UUIDv4 of a card whose agent has no id
  FloatsHashed,  \* 256, the floats of a vector that are hashed
  KeysHashed     \* 64, the keys of a cache that are hashed

Metadata == [timestampNs : Nat, sequenceId : Nat, sessionId : Texts, compressionAlg : Texts]

PrimitivePayload ==
  [kind : {"hiddenState", "latentThought"}, v : Seq(Byte)]
    \cup [kind : {"kvCache"}, layerIdx : Nat, keys : Seq(Byte), values : Seq(Byte),
          shape : Seq(Nat)]

PrimitivePacket ==
  [version : Nat, senderId : Texts, modelFingerprint : Seq(Byte), layerIndex : Nat,
   payload : PrimitivePayload, shape : Seq(Nat), metadata : Metadata]

TaggedPrimitive == [provenanceHash : Seq(Byte), payload : PrimitivePacket]

\* What is on the wire: a peer's texts need not be UTF-8, nor its union known.
Primitive ==
  [which : {"hiddenState", "latentThought"}, list : Seq(Byte)]
    \cup [which : {"kvCache"}, layerIdx : Nat, keys : Seq(Byte), values : Seq(Byte),
          shape : Seq(Nat)]
    \cup [which : {"unknown"}]

Message ==
  [version : Nat, senderId : Seq(Byte), modelFingerprint : Seq(Byte), layerIndex : Nat,
   primitive : Primitive, shape : Seq(Nat),
   metadata : [timestampNs : Nat, sequenceId : Nat, sessionId : Seq(Byte),
               compressionAlg : Seq(Byte)]]

Capabilities == {"hidden_state", "kv_cache", "latent_thought"}

AgentCard ==
  [agentId : Texts, aptpVersion : Nat, hiddenSize : Nat, numLayers : Nat, numHeads : Nat,
   vocabSize : Nat, modelFamily : Texts, capabilities : Seq(Capabilities)]

ASSUME TextsAssumption ==
  /\ Byte \subseteq Nat /\ 0 \in Byte
  /\ Texts \subseteq Seq(Byte) /\ <<>> \in Texts
ASSUME PacketsAssumption == Packets \subseteq PrimitivePacket /\ Messages \subseteq Message
ASSUME ConfigAssumption ==
  /\ FreshId \in Texts \ {<<>>}
  /\ Config.agentId \in Texts /\ Config.modelFamily \in Texts
  /\ \A f \in {"aptpVersion", "hiddenSize", "numLayers", "numHeads", "vocabSize"} :
       Config[f] \in Nat
ASSUME PrefixAssumption == FloatsHashed \in Nat \ {0} /\ KeysHashed \in Nat \ {0}

VARIABLES
  card,     \* what the server read of the client's card: a set of at most one
  origin,   \* the packet the application sent: a set of at most one
  message,  \* the request that carries it
  tagged,   \* the TaggedPrimitive the owner of the Receiver holds
  stored,   \* its bytes, if they were put aside
  changed,  \* the entry of the payload that the owner changed
  verdict   \* the server's answer, or the last verdict of verify_provenance

vars == <<card, origin, message, tagged, stored, changed, verdict>>
-----------------------------------------------------------------------------
(* Messages *)

\* A message in which nothing was set.
EmptyPacket ==
  [version |-> 0, senderId |-> <<>>, modelFingerprint |-> <<>>, layerIndex |-> 0,
   primitive |-> [which |-> "hiddenState", list |-> <<>>], shape |-> <<>>,
   metadata |-> [timestampNs |-> 0, sequenceId |-> 0, sessionId |-> <<>>,
                 compressionAlg |-> <<>>]]

\* A list is initialised with its length and set entry by entry.
WriteList(v) == [i \in 1..Len(v) |-> v[i]]

WritePayload(x) ==
  IF x.kind = "kvCache"
  THEN [which |-> "kvCache", layerIdx |-> x.layerIdx, keys |-> WriteList(x.keys),
        values |-> WriteList(x.values), shape |-> WriteList(x.shape)]
  ELSE [which |-> x.kind, list |-> WriteList(x.v)]

\* Fault: the bytes that are stored name no model.
BytesAnonymous(p) ==
  [version |-> p.version, senderId |-> p.senderId, modelFingerprint |-> EmptyPacket.modelFingerprint,
   layerIndex |-> p.layerIndex, primitive |-> WritePayload(p.payload),
   shape |-> WriteList(p.shape), metadata |-> p.metadata]

\* Every field is set.
packet_to_bytes(p) ==
  [version |-> p.version, senderId |-> p.senderId, modelFingerprint |-> p.modelFingerprint,
   layerIndex |-> p.layerIndex, primitive |-> WritePayload(p.payload),
   shape |-> WriteList(p.shape), metadata |-> p.metadata]

\* Fault: the client numbers the packet by its own counter.
RequestNumbered(p) == [packet_to_bytes(p) EXCEPT !.metadata.sequenceId = 1]

\* send_primitive writes a packet in lines of its own.
Request(p) ==
  [version |-> p.version, senderId |-> p.senderId, modelFingerprint |-> p.modelFingerprint,
   layerIndex |-> p.layerIndex, primitive |-> WritePayload(p.payload),
   shape |-> WriteList(p.shape), metadata |-> p.metadata]

\* What is in the union, if the schema knows it.
ReadPayload(u) ==
  IF u.which = "kvCache"
  THEN [kind |-> "kvCache", layerIdx |-> u.layerIdx, keys |-> WriteList(u.keys),
        values |-> WriteList(u.values), shape |-> WriteList(u.shape)]
  ELSE [kind |-> u.which, v |-> WriteList(u.list)]

\* Fault: a packet without a sender is refused.
UnreadableSender(m) == m.senderId \notin Texts \ {<<>>}

\* A member of the union that is not in the schema, or a text that is no UTF-8.
Unreadable(m) ==
  \/ m.primitive.which \notin {"hiddenState", "latentThought", "kvCache"}
  \/ \E t \in {m.senderId, m.metadata.sessionId, m.metadata.compressionAlg} : t \notin Texts

\* The packet of a message, or nothing where the code returns an error.
packet_from_capnp(m) ==
  IF Unreadable(m) THEN {}
  ELSE {[version |-> m.version, senderId |-> m.senderId,
         modelFingerprint |-> m.modelFingerprint, layerIndex |-> m.layerIndex,
         payload |-> ReadPayload(m.primitive), shape |-> WriteList(m.shape),
         metadata |-> m.metadata]}
-----------------------------------------------------------------------------
(* Cards *)

new_from_config ==
  [agentId |-> IF Config.agentId = <<>> THEN FreshId ELSE Config.agentId,
   aptpVersion |-> Config.aptpVersion, hiddenSize |-> Config.hiddenSize,
   numLayers |-> Config.numLayers, numHeads |-> Config.numHeads,
   vocabSize |-> Config.vocabSize, modelFamily |-> Config.modelFamily,
   capabilities |-> <<"hidden_state", "kv_cache", "latent_thought">>]

\* Fault: layers and heads change places.
WriteCardSwapped(c) ==
  [agentId |-> c.agentId, aptpVersion |-> c.aptpVersion, publicKey |-> <<>>,
   invariants |-> [hiddenSize |-> c.hiddenSize, numLayers |-> c.numHeads,
                   numHeads |-> c.numLayers, vocabSize |-> c.vocabSize,
                   modelFamily |-> c.modelFamily],
   capabilities |-> WriteList(c.capabilities)]

\* The card as the client writes it.
WriteCard(c) ==
  [agentId |-> c.agentId, aptpVersion |-> c.aptpVersion, publicKey |-> <<>>,
   invariants |-> [hiddenSize |-> c.hiddenSize, numLayers |-> c.numLayers,
                   numHeads |-> c.numHeads, vocabSize |-> c.vocabSize,
                   modelFamily |-> c.modelFamily],
   capabilities |-> WriteList(c.capabilities)]

\* The card as the server reads it; the public key is not read.
agent_card_from_capnp(m) ==
  IF {m.agentId, m.invariants.modelFamily} \subseteq Texts
  THEN {[agentId |-> m.agentId, aptpVersion |-> m.aptpVersion,
         hiddenSize |-> m.invariants.hiddenSize, numLayers |-> m.invariants.numLayers,
         numHeads |-> m.invariants.numHeads, vocabSize |-> m.invariants.vocabSize,
         modelFamily |-> m.invariants.modelFamily,
         capabilities |-> WriteList(m.capabilities)]}
  ELSE {}
-----------------------------------------------------------------------------
(* Provenance *)

Prefix(v, n) == SubSeq(v, 1, IF Len(v) < n THEN Len(v) ELSE n)

\* Fault: the payload is left out of the hash.
hash_of_sender(p) == p.senderId \o p.modelFingerprint

\* Sender and fingerprint, and the first floats of the vector or of the keys.
provenance_hash(p) ==
  p.senderId \o p.modelFingerprint
    \o IF p.payload.kind = "kvCache" THEN Prefix(p.payload.keys, KeysHashed)
       ELSE Prefix(p.payload.v, FloatsHashed)

Tag(p) == [provenanceHash |-> provenance_hash(p), payload |-> p]

verify_provenance(t) == provenance_hash(t.payload) = t.provenanceHash
-----------------------------------------------------------------------------
(* The life of a packet *)

Init ==
  /\ card = {} /\ origin = {} /\ message = {} /\ tagged = {} /\ stored = {}
  /\ changed = {} /\ verdict = "none"

\* The client shakes hands; the server reads its card.
Introduce ==
  /\ card = {}
  /\ card' = agent_card_from_capnp(WriteCard(new_from_config))
  /\ UNCHANGED <<origin, message, tagged, stored, changed, verdict>>

\* The packet the demo client sends.
DemoPacket(v, meta) ==
  [version |-> 1, senderId |-> Config.agentId, modelFingerprint |-> <<0, 0>>,
   layerIndex |-> 16, payload |-> [kind |-> "hiddenState", v |-> v],
   shape |-> <<1, 1, Config.hiddenSize>>, metadata |-> meta]

\* No packet is under way yet: the life of one is followed.
Fresh == origin = {} /\ message = {} /\ tagged = {} /\ stored = {} /\ verdict = "none"

\* The application sends a packet once the client has a session.
Send(p) ==
  /\ card # {} /\ Fresh
  /\ origin' = {p}
  /\ message' = {Request(p)}
  /\ UNCHANGED <<card, tagged, stored, changed, verdict>>

\* A peer that is no AptpClient writes a message of its own.
SendForeign(m) ==
  /\ Fresh
  /\ message' = {m}
  /\ UNCHANGED <<card, origin, tagged, stored, changed, verdict>>

\* stream::handle up to the sink: a packet that cannot be read, or that the
\* firewall does not admit, is not acknowledged; any other is tagged and kept.
Receive(admitted) ==
  /\ message # {}
  /\ message' = {}
  /\ \E m \in message : LET packets == packet_from_capnp(m) IN
       \/ /\ packets = {}
          /\ verdict' = "refused"
          /\ UNCHANGED tagged
       \/ /\ packets # {} /\ ~admitted
          /\ verdict' = "offManifold"
          /\ UNCHANGED tagged
       \/ /\ admitted
          /\ \E p \in packets :
               IF verify_provenance(Tag(p))
               THEN tagged' = {Tag(p)} /\ verdict' = "kept"
               ELSE verdict' = "mismatch" /\ UNCHANGED tagged
  /\ UNCHANGED <<card, origin, stored, changed>>

\* The owner writes the packet down beside its tag ...
Store ==
  /\ stored = {} /\ tagged # {}
  /\ stored' = {[provenanceHash |-> t.provenanceHash, bytes |-> packet_to_bytes(t.payload)]
                  : t \in tagged}
  /\ tagged' = {}
  /\ UNCHANGED <<card, origin, message, changed, verdict>>

\* ... and takes it up again.
Load ==
  /\ \E s \in stored : tagged' = {[provenanceHash |-> s.provenanceHash, payload |-> p]
                                    : p \in packet_from_capnp(s.bytes)}
  /\ stored' = {}
  /\ UNCHANGED <<card, origin, message, changed, verdict>>

Parts(x) == IF x.kind = "kvCache" THEN {"keys", "values"} ELSE {"v"}

SetEntry(p, part, i, b) == [p EXCEPT !.payload[part][i] = b]

\* The owner changes an entry of the payload, after which no verdict stands.
Change(t, part, i, b) ==
  /\ changed = {} /\ t.payload.payload[part][i] # b
  /\ tagged' = {[t EXCEPT !.payload = SetEntry(t.payload, part, i, b)]}
  /\ changed' = {[part |-> part, i |-> i]}
  /\ verdict' = "none"
  /\ UNCHANGED <<card, origin, message, stored>>

Verify ==
  /\ tagged # {}
  /\ verdict' = IF \A t \in tagged : verify_provenance(t) THEN "verified" ELSE "mismatch"
  /\ UNCHANGED <<card, origin, message, tagged, stored, changed>>

Next ==
  \/ Introduce
  \/ \E p \in Packets : Send(p)
  \/ \E m \in Messages : SendForeign(m)
  \/ \E admitted \in BOOLEAN : Receive(admitted)
  \/ Store
  \/ Load
  \/ \E t \in tagged : \E part \in Parts(t.payload.payload) :
       \E i \in DOMAIN t.payload.payload[part], b \in Byte : Change(t, part, i, b)
  \/ Verify

Spec == Init /\ [][Next]_vars
-----------------------------------------------------------------------------
(* Properties *)

\* Every variable has its type.
TypeOK ==
  /\ card \subseteq AgentCard
  /\ origin \subseteq PrimitivePacket /\ message \subseteq Message
  /\ tagged \subseteq TaggedPrimitive
  /\ \A s \in stored : s.provenanceHash \in Seq(Byte)
  /\ verdict \in {"none", "refused", "offManifold", "kept", "verified", "mismatch"}

\* What the owner of the Receiver holds is the packet the application sent, field
\* by field, however often it was written down and taken up again: the client's
\* writer, packet_to_bytes and packet_from_capnp agree on the schema.
Intact ==
  changed = {} => \A p \in origin, t \in tagged : t.payload = p

\* The server can read whatever an AptpClient writes.
OwnIsRead == origin # {} => verdict # "refused"

\* The server knows the client's card as the configuration has it, and never
\* without an id.
CardIntact == card \subseteq {new_from_config} /\ \A c \in card : c.agentId # <<>>

\* The tag made at the server stands for the packet as long as nobody changes it,
\* across the bytes in which it is stored.
TagStands == changed = {} => verdict # "mismatch"

Covered(c) ==
  \/ c.part = "v" /\ c.i <= FloatsHashed
  \/ c.part = "keys" /\ c.i <= KeysHashed

\* A change of an entry that the hash covers does not pass for the original.
ChangeNoticed == (\E c \in changed : Covered(c)) => verdict # "verified"
=============================================================================
