-------------------------- MODULE PrimitivesProofs --------------------------
(***************************************************************************)
(* Theorems about Primitives, for all packets, all configurations and any  *)
(* length of the hashed prefix.                                            *)
(***************************************************************************)
EXTENDS Primitives, TLAPS

\* A tag and its packet: as long as nothing was changed the one is the other's
\* hash and the packet the one that was sent; a change that is covered sets them apart.
Sound(h, q) ==
  /\ changed = {} => h = provenance_hash(q) /\ \A p \in origin : q = p
  /\ (\E c \in changed : Covered(c)) => h # provenance_hash(q)

\* A packet is in one place, and what is held or stored is sound.
HeldInv ==
  /\ tagged = {} \/ stored = {}
  /\ tagged # {} \/ stored # {} => message = {}
  /\ changed # {} => tagged # {} \/ stored # {}
  /\ \A p \in origin, m \in message : p \in PrimitivePacket /\ m = Request(p)
  /\ \A t \in tagged : Sound(t.provenanceHash, t.payload)
  /\ \A s \in stored : \E q \in PrimitivePacket :
       s.bytes = packet_to_bytes(q) /\ Sound(s.provenanceHash, q)

\* The inductive invariant.
PacketInv == TypeOK /\ HeldInv /\ OwnIsRead /\ TagStands /\ ChangeNoticed

\* A list is read as it was written.
LEMMA ListKept ==
  ASSUME NEW S, NEW v \in Seq(S)
  PROVE  WriteList(v) = v
BY DEF WriteList

\* So is the payload, of each kind.
LEMMA PayloadKept ==
  ASSUME NEW x \in PrimitivePayload
  PROVE  /\ ReadPayload(WritePayload(x)) = x
         /\ WritePayload(x) \in Primitive
         /\ WritePayload(x).which # "unknown"
<1>1. CASE x.kind = "kvCache"
  <2>1. x \in [kind : {"kvCache"}, layerIdx : Nat, keys : Seq(Byte), values : Seq(Byte),
               shape : Seq(Nat)]
    BY <1>1 DEF PrimitivePayload
  <2>2. /\ WriteList(x.keys) = x.keys /\ WriteList(x.values) = x.values
        /\ WriteList(x.shape) = x.shape
    BY <2>1, ListKept
  <2>3. WritePayload(x) = [which |-> "kvCache", layerIdx |-> x.layerIdx, keys |-> x.keys,
                           values |-> x.values, shape |-> x.shape]
    BY <1>1, <2>2 DEF WritePayload
  <2>4. ReadPayload(WritePayload(x)) =
          [kind |-> "kvCache", layerIdx |-> x.layerIdx, keys |-> x.keys,
           values |-> x.values, shape |-> x.shape]
    BY <2>2, <2>3 DEF ReadPayload
  <2>5. QED
    BY <2>1, <2>3, <2>4 DEF Primitive
<1>2. CASE x.kind # "kvCache"
  <2>1. x \in [kind : {"hiddenState", "latentThought"}, v : Seq(Byte)]
    BY <1>2 DEF PrimitivePayload
  <2>2. WriteList(x.v) = x.v
    BY <2>1, ListKept
  <2>3. WritePayload(x) = [which |-> x.kind, list |-> x.v]
    BY <1>2, <2>2 DEF WritePayload
  <2>4. ReadPayload(WritePayload(x)) = [kind |-> x.kind, v |-> x.v]
    BY <1>2, <2>2, <2>3 DEF ReadPayload
  <2>5. QED
    BY <2>1, <2>3, <2>4 DEF Primitive
<1>3. QED
  BY <1>1, <1>2

\* packet_from_capnp undoes packet_to_bytes, and send_primitive writes the same
\* message, for every packet.
LEMMA PacketKept ==
  ASSUME NEW p \in PrimitivePacket
  PROVE  /\ packet_from_capnp(packet_to_bytes(p)) = {p}
         /\ Request(p) = packet_to_bytes(p)
         /\ packet_to_bytes(p) \in Message
<1> DEFINE m == packet_to_bytes(p)
<1>1. /\ p.version \in Nat /\ p.senderId \in Texts /\ p.modelFingerprint \in Seq(Byte)
      /\ p.layerIndex \in Nat /\ p.payload \in PrimitivePayload /\ p.shape \in Seq(Nat)
      /\ p.metadata \in Metadata
  BY DEF PrimitivePacket
<1>2. m = [version |-> p.version, senderId |-> p.senderId,
           modelFingerprint |-> p.modelFingerprint, layerIndex |-> p.layerIndex,
           primitive |-> WritePayload(p.payload), shape |-> p.shape,
           metadata |-> p.metadata]
  BY <1>1, ListKept DEF packet_to_bytes
<1>3. Request(p) = m
  BY DEF Request, packet_to_bytes
<1>4. m \in Message
  <2>1. Texts \subseteq Seq(Byte)
    BY TextsAssumption
  <2>2. p.metadata \in [timestampNs : Nat, sequenceId : Nat, sessionId : Seq(Byte),
                        compressionAlg : Seq(Byte)]
    BY <1>1, <2>1 DEF Metadata
  <2>3. QED
    BY <1>1, <1>2, <2>1, <2>2, PayloadKept DEF Message
<1>5. ~Unreadable(m)
  <2>1. m.primitive.which \in {"hiddenState", "latentThought", "kvCache"}
    BY <1>1, <1>2, PayloadKept DEF Primitive
  <2>2. m.senderId \in Texts /\ m.metadata.sessionId \in Texts
          /\ m.metadata.compressionAlg \in Texts
    BY <1>1, <1>2 DEF Metadata
  <2>3. QED
    BY <2>1, <2>2 DEF Unreadable
<1>6. packet_from_capnp(m) =
        {[version |-> p.version, senderId |-> p.senderId,
          modelFingerprint |-> p.modelFingerprint, layerIndex |-> p.layerIndex,
          payload |-> p.payload, shape |-> p.shape, metadata |-> p.metadata]}
  <2>1. ReadPayload(m.primitive) = p.payload /\ WriteList(m.shape) = p.shape
    BY <1>1, <1>2, PayloadKept, ListKept
  <2>2. QED
    BY <1>2, <1>5, <2>1 DEF packet_from_capnp
<1>7. QED
  BY <1>3, <1>4, <1>6 DEF PrimitivePacket

\* Whatever is read is a packet.
LEMMA ReadIsPacket ==
  ASSUME NEW m \in Message, NEW p \in packet_from_capnp(m)
  PROVE  p \in PrimitivePacket
<1>1. ~Unreadable(m) /\ p = [version |-> m.version, senderId |-> m.senderId,
         modelFingerprint |-> m.modelFingerprint, layerIndex |-> m.layerIndex,
         payload |-> ReadPayload(m.primitive), shape |-> WriteList(m.shape),
         metadata |-> m.metadata]
  BY DEF packet_from_capnp
<1>2. m.senderId \in Texts /\ m.metadata \in Metadata
  BY <1>1 DEF Unreadable, Message, Metadata
<1>3. m.primitive \in Primitive /\ m.primitive.which # "unknown"
  BY <1>1 DEF Unreadable, Message
<1>4. ReadPayload(m.primitive) \in PrimitivePayload
  <2>1. CASE m.primitive.which = "kvCache"
    <3>1. m.primitive \in [which : {"kvCache"}, layerIdx : Nat, keys : Seq(Byte),
                           values : Seq(Byte), shape : Seq(Nat)]
      BY <1>3, <2>1 DEF Primitive
    <3>2. QED
      BY <2>1, <3>1, ListKept DEF ReadPayload, PrimitivePayload
  <2>2. CASE m.primitive.which # "kvCache"
    <3>1. m.primitive \in [which : {"hiddenState", "latentThought"}, list : Seq(Byte)]
      BY <1>3, <2>2 DEF Primitive
    <3>2. QED
      BY <2>2, <3>1, ListKept DEF ReadPayload, PrimitivePayload
  <2>3. QED
    BY <2>1, <2>2
<1>5. WriteList(m.shape) \in Seq(Nat)
  BY ListKept DEF Message
<1>6. QED
  BY <1>1, <1>2, <1>4, <1>5 DEF PrimitivePacket, Message

\* The hash of a packet is a sequence of bytes.
LEMMA HashIsBytes ==
  ASSUME NEW p \in PrimitivePacket
  PROVE  provenance_hash(p) \in Seq(Byte)
<1>1. \A v \in Seq(Byte), n \in Nat : Prefix(v, n) \in Seq(Byte)
  BY DEF Prefix
<1>2. p.senderId \in Seq(Byte) /\ p.modelFingerprint \in Seq(Byte)
  BY TextsAssumption DEF PrimitivePacket
<1>3. p.payload.kind = "kvCache" => p.payload.keys \in Seq(Byte)
  BY DEF PrimitivePacket, PrimitivePayload
<1>4. p.payload.kind # "kvCache" => p.payload.v \in Seq(Byte)
  BY DEF PrimitivePacket, PrimitivePayload
<1>5. (IF p.payload.kind = "kvCache" THEN Prefix(p.payload.keys, KeysHashed)
       ELSE Prefix(p.payload.v, FloatsHashed)) \in Seq(Byte)
  BY <1>1, <1>3, <1>4, PrefixAssumption
<1>6. QED
  BY <1>2, <1>5 DEF provenance_hash

\* What follows two sequences stands behind their lengths.
LEMMA BehindTwo ==
  ASSUME NEW r \in Seq(Byte), NEW s \in Seq(Byte), NEW u \in Seq(Byte), NEW i \in 1..Len(u)
  PROVE  (r \o s \o u)[Len(r) + Len(s) + i] = u[i]
<1>1. r \o s \in Seq(Byte) /\ Len(r \o s) = Len(r) + Len(s)
  OBVIOUS
<1>2. \A w \in Seq(Byte) : (w \o u)[Len(w) + i] = u[i]
  OBVIOUS
<1>3. QED
  BY <1>1, <1>2

\* An entry that the hash covers stands in it.
LEMMA EntryInHash ==
  ASSUME NEW p \in PrimitivePacket, NEW part \in Parts(p.payload),
         NEW i \in DOMAIN p.payload[part], Covered([part |-> part, i |-> i])
  PROVE  provenance_hash(p)[Len(p.senderId) + Len(p.modelFingerprint) + i] = p.payload[part][i]
<1>1. /\ p.senderId \in Seq(Byte) /\ p.modelFingerprint \in Seq(Byte)
      /\ p.payload \in PrimitivePayload
  BY TextsAssumption DEF PrimitivePacket
<1> DEFINE v == p.payload[part]
           n == IF p.payload.kind = "kvCache" THEN KeysHashed ELSE FloatsHashed
<1>2. part = "values" => ~Covered([part |-> part, i |-> i])
  BY DEF Covered
<1>3. v \in Seq(Byte) /\ n \in Nat
  BY <1>1, PrefixAssumption DEF Parts, PrimitivePayload
<1>4. i \in 1..Len(v) /\ i <= n
  BY <1>1, <1>2, <1>3 DEF Parts, Covered
<1>5. provenance_hash(p) = p.senderId \o p.modelFingerprint \o Prefix(v, n)
  BY <1>2 DEF Parts, provenance_hash
<1>6. /\ Prefix(v, n) \in Seq(Byte) /\ i \in 1..Len(Prefix(v, n))
      /\ Prefix(v, n)[i] = v[i]
  BY <1>3, <1>4 DEF Prefix
<1>7. \A u \in Seq(Byte) : \A k \in 1..Len(u) :
        (p.senderId \o p.modelFingerprint \o u)[Len(p.senderId) + Len(p.modelFingerprint) + k]
          = u[k]
  BY <1>1, BehindTwo
<1>8. provenance_hash(p)[Len(p.senderId) + Len(p.modelFingerprint) + i] = Prefix(v, n)[i]
  BY <1>5, <1>6, <1>7
<1>9. QED
  BY <1>6, <1>8

\* A packet with one entry changed is a packet of the same form.
LEMMA SetEntryIsPacket ==
  ASSUME NEW p \in PrimitivePacket, NEW part \in Parts(p.payload),
         NEW i \in DOMAIN p.payload[part], NEW b \in Byte
  PROVE  LET q == SetEntry(p, part, i, b) IN
         /\ q \in PrimitivePacket /\ q.payload.kind = p.payload.kind
         /\ q.senderId = p.senderId /\ q.modelFingerprint = p.modelFingerprint
         /\ i \in DOMAIN q.payload[part] /\ q.payload[part][i] = b
<1> DEFINE x == p.payload
           y == [x EXCEPT ![part] = [x[part] EXCEPT ![i] = b]]
           q == SetEntry(p, part, i, b)
<1>1. x \in PrimitivePayload /\ q = [p EXCEPT !.payload = y]
  BY DEF SetEntry, PrimitivePacket
<1>2. /\ y \in PrimitivePayload /\ y.kind = x.kind
      /\ i \in DOMAIN y[part] /\ y[part][i] = b
  <2>1. CASE x.kind = "kvCache"
    <3>1. x \in [kind : {"kvCache"}, layerIdx : Nat, keys : Seq(Byte), values : Seq(Byte),
                 shape : Seq(Nat)]
      BY <1>1, <2>1 DEF PrimitivePayload
    <3>2. part \in {"keys", "values"} /\ x[part] \in Seq(Byte)
      BY <2>1, <3>1 DEF Parts
    <3>3. [x[part] EXCEPT ![i] = b] \in Seq(Byte)
      BY <3>2
    <3>4. y \in [kind : {"kvCache"}, layerIdx : Nat, keys : Seq(Byte), values : Seq(Byte),
                 shape : Seq(Nat)]
      BY <3>1, <3>2, <3>3
    <3>5. QED
      BY <3>1, <3>2, <3>3, <3>4 DEF PrimitivePayload
  <2>2. CASE x.kind # "kvCache"
    <3>1. x \in [kind : {"hiddenState", "latentThought"}, v : Seq(Byte)]
      BY <1>1, <2>2 DEF PrimitivePayload
    <3>2. part = "v" /\ x[part] \in Seq(Byte)
      BY <2>2, <3>1 DEF Parts
    <3>3. [x[part] EXCEPT ![i] = b] \in Seq(Byte)
      BY <3>2
    <3>4. y \in [kind : {"hiddenState", "latentThought"}, v : Seq(Byte)]
      BY <3>1, <3>2, <3>3
    <3>5. QED
      BY <3>1, <3>2, <3>3, <3>4 DEF PrimitivePayload
  <2>3. QED
    BY <2>1, <2>2
<1> HIDE DEF y
<1>3. QED
  BY <1>1, <1>2 DEF PrimitivePacket

\* A covered change changes the hash.
LEMMA CoveredChange ==
  ASSUME NEW p \in PrimitivePacket, NEW part \in Parts(p.payload),
         NEW i \in DOMAIN p.payload[part], NEW b \in Byte,
         p.payload[part][i] # b, Covered([part |-> part, i |-> i])
  PROVE  provenance_hash(SetEntry(p, part, i, b)) # provenance_hash(p)
<1> DEFINE q == SetEntry(p, part, i, b)
<1>1. /\ q \in PrimitivePacket /\ q.payload.kind = p.payload.kind
      /\ q.senderId = p.senderId /\ q.modelFingerprint = p.modelFingerprint
      /\ i \in DOMAIN q.payload[part] /\ q.payload[part][i] = b
  BY SetEntryIsPacket
<1> HIDE DEF q
<1>2. part \in Parts(q.payload)
  BY <1>1 DEF Parts
<1>3. provenance_hash(q)[Len(q.senderId) + Len(q.modelFingerprint) + i] = b
  BY <1>1, <1>2, EntryInHash
<1>4. provenance_hash(p)[Len(p.senderId) + Len(p.modelFingerprint) + i] # b
  BY EntryInHash
<1>5. QED
  BY <1>1, <1>3, <1>4 DEF q

-----------------------------------------------------------------------------
\* The server reads the card the client wrote.
LEMMA CardKept ==
  /\ agent_card_from_capnp(WriteCard(new_from_config)) = {new_from_config}
  /\ new_from_config \in AgentCard /\ new_from_config.agentId # <<>>
<1> DEFINE c == new_from_config
<1>1. /\ c.agentId \in Texts \ {<<>>} /\ c.modelFamily \in Texts
      /\ c.capabilities \in Seq(Capabilities)
  <2>1. c.agentId = (IF Config.agentId = <<>> THEN FreshId ELSE Config.agentId)
          /\ c.modelFamily = Config.modelFamily
          /\ c.capabilities = <<"hidden_state", "kv_cache", "latent_thought">>
    BY DEF new_from_config
  <2>2. <<"hidden_state", "kv_cache", "latent_thought">> \in Seq(Capabilities)
    BY DEF Capabilities
  <2>3. QED
    BY <2>1, <2>2, ConfigAssumption
<1>2. c \in AgentCard
  BY <1>1, ConfigAssumption DEF new_from_config, AgentCard
<1>3. WriteList(WriteList(c.capabilities)) = c.capabilities
  BY <1>1, ListKept
<1>4. agent_card_from_capnp(WriteCard(c)) =
        {[agentId |-> c.agentId, aptpVersion |-> c.aptpVersion, hiddenSize |-> c.hiddenSize,
          numLayers |-> c.numLayers, numHeads |-> c.numHeads, vocabSize |-> c.vocabSize,
          modelFamily |-> c.modelFamily, capabilities |-> c.capabilities]}
  BY <1>1, <1>3 DEF WriteCard, agent_card_from_capnp
<1>5. QED
  BY <1>1, <1>2, <1>4 DEF AgentCard

\* A tag that was just made is sound.
LEMMA TagIsSound ==
  ASSUME NEW p \in PrimitivePacket
  PROVE  /\ Tag(p) \in TaggedPrimitive /\ verify_provenance(Tag(p))
         /\ Tag(p).provenanceHash = provenance_hash(p) /\ Tag(p).payload = p
BY HashIsBytes DEF Tag, verify_provenance, TaggedPrimitive

\* PacketInv holds at the start.
LEMMA InitPacket ==
  Init => PacketInv
BY DEF Init, PacketInv, TypeOK, HeldInv, OwnIsRead, TagStands, ChangeNoticed

\* A handshake touches no packet.
LEMMA IntroducePacket ==
  ASSUME PacketInv, Introduce PROVE PacketInv'
<1>1. card' \subseteq AgentCard
  BY CardKept DEF Introduce
<1>2. UNCHANGED <<origin, message, tagged, stored, changed, verdict>>
  BY DEF Introduce
<1>3. QED
  BY <1>1, <1>2 DEF PacketInv, TypeOK, HeldInv, Sound, OwnIsRead, TagStands, ChangeNoticed

\* The message of a packet is the one its client writes.
LEMMA SendPacket ==
  ASSUME PacketInv, NEW p \in Packets, Send(p) PROVE PacketInv'
<1>1. /\ p \in PrimitivePacket /\ Request(p) \in Message
      /\ origin' = {p} /\ message' = {Request(p)} /\ tagged = {} /\ stored = {}
      /\ verdict = "none" /\ changed = {} /\ UNCHANGED <<card, tagged, stored, changed, verdict>>
  BY PacketsAssumption, PacketKept DEF Send, Fresh, PacketInv, HeldInv
<1>2. TypeOK'
  BY <1>1 DEF PacketInv, TypeOK
<1>3. HeldInv'
  BY <1>1 DEF HeldInv
<1>4. QED
  BY <1>1, <1>2, <1>3 DEF PacketInv, OwnIsRead, TagStands, ChangeNoticed

\* A foreign message has no packet that was sent.
LEMMA ForeignPacket ==
  ASSUME PacketInv, NEW m \in Messages, SendForeign(m) PROVE PacketInv'
<1>1. /\ m \in Message /\ message' = {m} /\ origin = {} /\ tagged = {} /\ stored = {}
      /\ changed = {} /\ UNCHANGED <<card, origin, tagged, stored, changed, verdict>>
  BY PacketsAssumption DEF SendForeign, Fresh, PacketInv, HeldInv
<1>2. TypeOK'
  BY <1>1 DEF PacketInv, TypeOK
<1>3. HeldInv'
  BY <1>1 DEF HeldInv
<1>4. QED
  BY <1>1, <1>2, <1>3 DEF PacketInv, OwnIsRead, TagStands, ChangeNoticed

\* What the server keeps is what it read, with the tag of that.
LEMMA ReceivePacket ==
  ASSUME PacketInv, NEW admitted \in BOOLEAN, Receive(admitted) PROVE PacketInv'
<1>1. PICK m \in message :
        \/ packet_from_capnp(m) = {} /\ verdict' = "refused" /\ UNCHANGED tagged
        \/ packet_from_capnp(m) # {} /\ verdict' = "offManifold" /\ UNCHANGED tagged
        \/ \E p \in packet_from_capnp(m) :
             IF verify_provenance(Tag(p)) THEN tagged' = {Tag(p)} /\ verdict' = "kept"
             ELSE verdict' = "mismatch" /\ UNCHANGED tagged
  BY DEF Receive
<1>2. message' = {} /\ UNCHANGED <<card, origin, stored, changed>>
  BY DEF Receive
<1>3. m \in Message /\ changed = {}
  BY DEF PacketInv, TypeOK, HeldInv
<1>4. \A p \in origin : p \in PrimitivePacket /\ packet_from_capnp(m) = {p}
  BY PacketKept DEF PacketInv, HeldInv
<1>5. CASE packet_from_capnp(m) = {} /\ verdict' = "refused" /\ UNCHANGED tagged
  <2>1. origin = {}
    BY <1>4, <1>5
  <2>2. TypeOK'
    BY <1>2, <1>5 DEF PacketInv, TypeOK
  <2>3. HeldInv'
    BY <1>2, <1>3, <1>5 DEF PacketInv, HeldInv, Sound
  <2>4. QED
    BY <1>2, <1>5, <2>1, <2>2, <2>3 DEF PacketInv, OwnIsRead, TagStands, ChangeNoticed
<1>6. CASE verdict' = "offManifold" /\ UNCHANGED tagged
  <2>1. TypeOK'
    BY <1>2, <1>6 DEF PacketInv, TypeOK
  <2>2. HeldInv'
    BY <1>2, <1>3, <1>6 DEF PacketInv, HeldInv, Sound
  <2>3. QED
    BY <1>6, <2>1, <2>2 DEF PacketInv, OwnIsRead, TagStands, ChangeNoticed
<1>7. CASE \E p \in packet_from_capnp(m) :
             IF verify_provenance(Tag(p)) THEN tagged' = {Tag(p)} /\ verdict' = "kept"
             ELSE verdict' = "mismatch" /\ UNCHANGED tagged
  <2>1. PICK p \in packet_from_capnp(m) :
             IF verify_provenance(Tag(p)) THEN tagged' = {Tag(p)} /\ verdict' = "kept"
             ELSE verdict' = "mismatch" /\ UNCHANGED tagged
    BY <1>7
  <2>2. p \in PrimitivePacket
    BY <1>3, ReadIsPacket
  <2>3. /\ tagged' = {Tag(p)} /\ verdict' = "kept" /\ Tag(p) \in TaggedPrimitive
        /\ Tag(p).provenanceHash = provenance_hash(p) /\ Tag(p).payload = p
    BY <2>1, <2>2, TagIsSound
  <2>4. \A q \in origin : p = q
    BY <1>4
  <2>5. TypeOK'
    BY <1>2, <2>3 DEF PacketInv, TypeOK
  <2>6. HeldInv'
    BY <1>2, <1>3, <2>3, <2>4 DEF PacketInv, HeldInv, Sound
  <2>7. QED
    BY <2>3, <2>5, <2>6 DEF PacketInv, OwnIsRead, TagStands, ChangeNoticed
<1>8. QED
  BY <1>1, <1>5, <1>6, <1>7

\* What is stored are the bytes of what was held.
LEMMA StorePacket ==
  ASSUME PacketInv, Store PROVE PacketInv'
<1>1. /\ stored' = {[provenanceHash |-> t.provenanceHash,
                     bytes |-> packet_to_bytes(t.payload)] : t \in tagged}
      /\ tagged' = {} /\ tagged # {} /\ UNCHANGED <<card, origin, message, changed, verdict>>
  BY DEF Store
<1>2. \A t \in tagged : t.provenanceHash \in Seq(Byte) /\ t.payload \in PrimitivePacket
                          /\ Sound(t.provenanceHash, t.payload)
  BY DEF PacketInv, TypeOK, HeldInv, TaggedPrimitive
<1>3. TypeOK'
  BY <1>1, <1>2 DEF PacketInv, TypeOK
<1>4. \A h, q : Sound(h, q) => Sound(h, q)'
  BY <1>1 DEF Sound
<1>5. HeldInv'
  <2>1. \A s \in stored' : \E q \in PrimitivePacket :
          s.bytes = packet_to_bytes(q) /\ Sound(s.provenanceHash, q)'
    BY <1>1, <1>2, <1>4
  <2>2. stored' # {}
    BY <1>1
  <2>3. QED
    BY <1>1, <2>1, <2>2 DEF PacketInv, HeldInv
<1>6. QED
  BY <1>1, <1>3, <1>5 DEF PacketInv, OwnIsRead, TagStands, ChangeNoticed

\* What is loaded is what was stored.
LEMMA LoadPacket ==
  ASSUME PacketInv, Load PROVE PacketInv'
<1>1. PICK s \in stored :
        tagged' = {[provenanceHash |-> s.provenanceHash, payload |-> p]
                     : p \in packet_from_capnp(s.bytes)}
  BY DEF Load
<1>2. stored' = {} /\ UNCHANGED <<card, origin, message, changed, verdict>>
  BY DEF Load
<1>3. PICK q \in PrimitivePacket : s.bytes = packet_to_bytes(q) /\ Sound(s.provenanceHash, q)
  BY DEF PacketInv, HeldInv
<1>4. tagged' = {[provenanceHash |-> s.provenanceHash, payload |-> q]}
  BY <1>1, <1>3, PacketKept
<1>5. TypeOK'
  BY <1>2, <1>3, <1>4 DEF PacketInv, TypeOK, TaggedPrimitive
<1>6. HeldInv'
  <2>1. Sound(s.provenanceHash, q)'
    BY <1>2, <1>3 DEF Sound
  <2>2. \A t \in tagged' : Sound(t.provenanceHash, t.payload)'
    BY <1>4, <2>1
  <2>3. QED
    BY <1>2, <1>4, <2>2 DEF PacketInv, HeldInv
<1>7. QED
  BY <1>2, <1>5, <1>6 DEF PacketInv, OwnIsRead, TagStands, ChangeNoticed

\* A change of an entry sets the packet apart from its tag, if it is covered.
LEMMA ChangePacket ==
  ASSUME PacketInv, NEW t \in tagged, NEW part \in Parts(t.payload.payload),
         NEW i \in DOMAIN t.payload.payload[part], NEW b \in Byte, Change(t, part, i, b)
  PROVE  PacketInv'
<1> DEFINE q == SetEntry(t.payload, part, i, b)
           u == [t EXCEPT !.payload = q]
           c == [part |-> part, i |-> i]
<1>1. /\ changed = {} /\ t.payload.payload[part][i] # b
      /\ tagged' = {u} /\ changed' = {c} /\ verdict' = "none"
      /\ UNCHANGED <<card, origin, message, stored>>
  BY DEF Change
<1>2. /\ t \in TaggedPrimitive /\ t.payload \in PrimitivePacket
      /\ t.provenanceHash = provenance_hash(t.payload)
  BY <1>1 DEF PacketInv, TypeOK, HeldInv, Sound, TaggedPrimitive
<1>3. q \in PrimitivePacket
  BY <1>2, SetEntryIsPacket
<1>4. Covered(c) => provenance_hash(q) # provenance_hash(t.payload)
  BY <1>1, <1>2, CoveredChange
<1> HIDE DEF q, c
<1>5. u \in TaggedPrimitive /\ u.payload = q /\ u.provenanceHash = t.provenanceHash
  BY <1>2, <1>3 DEF TaggedPrimitive
<1>6. message = {} /\ stored = {}
  BY <1>1 DEF PacketInv, HeldInv
<1>7. TypeOK'
  BY <1>1, <1>5 DEF PacketInv, TypeOK
<1>8. HeldInv'
  <2>1. Sound(u.provenanceHash, u.payload)'
    BY <1>1, <1>2, <1>4, <1>5 DEF Sound
  <2>2. QED
    BY <1>1, <1>6, <2>1 DEF HeldInv
<1>9. QED
  BY <1>1, <1>7, <1>8 DEF PacketInv, OwnIsRead, TagStands, ChangeNoticed

\* The verdict is that of the tag that is held.
LEMMA VerifyPacket ==
  ASSUME PacketInv, Verify PROVE PacketInv'
<1>1. PICK t \in tagged :
        verdict' = "verified" => verify_provenance(t)
  BY DEF Verify
<1>2. /\ verdict' \in {"verified", "mismatch"}
      /\ verdict' = "mismatch" => \E x \in tagged : ~verify_provenance(x)
      /\ UNCHANGED <<card, origin, message, tagged, stored, changed>>
  BY DEF Verify
<1>3. \A x \in tagged : Sound(x.provenanceHash, x.payload)
  BY DEF PacketInv, HeldInv
<1>4. changed = {} => verdict' # "mismatch"
  BY <1>2, <1>3 DEF Sound, verify_provenance
<1>5. (\E c \in changed : Covered(c)) => verdict' # "verified"
  BY <1>1, <1>3 DEF Sound, verify_provenance
<1>6. TypeOK'
  BY <1>2 DEF PacketInv, TypeOK
<1>7. HeldInv'
  BY <1>2 DEF PacketInv, HeldInv, Sound
<1>8. QED
  BY <1>2, <1>4, <1>5, <1>6, <1>7 DEF PacketInv, OwnIsRead, TagStands, ChangeNoticed

\* PacketInv is inductive.
THEOREM PacketInvariance == Spec => []PacketInv
<1>1. PacketInv /\ [Next]_vars => PacketInv'
  <2>1. SUFFICES ASSUME PacketInv, [Next]_vars PROVE PacketInv'
    OBVIOUS
  <2>2. CASE Introduce
    BY <2>1, <2>2, IntroducePacket
  <2>3. CASE \E p \in Packets : Send(p)
    BY <2>1, <2>3, SendPacket
  <2>4. CASE \E m \in Messages : SendForeign(m)
    BY <2>1, <2>4, ForeignPacket
  <2>5. CASE \E admitted \in BOOLEAN : Receive(admitted)
    BY <2>1, <2>5, ReceivePacket
  <2>6. CASE Store
    BY <2>1, <2>6, StorePacket
  <2>7. CASE Load
    BY <2>1, <2>7, LoadPacket
  <2>8. CASE \E t \in tagged : \E part \in Parts(t.payload.payload) :
               \E i \in DOMAIN t.payload.payload[part], b \in Byte : Change(t, part, i, b)
    BY <2>1, <2>8, ChangePacket
  <2>9. CASE Verify
    BY <2>1, <2>9, VerifyPacket
  <2>10. CASE UNCHANGED vars
    BY <2>1, <2>10
       DEF vars, PacketInv, TypeOK, HeldInv, Sound, OwnIsRead, TagStands, ChangeNoticed
  <2>11. QED
    BY <2>1, <2>2, <2>3, <2>4, <2>5, <2>6, <2>7, <2>8, <2>9, <2>10 DEF Next
<1>2. QED
  BY <1>1, InitPacket, PTL DEF Spec

\* For every packet, what the owner of the Receiver holds is what the application
\* sent, through any number of stores and loads.
THEOREM IntactHolds == Spec => []Intact
<1>1. PacketInv => Intact
  BY DEF PacketInv, HeldInv, Sound, Intact
<1>2. QED
  BY <1>1, PacketInvariance, PTL

\* The server reads whatever an AptpClient writes.
THEOREM OwnIsReadHolds == Spec => []OwnIsRead
<1>1. PacketInv => OwnIsRead
  BY DEF PacketInv
<1>2. QED
  BY <1>1, PacketInvariance, PTL

\* A tag stands as long as its packet is not changed.
THEOREM TagStandsHolds == Spec => []TagStands
<1>1. PacketInv => TagStands
  BY DEF PacketInv
<1>2. QED
  BY <1>1, PacketInvariance, PTL

\* For every length of the prefix, no change within it passes for the original.
THEOREM ChangeNoticedHolds == Spec => []ChangeNoticed
<1>1. PacketInv => ChangeNoticed
  BY DEF PacketInv
<1>2. QED
  BY <1>1, PacketInvariance, PTL

\* For every configuration, the server knows the card that was made from it.
THEOREM CardIntactHolds == Spec => []CardIntact
<1>1. Init => CardIntact
  BY DEF Init, CardIntact
<1>2. CardIntact /\ [Next]_vars => CardIntact'
  <2>1. SUFFICES ASSUME CardIntact, [Next]_vars PROVE CardIntact'
    OBVIOUS
  <2>2. card' = card \/ card' = {new_from_config}
    BY <2>1, CardKept DEF Next, vars, Introduce, Send, SendForeign, Receive, Store, Load,
       Change, Verify
  <2>3. QED
    BY <2>1, <2>2, CardKept DEF CardIntact
<1>3. QED
  BY <1>1, <1>2, PTL DEF Spec
=============================================================================
