------------------------- MODULE LlamaBackendProofs -------------------------
(***************************************************************************)
(* Theorems about LlamaBackend, for all models, contexts and batches.      *)
(***************************************************************************)
EXTENDS LlamaBackend, DotProductProofs

DecodeInv == TypeOK /\ ContextIsDecoded /\ SnapshotIsOfOneMoment

\* A batch is a short sequence of tokens.
LEMMA BatchType ==
  ASSUME NEW b \in Batches
  PROVE  b \in Seq(Tokens) /\ Len(b) \in 0..MaxBatch
<1>1. PICK n \in 0..MaxBatch : b \in [1..n -> Tokens]
  BY DEF Batches
<1>2. n \in Nat
  BY <1>1, ContextAssumption
<1>3. b \in Seq(Tokens)
  BY <1>1, <1>2, SeqDef
<1>4. Len(b) = n
  BY <1>1, <1>2, <1>3, LenProperties
<1> QED
  BY <1>1, <1>3, <1>4

\* What is appended follows what was there.
LEMMA FedThen ==
  ASSUME NEW s \in Seq(Tokens), NEW b \in Seq(Tokens)
  PROVE  /\ s \o b \in Seq(Tokens) /\ Len(s \o b) = Len(s) + Len(b)
         /\ \A i \in 1..Len(s) + Len(b) :
              (s \o b)[i] = IF i <= Len(s) THEN s[i] ELSE b[i - Len(s)]
BY ConcatProperties

\* The tokens that are put behind n_past leave what is below it.
LEMMA WrittenType ==
  ASSUME TypeOK, NEW b \in Batches, NEW n \in 0..Len(b)
  PROVE  /\ Written(b, n) \in [1..NCtx -> Tokens \cup {NoToken}]
         /\ \A p \in 1..NCtx : p <= n_past => Written(b, n)[p] = cells[p]
<1>1. b \in Seq(Tokens) /\ Len(b) \in Nat
  BY BatchType, ContextAssumption
<1>2. \A i \in 1..n : b[i] \in Tokens
  BY <1>1, ElementOfSeq
<1> QED
  BY <1>1, <1>2, ContextAssumption DEF TypeOK, Written

\* A decode that succeeds puts its batch behind n_past, in the context as in fed.
LEMMA DecodesKeeps ==
  ASSUME TypeOK, ContextIsDecoded, NEW b \in Batches, Decodes(b)
  PROVE  /\ cells' \in [1..NCtx -> Tokens \cup {NoToken}]
         /\ n_past' \in 0..NCtx /\ fed' \in Seq(Tokens)
         /\ ContextIsDecoded'
<1>1. b \in Seq(Tokens) /\ Len(b) \in Nat
  BY BatchType, ContextAssumption
<1>2. n_past \in Nat /\ n_past = Len(fed) /\ fed \in Seq(Tokens)
  BY ContextAssumption DEF TypeOK, ContextIsDecoded
<1>3. /\ fed' \in Seq(Tokens) /\ Len(fed') = Len(fed) + Len(b)
      /\ \A i \in 1..Len(fed) + Len(b) :
           fed'[i] = IF i <= Len(fed) THEN fed[i] ELSE b[i - Len(fed)]
  BY <1>1, <1>2, FedThen DEF Decodes
<1>4. n_past' = n_past + Len(b) /\ n_past' \in 0..NCtx
  BY <1>1, <1>2, ContextAssumption DEF Decodes
<1>5. cells' = Written(b, Len(b))
  BY DEF Decodes
<1>6. cells' \in [1..NCtx -> Tokens \cup {NoToken}]
  BY <1>1, <1>5, WrittenType
<1>7. ASSUME NEW p \in 1..n_past' PROVE cells'[p] = fed'[p]
  <2>1. p \in 1..NCtx /\ p \in 1..Len(fed) + Len(b)
    BY <1>1, <1>2, <1>4, ContextAssumption
  <2>2. CASE p <= n_past
    <3>1. cells'[p] = cells[p]
      BY <1>1, <1>5, <2>1, <2>2, WrittenType
    <3>2. fed'[p] = fed[p]
      BY <1>2, <1>3, <2>1, <2>2
    <3>3. cells[p] = fed[p]
      BY <1>2, <2>1, <2>2 DEF ContextIsDecoded
    <3> QED
      BY <3>1, <3>2, <3>3
  <2>3. CASE p > n_past
    <3>1. cells'[p] = b[p - n_past]
      BY <1>1, <1>2, <1>4, <1>5, <2>1, <2>3 DEF Written
    <3> QED
      BY <1>2, <1>3, <2>1, <2>3, <3>1
  <2> QED
    BY <1>2, <2>1, <2>2, <2>3
<1>8. n_past' = Len(fed')
  BY <1>2, <1>3, <1>4
<1> QED
  BY <1>3, <1>4, <1>6, <1>7, <1>8 DEF ContextIsDecoded

\* DecodeInv holds at the start.
LEMMA DecodeInit == Init => DecodeInv
<1> SUFFICES ASSUME Init PROVE DecodeInv
  OBVIOUS
<1>1. <<>> \in Seq(Tokens) /\ Len(<<>>) = 0
  BY EmptySeq
<1> QED
  BY <1>1, ContextAssumption
     DEF Init, DecodeInv, TypeOK, ContextIsDecoded, SnapshotIsOfOneMoment

\* However infer ends, DecodeInv is kept.
LEMMA DecodeNext == DecodeInv /\ [Next]_vars => DecodeInv'
<1> SUFFICES ASSUME DecodeInv, [Next]_vars PROVE DecodeInv'
  OBVIOUS
<1> USE DEF DecodeInv
<1>1. ASSUME NEW b \in Batches, NEW n \in 0..MaxBatch, DecodeFails(b, n)
      PROVE  DecodeInv'
  <2>1. n \in 0..Len(b)
    BY <1>1, BatchType, ContextAssumption DEF DecodeFails
  <2>2. TypeOK'
    BY <1>1, <2>1, WrittenType DEF DecodeFails, TypeOK
  <2>3. ContextIsDecoded'
    <3>1. \A p \in 1..n_past : p \in 1..NCtx /\ p <= n_past
      BY ContextAssumption DEF TypeOK
    <3> QED
      BY <1>1, <2>1, <3>1, WrittenType DEF DecodeFails, ContextIsDecoded
  <2>4. SnapshotIsOfOneMoment'
    BY <1>1 DEF DecodeFails, SnapshotIsOfOneMoment
  <2> QED
    BY <2>2, <2>3, <2>4
<1>2. ASSUME NEW b \in Batches, NoLogits(b) PROVE DecodeInv'
  BY <1>2, DecodesKeeps DEF NoLogits, TypeOK, SnapshotIsOfOneMoment
<1>3. ASSUME NEW b \in Batches, NEW e \in BOOLEAN, NEW kv \in BOOLEAN,
             NEW missing \in Missing, Infer(b, e, missing, kv)
      PROVE  DecodeInv'
  <2>1. TypeOK' /\ ContextIsDecoded'
    BY <1>3, DecodesKeeps DEF Infer, TypeOK
  <2>2. ASSUME NEW s \in snapshot'
        PROVE  s.hidden_states.at = s.n_past - 1 /\ s.kv_cache_layer = capture_kv_cache(n_past', kv)
               /\ s.n_past = n_past'
    <3>1. n_past' = n_past + Len(b)
      BY <1>3 DEF Infer, Decodes
    <3>2. /\ s.n_past = n_past' /\ s.kv_cache_layer = capture_kv_cache(n_past', kv)
          /\ s.hidden_states = capture_hidden_states(b, e, missing)
      BY <1>3, <2>2 DEF Infer
    <3>3. s.hidden_states.at = LastPos(b)
      BY <3>2 DEF capture_hidden_states
    <3>4. n_past \in Int /\ Len(b) \in Int
      BY BatchType, ContextAssumption DEF TypeOK
    <3> QED
      BY <3>1, <3>2, <3>3, <3>4 DEF LastPos
  <2>3. \A k \in capture_kv_cache(n_past', kv) : k.dims[3] = n_past'
    BY DEF capture_kv_cache
  <2>4. SnapshotIsOfOneMoment'
    BY <1>3, <2>2, <2>3 DEF Infer, SnapshotIsOfOneMoment
  <2> QED
    BY <2>1, <2>4
<1>4. ASSUME NEW b \in Batches, InferPanics(b, TRUE) PROVE DecodeInv'
  BY <1>4, DecodesKeeps DEF InferPanics, TypeOK, SnapshotIsOfOneMoment
<1>5. ASSUME NEW i \in 0..model.n_layer, snapshot_to_packet(i) PROVE DecodeInv'
  BY <1>5 DEF snapshot_to_packet, TypeOK, ContextIsDecoded, SnapshotIsOfOneMoment
<1>6. CASE UNCHANGED vars
  BY <1>6 DEF vars, TypeOK, ContextIsDecoded, SnapshotIsOfOneMoment
<1> QED
  BY <1>1, <1>2, <1>3, <1>4, <1>5, <1>6 DEF Next

\* The inductive invariant holds in every behaviour.
THEOREM DecodeInvariance == Spec => []DecodeInv
BY DecodeInit, DecodeNext, PTL DEF Spec

\* The context and n_past agree whatever failed in between.
THEOREM ContextIsDecodedHolds == Spec => []ContextIsDecoded
<1>1. DecodeInv => ContextIsDecoded
  BY DEF DecodeInv
<1> QED
  BY <1>1, DecodeInvariance, PTL

\* A snapshot is of one moment.
THEOREM SnapshotIsOfOneMomentHolds == Spec => []SnapshotIsOfOneMoment
<1>1. DecodeInv => SnapshotIsOfOneMoment
  BY DEF DecodeInv
<1> QED
  BY <1>1, DecodeInvariance, PTL
-----------------------------------------------------------------------------
(* Layers *)

\* What capture_hidden_states has after n layers, from what it had after n - 1.
After(f, n, missing) ==
  IF n = 0 THEN <<>> ELSE IF n - 1 \in missing THEN f[n - 1] ELSE Append(f[n - 1], n - 1)

\* The layers can be gone through one after another.
LEMMA LayersExist ==
  ASSUME NEW N \in Nat, NEW missing
  PROVE  \E f : f = [n \in 0..N |-> After(f, n, missing)]
<1> DEFINE G == {m \in Nat : \E f : f = [n \in 0..m |-> After(f, n, missing)]}
<1>1. 0 \in G
  <2>1. [n \in 0..0 |-> <<>>] = [n \in 0..0 |-> After([k \in 0..0 |-> <<>>], n, missing)]
    BY DEF After
  <2> QED
    BY <2>1
<1>2. ASSUME NEW m \in Nat, m \in G PROVE m + 1 \in G
  <2>1. PICK f : f = [n \in 0..m |-> After(f, n, missing)]
    BY <1>2
  <2>2. PICK g : g = [n \in 0..m + 1 |-> IF n <= m THEN f[n] ELSE After(f, m + 1, missing)]
    OBVIOUS
  <2>3. ASSUME NEW n \in 0..m + 1 PROVE g[n] = After(g, n, missing)
    <3>1. n # 0 => n - 1 \in 0..m /\ n - 1 \in 0..m + 1 /\ n - 1 <= m
      OBVIOUS
    <3>2. n # 0 => g[n - 1] = f[n - 1]
      BY <2>2, <3>1
    <3>3. After(g, n, missing) = After(f, n, missing)
      BY <3>2 DEF After
    <3>4. CASE n <= m
      BY <2>1, <2>2, <3>3, <3>4
    <3>5. CASE n = m + 1
      BY <2>2, <3>3, <3>5
    <3> QED
      BY <3>4, <3>5
  <2>4. g = [n \in 0..m + 1 |-> After(g, n, missing)]
    BY <2>2, <2>3
  <2> QED
    BY <2>4
<1>3. N \in G
  <2> HIDE DEF G
  <2> QED
    BY <1>1, <1>2, NaturalsFrom
<1> QED
  BY <1>3

\* That every layer has a state: then each is where its number says.
AllThere(layers, n) == Len(layers) = n => \A i \in 1..n : layers[i] = i - 1

\* As many states as layers means that none was skipped.
LEMMA LayersInOrder ==
  ASSUME NEW missing, model.n_layer \in Nat
  PROVE  LayersThere(missing) \in Seq(Int) /\ AllThere(LayersThere(missing), model.n_layer)
<1> DEFINE N == model.n_layer
           Is(f) == f = [n \in 0..N |-> After(f, n, missing)]
<1>1. LayersThere(missing) = (CHOOSE f : Is(f))[N]
  BY DEF LayersThere, After
<1>2. PICK f : f = CHOOSE g : Is(g)
  OBVIOUS
<1>3. Is(f)
  <2>1. \E g : Is(g)
    BY LayersExist
  <2> HIDE DEF Is
  <2> QED
    BY <1>2, <2>1
<1>4. \A n \in 0..N : f[n] = After(f, n, missing)
  BY <1>3
<1> HIDE DEF Is
<1> DEFINE Ok(n) == f[n] \in Seq(Int) /\ Len(f[n]) <= n /\ AllThere(f[n], n)
           G == {n \in Nat : n <= N => Ok(n)}
<1>5. 0 \in G
  <2>1. f[0] = <<>>
    BY <1>4 DEF After
  <2>2. <<>> \in Seq(Int) /\ Len(<<>>) <= 0 /\ AllThere(<<>>, 0)
    BY DEF AllThere
  <2>3. Ok(0)
    BY <2>1, <2>2, Zenon
  <2> HIDE DEF Ok
  <2> QED
    BY <2>3
<1>6. ASSUME NEW n \in Nat, n \in G PROVE n + 1 \in G
  <2>1. SUFFICES ASSUME n + 1 <= N PROVE Ok(n + 1)
    OBVIOUS
  <2>2. Ok(n)
    BY <1>6, <2>1
  <2>3. f[n + 1] = IF n \in missing THEN f[n] ELSE Append(f[n], n)
    BY <1>4, <2>1 DEF After
  <2>4. CASE n \in missing
    BY <2>2, <2>3, <2>4 DEF AllThere
  <2>5. CASE n \notin missing
    <3>1. PICK s \in Seq(Int) : s = f[n] /\ Len(s) <= n /\ (Len(s) = n => \A i \in 1..n : s[i] = i - 1)
      BY <2>2 DEF AllThere
    <3>2. /\ Append(s, n) \in Seq(Int) /\ Len(Append(s, n)) = Len(s) + 1
          /\ \A i \in 1..Len(s) + 1 : Append(s, n)[i] = IF i <= Len(s) THEN s[i] ELSE n
      OBVIOUS
    <3>3. Len(s) = n => \A i \in 1..n + 1 : Append(s, n)[i] = i - 1
      BY <3>1, <3>2
    <3> QED
      BY <2>3, <2>5, <3>1, <3>2, <3>3 DEF AllThere
  <2> QED
    BY <2>4, <2>5
<1>7. N \in G
  <2> HIDE DEF G
  <2> QED
    BY <1>5, <1>6, NaturalsFrom
<1> QED
  BY <1>1, <1>2, <1>7

\* The layers of a snapshot, and the index a packet was made with.
LayersInv ==
  /\ \A s \in snapshot : /\ s.hidden_states.layers \in Seq(Int)
                         /\ AllThere(s.hidden_states.layers, model.n_layer)
  /\ \A k \in packet : k.layer_index \in Nat

\* What is captured is all of the layers, the final one, or nothing.
LEMMA CapturedInOrder ==
  ASSUME NEW b, NEW e, NEW missing, model.n_layer \in Nat
  PROVE  LET layers == capture_hidden_states(b, e, missing).layers
         IN  layers \in Seq(Int) /\ AllThere(layers, model.n_layer)
<1>1. PICK n \in Nat : n = model.n_layer
  OBVIOUS
<1>2. <<n - 1>> \in Seq(Int) /\ AllThere(<<n - 1>>, n)
  BY DEF AllThere
<1>3. <<>> \in Seq(Int) /\ AllThere(<<>>, n)
  BY DEF AllThere
<1> QED
  BY <1>1, <1>2, <1>3, LayersInOrder DEF capture_hidden_states

\* Only infer changes the snapshot, only snapshot_to_packet the packet.
LEMMA LayersNext ==
  ASSUME TypeOK, LayersInv, [Next]_vars
  PROVE  LayersInv'
<1>0. model.n_layer \in Nat
  BY ModelsAssumption DEF TypeOK
<1>1. ASSUME NEW b \in Batches, NEW e \in BOOLEAN, NEW kv \in BOOLEAN,
             NEW missing \in Missing, Infer(b, e, missing, kv)
      PROVE  LayersInv'
  <2>1. /\ \A s \in snapshot' : s.hidden_states = capture_hidden_states(b, e, missing)
        /\ model' = model /\ packet' = packet
    BY <1>1 DEF Infer
  <2> QED
    BY <1>0, <2>1, CapturedInOrder DEF LayersInv
<1>2. ASSUME NEW i \in 0..model.n_layer, snapshot_to_packet(i) PROVE LayersInv'
  <2>1. \A k \in packet' : k.layer_index = i
    BY <1>2 DEF snapshot_to_packet
  <2>2. UNCHANGED <<model, snapshot>>
    BY <1>2 DEF snapshot_to_packet
  <2> QED
    BY <1>0, <2>1, <2>2 DEF LayersInv
<1>3. ASSUME UNCHANGED <<model, snapshot, packet>> PROVE LayersInv'
  BY <1>3 DEF LayersInv
<1> QED
  BY <1>1, <1>2, <1>3 DEF Next, vars, DecodeFails, NoLogits, InferPanics

\* Layers are found at their places in every behaviour.
THEOREM LayersInvariance == Spec => []LayersInv
<1>1. Init => LayersInv
  BY DEF Init, LayersInv
<1>2. DecodeInv => TypeOK
  BY DEF DecodeInv
<1> QED
  BY <1>1, <1>2, LayersNext, DecodeInvariance, PTL DEF Spec

\* The least of two integers.
LEMMA LeastOfTwo ==
  ASSUME NEW a \in Int, NEW b \in Int
  PROVE  Min({a, b}) = IF a <= b THEN a ELSE b
<1>1. PICK m : m = IF a <= b THEN a ELSE b
  OBVIOUS
<1>2. m \in {a, b} /\ \A y \in {a, b} : m <= y
  BY <1>1
<1>3. \A x \in {a, b} : (\A y \in {a, b} : x <= y) => x = m
  BY <1>1
<1> QED
  BY <1>1, <1>2, <1>3 DEF Min

\* The state at an index of a whole list is the one of the layer with that number.
LEMMA LayerNamed ==
  TypeOK /\ LayersInv => PacketNamesItsLayer
<1> SUFFICES ASSUME TypeOK, LayersInv, NEW s \in snapshot, NEW k \in packet,
                    Len(s.hidden_states.layers) = model.n_layer,
                    k.payload.kind = "hiddenState", k.payload = Payload(s, k.layer_index)
             PROVE  k.payload.layer = Min({k.layer_index, model.n_layer - 1})
  BY DEF PacketNamesItsLayer
<1>1. PICK layers \in Seq(Int), n \in Nat, i \in Nat :
        /\ layers = s.hidden_states.layers /\ n = model.n_layer /\ i = k.layer_index
        /\ Len(layers) = n /\ \A j \in 1..n : layers[j] = j - 1
  BY ModelsAssumption DEF TypeOK, LayersInv, AllThere
<1>2. layers # <<>> /\ k.payload.layer = StateAt(layers, i)
  BY <1>1 DEF Payload
<1>3. n > 0
  BY <1>1, <1>2
<1>4. /\ Min({i + 1, n}) = IF i + 1 <= n THEN i + 1 ELSE n
      /\ Min({i, n - 1}) = IF i <= n - 1 THEN i ELSE n - 1
  BY LeastOfTwo
<1>5. Min({i + 1, n}) \in 1..n /\ Min({i + 1, n}) - 1 = Min({i, n - 1})
  BY <1>3, <1>4
<1>6. StateAt(layers, i) = Min({i + 1, n}) - 1
  BY <1>1, <1>5 DEF StateAt
<1>7. k.payload.layer = Min({i, n - 1})
  BY <1>2, <1>5, <1>6
<1> QED
  BY <1>1, <1>7

\* A packet that snapshot_to_packet makes of a snapshot with the states of all of
\* the model's layers names the layer its state is of, whatever the model is.
THEOREM PacketNamesItsLayerHolds == Spec => []PacketNamesItsLayer
<1>1. DecodeInv => TypeOK
  BY DEF DecodeInv
<1> QED
  BY <1>1, LayerNamed, LayersInvariance, DecodeInvariance, PTL
=============================================================================
