-------------------------- MODULE AlignmentProofs --------------------------
(***************************************************************************)
(* Theorems about Alignment, for every set of sizes, weights and entries.  *)
(***************************************************************************)
EXTENDS Alignment, DotProductProofs

\* The inductive invariant.
AlignInv == TypeOK /\ HoldingInv /\ RefusedForCause

\* A weight vector drawn by kaiming_uniform_weights has one entry for each pair
\* of a source and a target coordinate.
LEMMA KaimingLength ==
  ASSUME NEW s \in Nat, NEW t \in Nat, NEW w \in kaiming_uniform_weights(s, t)
  PROVE  w \in Seq(Int) /\ Len(w) = s * t
<1>1. s * t \in Nat
  BY SMT
<1>2. w \in [1..(s * t) -> Int]
  BY WeightsAssumption DEF kaiming_uniform_weights
<1>3. QED
  BY <1>1, <1>2

\* What from_spec builds from a spec has the spec's sizes, provided that a spec
\* which is no projection has only one; only a projection may not be built.
LEMMA BuildsToSize ==
  ASSUME NEW s, s.adapter_type \in {"identity", "linearProjection", "normMatch"},
         s.source_dim \in Nat, s.target_dim \in Nat
  PROVE  /\ \A a \in from_spec(s) :
              /\ a.source_dim = s.source_dim
              /\ a.type = "linearProjection" => a.target_dim = s.target_dim
              /\ a.type = "normMatch" => a.target_dim = s.source_dim
              /\ a.type \in {"linearProjection", "normMatch"}
              /\ a.type = "normMatch" => s.adapter_type # "linearProjection"
         /\ from_spec(s) = {} =>
              /\ s.adapter_type = "linearProjection"
              /\ Len(s.weights) # s.source_dim * s.target_dim
<1>1. CASE s.adapter_type = "linearProjection"
  <2>1. from_spec(s) = {a \in {LinearProjectionAdapter(s)} :
                          Len(s.weights) = s.source_dim * s.target_dim}
    BY <1>1 DEF from_spec
  <2>2. \A a \in from_spec(s) : a = LinearProjectionAdapter(s)
    BY <2>1
  <2>3. from_spec(s) = {} => Len(s.weights) # s.source_dim * s.target_dim
    BY <2>1
  <2>4. QED
    BY <1>1, <2>2, <2>3 DEF LinearProjectionAdapter
<1>2. CASE s.adapter_type # "linearProjection"
  <2>1. from_spec(s) = {NormMatchAdapter(s.source_dim, target_norm(s))}
    BY <1>2 DEF from_spec
  <2>2. from_spec(s) # {}
    BY <2>1
  <2>3. \A a \in from_spec(s) : a = NormMatchAdapter(s.source_dim, target_norm(s))
    BY <2>1
  <2>4. QED
    BY <1>2, <2>2, <2>3 DEF NormMatchAdapter
<1>3. QED
  BY <1>1, <1>2

\* What an adapter makes of a vector of its source size has its target size.
LEMMA AdaptsToSize ==
  ASSUME NEW a, NEW v, NEW o \in adapt(a, v),
         a.type \in {"linearProjection", "normMatch"},
         a.target_dim \in Nat,
         Len(v) = a.source_dim,
         a.type = "normMatch" => a.target_dim = a.source_dim
  PROVE  Len(o.vec) = a.target_dim
<1>1. CASE a.type = "linearProjection"
  <2>1. o.vec = [i \in 1..a.target_dim |-> Dot(Row(a, i), v)]
    BY <1>1 DEF adapt, Project, Unscaled
  <2>2. QED
    BY <2>1
<1>2. CASE a.type = "normMatch"
  <2>1. o.vec = v
    BY <1>2 DEF adapt, Unscaled, Scale
  <2>2. QED
    BY <1>2, <2>1
<1>3. QED
  BY <1>1, <1>2

\* The sizes follow from the invariant: the adapter was built from the spec that
\* is held, and the output is what it made of the input.
LEMMA SizesFit ==
  AlignInv => AdaptedFits
<1>1. SUFFICES ASSUME AlignInv,
                      NEW s \in spec, NEW o \in output,
                      ~Passthrough, Len(input) = s.source_dim
               PROVE  Len(o.vec) = s.target_dim
  BY DEF AdaptedFits
<1>2. PICK a \in adapter : o \in adapt(a, input)
  BY <1>1 DEF AlignInv, HoldingInv
<1>3. /\ a \in from_spec(s)
      /\ s.adapter_type \in {"identity", "linearProjection", "normMatch"}
      /\ s.source_dim \in Nat /\ s.target_dim \in Nat
  BY <1>1 DEF AlignInv, TypeOK, HoldingInv
<1>4. s.adapter_type # "linearProjection" => s.source_dim = s.target_dim
  BY <1>1 DEF AlignInv, HoldingInv
<1>5. /\ a.type \in {"linearProjection", "normMatch"}
      /\ a.source_dim = s.source_dim
      /\ a.target_dim = s.target_dim
      /\ a.type = "normMatch" => a.target_dim = a.source_dim
  BY <1>3, <1>4, BuildsToSize
<1>6. QED
  BY <1>1, <1>2, <1>3, <1>5, AdaptsToSize

\* AlignInv holds at the start.
LEMMA InitAlign ==
  Init => AlignInv
BY DEF Init, AlignInv, TypeOK, HoldingInv, RefusedForCause

\* A verdict taken as it is: a projection without weights, or an identity between
\* sizes that are equal unless mismatches are let through.
LEMMA FollowVerdictAlign ==
  ASSUME AlignInv, FollowVerdict PROVE AlignInv'
<1> PICK s : s = AlignmentSpec(Decision(remote).adapter, remote, LocalHidden, <<>>)
  OBVIOUS
<1>1. spec' = {s} /\ adapter' = {} /\ output' = {} /\ phase' = "specified"
  BY DEF AlignInv, HoldingInv, FollowVerdict
<1>2. /\ s.adapter_type \in {"identity", "linearProjection"}
      /\ s.source_dim \in Nat /\ s.target_dim \in Nat
      /\ s.weights = <<>> /\ s.weights \in Seq(Int)
  BY DimsAssumption DEF AlignInv, TypeOK, AlignmentSpec, Decision
<1>3. s.adapter_type # "linearProjection" => Passthrough \/ s.source_dim = s.target_dim
  BY PassthroughAssumption DEF AlignmentSpec, Decision
<1>4. TypeOK'
  BY <1>1, <1>2 DEF AlignInv, TypeOK, FollowVerdict
<1>5. HoldingInv'
  BY <1>1, <1>2, <1>3 DEF HoldingInv
<1>6. RefusedForCause'
  BY <1>1 DEF RefusedForCause
<1>7. QED
  BY <1>4, <1>5, <1>6 DEF AlignInv

\* An answered spec: NormMatch between equal sizes, or a projection with all of
\* its weights.
LEMMA AnswerAlign ==
  ASSUME AlignInv, phase = "new",
         NEW s, Answer(s), UNCHANGED <<remote, adapter, input, output>>,
         s.adapter_type \in {"linearProjection", "normMatch"},
         s.source_dim \in Nat, s.target_dim \in Nat, s.weights \in Seq(Int),
         s.adapter_type = "linearProjection" =>
           Len(s.weights) = s.source_dim * s.target_dim,
         s.adapter_type = "normMatch" => s.source_dim = s.target_dim
  PROVE  AlignInv'
<1>1. spec' = {s} /\ adapter' = {} /\ output' = {} /\ phase' = "specified"
  BY DEF AlignInv, HoldingInv, Answer
<1>2. TypeOK'
  BY <1>1 DEF AlignInv, TypeOK
<1>3. HoldingInv'
  BY <1>1 DEF HoldingInv
<1>4. RefusedForCause'
  BY <1>1 DEF RefusedForCause
<1>5. QED
  BY <1>2, <1>3, <1>4 DEF AlignInv

\* negotiateAlignment answers such specs, or refuses a size that is zero.
LEMMA NegotiateAlign ==
  ASSUME AlignInv, NEW source \in Dims, NEW target \in Dims,
         NegotiateAlignment(source, target)
  PROVE  AlignInv'
<1> source \in Nat /\ target \in Nat
  BY DimsAssumption
<1>1. phase = "new" /\ UNCHANGED <<remote, adapter, input, output>>
  BY DEF NegotiateAlignment
<1>2. CASE source = 0 \/ target = 0
  <2>1. phase' = "refused" /\ spec' = {} /\ adapter' = {} /\ output' = {}
    BY <1>1, <1>2 DEF NegotiateAlignment, AlignInv, HoldingInv
  <2>2. TypeOK'
    BY <1>1, <2>1 DEF AlignInv, TypeOK
  <2>3. HoldingInv'
    BY <2>1 DEF HoldingInv
  <2>4. RefusedForCause'
    BY <2>1 DEF RefusedForCause
  <2>5. QED
    BY <2>2, <2>3, <2>4 DEF AlignInv
<1>3. CASE source > 0 /\ target > 0 /\ source = target
  <2>1. PICK s : s = AlignmentSpec("normMatch", source, target, <<1>>)
    OBVIOUS
  <2>2. Answer(s)
    BY <1>3, <2>1 DEF NegotiateAlignment
  <2>3. /\ s.adapter_type = "normMatch"
        /\ s.source_dim = source /\ s.target_dim = target /\ s.weights = <<1>>
    BY <2>1 DEF AlignmentSpec
  <2>4. s.weights \in Seq(Int)
    BY <2>3
  <2>5. QED
    BY <1>1, <1>3, <2>2, <2>3, <2>4, AnswerAlign
<1>4. CASE source > 0 /\ target > 0 /\ source # target
  <2>1. PICK w \in kaiming_uniform_weights(source, target) :
          Answer(AlignmentSpec("linearProjection", source, target, w))
    BY <1>4 DEF NegotiateAlignment
  <2>2. PICK s : s = AlignmentSpec("linearProjection", source, target, w)
    OBVIOUS
  <2>3. /\ s.adapter_type = "linearProjection"
        /\ s.source_dim = source /\ s.target_dim = target /\ s.weights = w
    BY <2>2 DEF AlignmentSpec
  <2>4. s.weights \in Seq(Int) /\ Len(s.weights) = s.source_dim * s.target_dim
    BY <2>3, KaimingLength
  <2>5. QED
    BY <1>1, <2>1, <2>2, <2>3, <2>4, AnswerAlign
<1>5. QED
  BY <1>2, <1>3, <1>4

\* from_spec fails only for a projection whose weights are not there.
LEMMA BuildAlign ==
  ASSUME AlignInv, Build PROVE AlignInv'
<1>1. /\ phase = "specified" /\ output = {}
      /\ adapter' = UNION {from_spec(s) : s \in spec}
      /\ phase' = IF adapter' = {} THEN "refused" ELSE "built"
      /\ UNCHANGED <<remote, spec, input, output>>
  BY DEF AlignInv, HoldingInv, Build
<1>2. \A s \in spec, a \in adapter' : a \in from_spec(s)
  BY <1>1 DEF AlignInv, HoldingInv
<1>3. \A s \in spec :
        /\ s.adapter_type \in {"identity", "linearProjection", "normMatch"}
        /\ s.source_dim \in Nat /\ s.target_dim \in Nat
  BY DEF AlignInv, TypeOK
<1>4. TypeOK'
  <2>1. \A a \in adapter' : a.source_dim \in Nat /\ a.target_dim \in Nat
    <3>1. SUFFICES ASSUME NEW a \in adapter'
                   PROVE  a.source_dim \in Nat /\ a.target_dim \in Nat
      OBVIOUS
    <3>2. PICK s \in spec : a \in from_spec(s)
      BY <1>1
    <3>3. QED
      BY <1>3, <3>2, BuildsToSize
  <2>2. QED
    BY <1>1, <2>1 DEF AlignInv, TypeOK
<1>5. HoldingInv'
  BY <1>1, <1>2 DEF AlignInv, HoldingInv
<1>6. RefusedForCause'
  <2>1. SUFFICES ASSUME phase' = "refused", NEW s \in spec
                 PROVE  s.adapter_type = "linearProjection" /\ s.weights = <<>>
    BY <1>1 DEF RefusedForCause
  <2>2. from_spec(s) = {}
    BY <1>1, <2>1
  <2>3. /\ s.adapter_type = "linearProjection"
        /\ Len(s.weights) # s.source_dim * s.target_dim
    BY <1>3, <2>2, BuildsToSize
  <2>4. QED
    BY <2>3 DEF AlignInv, HoldingInv
<1>7. QED
  BY <1>4, <1>5, <1>6 DEF AlignInv

\* The adapter and its spec stay as they are when a vector is adapted.
LEMMA AdaptAlign ==
  ASSUME AlignInv, NEW v \in Vectors, Adapt(v) PROVE AlignInv'
<1>1. v \in Seq(Entries)
  BY DimsAssumption DEF Vectors
<1>2. /\ phase = "built" /\ input' = v
      /\ output' = UNION {adapt(a, v) : a \in adapter}
      /\ UNCHANGED <<phase, remote, spec, adapter>>
  BY DEF Adapt
<1>3. TypeOK'
  BY <1>1, <1>2 DEF AlignInv, TypeOK
<1>4. HoldingInv'
  BY <1>2 DEF AlignInv, HoldingInv
<1>5. RefusedForCause'
  BY <1>2 DEF RefusedForCause
<1>6. QED
  BY <1>3, <1>4, <1>5 DEF AlignInv

\* AlignInv is inductive.
THEOREM AlignInvariance == Spec => []AlignInv
<1>1. AlignInv /\ [Next]_vars => AlignInv'
  <2>1. SUFFICES ASSUME AlignInv, [Next]_vars PROVE AlignInv'
    OBVIOUS
  <2>2. CASE FollowVerdict
    BY <2>1, <2>2, FollowVerdictAlign
  <2>3. CASE \E s, t \in Dims : NegotiateAlignment(s, t)
    BY <2>1, <2>3, NegotiateAlign
  <2>4. CASE Build
    BY <2>1, <2>4, BuildAlign
  <2>5. CASE \E v \in Vectors : Adapt(v)
    BY <2>1, <2>5, AdaptAlign
  <2>6. CASE UNCHANGED vars
    BY <2>1, <2>6 DEF vars, AlignInv, TypeOK, HoldingInv, RefusedForCause
  <2>7. QED
    BY <2>1, <2>2, <2>3, <2>4, <2>5, <2>6 DEF Next
<1>2. QED
  BY <1>1, InitAlign, PTL DEF Spec

\* An adapter that was built turns a vector of the spec's source size into one of
\* its target size (adapter/mod.rs, rpc/negotiate.rs), whatever the sizes are.
THEOREM AdaptedFitsHolds == Spec => []AdaptedFits
BY AlignInvariance, SizesFit, PTL

\* Every spec that negotiateAlignment answers can be built by from_spec.
THEOREM RefusedForCauseHolds == Spec => []RefusedForCause
<1>1. AlignInv => RefusedForCause
  BY DEF AlignInv
<1>2. QED
  BY <1>1, AlignInvariance, PTL
-----------------------------------------------------------------------------
(* NormMatch *)

\* What a NormMatchAdapter that was built makes of a vector is the output only if
\* that adapter is the one that is held; its norm is an integer.
LEMMA HeldAdapter ==
  ASSUME AlignInv, NEW a \in adapter, NEW o \in output
  PROVE  /\ o \in adapt(a, input)
         /\ a.type = "normMatch" => a.target_norm \in Int
<1>1. PICK s \in spec : a \in from_spec(s)
  BY DEF AlignInv, HoldingInv
<1>2. PICK b \in adapter : o \in adapt(b, input) /\ b \in from_spec(s)
  BY DEF AlignInv, HoldingInv
<1>3. a = b
  BY <1>1, <1>2 DEF from_spec
<1>4. ASSUME a.type = "normMatch" PROVE a.target_norm \in Int
  <2>1. a.target_norm = target_norm(s)
    BY <1>1, <1>4 DEF from_spec, NormMatchAdapter, LinearProjectionAdapter
  <2>2. s.weights \in Seq(Int)
    BY DEF AlignInv, TypeOK
  <2>3. target_norm(s) \in Int
    BY <2>2 DEF target_norm
  <2> QED
    BY <2>1, <2>3
<1> QED
  BY <1>2, <1>3, <1>4

\* A scaled vector and the scaled double of it are the same.
LEMMA DoubleIsSame ==
  ASSUME NEW v \in Seq(Int), NEW a, a.type = "normMatch", a.target_norm \in Int,
         Dot(v, v) > 0, NEW p \in adapt(a, [i \in 1..Len(v) |-> 2 * v[i]])
  PROVE  Same(Scale(a, v), p)
<1> DEFINE d == Dot(v, v)
           t == a.target_norm
<1>1. d \in Nat /\ d > 0 /\ t \in Int
  BY SquareType
<1>2. [i \in 1..Len(v) |-> 2 * v[i]] = Times(2, v)
  BY DEF Times
<1>3. Dot(Times(2, v), Times(2, v)) = 2 * (2 * d)
  BY TimesSquare
<1>4. p = Scale(a, Times(2, v))
  <2> HIDE DEF d
  <2>1. Dot(Times(2, v), Times(2, v)) > 0
    BY <1>1, <1>3
  <2> QED
    BY <1>2, <2>1 DEF adapt
<1>5. /\ Scale(a, v).vec = v /\ Scale(a, v).num = t * t /\ Scale(a, v).den = d
      /\ p.vec = Times(2, v) /\ p.num = t * t /\ p.den = 2 * (2 * d)
  BY <1>3, <1>4 DEF Scale
<1>6. ASSUME NEW i \in 1..Len(v)
      PROVE  /\ v[i] * Times(2, v)[i] >= 0
             /\ v[i] * v[i] * (t * t) * (2 * (2 * d))
                  = Times(2, v)[i] * Times(2, v)[i] * (t * t) * d
  <2> HIDE DEF d, t
  <2>1. PICK x \in Int : x = v[i] /\ Times(2, v)[i] = 2 * x
    BY TimesType
  <2>2. x * (2 * x) >= 0
    OBVIOUS
  <2>3. x * x * (t * t) * (2 * (2 * d)) = (2 * x) * (2 * x) * (t * t) * d
    BY <1>1
  <2> QED
    BY <2>1, <2>2, <2>3
<1> HIDE DEF d, t
<1> QED
  BY <1>5, <1>6 DEF Same

\* The norm of the output follows from which adapter made it.
LEMMA NormFollows ==
  AlignInv => NormIsMatched
<1>1. SUFFICES ASSUME AlignInv, NEW a \in adapter, NEW o \in output, a.type = "normMatch"
               PROVE
    \/ /\ o.num * Dot(o.vec, o.vec) = o.den * a.target_norm * a.target_norm
       /\ \A p \in adapt(a, [i \in 1..Len(input) |-> 2 * input[i]]) : Same(o, p)
    \/ Dot(input, input) = 0 /\ o = Unscaled(input)
  BY DEF NormIsMatched
<1>2. o \in adapt(a, input) /\ a.target_norm \in Int
  BY <1>1, HeldAdapter
<1>3. input \in Seq(Int)
  BY <1>1, WeightsAssumption, SeqMonotonic DEF AlignInv, TypeOK
<1>4. Dot(input, input) \in Nat
  BY <1>3, SquareType
<1>5. CASE Dot(input, input) > 0
  <2>1. o = Scale(a, input)
    BY <1>1, <1>2, <1>5 DEF adapt
  <2>2. /\ o.vec = input /\ o.num = a.target_norm * a.target_norm
        /\ o.den = Dot(input, input)
    BY <2>1 DEF Scale
  <2>3. \A t, d \in Int : t * t * d = d * t * t
    OBVIOUS
  <2>4. o.num * Dot(o.vec, o.vec) = o.den * a.target_norm * a.target_norm
    BY <1>2, <1>4, <2>2, <2>3
  <2> QED
    BY <1>1, <1>2, <1>3, <1>5, <2>1, <2>4, DoubleIsSame
<1>6. CASE ~(Dot(input, input) > 0)
  BY <1>1, <1>2, <1>4, <1>6 DEF adapt
<1> QED
  BY <1>5, <1>6

\* NormMatchAdapter (adapter/norm_match.rs) scales every vector but the zero vector
\* to the norm that it was built with, whatever the vectors and the norms are.
THEOREM NormIsMatchedHolds == Spec => []NormIsMatched
BY AlignInvariance, NormFollows, PTL
-----------------------------------------------------------------------------
(* Linear projection *)

\* A weight has a row and a place in it.
LEMMA WeightHasPlace ==
  ASSUME NEW n \in Nat, NEW m \in Nat, NEW k \in 1..(n * m)
  PROVE  \E i \in 1..m, j \in 1..n : k = (i - 1) * n + j
<1> DEFINE Placed(r) == \A q \in 1..(n * r) : \E i \in 1..r, j \in 1..n : q = (i - 1) * n + j
           G == {r \in Nat : Placed(r)}
<1>1. 0 \in G
  OBVIOUS
<1>2. ASSUME NEW r \in Nat, r \in G PROVE r + 1 \in G
  <2>1. SUFFICES ASSUME NEW q \in 1..(n * (r + 1))
                 PROVE  \E i \in 1..(r + 1), j \in 1..n : q = (i - 1) * n + j
    OBVIOUS
  <2>2. n * r \in Nat /\ n * (r + 1) = n * r + n
    OBVIOUS
  <2>3. CASE q <= n * r
    <3>1. q \in 1..(n * r)
      BY <2>2, <2>3
    <3>2. PICK i \in 1..r, j \in 1..n : q = (i - 1) * n + j
      BY <1>2, <3>1
    <3> QED
      BY <3>2
  <2>4. CASE q > n * r
    <3>1. q - n * r \in 1..n
      BY <2>2, <2>4
    <3>2. r + 1 \in 1..(r + 1) /\ q = ((r + 1) - 1) * n + (q - n * r)
      BY <2>2
    <3> QED
      BY <3>1, <3>2
  <2> QED
    BY <2>2, <2>3, <2>4
<1>3. Nat \subseteq G
  <2> HIDE DEF G
  <2> QED
    BY <1>1, <1>2, NaturalsFrom
<1> QED
  BY <1>3

\* A row is as long as the source, and the place in it is the weight's.
LEMMA RowEntry ==
  ASSUME NEW a, a.source_dim \in Nat, a.target_dim \in Nat, a.weights \in Seq(Int),
         Len(a.weights) = a.source_dim * a.target_dim,
         NEW i \in 1..a.target_dim
  PROVE  /\ Row(a, i) \in Seq(Int) /\ Len(Row(a, i)) = a.source_dim
         /\ \A j \in 1..a.source_dim : Row(a, i)[j] = a.weights[(i - 1) * a.source_dim + j]
<1>1. PICK n \in Nat, m \in Nat : n = a.source_dim /\ m = a.target_dim
  OBVIOUS
<1>2. PICK w \in Seq(Int) : w = a.weights /\ Len(w) = n * m
  BY <1>1
<1>3. PICK p \in Nat : p = (i - 1) * n
  <2>1. i - 1 \in Nat /\ (i - 1) * n \in Nat
    BY <1>1
  <2> QED
    BY <2>1
<1>4. i * n = p + n /\ p + n <= n * m
  <2>1. i \in Nat /\ m - i \in Nat
    BY <1>1
  <2>2. (m - i) * n >= 0 /\ (m - i) * n = n * m - i * n /\ i * n \in Nat
    BY <2>1
  <2>3. i * n = (i - 1) * n + n
    BY <2>1
  <2> QED
    BY <1>3, <2>2, <2>3
<1>5. Row(a, i) = SubSeq(w, p + 1, p + n)
  BY <1>1, <1>2, <1>3, <1>4 DEF Row
<1>6. /\ SubSeq(w, p + 1, p + n) \in Seq(Int) /\ Len(SubSeq(w, p + 1, p + n)) = n
      /\ \A j \in 1..n : SubSeq(w, p + 1, p + n)[j] = w[p + j]
  BY <1>2, <1>4
<1> QED
  BY <1>1, <1>2, <1>3, <1>5, <1>6

\* A unit vector takes one entry out of a row.
LEMMA UnitTakesEntry ==
  ASSUME NEW n \in Nat, NEW v \in Seq(Int), Len(v) = n, NEW j \in 1..n
  PROVE  Dot(v, Unit(n, j)) = v[j]
<1>1. /\ Unit(n, j) \in Seq(Int) /\ Len(Unit(n, j)) = n
      /\ \A k \in 1..n : Unit(n, j)[k] = IF k = j THEN 1 ELSE 0
  BY DEF Unit
<1>2. Products(v, Unit(n, j)) \in [1..n -> Int] /\ IsFiniteSet(1..n)
  BY <1>1, ProductsType
<1>3. \A k \in 1..n : v[k] \in Int
  OBVIOUS
<1>4. /\ Products(v, Unit(n, j))[j] = v[j]
      /\ \A k \in (1..n) \ {j} : Products(v, Unit(n, j))[k] = 0
  BY <1>1, <1>3 DEF Products
<1> QED
  BY <1>2, <1>4, SumOfOne DEF Dot

\* What a projection makes of a unit vector is a column of its weights.
LEMMA ProjectsColumn ==
  ASSUME NEW a, a.type = "linearProjection",
         a.source_dim \in Nat, a.target_dim \in Nat, a.weights \in Seq(Int),
         Len(a.weights) = a.source_dim * a.target_dim,
         NEW j \in 1..a.source_dim
  PROVE  adapt(a, Unit(a.source_dim, j))
           = {Unscaled([i \in 1..a.target_dim |-> a.weights[(i - 1) * a.source_dim + j]])}
<1>1. Len(Unit(a.source_dim, j)) = a.source_dim
  BY DEF Unit
<1>2. adapt(a, Unit(a.source_dim, j)) = {Project(a, Unit(a.source_dim, j))}
  BY <1>1 DEF adapt
<1>3. \A i \in 1..a.target_dim :
        Dot(Row(a, i), Unit(a.source_dim, j)) = a.weights[(i - 1) * a.source_dim + j]
  BY RowEntry, UnitTakesEntry
<1> QED
  BY <1>2, <1>3 DEF Project

Projection(n, m, w) ==
  [type |-> "linearProjection", source_dim |-> n, target_dim |-> m, weights |-> w]

\* Two weight vectors differ at a weight, which has a row and a place in it; the
\* unit vector of that place tells their projections apart.
LEMMA WeightsDiffer ==
  ASSUME NEW n \in Nat, NEW m \in Nat, NEW u \in Seq(Int), NEW w \in Seq(Int),
         Len(u) = n * m, Len(w) = n * m, u # w
  PROVE  \E j \in 1..n :
           adapt(Projection(n, m, u), Unit(n, j)) # adapt(Projection(n, m, w), Unit(n, j))
<1>1. n * m \in Nat
  OBVIOUS
<1>2. PICK k \in 1..(n * m) : u[k] # w[k]
  <2>1. PICK l \in Nat : l = n * m
    BY <1>1
  <2>2. u \in [1..l -> Int] /\ w \in [1..l -> Int]
    BY <2>1
  <2>3. \E k \in 1..l : u[k] # w[k]
    BY <2>2
  <2> QED
    BY <2>1, <2>3
<1>3. PICK i \in 1..m, j \in 1..n : k = (i - 1) * n + j
  BY <1>2, WeightHasPlace
<1> DEFINE Column(v) == [r \in 1..m |-> v[(r - 1) * n + j]]
<1>4. adapt(Projection(n, m, u), Unit(n, j)) = {Unscaled(Column(u))}
  <2>1. PICK a : a = Projection(n, m, u)
    OBVIOUS
  <2>2. /\ a.type = "linearProjection" /\ a.source_dim = n /\ a.target_dim = m
        /\ a.weights = u
    BY <2>1 DEF Projection
  <2> QED
    BY <2>1, <2>2, ProjectsColumn
<1>5. adapt(Projection(n, m, w), Unit(n, j)) = {Unscaled(Column(w))}
  <2>1. PICK b : b = Projection(n, m, w)
    OBVIOUS
  <2>2. /\ b.type = "linearProjection" /\ b.source_dim = n /\ b.target_dim = m
        /\ b.weights = w
    BY <2>1 DEF Projection
  <2> QED
    BY <2>1, <2>2, ProjectsColumn
<1>6. Column(u)[i] = u[k] /\ Column(w)[i] = w[k]
  BY <1>3
<1>7. Column(u) # Column(w)
  BY <1>2, <1>6
<1>8. Unscaled(Column(u)).vec = Column(u) /\ Unscaled(Column(w)).vec = Column(w)
  BY DEF Unscaled
<1> HIDE DEF Column
<1>9. Unscaled(Column(u)) # Unscaled(Column(w))
  BY <1>7, <1>8
<1>10. {Unscaled(Column(u))} # {Unscaled(Column(w))}
  BY <1>9
<1> QED
  BY <1>4, <1>5, <1>10

\* Only a projection that has all of its weights is built.
LEMMA ProjectionIsWhole ==
  ASSUME AlignInv, NEW a \in adapter, a.type = "linearProjection"
  PROVE  \E n \in Nat, m \in Nat, u \in Seq(Int) :
           a = Projection(n, m, u) /\ Len(u) = n * m
<1>1. PICK s \in spec : a \in from_spec(s)
  BY DEF AlignInv, HoldingInv
<1>2. /\ a = LinearProjectionAdapter(s)
      /\ Len(s.weights) = s.source_dim * s.target_dim
  BY <1>1 DEF from_spec, NormMatchAdapter
<1>3. s.source_dim \in Nat /\ s.target_dim \in Nat /\ s.weights \in Seq(Int)
  BY DEF AlignInv, TypeOK
<1> QED
  BY <1>2, <1>3 DEF LinearProjectionAdapter, Projection

\* The adapter that is held is such a projection.
LEMMA WeightsCount ==
  AlignInv => EveryWeightCounts
<1>1. SUFFICES ASSUME AlignInv, NEW a \in adapter, a.type = "linearProjection",
                      NEW w \in [1..Len(a.weights) -> Weights], w # a.weights
               PROVE  \E j \in 1..a.source_dim :
                        adapt(a, Unit(a.source_dim, j))
                          # adapt([a EXCEPT !.weights = w], Unit(a.source_dim, j))
  BY DEF EveryWeightCounts
<1>2. PICK n \in Nat, m \in Nat, u \in Seq(Int) : a = Projection(n, m, u) /\ Len(u) = n * m
  BY <1>1, ProjectionIsWhole
<1>3. a.source_dim = n /\ a.weights = u
  BY <1>2 DEF Projection
<1>4. [a EXCEPT !.weights = w] = Projection(n, m, w)
  BY <1>2 DEF Projection
<1>5. n * m \in Nat
  OBVIOUS
<1>6. PICK l \in Nat : l = n * m
  BY <1>5
<1>7. w \in [1..l -> Int]
  BY <1>2, <1>3, <1>6, WeightsAssumption
<1>8. w \in Seq(Int) /\ Len(w) = l
  BY <1>7
<1>9. PICK j \in 1..n :
        adapt(Projection(n, m, u), Unit(n, j)) # adapt(Projection(n, m, w), Unit(n, j))
  BY <1>1, <1>2, <1>3, <1>6, <1>8, WeightsDiffer
<1>10. adapt(a, Unit(n, j)) # adapt([a EXCEPT !.weights = w], Unit(n, j))
  BY <1>2, <1>4, <1>9, Zenon
<1> QED
  BY <1>3, <1>10, Zenon

\* Every one of the target x source weights of a LinearProjectionAdapter
\* (adapter/linear.rs) that was built shows in what it makes of some vector.
THEOREM EveryWeightCountsHolds == Spec => []EveryWeightCounts
BY AlignInvariance, WeightsCount, PTL
=============================================================================
