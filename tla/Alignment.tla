----------------------------- MODULE Alignment -----------------------------
(***************************************************************************)
(* An agent that aligns its vectors with a server's: it learns from the    *)
(* handshake which adapter is required, asks negotiateAlignment for one or *)
(* takes the verdict as it is, builds the adapter with from_spec and       *)
(* applies it.  A float list is a sequence of small integers.              *)
(***************************************************************************)
EXTENDS Adapters

CONSTANTS
  Dims,      \* the sizes an agent may have or ask for
  Weights,   \* the values of a weight
  Entries    \* the values of a vector's entry

ASSUME DimsAssumption == Dims \subseteq Nat /\ LocalHidden \in Nat
ASSUME WeightsAssumption == Weights \subseteq Int /\ Entries \subseteq Int
ASSUME PassthroughAssumption == Passthrough \in BOOLEAN

VARIABLES
  phase,    \* how far the agent has come
  remote,   \* its own hidden size
  spec,     \* the AlignmentSpec it holds: a set of at most one
  adapter,  \* the adapter it built: a set of at most one
  input,    \* the last vector it adapted
  output    \* what came of it: a set of at most one

vars == <<phase, remote, spec, adapter, input, output>>

Init ==
  /\ phase = "new"
  /\ remote \in Dims
  /\ spec = {}
  /\ adapter = {}
  /\ input = <<>>
  /\ output = {}

\* Fault: as many weights as a square matrix has.
KaimingSquare(source, target) == [1..(target * target) -> Weights]

\* Random weights: any values in Weights.
kaiming_uniform_weights(source, target) == [1..(source * target) -> Weights]

\* The agent takes the handshake's verdict: a type, and no weights with it.
FollowVerdict ==
  /\ phase = "new"
  /\ spec' = {AlignmentSpec(Decision(remote).adapter, remote, LocalHidden, <<>>)}
  /\ phase' = "specified"
  /\ UNCHANGED <<remote, adapter, input, output>>

Answer(s) ==
  /\ spec' = {s}
  /\ phase' = "specified"

\* Fault: a target that is smaller is taken for one that matches.
NegotiateAlignmentByBound(source, target) ==
  /\ phase = "new"
  /\ source > 0 /\ target > 0
  /\ \/ /\ target <= source
        /\ Answer(AlignmentSpec("normMatch", source, target, <<1>>))
     \/ /\ source < target
        /\ \E w \in kaiming_uniform_weights(source, target) :
             Answer(AlignmentSpec("linearProjection", source, target, w))
  /\ UNCHANGED <<remote, adapter, input, output>>

\* The agent asks for an adapter, between its size and the server's or others.
NegotiateAlignment(source, target) ==
  /\ phase = "new"
  /\ \/ /\ source = 0 \/ target = 0
        /\ phase' = "refused"
        /\ UNCHANGED spec
     \/ /\ source > 0 /\ source = target
        /\ Answer(AlignmentSpec("normMatch", source, target, <<1>>))
     \/ /\ source > 0 /\ target > 0 /\ source # target
        /\ \E w \in kaiming_uniform_weights(source, target) :
             Answer(AlignmentSpec("linearProjection", source, target, w))
  /\ UNCHANGED <<remote, adapter, input, output>>

Build ==
  /\ phase = "specified"
  /\ adapter' = UNION {from_spec(s) : s \in spec}
  /\ phase' = IF adapter' = {} THEN "refused" ELSE "built"
  /\ UNCHANGED <<remote, spec, input, output>>

\* The adapter keeps no state: it may be applied again.
Adapt(v) ==
  /\ phase = "built"
  /\ input' = v
  /\ output' = UNION {adapt(a, v) : a \in adapter}
  /\ UNCHANGED <<phase, remote, spec, adapter>>

Vectors == UNION {[1..n -> Entries] : n \in Dims}

Next ==
  \/ FollowVerdict
  \/ \E s, t \in Dims : NegotiateAlignment(s, t)
  \/ Build
  \/ \E v \in Vectors : Adapt(v)

Spec == Init /\ [][Next]_vars
-----------------------------------------------------------------------------
(* Properties *)

\* Every variable has its type.
TypeOK ==
  /\ phase \in {"new", "specified", "refused", "built"}
  /\ remote \in Dims
  /\ \A s \in spec :
       /\ s.adapter_type \in {"identity", "linearProjection", "normMatch"}
       /\ s.source_dim \in Nat /\ s.target_dim \in Nat
       /\ s.weights \in Seq(Int)
  /\ \A a \in adapter : a.source_dim \in Nat /\ a.target_dim \in Nat
  /\ input \in Seq(Entries)

\* Unless mismatched sizes are let through, an adapter that was built, from the
\* handshake's verdict or from a negotiated spec, turns every vector of the
\* spec's source size into one of its target size.
AdaptedFits ==
  \A s \in spec, o \in output :
    ~Passthrough /\ Len(input) = s.source_dim => Len(o.vec) = s.target_dim

\* Every spec that negotiateAlignment answers can be built by from_spec: the only
\* spec an agent fails on is the handshake's verdict linearProjection, taken as it
\* is, which brings no weights.
RefusedForCause ==
  phase = "refused" => \A s \in spec :
    s.adapter_type = "linearProjection" /\ s.weights = <<>>

\* What the agent holds at each phase; the inductive part of the two above.
HoldingInv ==
  /\ phase = "new" => spec = {}
  /\ phase # "built" => adapter = {} /\ output = {}
  /\ adapter # {} => spec # {}
  /\ \A s, t \in spec : s = t
  /\ \A s \in spec :
       /\ s.adapter_type = "linearProjection" =>
            s.weights = <<>> \/ Len(s.weights) = s.source_dim * s.target_dim
       /\ s.adapter_type # "linearProjection" =>
            Passthrough \/ s.source_dim = s.target_dim
  /\ \A s \in spec, a \in adapter : a \in from_spec(s)
  /\ \A o \in output : \E a \in adapter : o \in adapt(a, input)

Unit(n, j) == [k \in 1..n |-> IF k = j THEN 1 ELSE 0]

\* Each of the target x source weights matters: projections that differ in one
\* weight differ on some unit vector.
EveryWeightCounts ==
  \A a \in adapter : a.type = "linearProjection" =>
    \A w \in [1..Len(a.weights) -> Weights] :
      w # a.weights =>
        \E j \in 1..a.source_dim :
          adapt(a, Unit(a.source_dim, j))
            # adapt([a EXCEPT !.weights = w], Unit(a.source_dim, j))

\* Whether two adapted vectors are the same vector of reals.
Same(o, p) ==
  \A i \in 1..Len(o.vec) :
    /\ o.vec[i] * p.vec[i] >= 0
    /\ o.vec[i] * o.vec[i] * o.num * p.den = p.vec[i] * p.vec[i] * p.num * o.den

\* NormMatch comes out with the norm its spec asked for, and makes the same of
\* every multiple of a vector; only a zero vector comes out as it went in.
NormIsMatched ==
  \A a \in adapter, o \in output : a.type = "normMatch" =>
    \/ /\ o.num * Dot(o.vec, o.vec) = o.den * a.target_norm * a.target_norm
       /\ \A p \in adapt(a, [i \in 1..Len(input) |-> 2 * input[i]]) : Same(o, p)
    \/ Dot(input, input) = 0 /\ o = Unscaled(input)
=============================================================================
