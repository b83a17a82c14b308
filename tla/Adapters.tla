------------------------------ MODULE Adapters ------------------------------
(***************************************************************************)
(* The decision of the handshake on two hidden sizes (rpc/handshake.rs)    *)
(* and the adapters (src/src/adapter): how one is built from a spec and    *)
(* what it makes of a vector.  Entries and weights are integers; the       *)
(* factor a NormMatchAdapter scales by is kept as its square, num / den.   *)
(***************************************************************************)
EXTENDS DotProduct

CONSTANTS
  LocalHidden,   \* cfg.agent.hidden_size
  Passthrough    \* cfg.adapter.allow_dimension_mismatch_passthrough

\* What the handshake concludes from the two hidden sizes.
Decision(hidden) ==
  IF hidden # LocalHidden /\ ~Passthrough
  THEN [status |-> "needsAdapter", adapter |-> "linearProjection"]
  ELSE [status |-> "accepted", adapter |-> "identity"]

AlignmentSpec(type, source, target, weights) ==
  [adapter_type |-> type, source_dim |-> source, target_dim |-> target,
   weights |-> weights]

NormMatchAdapter(dim, norm) ==
  [type |-> "normMatch", source_dim |-> dim, target_dim |-> dim, target_norm |-> norm]
LinearProjectionAdapter(spec) ==
  [type |-> "linearProjection", source_dim |-> spec.source_dim,
   target_dim |-> spec.target_dim, weights |-> spec.weights]

\* Identity is built as a NormMatchAdapter, and takes no norm from the spec.
target_norm(spec) ==
  IF spec.adapter_type = "normMatch" /\ Len(spec.weights) = 1 THEN spec.weights[1] ELSE 1

\* The adapters that can be built from a spec: one, or none.
from_spec(spec) ==
  IF spec.adapter_type = "linearProjection"
  THEN {a \in {LinearProjectionAdapter(spec)} :
          Len(spec.weights) = spec.source_dim * spec.target_dim}
  ELSE {NormMatchAdapter(spec.source_dim, target_norm(spec))}

\* Fault: rows overlap, as if each began one weight after the last.
RowOverlapping(a, i) == SubSeq(a.weights, i, i + a.source_dim - 1)

Row(a, i) == SubSeq(a.weights, (i - 1) * a.source_dim + 1, i * a.source_dim)

Unscaled(v) == [vec |-> v, num |-> 1, den |-> 1]

\* Fault: scaled by the norm where it should be divided by it.
ScaleMultiplying(a, v) == [vec |-> v, num |-> Dot(v, v), den |-> a.target_norm * a.target_norm]

Scale(a, v) == [vec |-> v, num |-> a.target_norm * a.target_norm, den |-> Dot(v, v)]

Project(a, v) == Unscaled([i \in 1..a.target_dim |-> Dot(Row(a, i), v)])

\* The vectors an adapter makes of one: one, or none where it refuses the length,
\* which a NormMatchAdapter does not look at.
adapt(a, v) ==
  IF a.type = "linearProjection"
  THEN IF Len(v) = a.source_dim THEN {Project(a, v)} ELSE {}
  ELSE {IF Dot(v, v) > 0 THEN Scale(a, v) ELSE Unscaled(v)}
=============================================================================
