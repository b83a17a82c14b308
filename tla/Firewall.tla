------------------------------ MODULE Firewall ------------------------------
(***************************************************************************)
(* NeuralFirewall and SafetyProbe (src/src/validation): the probe vectors  *)
(* are read from a file, line by line, when the firewall is made, and      *)
(* every payload is then held against the norm's maximum and the cosine's  *)
(* minimum.  Entries are integers.  A norm and a cosine are roots; they    *)
(* are kept as (signed) squares, and so are the bounds.                    *)
(***************************************************************************)
EXTENDS DotProduct, FiniteSets

CONSTANTS
  Vectors,       \* the vectors a line of the file or a payload may hold
  MaxLines,      \* bound on the lines of the file
  L2NormMax,     \* cfg.l2_norm_max
  CosineMin,     \* cfg.cosine_sim_min, in units of 1 / CosineUnit
  CosineUnit

ASSUME VectorsAssumption == Vectors \subseteq Seq(Int)
ASSUME BoundsAssumption ==
  L2NormMax \in Nat /\ CosineMin \in Int /\ CosineUnit \in Nat \ {0} /\ MaxLines \in Nat

VARIABLES
  phase,    \* "reading", "failed" or "ready"
  lines,    \* the lines read so far
  sum,      \* their sum, of the length of the first that is not empty
  probe,    \* the probe: a set of at most one
  payload,  \* the payload that was validated last: a set of at most one
  verdict   \* and what the gate said

vars == <<phase, lines, sum, probe, payload, verdict>>

Payloads ==
  [kind : {"hiddenState", "latentThought"}, v : Vectors]
    \cup [kind : {"kvCache"}, keys : Vectors, values : Vectors]

\* x * |x|: it compares as x does.
SignedSquare(x) == IF x < 0 THEN -(x * x) ELSE x * x

Zeros(n) == [i \in 1..n |-> 0]
-----------------------------------------------------------------------------
(* SafetyProbe *)

\* NeuralFirewall::new without probe_vectors_path, or before the file is read.
Init ==
  /\ phase \in {"reading", "ready"}
  /\ lines = <<>>
  /\ sum = <<>>
  /\ probe = {}
  /\ payload = {}
  /\ verdict = "none"

\* zip: what goes beyond the shorter of the two is left alone.
AddTo(s, v) == [i \in 1..Len(s) |-> IF i <= Len(v) THEN s[i] + v[i] ELSE s[i]]

\* Fault: every line starts the sum anew.
SumRestarting(s, v) == AddTo(Zeros(Len(v)), v)

\* The first line that is not an empty list sets the length.
Sum(s, v) == AddTo(IF s = <<>> THEN Zeros(Len(v)) ELSE s, v)

ReadLine(v) ==
  /\ phase = "reading" /\ Len(lines) < MaxLines
  /\ lines' = Append(lines, v)
  /\ sum' = Sum(sum, v)
  /\ UNCHANGED <<phase, probe, payload, verdict>>

\* The end of the file.  The centroid is the sum, but for a positive factor.
Build ==
  /\ phase = "reading" /\ lines # <<>>
  /\ probe' = {[centroid |-> sum, dim |-> Len(sum)]}
  /\ phase' = "ready"
  /\ UNCHANGED <<lines, sum, payload, verdict>>

\* The file is missing, a line does not parse, or there is no line at the end:
\* there is no firewall, and no server on this connection.
Fail ==
  /\ phase = "reading"
  /\ phase' = "failed"
  /\ UNCHANGED <<lines, sum, probe, payload, verdict>>

\* Fault: the product is not divided by the vector's norm.
CosineUnscaled(p, v) ==
  IF Len(v) # p.dim \/ Dot(v, v) = 0 \/ Dot(p.centroid, p.centroid) = 0
  THEN [num |-> 0, den |-> 1]
  ELSE [num |-> SignedSquare(Dot(v, p.centroid)), den |-> Dot(p.centroid, p.centroid)]

\* Fault: the sign is lost, as if the absolute value were returned.
CosineUnsigned(p, v) ==
  IF Len(v) # p.dim \/ Dot(v, v) = 0 \/ Dot(p.centroid, p.centroid) = 0
  THEN [num |-> 0, den |-> 1]
  ELSE [num |-> Dot(v, p.centroid) * Dot(v, p.centroid),
        den |-> Dot(v, v) * Dot(p.centroid, p.centroid)]

\* The cosine's signed square; zero where there is no angle to speak of.
cosine_similarity(p, v) ==
  IF Len(v) # p.dim \/ Dot(v, v) = 0 \/ Dot(p.centroid, p.centroid) = 0
  THEN [num |-> 0, den |-> 1]
  ELSE [num |-> SignedSquare(Dot(v, p.centroid)),
        den |-> Dot(v, v) * Dot(p.centroid, p.centroid)]
-----------------------------------------------------------------------------
(* NeuralFirewall *)

check_vector(v) ==
  /\ Dot(v, v) <= L2NormMax * L2NormMax
  /\ \A p \in probe :
       LET c == cosine_similarity(p, v)
       IN c.num * CosineUnit * CosineUnit >= SignedSquare(CosineMin) * c.den

\* Fault: the values of a cache are not looked at.
PartsKeysOnly(x) == IF x.kind = "kvCache" THEN {x.keys} ELSE {x.v}

Parts(x) == IF x.kind = "kvCache" THEN {x.keys, x.values} ELSE {x.v}

Validate(x) ==
  /\ phase = "ready"
  /\ payload' = {x}
  /\ verdict' = IF \A v \in Parts(x) : check_vector(v) THEN "ok" ELSE "offManifold"
  /\ UNCHANGED <<phase, lines, sum, probe>>

Next ==
  \/ \E v \in Vectors : ReadLine(v)
  \/ Build
  \/ Fail
  \/ \E x \in Payloads : Validate(x)

Spec == Init /\ [][Next]_vars
-----------------------------------------------------------------------------
(* Properties *)

\* Every variable has its type, and a probe the length it says.
TypeOK ==
  /\ phase \in {"reading", "failed", "ready"}
  /\ lines \in Seq(Vectors)
  /\ sum \in Seq(Int)
  /\ \A p \in probe : p.centroid \in Seq(Int) /\ p.dim = Len(p.centroid)
  /\ payload \subseteq Payloads
  /\ verdict \in {"none", "ok", "offManifold"}

\* The sums of the first n columns of the lines.
Columns(n) == [i \in 1..n |-> SumFunction([k \in 1..Len(lines) |-> lines[k][i]])]

\* The probe of lines of one length is the sum of their columns, so that their
\* order does not matter (probe.rs sums as it reads and never checks a length).
ProbeIsCentroid ==
  \A p \in probe, n \in {Len(l) : l \in Range(lines)} :
    (\A l \in Range(lines) : Len(l) = n) => p.centroid = Columns(n)

\* Without a payload no verdict was given; the gate let through what passes its
\* check in every part, and nothing else.
VerdictInv ==
  /\ verdict = "none" <=> payload = {}
  /\ phase # "ready" => payload = {} /\ probe = {}
  /\ \A x \in payload : verdict = "ok" <=> \A v \in Parts(x) : check_vector(v)

Opposite(v) == [i \in 1..Len(v) |-> -v[i]]

\* From the file to the verdict: behind a probe whose lines are all the same
\* vector, what points the same way is accepted within the norm, and what points
\* the other way is refused (for a minimum between -1 and 1).
OneDirection ==
  \A p \in probe, x \in payload : x.kind # "kvCache" /\ Cardinality(Range(lines)) = 1 =>
    LET u == lines[1] IN Dot(u, u) > 0 =>
      /\ x.v = u /\ Dot(u, u) <= L2NormMax * L2NormMax => verdict = "ok"
      /\ x.v = Opposite(u) => verdict = "offManifold"

\* No part of an accepted payload exceeds the norm, the values of a cache as
\* little as its keys.
AcceptedIsBounded ==
  \A x \in payload : verdict = "ok" =>
    IF x.kind = "kvCache"
    THEN Dot(x.keys, x.keys) <= L2NormMax * L2NormMax
           /\ Dot(x.values, x.values) <= L2NormMax * L2NormMax
    ELSE Dot(x.v, x.v) <= L2NormMax * L2NormMax

\* As long as the norm allows it, a vector and its double get the same verdict:
\* the probe judges direction alone.
DirectionAlone ==
  \A x \in payload : x.kind # "kvCache" =>
    LET d == [i \in 1..Len(x.v) |-> 2 * x.v[i]] IN
      Dot(d, d) <= L2NormMax * L2NormMax => (verdict = "ok" <=> check_vector(d))
=============================================================================
