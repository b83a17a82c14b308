--------------------------- MODULE FirewallProofs ---------------------------
(***************************************************************************)
(* Theorems about Firewall, for every probe file and every bound.          *)
(***************************************************************************)
EXTENDS Firewall, DotProductProofs

\* While lines have one length, the sum is that of their columns; a probe is the
\* sum of all lines.
CentroidInv ==
  /\ lines = <<>> => sum = <<>>
  /\ \A n \in Nat : lines # <<>> /\ (\A k \in 1..Len(lines) : Len(lines[k]) = n) =>
       sum = Columns(n)
  /\ \A p \in probe : p.centroid = sum /\ lines # <<>>

\* The inductive invariant.
GateInv == TypeOK /\ VerdictInv /\ CentroidInv

\* Adding a vector to a sum keeps the sum's length.
LEMMA AddKeepsLength ==
  ASSUME NEW s \in Seq(Int), NEW v \in Seq(Int)
  PROVE  AddTo(s, v) \in Seq(Int)
<1>1. \A i \in 1..Len(s) : (IF i <= Len(v) THEN s[i] + v[i] ELSE s[i]) \in Int
  <2>1. SUFFICES ASSUME NEW i \in 1..Len(s)
                 PROVE  (IF i <= Len(v) THEN s[i] + v[i] ELSE s[i]) \in Int
    OBVIOUS
  <2>2. s[i] \in Int
    OBVIOUS
  <2>3. i <= Len(v) => v[i] \in Int
    OBVIOUS
  <2>4. QED
    BY <2>2, <2>3
<1>2. QED
  BY <1>1 DEF AddTo

\* A line is added to the sum, which is empty or has the length of an earlier one.
LEMMA SumIsVector ==
  ASSUME NEW s \in Seq(Int), NEW v \in Seq(Int)
  PROVE  Sum(s, v) \in Seq(Int)
<1>1. Zeros(Len(v)) \in Seq(Int)
  BY DEF Zeros
<1>2. QED
  BY <1>1, AddKeepsLength DEF Sum

\* A column of integers is a function that can be summed.
LEMMA ColumnType ==
  ASSUME NEW s \in Seq(Vectors), NEW n \in Nat, NEW i \in 1..n,
         \A k \in 1..Len(s) : Len(s[k]) = n
  PROVE  [k \in 1..Len(s) |-> s[k][i]] \in [1..Len(s) -> Int]
<1>1. \A k \in 1..Len(s) : s[k] \in Seq(Int)
  BY VectorsAssumption
<1>2. \A k \in 1..Len(s) : s[k][i] \in Int
  BY <1>1
<1> QED
  BY <1>2

\* Before a line of length n is added the sum is that of the columns, counting a
\* sum that has not begun as zeros.
LEMMA SumBefore ==
  ASSUME TypeOK, CentroidInv, NEW n \in Nat,
         \A k \in 1..Len(lines) : Len(lines[k]) = n
  PROVE  (IF sum = <<>> THEN Zeros(n) ELSE sum) = Columns(n)
<1>1. CASE lines = <<>>
  <2>1. sum = <<>> /\ Len(lines) = 0
    BY <1>1 DEF CentroidInv
  <2>2. ASSUME NEW i \in 1..n PROVE SumFunction([k \in 1..Len(lines) |-> lines[k][i]]) = 0
    <3>1. [k \in 1..Len(lines) |-> lines[k][i]] \in [{} -> Int]
      BY <2>1
    <3> QED
      BY <3>1, SumOfNone
  <2> QED
    BY <2>1, <2>2 DEF Columns, Zeros
<1>2. CASE lines # <<>>
  <2>1. sum = Columns(n)
    BY <1>2 DEF CentroidInv
  <2>2. sum = <<>> => n = 0
    BY <2>1 DEF Columns
  <2>3. n = 0 => Zeros(n) = <<>> /\ Columns(n) = <<>>
    BY DEF Zeros, Columns
  <2> QED
    BY <2>1, <2>2, <2>3
<1> QED
  BY <1>1, <1>2

\* A line adds its entries to the columns.
LEMMA ColumnsGrow ==
  ASSUME TypeOK, NEW v \in Vectors, ReadLine(v),
         \A k \in 1..Len(lines') : Len(lines'[k]) = Len(v)
  PROVE  Columns(Len(v))' = AddTo(Columns(Len(v)), v)
<1> DEFINE m == Len(lines)
           n == Len(v)
           h(i) == [k \in 1..m + 1 |-> lines'[k][i]]
           g(i) == [k \in 1..m |-> lines[k][i]]
<1>1. /\ lines \in Seq(Vectors) /\ m \in Nat
      /\ lines' \in Seq(Vectors) /\ Len(lines') = m + 1
      /\ \A k \in 1..m : lines'[k] = lines[k]
      /\ lines'[m + 1] = v
  BY AppendProperties DEF TypeOK, ReadLine
<1>2. v \in Seq(Int) /\ n \in Nat
  BY VectorsAssumption
<1>3. \A k \in 1..m : Len(lines[k]) = n
  BY <1>1
<1>4. ASSUME NEW i \in 1..n PROVE SumFunction(h(i)) = SumFunction(g(i)) + v[i]
  <2>1. h(i) \in [1..m + 1 -> Int] /\ g(i) \in [1..m -> Int]
    BY <1>1, <1>2, <1>3, ColumnType
  <2>2. (\A k \in 1..m : g(i)[k] = h(i)[k]) /\ h(i)[m + 1] = v[i]
    BY <1>1
  <2> HIDE DEF h, g
  <2> QED
    BY <1>1, <2>1, <2>2, SumAppends
<1>5. Columns(n) \in Seq(Int) /\ Len(Columns(n)) = n
  <2>1. \A i \in 1..n : g(i) \in [1..m -> Int]
    BY <1>1, <1>2, <1>3, ColumnType
  <2>2. IsFiniteSet(1..m)
    BY <1>1, FS_Interval
  <2>3. \A i \in 1..n : SumFunction(g(i)) \in Int
    BY <2>1, <2>2, SumIsInt
  <2> QED
    BY <1>2, <2>3 DEF Columns
<1>6. Columns(n)' = [i \in 1..n |-> SumFunction(h(i))]
  BY <1>1 DEF Columns, ReadLine
<1>7. AddTo(Columns(n), v) = [i \in 1..n |-> SumFunction(g(i)) + v[i]]
  BY <1>2, <1>5 DEF AddTo, Columns
<1> QED
  BY <1>4, <1>6, <1>7

\* CentroidInv is kept while the file is read.
LEMMA ReadCentroid ==
  ASSUME TypeOK, VerdictInv, CentroidInv, NEW v \in Vectors, ReadLine(v)
  PROVE  CentroidInv'
<1>1. lines' # <<>> /\ probe' = {}
  BY AppendProperties DEF TypeOK, VerdictInv, ReadLine
<1>2. ASSUME NEW n \in Nat, \A k \in 1..Len(lines') : Len(lines'[k]) = n
      PROVE  sum' = Columns(n)'
  <2>1. /\ \A k \in 1..Len(lines) : Len(lines[k]) = n
        /\ n = Len(v)
    BY <1>2, AppendProperties DEF TypeOK, ReadLine
  <2>2. sum' = AddTo(Columns(n), v)
    BY <2>1, SumBefore DEF ReadLine, Sum
  <2> QED
    BY <1>2, <2>1, <2>2, ColumnsGrow
<1> QED
  BY <1>1, <1>2 DEF CentroidInv

\* GateInv holds at the start.
LEMMA InitGate ==
  Init => GateInv
BY DEF Init, GateInv, TypeOK, VerdictInv, CentroidInv

\* GateInv is kept while the file is read.
LEMMA ReadGate ==
  ASSUME GateInv, NEW v \in Vectors, ReadLine(v) PROVE GateInv'
<1>1. v \in Seq(Int)
  BY VectorsAssumption
<1>2. sum' \in Seq(Int) /\ lines' \in Seq(Vectors)
  BY <1>1, SumIsVector DEF GateInv, TypeOK, ReadLine
<1>3. UNCHANGED <<phase, probe, payload, verdict>>
  BY DEF ReadLine
<1>4. TypeOK'
  BY <1>2, <1>3 DEF GateInv, TypeOK, Payloads
<1>5. VerdictInv'
  BY <1>3 DEF GateInv, VerdictInv, ReadLine, check_vector
<1>6. QED
  BY <1>4, <1>5, ReadCentroid DEF GateInv

\* The probe that is built has the length of its sum.
LEMMA BuildGate ==
  ASSUME GateInv, Build PROVE GateInv'
<1>1. payload = {} /\ verdict = "none"
  BY DEF GateInv, VerdictInv, Build
<1>2. TypeOK'
  BY DEF GateInv, TypeOK, Build
<1>3. VerdictInv'
  BY <1>1 DEF VerdictInv, Build
<1>4. CentroidInv'
  <2>1. \A p \in probe' : p.centroid = sum /\ lines # <<>>
    BY DEF Build
  <2>2. lines' = lines /\ sum' = sum
    BY DEF Build
  <2> QED
    BY <2>1, <2>2 DEF GateInv, CentroidInv, Columns
<1>5. QED
  BY <1>2, <1>3, <1>4 DEF GateInv

\* A firewall that could not be made has no probe and gives no verdict.
LEMMA FailGate ==
  ASSUME GateInv, Fail PROVE GateInv'
<1>1. payload = {} /\ probe = {} /\ verdict = "none"
  BY DEF GateInv, VerdictInv, Fail
<1>2. TypeOK'
  BY DEF GateInv, TypeOK, Fail
<1>3. VerdictInv'
  BY <1>1 DEF VerdictInv, Fail
<1>4. CentroidInv'
  BY DEF GateInv, CentroidInv, Columns, Fail
<1>5. QED
  BY <1>2, <1>3, <1>4 DEF GateInv

\* A verdict is given with the probe as it stands, on every part of the payload.
LEMMA ValidateGate ==
  ASSUME GateInv, NEW x \in Payloads, Validate(x) PROVE GateInv'
<1>1. /\ phase = "ready" /\ payload' = {x}
      /\ verdict' \in {"ok", "offManifold"}
      /\ verdict' = "ok" <=> \A v \in Parts(x) : check_vector(v)
      /\ UNCHANGED <<phase, lines, sum, probe>>
  BY DEF Validate
<1>2. TypeOK'
  BY <1>1 DEF GateInv, TypeOK
<1>3. \A v : check_vector(v) <=> check_vector(v)'
  BY <1>1 DEF check_vector
<1>4. VerdictInv'
  BY <1>1, <1>3 DEF VerdictInv
<1>5. CentroidInv'
  BY <1>1 DEF GateInv, CentroidInv, Columns
<1>6. QED
  BY <1>2, <1>4, <1>5 DEF GateInv

\* GateInv is inductive.
THEOREM GateInvariance == Spec => []GateInv
<1>1. GateInv /\ [Next]_vars => GateInv'
  <2>1. SUFFICES ASSUME GateInv, [Next]_vars PROVE GateInv'
    OBVIOUS
  <2>2. CASE \E v \in Vectors : ReadLine(v)
    BY <2>1, <2>2, ReadGate
  <2>3. CASE Build
    BY <2>1, <2>3, BuildGate
  <2>4. CASE Fail
    BY <2>1, <2>4, FailGate
  <2>5. CASE \E x \in Payloads : Validate(x)
    BY <2>1, <2>5, ValidateGate
  <2>6. CASE UNCHANGED vars
    BY <2>1, <2>6 DEF vars, GateInv, TypeOK, VerdictInv, CentroidInv, Columns, check_vector
  <2>7. QED
    BY <2>1, <2>2, <2>3, <2>4, <2>5, <2>6 DEF Next
<1>2. QED
  BY <1>1, InitGate, PTL DEF Spec

\* No part of a payload that NeuralFirewall accepts exceeds l2_norm_max, with or
\* without a probe, keys and values of a cache alike.
THEOREM AcceptedIsBoundedHolds == Spec => []AcceptedIsBounded
<1>1. GateInv => AcceptedIsBounded
  <2>1. SUFFICES ASSUME GateInv, NEW x \in payload, verdict = "ok"
                 PROVE  IF x.kind = "kvCache"
                        THEN Dot(x.keys, x.keys) <= L2NormMax * L2NormMax
                               /\ Dot(x.values, x.values) <= L2NormMax * L2NormMax
                        ELSE Dot(x.v, x.v) <= L2NormMax * L2NormMax
    BY DEF AcceptedIsBounded
  <2>2. \A v \in Parts(x) : Dot(v, v) <= L2NormMax * L2NormMax
    BY <2>1 DEF GateInv, VerdictInv, check_vector
  <2>3. QED
    BY <2>2 DEF Parts
<1>2. QED
  BY <1>1, GateInvariance, PTL
-----------------------------------------------------------------------------
(* The angle between a vector and the probe *)

\* The probe of the file is the sum of its columns.
THEOREM ProbeIsCentroidHolds == Spec => []ProbeIsCentroid
<1>1. GateInv => ProbeIsCentroid
  <2>1. SUFFICES ASSUME GateInv, NEW p \in probe, NEW n \in {Len(l) : l \in Range(lines)},
                        \A l \in Range(lines) : Len(l) = n
                 PROVE  p.centroid = Columns(n)
    BY DEF ProbeIsCentroid
  <2>2. \A k \in 1..Len(lines) : lines[k] \in Range(lines)
    BY <2>1 DEF Range, GateInv, TypeOK
  <2>3. n \in Nat
    BY <2>1, VectorsAssumption DEF Range, GateInv, TypeOK
  <2> QED
    BY <2>1, <2>2, <2>3 DEF GateInv, CentroidInv
<1> QED
  BY <1>1, GateInvariance, PTL

\* The cosine of v with the probe reaches the minimum.
Passes(p, v) ==
  LET c == cosine_similarity(p, v)
  IN  c.num * CosineUnit * CosineUnit >= SignedSquare(CosineMin) * c.den

\* Where there is an angle, it is a matter of three sums.
LEMMA PassesWhen ==
  ASSUME NEW p, NEW v, Len(v) = p.dim, Dot(v, v) # 0, Dot(p.centroid, p.centroid) # 0
  PROVE  Passes(p, v) <=>
           SignedSquare(Dot(v, p.centroid)) * CosineUnit * CosineUnit
             >= SignedSquare(CosineMin) * (Dot(v, v) * Dot(p.centroid, p.centroid))
BY DEF Passes, cosine_similarity

\* Doubling a vector changes neither side's order.
LEMMA DoubledOrder ==
  ASSUME NEW x \in Int, NEW d \in Int, NEW e \in Int
  PROVE  SignedSquare(2 * x) * CosineUnit * CosineUnit
           >= SignedSquare(CosineMin) * ((2 * (2 * d)) * e)
         <=> SignedSquare(x) * CosineUnit * CosineUnit >= SignedSquare(CosineMin) * (d * e)
<1>1. PICK s \in Int : s = SignedSquare(x)
  BY DEF SignedSquare
<1>2. PICK m \in Int : m = SignedSquare(CosineMin)
  BY BoundsAssumption DEF SignedSquare
<1>3. CosineUnit \in Int
  BY BoundsAssumption
<1>4. SignedSquare(2 * x) = 4 * s
  BY <1>1 DEF SignedSquare
<1>5. (4 * s) * CosineUnit * CosineUnit = 4 * (s * CosineUnit * CosineUnit)
  BY <1>1, <1>3
<1>6. m * ((2 * (2 * d)) * e) = 4 * (m * (d * e))
  BY <1>2
<1>7. \A a, b \in Int : 4 * a >= 4 * b <=> a >= b
  OBVIOUS
<1>8. s * CosineUnit * CosineUnit \in Int /\ m * (d * e) \in Int
  BY <1>1, <1>2, <1>3
<1> QED
  BY <1>1, <1>2, <1>4, <1>5, <1>6, <1>7, <1>8

\* A vector's double passes the probe if and only if the vector does.
LEMMA DoublePasses ==
  ASSUME NEW v \in Seq(Int), NEW p, p.centroid \in Seq(Int), p.dim = Len(p.centroid)
  PROVE  Passes(p, Times(2, v)) <=> Passes(p, v)
<1> DEFINE u == Times(2, v)
           c == p.centroid
<1>1. u \in Seq(Int) /\ Len(u) = Len(v)
  BY TimesType
<1>2. Dot(u, u) = 2 * (2 * Dot(v, v)) /\ Dot(v, v) \in Int
  BY TimesSquare, SquareType
<1>3. CASE Len(v) # p.dim \/ Dot(v, v) = 0 \/ Dot(c, c) = 0
  <2>1. cosine_similarity(p, v) = [num |-> 0, den |-> 1]
    BY <1>3 DEF cosine_similarity
  <2>2. Len(u) # p.dim \/ Dot(u, u) = 0 \/ Dot(c, c) = 0
    BY <1>1, <1>2, <1>3
  <2>3. cosine_similarity(p, u) = [num |-> 0, den |-> 1]
    BY <2>2 DEF cosine_similarity
  <2> QED
    BY <2>1, <2>3 DEF Passes
<1>4. CASE Len(v) = p.dim /\ Dot(v, v) # 0 /\ Dot(c, c) # 0
  <2>1. Dot(u, c) = 2 * Dot(v, c) /\ Dot(v, c) \in Int /\ Dot(c, c) \in Int
    BY <1>4, TimesDot, DotType
  <2>2. Dot(u, u) # 0
    BY <1>2, <1>4
  <2> HIDE DEF u
  <2>3. Passes(p, v) <=>
          SignedSquare(Dot(v, c)) * CosineUnit * CosineUnit
            >= SignedSquare(CosineMin) * (Dot(v, v) * Dot(c, c))
    BY <1>4, PassesWhen
  <2>4. Passes(p, u) <=>
          SignedSquare(Dot(u, c)) * CosineUnit * CosineUnit
            >= SignedSquare(CosineMin) * (Dot(u, u) * Dot(c, c))
    BY <1>1, <1>4, <2>2, PassesWhen
  <2> QED
    BY <1>2, <2>1, <2>3, <2>4, DoubledOrder DEF u
<1> QED
  BY <1>3, <1>4

\* Within the norm, a vector and its double get the same verdict.
THEOREM DirectionAloneHolds == Spec => []DirectionAlone
<1>1. GateInv => DirectionAlone
  <2>1. SUFFICES ASSUME GateInv, NEW x \in payload, x.kind # "kvCache",
                        Dot(Times(2, x.v), Times(2, x.v)) <= L2NormMax * L2NormMax
                 PROVE  verdict = "ok" <=> check_vector(Times(2, x.v))
    BY DEF DirectionAlone, Times
  <2> DEFINE v == x.v
  <2>2. v \in Seq(Int)
    BY <2>1, VectorsAssumption DEF GateInv, TypeOK, Payloads
  <2>3. verdict = "ok" <=> check_vector(v)
    BY <2>1 DEF GateInv, VerdictInv, Parts
  <2>4. Dot(v, v) <= L2NormMax * L2NormMax
    <3>1. Dot(Times(2, v), Times(2, v)) <= L2NormMax * L2NormMax
      BY <2>1
    <3>2. L2NormMax * L2NormMax \in Int
      BY BoundsAssumption
    <3> HIDE DEF v
    <3>3. Dot(Times(2, v), Times(2, v)) = 2 * (2 * Dot(v, v)) /\ Dot(v, v) \in Nat
      BY <2>2, TimesSquare, SquareType
    <3> QED
      BY <3>1, <3>2, <3>3
  <2>5. \A p \in probe : Passes(p, Times(2, v)) <=> Passes(p, v)
    BY <2>1, <2>2, DoublePasses DEF GateInv, TypeOK
  <2> HIDE DEF v
  <2>6. check_vector(v) <=> \A p \in probe : Passes(p, v)
    BY <2>4 DEF check_vector, Passes
  <2>7. check_vector(Times(2, v)) <=> \A p \in probe : Passes(p, Times(2, v))
    BY <2>1 DEF check_vector, Passes, v
  <2> QED
    BY <2>3, <2>5, <2>6, <2>7 DEF v
<1> QED
  BY <1>1, GateInvariance, PTL
\* The probe of lines that are all the same vector is a multiple of it.
LEMMA SameLines ==
  ASSUME GateInv, NEW p \in probe, Cardinality(Range(lines)) = 1
  PROVE  /\ lines[1] \in Seq(Int) /\ Len(lines) \in Nat \ {0}
         /\ p.centroid = Times(Len(lines), lines[1]) /\ p.dim = Len(lines[1])
<1> DEFINE u == lines[1]
           m == Len(lines)
<1>1. lines \in Seq(Vectors) /\ lines # <<>> /\ p.centroid = sum
  BY DEF GateInv, TypeOK, CentroidInv
<1>2. m \in Nat \ {0} /\ u \in Seq(Int) /\ u \in Range(lines)
  BY <1>1, VectorsAssumption DEF Range
<1>3. ASSUME NEW k \in 1..m PROVE lines[k] = u
  <2>1. lines \in Surjection(1..m, Range(lines))
    BY <1>1 DEF Surjection, Range
  <2>2. IsFiniteSet(1..m)
    BY <1>2, FS_Interval
  <2>3. IsFiniteSet(Range(lines))
    BY <2>1, <2>2, FS_Surjection
  <2>4. PICK y : Range(lines) = {y}
    BY <2>3, FS_Singleton
  <2>5. lines[k] \in Range(lines)
    BY <1>1 DEF Range
  <2> QED
    BY <1>2, <2>4, <2>5
<1>4. sum = Columns(Len(u))
  BY <1>1, <1>2, <1>3 DEF GateInv, CentroidInv
<1>5. ASSUME NEW i \in 1..Len(u)
      PROVE  SumFunction([k \in 1..Len(lines) |-> lines[k][i]]) = m * u[i]
  <2>1. [k \in 1..Len(lines) |-> lines[k][i]] = [k \in 1..m |-> u[i]]
    BY <1>3
  <2>2. u[i] \in Int
    BY <1>2
  <2> HIDE DEF u
  <2> QED
    BY <1>2, <2>1, <2>2, SumOfSame
<1>6. sum = Times(m, u)
  BY <1>4, <1>5 DEF Columns, Times
<1>7. Len(sum) = Len(u)
  BY <1>2, <1>6, TimesType
<1> QED
  BY <1>1, <1>2, <1>6, <1>7 DEF GateInv, TypeOK

\* The cosine of a vector with a multiple of itself is one, that of its opposite
\* minus one.
LEMMA AlongAndAgainst ==
  ASSUME - CosineUnit < CosineMin, CosineMin <= CosineUnit,
         NEW u \in Seq(Int), Dot(u, u) > 0, NEW m \in Nat \ {0},
         NEW p, p.centroid = Times(m, u), p.dim = Len(u)
  PROVE  Passes(p, u) /\ ~Passes(p, Times(-1, u))
<1> DEFINE c == p.centroid
<1>1. c \in Seq(Int) /\ Len(c) = Len(u)
  BY TimesType
<1>2. PICK d \in Nat \ {0} : d = Dot(u, u)
  BY SquareType
<1>3. PICK y \in Nat \ {0} : y = m * d
  BY <1>2
<1>4. Dot(u, c) = y /\ Dot(c, c) = m * y
  <2>1. Dot(u, Times(m, u)) = m * Dot(u, u)
    BY TimesDot
  <2>2. Dot(Times(m, u), Times(m, u)) = m * (m * Dot(u, u))
    BY TimesSquare
  <2> QED
    BY <1>2, <1>3, <2>1, <2>2
<1>5. Dot(Times(-1, u), c) = -y /\ Dot(Times(-1, u), Times(-1, u)) = d
  <2>1. Dot(Times(-1, u), c) = -1 * y
    BY <1>1, <1>4, TimesDot
  <2>2. Dot(Times(-1, u), Times(-1, u)) = -1 * (-1 * d)
    BY <1>2, TimesSquare
  <2> QED
    BY <2>1, <2>2
<1>6. m * y # 0 /\ d * (m * y) = y * y
  <2>1. d * (m * y) = (m * d) * y
    BY <1>2
  <2> QED
    BY <1>3, <2>1
<1>7. PICK q \in Nat \ {0} : q = y * y
  BY <1>3
<1>8. PICK s \in Int : s = SignedSquare(CosineMin)
  BY BoundsAssumption DEF SignedSquare
<1>9. PICK e \in Nat : e = CosineUnit * CosineUnit
  BY BoundsAssumption
<1>10. -e < s /\ s <= e
  <2>1. \A a \in Int, b \in Nat : a < 0 /\ -b < a => a * a < b * b
    OBVIOUS
  <2>2. \A a \in Nat, b \in Nat : a <= b => a * a <= b * b
    OBVIOUS
  <2> QED
    BY <1>8, <1>9, <2>1, <2>2, BoundsAssumption DEF SignedSquare
<1>11. Passes(p, u)
  <2>1. Passes(p, u) <=> SignedSquare(y) * CosineUnit * CosineUnit >= s * (d * (m * y))
    BY <1>2, <1>4, <1>6, <1>8, PassesWhen
  <2>2. SignedSquare(y) * CosineUnit * CosineUnit = q * e
    BY <1>3, <1>7, <1>9, BoundsAssumption DEF SignedSquare
  <2>3. q * e >= s * q
    BY <1>10
  <2> QED
    BY <1>6, <1>7, <2>1, <2>2, <2>3
<1>12. ~Passes(p, Times(-1, u))
  <2>1. Len(Times(-1, u)) = p.dim
    BY TimesType
  <2>2. Passes(p, Times(-1, u)) <=>
          SignedSquare(-y) * CosineUnit * CosineUnit >= s * (d * (m * y))
    BY <1>2, <1>4, <1>5, <1>6, <1>8, <2>1, PassesWhen
  <2>3. SignedSquare(-y) = -q
    BY <1>3, <1>7 DEF SignedSquare
  <2>4. (-q) * CosineUnit * CosineUnit = -(q * e)
    BY <1>9, BoundsAssumption
  <2>5. ~(-(q * e) >= s * q)
    BY <1>10
  <2> QED
    BY <1>6, <1>7, <2>2, <2>3, <2>4, <2>5
<1> QED
  BY <1>11, <1>12

\* Behind a probe of one direction, for a minimum between -1 and 1, what points that
\* way is accepted within the norm and what points the other way is refused.
THEOREM OneDirectionHolds ==
  ASSUME - CosineUnit < CosineMin, CosineMin <= CosineUnit
  PROVE  Spec => []OneDirection
<1>1. GateInv => OneDirection
  <2>1. SUFFICES ASSUME GateInv, NEW p \in probe, NEW x \in payload, x.kind # "kvCache",
                        Cardinality(Range(lines)) = 1, Dot(lines[1], lines[1]) > 0
                 PROVE  /\ x.v = lines[1] /\ Dot(lines[1], lines[1]) <= L2NormMax * L2NormMax
                             => verdict = "ok"
                        /\ x.v = Opposite(lines[1]) => verdict = "offManifold"
    BY DEF OneDirection
  <2> DEFINE u == lines[1]
  <2>2. u \in Seq(Int)
    BY <2>1, SameLines
  <2>3. ASSUME NEW r \in probe PROVE Passes(r, u) /\ ~Passes(r, Times(-1, u))
    <3>1. /\ u \in Seq(Int) /\ Len(lines) \in Nat \ {0} /\ Dot(u, u) > 0
          /\ r.centroid = Times(Len(lines), u) /\ r.dim = Len(u)
      BY <2>1, SameLines
    <3> HIDE DEF u
    <3> QED
      BY <3>1, AlongAndAgainst
  <2>4. verdict = "ok" <=> check_vector(x.v)
    BY <2>1 DEF GateInv, VerdictInv, Parts
  <2>5. verdict \in {"ok", "offManifold"}
    BY <2>1 DEF GateInv, TypeOK, VerdictInv
  <2>6. Opposite(u) = Times(-1, u)
    BY <2>2 DEF Opposite, Times
  <2>7. ASSUME x.v = u, Dot(u, u) <= L2NormMax * L2NormMax PROVE verdict = "ok"
    BY <2>3, <2>4, <2>7 DEF check_vector, Passes
  <2>8. ASSUME x.v = Opposite(u) PROVE verdict = "offManifold"
    BY <2>1, <2>3, <2>4, <2>5, <2>6, <2>8 DEF check_vector, Passes
  <2> QED
    BY <2>7, <2>8
<1> QED
  BY <1>1, GateInvariance, PTL
=============================================================================
