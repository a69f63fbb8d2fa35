----------------------------- MODULE SloProofs -----------------------------
(* What the scoring of service level objectives computes, for every list of *)
(* SLOs and any number of values.                                           *)
EXTENDS Slo, FiniteSetTheorems, TLAPS

(* Induction over the numbers in a set: were n not in S, the numbers up to  *)
(* n that are not in S would each have a predecessor among them.            *)
LEMMA SetInduction ==
  ASSUME NEW S, 0 \in S, \A n \in Nat : n \in S => n + 1 \in S
  PROVE  Nat \subseteq S
<1> SUFFICES ASSUME NEW n \in Nat, n \notin S PROVE FALSE
  OBVIOUS
<1> DEFINE T == {k \in 0 .. n : k \notin S}
            f == [k \in T |-> k - 1]
<1>1. IsFiniteSet(T) /\ n \in T
  <2>1. IsFiniteSet(0 .. n) /\ T \in SUBSET (0 .. n)
    BY FS_Interval
  <2> QED
    BY <2>1, FS_Subset
<1>2. ASSUME NEW k \in T
      PROVE  k - 1 \in T /\ k - 1 # n
  <2>1. k # 0 /\ k \in Nat /\ k <= n
    OBVIOUS
  <2>2. k - 1 \in Nat /\ k - 1 \in 0 .. n /\ k - 1 # n /\ (k - 1) + 1 = k
    BY <2>1
  <2>3. k - 1 \notin S
    BY <2>2
  <2> QED
    BY <2>2, <2>3
<1>3. f \in Injection(T, T \ {n})
  <2>1. f \in [T -> T \ {n}]
    BY <1>2
  <2>2. \A a, b \in T : f[a] = f[b] => a = b
    OBVIOUS
  <2> QED
    BY <2>1, <2>2 DEF Injection, IsInjective
<1>4. /\ IsFiniteSet(T \ {n}) /\ Cardinality(T \ {n}) = Cardinality(T) - 1
      /\ Cardinality(T) \in Nat
  BY <1>1, FS_RemoveElement, FS_CardinalityType
<1>5. Cardinality(T) <= Cardinality(T \ {n})
  BY <1>3, <1>4, FS_Injection
<1> QED
  BY <1>4, <1>5

-----------------------------------------------------------------------------
(* Sums.  The fold of the model is a recursive function of the positions it *)
(* has still to go over, the last one first.                                *)

(* The positions up to k, without the last one.                             *)
LEMMA Prefix ==
  ASSUME NEW n \in Nat, NEW k \in 1..n
  PROVE  1..k \in SUBSET (1..n) /\ 1..k # {} /\ (1..k) \ {k} = 1..(k - 1)
<1>1. 1..k \in SUBSET (1..n)
  OBVIOUS
<1>2. k \in 1..k
  OBVIOUS
<1>3. ASSUME NEW x PROVE x \in (1..k) \ {k} <=> x \in 1..(k - 1)
  OBVIOUS
<1> QED
  BY <1>1, <1>2, <1>3

(* The last position among those up to n.                                   *)
LEMMA LastOf ==
  ASSUME NEW n \in Nat, NEW s \in SUBSET (1..n), n \in s
  PROVE  Max(s) = n
<1>1. \A y \in s : n >= y
  OBVIOUS
<1>2. \A x \in s : (\A y \in s : x >= y) => x = n
  OBVIOUS
<1> QED
  BY <1>1, <1>2 DEF Max

Total(vs) == FoldLeft(LAMBDA a, b : a + b, 0, vs)

SumStep(f, vs, D) ==
  [s \in SUBSET D |-> IF s = {} THEN 0 ELSE f[s \ {Max(s)}] + vs[Max(s)]]

(* The recursion is well defined.                                           *)
LEMMA SumStepExists ==
  ASSUME NEW vs
  PROVE  \A n \in Nat : \E f : f = SumStep(f, vs, 1..n)
<1> DEFINE S == {n \in Nat : \E f : f = SumStep(f, vs, 1..n)}
<1>1. 0 \in S
  <2>1. 1..0 = {} /\ SUBSET {} = {{}}
    OBVIOUS
  <2>2. [s \in {{}} |-> 0] = SumStep([s \in {{}} |-> 0], vs, {})
    BY <2>1 DEF SumStep
  <2> QED
    BY <2>1, <2>2
<1>2. ASSUME NEW n \in Nat, n \in S
      PROVE  n + 1 \in S
  <2>1. PICK f : f = SumStep(f, vs, 1..n)
    BY <1>2
  <2> DEFINE g == [s \in SUBSET (1..n + 1) |->
                     IF n + 1 \in s THEN f[s \ {n + 1}] + vs[n + 1] ELSE f[s]]
  <2>2. ASSUME NEW s \in SUBSET (1..n + 1)
        PROVE  g[s] = IF s = {} THEN 0 ELSE g[s \ {Max(s)}] + vs[Max(s)]
    <3>1. CASE n + 1 \in s
      <4>1. Max(s) = n + 1 /\ s # {}
        BY <3>1, LastOf, n + 1 \in Nat
      <4>2. s \ {n + 1} \in SUBSET (1..n + 1) /\ n + 1 \notin s \ {n + 1}
        OBVIOUS
      <4>3. g[s] = f[s \ {n + 1}] + vs[n + 1] /\ g[s \ {n + 1}] = f[s \ {n + 1}]
        BY <3>1, <4>2
      <4> QED
        BY <4>1, <4>3
    <3>2. CASE n + 1 \notin s
      <4>1. s \in SUBSET (1..n)
        BY <3>2
      <4>2. f[s] = IF s = {} THEN 0 ELSE f[s \ {Max(s)}] + vs[Max(s)]
        BY <2>1, <4>1 DEF SumStep
      <4>3. \A r \in SUBSET (1..n) : g[r] = f[r]
        <5> SUFFICES ASSUME NEW r \in SUBSET (1..n) PROVE g[r] = f[r]
          OBVIOUS
        <5>1. n + 1 \notin r /\ r \in SUBSET (1..n + 1)
          OBVIOUS
        <5> QED
          BY <5>1
      <4>4. s \ {Max(s)} \in SUBSET (1..n)
        BY <4>1
      <4> HIDE DEF g
      <4> QED
        BY <4>1, <4>2, <4>3, <4>4
    <3> QED
      BY <3>1, <3>2
  <2>3. g = [s \in SUBSET (1..n + 1) |-> g[s]]
    BY Zenon
  <2> HIDE DEF g
  <2>4. g = SumStep(g, vs, 1..n + 1)
    BY <2>2, <2>3 DEF SumStep
  <2> QED
    BY <2>4, n + 1 \in Nat
<1>3. Nat \subseteq S
  <2> HIDE DEF S
  <2> QED
    BY <1>1, <1>2, SetInduction
<1> QED
  BY <1>3

(* The sums of the first values, one after the other.                       *)
Sums(h, vs) ==
  /\ h \in [0..Len(vs) -> Int]
  /\ h[0] = 0
  /\ \A k \in 1..Len(vs) : h[k] = h[k - 1] + vs[k]

(* A total is the last of its partial sums.                                 *)
LEMMA TotalUnfold ==
  ASSUME NEW vs \in Seq(Int)
  PROVE  \E h : Sums(h, vs) /\ Total(vs) = h[Len(vs)]
<1> DEFINE f == CHOOSE g : g = SumStep(g, vs, DOMAIN vs)
            n == Len(vs)
            h == [k \in 0..n |-> f[1..k]]
<1>1. n \in Nat /\ DOMAIN vs = 1..n
  OBVIOUS
<1>2. Total(vs) = f[DOMAIN vs]
  BY DEF Total, FoldLeft, MapThenFoldSet, SumStep
<1>3. f = SumStep(f, vs, 1..n)
  <2>1. \E g : g = SumStep(g, vs, DOMAIN vs)
    BY <1>1, SumStepExists
  <2>2. f = SumStep(f, vs, DOMAIN vs)
    BY <2>1, Zenon
  <2> QED
    BY <1>1, <2>2
<1> HIDE DEF f
<1>4. h[0] = 0
  <2>1. 1..0 = {} /\ {} \in SUBSET (1..n)
    OBVIOUS
  <2>2. f[{}] = 0
    BY <1>3, <2>1 DEF SumStep
  <2> QED
    BY <1>1, <2>1, <2>2
<1>5. ASSUME NEW k \in 1..n
      PROVE  h[k] = h[k - 1] + vs[k]
  <2>1. k - 1 \in 0..n /\ k \in 0..n /\ k \in Nat /\ k \in 1..k
    BY <1>1
  <2>2. Max(1..k) = k
    BY <2>1, LastOf
  <2>3. 1..k \in SUBSET (1..n) /\ 1..k # {} /\ (1..k) \ {k} = 1..(k - 1)
    BY <1>1, Prefix
  <2>4. f[1..k] = f[(1..k) \ {Max(1..k)}] + vs[Max(1..k)]
    BY <1>3, <2>3 DEF SumStep
  <2> QED
    BY <2>1, <2>2, <2>3, <2>4
<1> HIDE DEF h, n
<1>6. \A k \in 0..n : h[k] \in Int
  <2> DEFINE S == {k \in Nat : k <= n => h[k] \in Int}
  <2>1. 0 \in S
    BY <1>4
  <2>2. ASSUME NEW k \in Nat, k \in S
        PROVE  k + 1 \in S
    <3>1. CASE k + 1 <= n
      <4>1. k + 1 \in 1..n /\ (k + 1) - 1 = k /\ k <= n
        BY <1>1, <3>1
      <4>2. h[k + 1] = h[k] + vs[k + 1] /\ vs[k + 1] \in Int /\ h[k] \in Int
        BY <1>5, <2>2, <4>1 DEF n
      <4> QED
        BY <4>2
    <3> QED
      BY <3>1
  <2>3. Nat \subseteq S
    <3> HIDE DEF S
    <3> QED
      BY <2>1, <2>2, SetInduction
  <2> QED
    BY <1>1, <2>3
<1>7. h \in [0..n -> Int]
  BY <1>6 DEF h
<1>8. h[n] = f[DOMAIN vs]
  BY <1>1 DEF h
<1>9. Sums(h, vs) /\ Total(vs) = h[n]
  BY <1>2, <1>4, <1>5, <1>7, <1>8 DEF Sums, n
<1> QED
  BY <1>9 DEF n

(* Sums of the same values are the same.                                    *)
LEMMA SumsAgree ==
  ASSUME NEW vs \in Seq(Int), NEW ws \in Seq(Int), Len(vs) <= Len(ws),
         \A k \in 1..Len(vs) : ws[k] = vs[k],
         NEW h, NEW g, Sums(h, vs), Sums(g, ws)
  PROVE  \A k \in 0..Len(vs) : g[k] = h[k]
<1> DEFINE n == Len(vs)
            S == {k \in Nat : k <= n => g[k] = h[k]}
<1>1. n \in Nat /\ Len(ws) \in Nat /\ n <= Len(ws)
  OBVIOUS
<1>2. 0 \in S
  BY DEF Sums
<1>3. ASSUME NEW k \in Nat, k \in S
      PROVE  k + 1 \in S
  <2>1. CASE k + 1 <= n
    <3>1. k + 1 \in 1..n /\ k + 1 \in 1..Len(ws) /\ (k + 1) - 1 = k /\ k <= n
      BY <1>1, <2>1
    <3>2. h[k + 1] = h[k] + vs[k + 1] /\ g[k + 1] = g[k] + ws[k + 1]
      BY <3>1 DEF Sums
    <3> QED
      BY <1>3, <3>1, <3>2
  <2> QED
    BY <2>1
<1>4. Nat \subseteq S
  <2> HIDE DEF S
  <2> QED
    BY <1>2, <1>3, SetInduction
<1> QED
  BY <1>1, <1>4

(* The total of no value, and of one value more.                            *)
LEMMA TotalFacts ==
  /\ Total(<<>>) = 0
  /\ \A vs \in Seq(Int) : Total(vs) \in Int
  /\ \A vs \in Seq(Int), v \in Int : Total(Append(vs, v)) = Total(vs) + v
<1>1. Total(<<>>) = 0
  <2>1. <<>> \in Seq(Int) /\ Len(<<>>) = 0
    OBVIOUS
  <2> QED
    BY <2>1, TotalUnfold DEF Sums
<1>2. ASSUME NEW vs \in Seq(Int)
      PROVE  Total(vs) \in Int
  <2>1. PICK h : Sums(h, vs) /\ Total(vs) = h[Len(vs)]
    BY TotalUnfold
  <2>2. Len(vs) \in 0..Len(vs)
    OBVIOUS
  <2> QED
    BY <2>1, <2>2 DEF Sums
<1>3. ASSUME NEW vs \in Seq(Int), NEW v \in Int
      PROVE  Total(Append(vs, v)) = Total(vs) + v
  <2> DEFINE ws == Append(vs, v)
  <2>1. /\ ws \in Seq(Int) /\ Len(vs) \in Nat /\ Len(ws) = Len(vs) + 1
        /\ ws[Len(vs) + 1] = v /\ \A k \in 1..Len(vs) : ws[k] = vs[k]
    OBVIOUS
  <2> HIDE DEF ws
  <2>2. PICK h : Sums(h, vs) /\ Total(vs) = h[Len(vs)]
    BY TotalUnfold
  <2>3. PICK g : Sums(g, ws) /\ Total(ws) = g[Len(ws)]
    BY <2>1, TotalUnfold
  <2>4. g[Len(vs)] = h[Len(vs)]
    <3>1. Len(vs) <= Len(ws) /\ Len(vs) \in 0..Len(vs)
      BY <2>1
    <3>2. \A k \in 0..Len(vs) : g[k] = h[k]
      BY <2>1, <2>2, <2>3, <3>1, SumsAgree
    <3> QED
      BY <3>1, <3>2
  <2>5. Len(vs) + 1 \in 1..Len(ws) /\ (Len(vs) + 1) - 1 = Len(vs)
    BY <2>1
  <2>6. g[Len(ws)] = g[Len(vs)] + v
    BY <2>1, <2>3, <2>5 DEF Sums
  <2>7. Total(ws) = Total(vs) + v
    BY <2>2, <2>3, <2>4, <2>6
  <2> QED
    BY <2>7 DEF ws
<1> QED
  BY <1>1, <1>2, <1>3

-----------------------------------------------------------------------------
(* The running aggregates.                                                  *)

SLOType == [name : STRING, threshold : Int, isBiggerBetter : BOOLEAN, weight : 0..100]

Aggregates == [sum : Int, count : Nat, violations : Nat, min : Int, max : Int, minSet : BOOLEAN,
               values : Seq(Int)]

Violators(slo, vs) == {k \in DOMAIN vs : Violates(slo, vs[k])}

(* The aggregates s are those of the values s.values; as long as no value   *)
(* violates the threshold, the sum does not violate it either.              *)
Aggregated(s, slo) ==
  /\ s.count = Len(s.values)
  /\ s.sum = Total(s.values)
  /\ s.minSet <=> s.values # <<>>
  /\ s.values # <<>> => /\ s.min \in ToSet(s.values)
                        /\ \A x \in ToSet(s.values) : s.min <= x
  /\ s.max \in {0} \cup ToSet(s.values)
  /\ \A x \in {0} \cup ToSet(s.values) : s.max >= x
  /\ s.violations = Cardinality(Violators(slo, s.values))
  /\ s.violations = 0 =>
       IF slo.isBiggerBetter THEN s.sum >= slo.threshold * s.count
       ELSE s.sum <= slo.threshold * s.count

LEMMA SLOTypes ==
  /\ Len(SLOs) \in Nat
  /\ \A i \in Indices : SLOs[i] \in SLOType
<1>1. SLOs \in Seq(SLOType)
  BY SloAssumption DEF SLOType
<1> QED
  BY <1>1 DEF Indices

(* The state a window starts from.                                          *)
LEMMA EmptyAggregated ==
  ASSUME NEW slo \in SLOType
  PROVE  Empty \in Aggregates /\ Aggregated(Empty, slo)
<1>1. Empty \in Aggregates
  BY DEF Empty, Aggregates
<1>2. ToSet(<<>>) = {} /\ Violators(slo, <<>>) = {} /\ Len(<<>>) = 0
  BY DEF ToSet, Violators
<1>3. Cardinality({}) = 0
  BY FS_EmptySet
<1>4. slo.threshold * 0 = 0
  BY DEF SLOType
<1>5. /\ Empty.sum = 0 /\ Empty.count = 0 /\ Empty.violations = 0 /\ Empty.max = 0
      /\ Empty.minSet = FALSE /\ Empty.values = <<>>
  BY DEF Empty
<1> HIDE DEF Empty
<1>6. Total(<<>>) = 0
  BY TotalFacts
<1>7. \A x \in {0} \cup ToSet(<<>>) : x = 0
  BY <1>2
<1>8. IF slo.isBiggerBetter THEN Empty.sum >= slo.threshold * Empty.count
      ELSE Empty.sum <= slo.threshold * Empty.count
  BY <1>4, <1>5
<1>9. Empty.violations = Cardinality(Violators(slo, Empty.values))
  BY <1>2, <1>3, <1>5
<1>10. Empty.max \in {0} \cup ToSet(Empty.values) /\ Empty.count = Len(Empty.values)
  BY <1>2, <1>5
<1>11. \A x \in {0} \cup ToSet(Empty.values) : Empty.max >= x
  BY <1>5, <1>7
<1> QED
  BY <1>1, <1>5, <1>6, <1>8, <1>9, <1>10, <1>11 DEF Aggregated

(* What one more value does to the set of values and to the violations.     *)
LEMMA AppendFacts ==
  ASSUME NEW vs \in Seq(Int), NEW v \in Int, NEW slo \in SLOType
  PROVE  /\ Append(vs, v) \in Seq(Int) /\ Append(vs, v) # <<>>
         /\ Len(Append(vs, v)) = Len(vs) + 1
         /\ ToSet(Append(vs, v)) = ToSet(vs) \cup {v}
         /\ ToSet(vs) \subseteq Int
         /\ vs = <<>> => ToSet(vs) = {}
         /\ Cardinality(Violators(slo, vs)) \in Nat
         /\ Cardinality(Violators(slo, Append(vs, v)))
              = Cardinality(Violators(slo, vs)) + IF Violates(slo, v) THEN 1 ELSE 0
<1> DEFINE n == Len(vs)
            ws == Append(vs, v)
            U == Violators(slo, vs)
            W == Violators(slo, ws)
<1>1. /\ n \in Nat /\ DOMAIN vs = 1..n /\ DOMAIN ws = 1..(n + 1)
      /\ ws[n + 1] = v /\ \A k \in 1..n : ws[k] = vs[k]
  OBVIOUS
<1>2. ToSet(ws) = ToSet(vs) \cup {v}
  <2> HIDE DEF ws
  <2>1. \A k \in 1..(n + 1) : k \in 1..n \/ k = n + 1
    BY <1>1
  <2>2. 1..n \subseteq 1..(n + 1) /\ n + 1 \in 1..(n + 1)
    BY <1>1
  <2> HIDE DEF n
  <2> QED
    BY <1>1, <2>1, <2>2 DEF ToSet
<1>3. U \subseteq 1..n /\ n + 1 \notin U /\ IsFiniteSet(U) /\ Cardinality(U) \in Nat
  <2>1. U \in SUBSET (1..n) /\ IsFiniteSet(1..n)
    BY <1>1, FS_Interval DEF Violators
  <2>2. IsFiniteSet(U)
    BY <2>1, FS_Subset
  <2>3. n + 1 \notin 1..n
    BY <1>1
  <2> QED
    BY <2>1, <2>2, <2>3, FS_CardinalityType
<1>4. W = IF Violates(slo, v) THEN U \cup {n + 1} ELSE U
  <2> HIDE DEF ws
  <2>1. ASSUME NEW k
        PROVE  k \in W <=> k \in U \/ (k = n + 1 /\ Violates(slo, v))
    <3>1. k \in 1..(n + 1) <=> k \in 1..n \/ k = n + 1
      BY <1>1
    <3>2. k \in 1..n => k # n + 1
      BY <1>1
    <3> QED
      BY <1>1, <3>1, <3>2 DEF Violators
  <2> HIDE DEF W, U, n
  <2> QED
    BY <2>1
<1>5. Cardinality(W) = Cardinality(U) + IF Violates(slo, v) THEN 1 ELSE 0
  <2> HIDE DEF W, U, n
  <2>1. Cardinality(U \cup {n + 1}) = Cardinality(U) + 1
    BY <1>3, FS_AddElement
  <2> QED
    BY <1>3, <1>4, <2>1
<1>6. ws \in Seq(Int) /\ ws # <<>> /\ Len(ws) = n + 1
  <2>1. ws \in Seq(Int) /\ Len(ws) = n + 1
    OBVIOUS
  <2>2. Len(ws) # 0
    BY <1>1, <2>1
  <2> HIDE DEF ws
  <2>3. ws # <<>>
    BY <2>2
  <2> QED
    BY <2>1, <2>3
<1>7. ToSet(vs) \subseteq Int /\ (vs = <<>> => ToSet(vs) = {})
  BY DEF ToSet
<1> QED
  BY <1>2, <1>3, <1>5, <1>6, <1>7

(* One more value.                                                          *)
LEMMA RecordAggregated ==
  ASSUME NEW s \in Aggregates, NEW slo \in SLOType, NEW v \in Int, Aggregated(s, slo)
  PROVE  Record(s, slo, v) \in Aggregates /\ Aggregated(Record(s, slo, v), slo)
<1> DEFINE r == Record(s, slo, v)
            vs == s.values
            ws == Append(vs, v)
            new == IF Violates(slo, v) THEN 1 ELSE 0
<1>1. /\ s.sum \in Int /\ s.count \in Nat /\ s.violations \in Nat /\ s.min \in Int
      /\ s.max \in Int /\ s.minSet \in BOOLEAN /\ vs \in Seq(Int)
  BY DEF Aggregates
<1>2. /\ r.sum = s.sum + v /\ r.count = s.count + 1 /\ r.violations = s.violations + new
      /\ r.min = IF ~s.minSet \/ v < s.min THEN v ELSE s.min
      /\ r.max = (IF v > s.max THEN v ELSE s.max)
      /\ r.minSet = TRUE /\ r.values = ws
  BY DEF Record
<1>3. /\ ws \in Seq(Int) /\ ws # <<>> /\ Len(ws) = Len(vs) + 1
      /\ ToSet(ws) = ToSet(vs) \cup {v} /\ ToSet(vs) \subseteq Int
      /\ vs = <<>> => ToSet(vs) = {}
      /\ Cardinality(Violators(slo, vs)) \in Nat
      /\ Cardinality(Violators(slo, ws)) = Cardinality(Violators(slo, vs)) + new
  BY <1>1, AppendFacts
<1>4. Total(ws) = Total(vs) + v
  BY <1>1, TotalFacts
<1>5. new \in {0, 1} /\ (new = 0 => ~Violates(slo, v))
  OBVIOUS
<1>6. r \in Aggregates
  <2>1. /\ s.sum + v \in Int /\ s.count + 1 \in Nat /\ s.violations + new \in Nat
        /\ (IF ~s.minSet \/ v < s.min THEN v ELSE s.min) \in Int
        /\ (IF v > s.max THEN v ELSE s.max) \in Int
    BY <1>1
  <2> QED
    BY <1>3, <2>1 DEF Record, Aggregates
<1>7. slo.threshold \in Int /\ slo.isBiggerBetter \in BOOLEAN
  BY DEF SLOType
<1> HIDE DEF r, new
<1>8. r.violations = 0 => IF slo.isBiggerBetter THEN r.sum >= slo.threshold * r.count
                          ELSE r.sum <= slo.threshold * r.count
  <2> SUFFICES ASSUME r.violations = 0
               PROVE  IF slo.isBiggerBetter THEN r.sum >= slo.threshold * r.count
                      ELSE r.sum <= slo.threshold * r.count
    OBVIOUS
  <2>1. s.violations = 0 /\ new = 0
    BY <1>1, <1>2, <1>5
  <2>2. ~Violates(slo, v)
    BY <1>5, <2>1
  <2>3. slo.threshold * r.count = slo.threshold * s.count + slo.threshold
    BY <1>1, <1>2, <1>7
  <2>4. slo.threshold * s.count \in Int
    BY <1>1, <1>7
  <2>5. CASE slo.isBiggerBetter
    <3>1. s.sum >= slo.threshold * s.count /\ v >= slo.threshold
      BY <2>1, <2>2, <2>5, <1>7 DEF Violates, Aggregated
    <3> QED
      BY <1>1, <1>2, <1>7, <2>3, <2>4, <2>5, <3>1
  <2>6. CASE ~slo.isBiggerBetter
    <3>1. s.sum <= slo.threshold * s.count /\ v <= slo.threshold
      BY <2>1, <2>2, <2>6, <1>7 DEF Violates, Aggregated
    <3> QED
      BY <1>1, <1>2, <1>7, <2>3, <2>4, <2>6, <3>1
  <2> QED
    BY <2>5, <2>6
<1>9. r.min \in ToSet(ws) /\ \A x \in ToSet(ws) : r.min <= x
  <2>1. CASE ~s.minSet
    <3>1. vs = <<>>
      BY <2>1 DEF Aggregated
    <3> QED
      BY <1>1, <1>2, <1>3, <2>1, <3>1
  <2>2. CASE s.minSet
    <3>1. s.min \in ToSet(vs) /\ \A x \in ToSet(vs) : s.min <= x
      BY <2>2 DEF Aggregated
    <3> QED
      BY <1>1, <1>2, <1>3, <2>2, <3>1
  <2> QED
    BY <2>1, <2>2
<1>10. r.max \in {0} \cup ToSet(ws) /\ \A x \in {0} \cup ToSet(ws) : r.max >= x
  <2>1. s.max \in {0} \cup ToSet(vs) /\ \A x \in {0} \cup ToSet(vs) : s.max >= x
    BY DEF Aggregated
  <2> QED
    BY <1>1, <1>2, <1>3, <2>1
<1>11. /\ r.count = Len(ws) /\ r.sum = Total(ws)
       /\ r.violations = Cardinality(Violators(slo, ws))
  <2>1. /\ s.count = Len(vs) /\ s.sum = Total(vs)
        /\ s.violations = Cardinality(Violators(slo, vs))
    BY DEF Aggregated
  <2> QED
    BY <1>2, <1>3, <1>4, <2>1
<1>12. Aggregated(r, slo)
  <2>1. r.values = ws /\ r.minSet = TRUE /\ r.values # <<>>
    BY <1>2, <1>3
  <2> HIDE DEF ws
  <2> QED
    BY <2>1, <1>8, <1>9, <1>10, <1>11 DEF Aggregated
<1> QED
  BY <1>6, <1>12 DEF r

-----------------------------------------------------------------------------
(* Every window.                                                            *)

(* The inductive invariant: the state of every SLO is that of its values,   *)
(* and sums of values that are never negative are not negative either.      *)
WindowAggregated ==
  /\ state \in [Indices -> Aggregates]
  /\ \A i \in Indices : Aggregated(state[i], SLOs[i])
  /\ Values \subseteq Nat => \A i \in Indices : state[i].sum >= 0

LEMMA EmptyWindow ==
  ASSUME state = [i \in Indices |-> Empty]
  PROVE  WindowAggregated
<1>1. ASSUME NEW i \in Indices
      PROVE  state[i] = Empty /\ Empty \in Aggregates /\ Aggregated(Empty, SLOs[i])
  BY SLOTypes, EmptyAggregated
<1>2. Empty.sum = 0
  BY DEF Empty
<1>3. state \in [Indices -> Aggregates]
  BY <1>1
<1>4. \A i \in Indices : Aggregated(state[i], SLOs[i])
  BY <1>1
<1>5. \A i \in Indices : state[i].sum >= 0
  BY <1>1, <1>2
<1> QED
  BY <1>3, <1>4, <1>5 DEF WindowAggregated

(* A round of queries, all of which a number or nothing came back from.     *)
LEMMA RoundAggregated ==
  ASSUME WindowAggregated, Evaluate
  PROVE  WindowAggregated'
<1>1. PICK answer \in [Indices -> Answers] :
        /\ \A i \in Indices : answer[i] # NaN
        /\ state' = [i \in Indices |-> IF answer[i] = Missing THEN state[i]
                                        ELSE Record(state[i], SLOs[i], answer[i])]
  BY DEF Evaluate
<1>2. ASSUME NEW i \in Indices
      PROVE  /\ state'[i] \in Aggregates /\ Aggregated(state'[i], SLOs[i])
             /\ Values \subseteq Nat => state'[i].sum >= 0
  <2>1. /\ state[i] \in Aggregates /\ Aggregated(state[i], SLOs[i])
        /\ Values \subseteq Nat => state[i].sum >= 0
    BY DEF WindowAggregated
  <2>2. CASE answer[i] = Missing
    <3>1. state'[i] = state[i]
      BY <1>1, <2>2
    <3> QED
      BY <2>1, <3>1
  <2>3. CASE answer[i] # Missing
    <3>1. state'[i] = Record(state[i], SLOs[i], answer[i])
      BY <1>1, <2>3
    <3>2. answer[i] \in Values /\ answer[i] \in Int
      BY <1>1, <2>3, SloAssumption DEF Answers
    <3>3. Record(state[i], SLOs[i], answer[i]).sum = state[i].sum + answer[i]
      BY DEF Record
    <3>4. state[i].sum \in Int
      BY <2>1 DEF Aggregates
    <3>5. Record(state[i], SLOs[i], answer[i]) \in Aggregates
          /\ Aggregated(Record(state[i], SLOs[i], answer[i]), SLOs[i])
      BY <2>1, <3>2, SLOTypes, RecordAggregated
    <3>6. Values \subseteq Nat => state[i].sum + answer[i] >= 0
      BY <2>1, <3>2, <3>4
    <3> QED
      BY <3>1, <3>3, <3>5, <3>6
  <2> QED
    BY <2>2, <2>3
<1>3. state' = [i \in Indices |-> state'[i]]
  BY <1>1, Zenon
<1> QED
  BY <1>2, <1>3 DEF WindowAggregated, Indices

(* Every window of every behaviour is aggregated: lost rounds included.     *)
LEMMA EveryWindowAggregated == Spec => []WindowAggregated
<1>1. Init => WindowAggregated
  BY EmptyWindow DEF Init
<1>2. WindowAggregated /\ [Next]_vars => WindowAggregated'
  <2> SUFFICES ASSUME WindowAggregated, [Next]_vars
               PROVE  WindowAggregated'
    OBVIOUS
  <2>1. CASE Evaluate
    BY <2>1, RoundAggregated
  <2>2. CASE NextWindow
    <3>1. state' = [i \in Indices |-> Empty]
      BY <2>2 DEF NextWindow
    <3>2. ASSUME NEW i \in Indices
          PROVE  state'[i] = Empty /\ Empty \in Aggregates /\ Aggregated(Empty, SLOs[i])
      BY <3>1, SLOTypes, EmptyAggregated
    <3>3. Empty.sum = 0
      BY DEF Empty
    <3>4. state' \in [Indices -> Aggregates]
      BY <3>1, <3>2
    <3>5. \A i \in Indices : Aggregated(state'[i], SLOs[i])
      BY <3>2
    <3>6. \A i \in Indices : state'[i].sum >= 0
      BY <3>2, <3>3
    <3> QED
      BY <3>4, <3>5, <3>6 DEF WindowAggregated, Indices
  <2>3. CASE Skip \/ NotANumber \/ UNCHANGED vars
    <3>1. state' = state
      BY <2>3 DEF Skip, NotANumber, vars
    <3> QED
      BY <3>1 DEF WindowAggregated
  <2> QED
    BY <2>1, <2>2, <2>3 DEF Next
<1> QED
  BY <1>1, <1>2, PTL DEF Spec

(* A value is taken on a boundary, so the values need as many intervals     *)
(* less one as there are of them.                                           *)
LastSecond == IF over THEN elapsed ELSE elapsed - 1

AtIntervals(i) == state[i].count > 0 => (state[i].count - 1) * SampleInterval <= LastSecond

OnePerInterval ==
  /\ elapsed \in Nat /\ over \in BOOLEAN
  /\ \A i \in Indices : AtIntervals(i)

(* Values that were taken before a boundary fit in the intervals up to it.  *)
LEMMA BeforeBoundary ==
  ASSUME NEW d \in Nat \ {0}, NEW e \in Nat, e % d = 0,
         NEW c \in Nat, c > 0 => (c - 1) * d <= e - 1
  PROVE  c * d <= e
<1> DEFINE q == e \div d
<1>1. q \in Nat /\ e = d * q
  BY Z3
<1> HIDE DEF q
<1>2. CASE c > 0
  <2>1. (c - 1) * d < q * d
    BY <1>1, <1>2
  <2>2. c - 1 < q
    BY <1>1, <2>1, Z3
  <2> QED
    BY <1>1, <2>2, Z3
<1>3. CASE c = 0
  BY <1>3
<1> QED
  BY <1>2, <1>3

(* Arithmetic of seconds.                                                   *)
LEMMA OneSecondBefore ==
  ASSUME NEW a \in Nat, NEW b \in Nat, a + 1 <= b
  PROVE  b - 1 \in Int /\ a <= b - 1
OBVIOUS

LEMMA StillBefore ==
  ASSUME NEW a \in Nat, NEW b \in Nat, a <= b, NEW c \in Int, c <= a - 1
  PROVE  c <= b - 1
OBVIOUS

LEMMA RoundAtIntervals ==
  ASSUME WindowAggregated, OnePerInterval, Evaluate
  PROVE  OnePerInterval'
<1>1. /\ elapsed \in Nat /\ elapsed % SampleInterval = 0 /\ ~over /\ Duration \in Nat
      /\ SampleInterval \in Nat \ {0} /\ MaxSeconds \in Nat
  BY SloAssumption DEF Evaluate, OnePerInterval, OnBoundary
<1>2. PICK answer \in [Indices -> Answers] :
        state' = [i \in Indices |-> IF answer[i] = Missing THEN state[i]
                                    ELSE Record(state[i], SLOs[i], answer[i])]
  BY DEF Evaluate
<1>3. elapsed' \in Nat /\ over' \in BOOLEAN /\ LastSecond' \in Int /\ elapsed <= LastSecond'
  <2>1. CASE elapsed >= Duration
    BY <1>1, <2>1 DEF Evaluate, LastSecond
  <2>2. CASE ~(elapsed >= Duration)
    <3>1. elapsed' \in (elapsed + 1)..MaxSeconds /\ over' = over
      BY <2>2 DEF Evaluate, Later
    <3>2. elapsed' \in Nat /\ elapsed + 1 <= elapsed'
      BY <1>1, <3>1
    <3>3. ~over' /\ over' \in BOOLEAN
      BY <1>1, <3>1 DEF OnePerInterval
    <3>4. LastSecond' = elapsed' - 1
      BY <3>3 DEF LastSecond
    <3>5. elapsed \in Nat
      BY <1>1
    <3>6. elapsed' - 1 \in Int /\ elapsed <= elapsed' - 1
      BY <3>2, <3>5, OneSecondBefore, Zenon
    <3> QED
      BY <3>2, <3>3, <3>4, <3>6, Zenon
  <2> QED
    BY <2>1, <2>2
<1>4. ASSUME NEW i \in Indices
      PROVE  AtIntervals(i)'
  <2>1. state[i].count \in Nat /\ (state[i].count > 0 => (state[i].count - 1) * SampleInterval <= elapsed - 1)
    BY <1>1 DEF WindowAggregated, Aggregates, OnePerInterval, AtIntervals, LastSecond
  <2>2. state[i].count * SampleInterval <= elapsed
    BY <1>1, <2>1, BeforeBoundary
  <2>3. state'[i] = state[i] \/ state'[i].count = state[i].count + 1
    BY <1>2 DEF Record
  <2>4. CASE state'[i] = state[i]
    <3> DEFINE need == (state[i].count - 1) * SampleInterval
    <3>1. need \in Int
      BY <1>1, <2>1
    <3>2. state[i].count > 0 => need <= elapsed - 1
      BY <2>1
    <3> HIDE DEF need
    <3>3. state[i].count > 0 => need <= LastSecond'
      BY <1>1, <1>3, <3>1, <3>2
    <3> USE DEF need
    <3> QED
      BY <2>4, <3>3 DEF AtIntervals
  <2>5. CASE state'[i].count = state[i].count + 1
    <3> DEFINE need == state[i].count * SampleInterval
    <3>1. state'[i].count - 1 = state[i].count
      BY <2>1, <2>5
    <3>2. (state'[i].count - 1) * SampleInterval = need
      BY <3>1
    <3>3. need \in Int /\ need <= elapsed
      BY <1>1, <2>1, <2>2
    <3> HIDE DEF need
    <3>4. need <= LastSecond'
      BY <1>1, <1>3, <3>3
    <3> QED
      BY <3>2, <3>4 DEF AtIntervals
  <2> QED
    BY <2>3, <2>4, <2>5
<1> QED
  BY <1>3, <1>4 DEF OnePerInterval

LEMMA EveryWindowAtIntervals == Spec => []OnePerInterval
<1>1. Init => OnePerInterval
  <2> SUFFICES ASSUME Init
               PROVE  OnePerInterval
    OBVIOUS
  <2>1. \A i \in Indices : state[i].count = 0
    BY DEF Init, Empty
  <2>2. \A i \in Indices : AtIntervals(i)
    BY <2>1 DEF AtIntervals
  <2> QED
    BY <2>2 DEF Init, OnePerInterval
<1>2. WindowAggregated /\ OnePerInterval /\ [Next]_vars => OnePerInterval'
  <2> SUFFICES ASSUME WindowAggregated, OnePerInterval, [Next]_vars
               PROVE  OnePerInterval'
    OBVIOUS
  <2>1. CASE Evaluate
    BY <2>1, RoundAtIntervals
  <2>2. CASE NextWindow
    <3>1. \A i \in Indices : state'[i].count = 0
      BY <2>2 DEF NextWindow, Empty
    <3>2. elapsed' = 0 /\ over' = FALSE
      BY <2>2 DEF NextWindow
    <3>3. \A i \in Indices : AtIntervals(i)'
      BY <3>1 DEF AtIntervals
    <3> QED
      BY <3>2, <3>3 DEF OnePerInterval
  <2>3. CASE Skip \/ NotANumber
    <3>1. state' = state /\ over' = over /\ ~over
      BY <2>3 DEF Skip, NotANumber
    <3>2. elapsed' \in Nat /\ elapsed <= elapsed'
      BY <2>3, SloAssumption DEF Skip, NotANumber, Later, OnePerInterval
    <3>3. ASSUME NEW i \in Indices
          PROVE  AtIntervals(i)'
      <4> DEFINE need == (state[i].count - 1) * SampleInterval
      <4>1. AtIntervals(i) /\ state[i].count \in Nat /\ elapsed \in Nat /\ SampleInterval \in Nat
        BY SloAssumption DEF OnePerInterval, WindowAggregated, Aggregates
      <4>2. need \in Int
        BY <4>1
      <4>3. state[i].count > 0 => need <= LastSecond
        BY <4>1 DEF AtIntervals
      <4> HIDE DEF need
      <4>4. LastSecond = elapsed - 1 /\ LastSecond' = elapsed' - 1
        BY <3>1 DEF LastSecond
      <4>5. state[i].count > 0 => need <= elapsed - 1
        BY <4>3, <4>4, Zenon
      <4>6. state[i].count > 0 => need <= elapsed' - 1
        BY <3>2, <4>1, <4>2, <4>5, StillBefore, Zenon
      <4>7. state[i].count > 0 => need <= LastSecond'
        BY <4>4, <4>6, Zenon
      <4> USE DEF need
      <4> QED
        BY <3>1, <4>7 DEF AtIntervals
    <3> QED
      BY <3>1, <3>2, <3>3 DEF OnePerInterval
  <2>4. CASE UNCHANGED vars
    BY <2>4 DEF vars, OnePerInterval, AtIntervals, LastSecond
  <2> QED
    BY <2>1, <2>2, <2>3, <2>4 DEF Next
<1> QED
  BY <1>1, <1>2, EveryWindowAggregated, PTL DEF Spec

(* A least element is the minimum, a greatest one the maximum.              *)
LEMMA LeastAndGreatest ==
  ASSUME NEW S \in SUBSET Int, NEW m \in S
  PROVE  /\ (\A x \in S : m <= x) => Min(S) = m
         /\ (\A x \in S : m >= x) => Max(S) = m
<1>1. ASSUME \A x \in S : m <= x PROVE Min(S) = m
  <2>1. \A z \in S : (\A y \in S : z <= y) => z = m
    BY <1>1
  <2> QED
    BY <1>1, <2>1 DEF Min
<1>2. ASSUME \A x \in S : m >= x PROVE Max(S) = m
  <2>1. \A z \in S : (\A y \in S : z >= y) => z = m
    BY <1>2
  <2> QED
    BY <1>2, <2>1 DEF Max
<1> QED
  BY <1>1, <1>2

(* The running sum, minimum, maximum, count and number of violations of an  *)
(* SLO are those of the values written to the measurements ConfigMap        *)
(* (recordMeasurementAggregate and recordMeasurement), for every list of    *)
(* SLOs, any values, lost rounds, windows and sample intervals of any       *)
(* length; and they are of one value at most for each sample boundary       *)
(* passed, not of every measurement as experiment_types.go:60-61 has it.    *)
THEOREM RunningAggregatesAreExact == Spec => []AggregatesMatchValues
<1>1. WindowAggregated /\ OnePerInterval => AggregatesMatchValues
  <2> SUFFICES ASSUME WindowAggregated, OnePerInterval, NEW i \in Indices
               PROVE  LET s == state[i]
                          vs == s.values
                      IN  /\ s.count = Len(vs)
                          /\ s.sum = FoldLeft(LAMBDA a, b : a + b, 0, vs)
                          /\ s.minSet <=> vs # <<>>
                          /\ vs # <<>> => s.min = Min(ToSet(vs))
                          /\ s.max = Max({0} \cup ToSet(vs))
                          /\ s.violations
                               = Cardinality({k \in DOMAIN vs : Violates(SLOs[i], vs[k])})
                          /\ vs # <<>> => (s.count - 1) * SampleInterval
                                            <= (IF over THEN elapsed ELSE elapsed - 1)
    BY DEF AggregatesMatchValues
  <2> DEFINE s == state[i]
             vs == s.values
  <2>1. Aggregated(s, SLOs[i]) /\ vs \in Seq(Int)
    BY DEF WindowAggregated, Aggregates
  <2>2. ToSet(vs) \in SUBSET Int /\ {0} \cup ToSet(vs) \in SUBSET Int
    BY <2>1 DEF ToSet
  <2>3. vs # <<>> => s.min = Min(ToSet(vs))
    BY <2>1, <2>2, LeastAndGreatest DEF Aggregated
  <2>4. s.max = Max({0} \cup ToSet(vs))
    BY <2>1, <2>2, LeastAndGreatest DEF Aggregated
  <2>5. /\ s.count = Len(vs)
        /\ s.sum = FoldLeft(LAMBDA a, b : a + b, 0, vs)
        /\ s.minSet <=> vs # <<>>
    BY <2>1 DEF Aggregated, Total
  <2>6. s.violations = Cardinality({k \in DOMAIN vs : Violates(SLOs[i], vs[k])})
    BY <2>1 DEF Aggregated, Violators
  <2>7. vs # <<>> => (s.count - 1) * SampleInterval <= (IF over THEN elapsed ELSE elapsed - 1)
    <3>1. vs # <<>> => Len(vs) > 0
      BY <2>1
    <3>2. s.count > 0 => (s.count - 1) * SampleInterval <= LastSecond
      BY DEF OnePerInterval, AtIntervals
    <3> QED
      BY <2>5, <3>1, <3>2 DEF LastSecond
  <2> QED
    BY <2>3, <2>4, <2>5, <2>6, <2>7
<1> QED
  BY <1>1, EveryWindowAggregated, EveryWindowAtIntervals, PTL

-----------------------------------------------------------------------------
(* Scores.                                                                  *)

(* "Unique name for this SLO." (experiment_types.go).                       *)
DistinctNames == \A i, j \in Indices : SLOs[i].name = SLOs[j].name => i = j

(* sloByName finds the SLO itself.                                          *)
LEMMA FoundByName ==
  ASSUME DistinctNames, NEW i \in Indices
  PROVE  SloByName(SLOs[i].name) = SLOs[i]
<1>1. {j \in Indices : SLOs[j].name = SLOs[i].name} = {i}
  BY DEF DistinctNames
<1>2. {i} \in SUBSET Int /\ i >= i
  BY SLOTypes DEF Indices
<1>3. Max({i}) = i
  BY <1>2, LeastAndGreatest
<1> QED
  BY <1>1, <1>3 DEF SloByName

(* buildRepetitionResult judges the mean by the rule that recordMeasurement *)
(* judges the single values by: with distinct names, an SLO whose threshold *)
(* no value violated scores 0.                                              *)
THEOREM NoViolationNoScore ==
  ASSUME DistinctNames
  PROVE  Spec => []NoScoreWithoutViolation
<1>1. WindowAggregated => NoScoreWithoutViolation
  <2> SUFFICES ASSUME WindowAggregated, NEW i \in Indices, state[i].violations = 0
               PROVE  ViolationScore(i)[1] = 0
    BY DEF NoScoreWithoutViolation
  <2>1. SloByName(SLOs[i].name) = SLOs[i]
    BY FoundByName
  <2>2. SLOs[i] \in SLOType /\ SLOs[i].threshold \in Int /\ SLOs[i].isBiggerBetter \in BOOLEAN
    BY SLOTypes DEF SLOType
  <2>3. /\ state[i].sum \in Int /\ state[i].count \in Nat
        /\ IF SLOs[i].isBiggerBetter THEN state[i].sum >= SLOs[i].threshold * state[i].count
           ELSE state[i].sum <= SLOs[i].threshold * state[i].count
    BY DEF WindowAggregated, Aggregates, Aggregated
  <2>4. SLOs[i].threshold * state[i].count \in Int
    BY <2>2, <2>3
  <2>5. ViolationScore(i) = <<0, 1>>
    BY <2>1, <2>2, <2>3, <2>4 DEF ViolationScore
  <2> QED
    BY <2>5
<1> QED
  BY <1>1, EveryWindowAggregated, PTL

(* The score of one SLO is in the unit interval: a mean that violates the   *)
(* threshold and is not negative is divided by the larger of the two.       *)
LEMMA ScoreInUnit ==
  ASSUME WindowAggregated, DistinctNames, Values \subseteq Nat, NEW i \in Indices,
         SLOs[i].threshold >= 0
  PROVE  /\ ViolationScore(i)[1] \in Int /\ ViolationScore(i)[2] \in Int
         /\ InUnit(ViolationScore(i))
<1> DEFINE sum == state[i].sum
           allowed == SLOs[i].threshold * state[i].count
<1>1. SloByName(SLOs[i].name) = SLOs[i]
  BY FoundByName
<1>2. SLOs[i].threshold \in Int /\ SLOs[i].isBiggerBetter \in BOOLEAN
  BY SLOTypes DEF SLOType
<1>3. sum \in Int /\ state[i].count \in Nat /\ sum >= 0
  BY DEF WindowAggregated, Aggregates
<1>4. allowed \in Int /\ allowed >= 0
  BY <1>2, <1>3
<1>5. ViolationScore(i)
        = CASE state[i].count > 0 /\ SLOs[i].isBiggerBetter /\ sum < allowed ->
                 <<allowed - sum, allowed>>
            [] state[i].count > 0 /\ ~SLOs[i].isBiggerBetter /\ sum > allowed ->
                 <<sum - allowed, sum>>
            [] OTHER -> <<0, 1>>
  BY <1>1 DEF ViolationScore
<1> HIDE DEF sum, allowed
<1>6. CASE state[i].count > 0 /\ SLOs[i].isBiggerBetter /\ sum < allowed
  <2>1. ViolationScore(i) = <<allowed - sum, allowed>>
    BY <1>5, <1>6
  <2> QED
    BY <1>3, <1>4, <1>6, <2>1 DEF InUnit
<1>7. CASE state[i].count > 0 /\ ~SLOs[i].isBiggerBetter /\ sum > allowed
  <2>1. ViolationScore(i) = <<sum - allowed, sum>>
    BY <1>5, <1>7
  <2> QED
    BY <1>3, <1>4, <1>7, <2>1 DEF InUnit
<1>8. CASE /\ ~(state[i].count > 0 /\ SLOs[i].isBiggerBetter /\ sum < allowed)
           /\ ~(state[i].count > 0 /\ ~SLOs[i].isBiggerBetter /\ sum > allowed)
  <2>1. ViolationScore(i) = <<0, 1>>
    BY <1>5, <1>8
  <2> QED
    BY <2>1 DEF InUnit
<1> QED
  BY <1>6, <1>7, <1>8

(* The weights in percent, and the fold of AggregateScore as a recursive    *)
(* function of the SLOs it has still to go over.                            *)
Weights == [i \in Indices |-> SLOs[i].weight]

ScoreStep(f, is, D) ==
  [s \in SUBSET D |-> IF s = {} THEN <<0, 1>>
                      ELSE Plus(f[s \ {Max(s)}], Weighted(is[Max(s)]))]

(* The recursion is well defined.                                           *)
LEMMA ScoreStepExists ==
  ASSUME NEW is
  PROVE  \A n \in Nat : \E f : f = ScoreStep(f, is, 1..n)
<1> DEFINE S == {n \in Nat : \E f : f = ScoreStep(f, is, 1..n)}
<1>1. 0 \in S
  <2>1. 1..0 = {} /\ SUBSET {} = {{}}
    OBVIOUS
  <2>2. [s \in {{}} |-> <<0, 1>>] = ScoreStep([s \in {{}} |-> <<0, 1>>], is, {})
    BY <2>1 DEF ScoreStep
  <2> QED
    BY <2>1, <2>2
<1>2. ASSUME NEW n \in Nat, n \in S
      PROVE  n + 1 \in S
  <2>1. PICK f : f = ScoreStep(f, is, 1..n)
    BY <1>2
  <2> DEFINE g == [s \in SUBSET (1..n + 1) |->
                     IF n + 1 \in s THEN Plus(f[s \ {n + 1}], Weighted(is[n + 1])) ELSE f[s]]
  <2>2. ASSUME NEW s \in SUBSET (1..n + 1)
        PROVE  g[s] = IF s = {} THEN <<0, 1>> ELSE Plus(g[s \ {Max(s)}], Weighted(is[Max(s)]))
    <3>1. CASE n + 1 \in s
      <4>1. Max(s) = n + 1 /\ s # {}
        BY <3>1, LastOf, n + 1 \in Nat
      <4>2. s \ {n + 1} \in SUBSET (1..n + 1) /\ n + 1 \notin s \ {n + 1}
        OBVIOUS
      <4>3. g[s] = Plus(f[s \ {n + 1}], Weighted(is[n + 1])) /\ g[s \ {n + 1}] = f[s \ {n + 1}]
        BY <3>1, <4>2
      <4> HIDE DEF g
      <4> QED
        BY <4>1, <4>3
    <3>2. CASE n + 1 \notin s
      <4>1. s \in SUBSET (1..n)
        BY <3>2
      <4>2. f[s] = IF s = {} THEN <<0, 1>>
                   ELSE Plus(f[s \ {Max(s)}], Weighted(is[Max(s)]))
        BY <2>1, <4>1 DEF ScoreStep
      <4>3. \A r \in SUBSET (1..n) : g[r] = f[r]
        <5> SUFFICES ASSUME NEW r \in SUBSET (1..n) PROVE g[r] = f[r]
          OBVIOUS
        <5>1. n + 1 \notin r /\ r \in SUBSET (1..n + 1)
          OBVIOUS
        <5> QED
          BY <5>1
      <4>4. s \ {Max(s)} \in SUBSET (1..n)
        BY <4>1
      <4> HIDE DEF g
      <4> QED
        BY <4>1, <4>2, <4>3, <4>4
    <3> QED
      BY <3>1, <3>2
  <2>3. g = [s \in SUBSET (1..n + 1) |-> g[s]]
    BY Zenon
  <2> HIDE DEF g
  <2>4. g = ScoreStep(g, is, 1..n + 1)
    BY <2>2, <2>3 DEF ScoreStep
  <2> QED
    BY <2>4, n + 1 \in Nat
<1>3. Nat \subseteq S
  <2> HIDE DEF S
  <2> QED
    BY <1>1, <1>2, SetInduction
<1> QED
  BY <1>3

(* The scores of the first SLOs added up, one after the other.              *)
LEMMA ScoreUnfold ==
  \E h : /\ h[0] = <<0, 1>>
         /\ \A k \in Indices : h[k] = Plus(h[k - 1], Weighted(k))
         /\ AggregateScore = h[Len(SLOs)]
<1> DEFINE is == [i \in Indices |-> i]
           f == CHOOSE g : g = ScoreStep(g, is, DOMAIN is)
           n == Len(SLOs)
           h == [k \in 0..n |-> f[1..k]]
<1>1. n \in Nat /\ DOMAIN is = 1..n /\ Indices = 1..n
  BY SLOTypes DEF Indices
<1>2. AggregateScore = f[DOMAIN is]
  BY DEF AggregateScore, FoldLeft, MapThenFoldSet, ScoreStep
<1>3. f = ScoreStep(f, is, 1..n)
  <2>1. \E g : g = ScoreStep(g, is, DOMAIN is)
    BY <1>1, ScoreStepExists
  <2>2. f = ScoreStep(f, is, DOMAIN is)
    BY <2>1, Zenon
  <2> QED
    BY <1>1, <2>2
<1> HIDE DEF f
<1>4. h[0] = <<0, 1>>
  <2>1. 1..0 = {} /\ {} \in SUBSET (1..n)
    OBVIOUS
  <2>2. f[{}] = <<0, 1>>
    BY <1>3, <2>1 DEF ScoreStep
  <2> QED
    BY <1>1, <2>1, <2>2
<1>5. ASSUME NEW k \in Indices
      PROVE  h[k] = Plus(h[k - 1], Weighted(k))
  <2>1. k - 1 \in 0..n /\ k \in 0..n /\ k \in Nat /\ k \in 1..k /\ is[k] = k
    BY <1>1
  <2>2. Max(1..k) = k
    BY <2>1, LastOf
  <2>3. 1..k \in SUBSET (1..n) /\ 1..k # {} /\ (1..k) \ {k} = 1..(k - 1)
    BY <1>1, Prefix
  <2> HIDE DEF is
  <2>4. f[1..k] = Plus(f[(1..k) \ {Max(1..k)}], Weighted(is[Max(1..k)]))
    BY <1>3, <2>3 DEF ScoreStep
  <2>5. h[k] = f[1..k] /\ h[k - 1] = f[1..(k - 1)]
    BY <2>1
  <2> HIDE DEF h
  <2> QED
    BY <2>1, <2>2, <2>3, <2>4, <2>5
<1>6. AggregateScore = h[n]
  BY <1>1, <1>2
<1> HIDE DEF h
<1> QED
  BY <1>4, <1>5, <1>6

(* A score weighted with w percent added to a total that is at most W       *)
(* percent: a total of at most W + w percent.                               *)
LEMMA PlusInPercent ==
  ASSUME NEW n \in Nat, NEW d \in Nat, d > 0, NEW W \in Nat, 100 * n <= d * W,
         NEW a \in Nat, NEW b \in Nat, b > 0, a <= b, NEW w \in Nat
  PROVE  LET t == Plus(<<n, d>>, <<a * w, b * 100>>)
         IN  /\ t = <<t[1], t[2]>> /\ t[1] \in Nat /\ t[2] \in Nat /\ t[2] > 0
             /\ 100 * t[1] <= t[2] * (W + w)
<1> DEFINE p == n * (b * 100) + (a * w) * d
           q == d * (b * 100)
<1>1. Plus(<<n, d>>, <<a * w, b * 100>>) = <<p, q>>
  BY DEF Plus
<1>2. p \in Nat /\ q \in Nat /\ q > 0
  OBVIOUS
<1>3. 100 * (n * (b * 100)) <= q * W
  OBVIOUS
<1>4. 100 * ((a * w) * d) <= q * w
  OBVIOUS
<1>5. 100 * p <= q * (W + w)
  <2>1. 100 * p = 100 * (n * (b * 100)) + 100 * ((a * w) * d) /\ q * (W + w) = q * W + q * w
    OBVIOUS
  <2> QED
    BY <1>3, <1>4, <2>1
<1> HIDE DEF p, q
<1> QED
  BY <1>1, <1>2, <1>5

(* "Normalized violation score [0, 1]" and "Weights should sum to 1.0"      *)
(* (experiment_types.go): the scores buildRepetitionResult computes from a  *)
(* window, and their weighted sum, are in the unit interval, when the names *)
(* are distinct, values and thresholds are not negative and the weights     *)
(* sum to at most one.                                                      *)
THEOREM ScoresAreNormalised ==
  ASSUME DistinctNames, Values \subseteq Nat, \A i \in Indices : SLOs[i].threshold >= 0,
         Total(Weights) <= 100
  PROVE  Spec => []ScoreNormalised
<1>1. WindowAggregated => ScoreNormalised
  <2> SUFFICES ASSUME WindowAggregated
               PROVE  InUnit(AggregateScore)
    BY ScoreInUnit DEF ScoreNormalised
  <2> DEFINE n == Len(SLOs)
  <2>1. n \in Nat /\ Indices = 1..n
    BY SLOTypes DEF Indices
  <2>2. ASSUME NEW i \in Indices
        PROVE  SLOs[i].weight \in Nat
    <3>1. SLOs[i] \in SLOType
      BY SLOTypes
    <3>2. SLOs[i].weight \in 0..100
      BY <3>1 DEF SLOType
    <3> QED
      BY <3>2
  <2>3. Weights \in Seq(Int) /\ Len(Weights) = n /\ \A k \in 1..n : Weights[k] = SLOs[k].weight
    BY <2>1, <2>2 DEF Weights
  <2>4. PICK W : Sums(W, Weights) /\ Total(Weights) = W[n]
    BY <2>3, TotalUnfold
  <2>5. PICK h : /\ h[0] = <<0, 1>>
                 /\ \A k \in Indices : h[k] = Plus(h[k - 1], Weighted(k))
                 /\ AggregateScore = h[n]
    BY ScoreUnfold
  <2> DEFINE Good(t, w) == /\ t = <<t[1], t[2]>> /\ t[1] \in Nat /\ t[2] \in Nat /\ t[2] > 0
                           /\ w \in Nat /\ 100 * t[1] <= t[2] * w
             S == {k \in Nat : k <= n => Good(h[k], W[k])}
  <2>6. 0 \in S
    <3>1. W[0] = 0
      BY <2>4 DEF Sums
    <3> QED
      BY <2>5, <3>1
  <2>7. ASSUME NEW k \in Nat, k \in S
        PROVE  k + 1 \in S
    <3> SUFFICES ASSUME k + 1 <= n
                 PROVE  Good(h[k + 1], W[k + 1])
      OBVIOUS
    <3>1. k + 1 \in Indices /\ k + 1 \in 1..n /\ (k + 1) - 1 = k /\ k <= n
      BY <2>1
    <3>2. Good(h[k], W[k])
      BY <2>7, <3>1
    <3> HIDE DEF n
    <3> DEFINE i == k + 1
               v == ViolationScore(i)
               w == SLOs[i].weight
    <3>3. i \in Indices /\ w \in Nat /\ SloByName(SLOs[i].name) = SLOs[i]
      BY <2>2, <3>1, FoundByName
    <3>4. v[1] \in Nat /\ v[2] \in Nat /\ v[2] > 0 /\ v[1] <= v[2]
      BY <3>3, ScoreInUnit DEF InUnit
    <3>5. Weighted(i) = <<v[1] * w, v[2] * 100>>
      BY <3>3 DEF Weighted
    <3>6. W[i] = W[k] + w
      <4>1. W[i] = W[i - 1] + Weights[i]
        BY <2>3, <2>4, <3>1 DEF Sums
      <4> QED
        BY <2>3, <3>1, <4>1
    <3>7. h[i] = Plus(h[k], Weighted(i))
      BY <2>5, <3>1
    <3> HIDE DEF i, v, w
    <3>8. h[i] = Plus(<<h[k][1], h[k][2]>>, <<v[1] * w, v[2] * 100>>)
      BY <3>2, <3>5, <3>7
    <3>9. LET t == Plus(<<h[k][1], h[k][2]>>, <<v[1] * w, v[2] * 100>>)
          IN  /\ t = <<t[1], t[2]>> /\ t[1] \in Nat /\ t[2] \in Nat /\ t[2] > 0
              /\ 100 * t[1] <= t[2] * (W[k] + w)
      BY <3>2, <3>3, <3>4, PlusInPercent
    <3>10. W[k] + w \in Nat
      BY <3>2, <3>3
    <3> QED
      BY <3>6, <3>8, <3>9, <3>10 DEF i
  <2>8. Nat \subseteq S
    <3> HIDE DEF S
    <3> QED
      BY <2>6, <2>7, SetInduction
  <2>9. Good(h[n], W[n]) /\ W[n] <= 100
    BY <2>1, <2>4, <2>8
  <2>10. AggregateScore[2] > 0 /\ 0 <= AggregateScore[1] /\ AggregateScore[1] <= AggregateScore[2]
    <3> DEFINE t == AggregateScore
    <3>1. /\ t[1] \in Nat /\ t[2] \in Nat /\ t[2] > 0 /\ W[n] \in Nat /\ W[n] <= 100
          /\ 100 * t[1] <= t[2] * W[n]
      BY <2>5, <2>9
    <3> HIDE DEF t
    <3>2. t[2] * W[n] <= t[2] * 100
      BY <3>1
    <3>3. t[1] <= t[2]
      BY <3>1, <3>2
    <3> QED
      BY <3>1, <3>3 DEF t
  <2> QED
    BY <2>10 DEF InUnit
<1> QED
  BY <1>1, EveryWindowAggregated, PTL

=============================================================================
