----------------------------- MODULE Totals_proofs -----------------------------
(***************************************************************************)
(* What the proofs about counters and memory need to know of a total.      *)
(***************************************************************************)
EXTENDS Totals, FiniteSetTheorems, TLAPS

LEMMA UnitIn ==
  ASSUME NEW f, NEW S, NEW u
  PROVE  u \in Units(f, S) <=> \E x \in S : \E n \in 1..f[x] : u = <<x, n>>
BY DEF Units

\* One key has as many units as its value says.
LEMMA OneUnits ==
  ASSUME NEW x, NEW n \in Int
  PROVE  IsFiniteSet({x} \X (1..n)) /\ (n >= 0 => Cardinality({x} \X (1..n)) = n)
<1>1. IsFiniteSet({x}) /\ Cardinality({x}) = 1
  BY FS_Singleton
<1>2. IsFiniteSet(1..n) /\ (n >= 0 => Cardinality(1..n) = n)
  BY FS_Interval
<1> DEFINE X == {x}
           R == 1..n
<1>3. IsFiniteSet(X \X R) /\ Cardinality(X \X R) = Cardinality(X) * Cardinality(R)
  <2> HIDE DEF X, R
  <2> QED
    BY <1>1, <1>2, FS_Product DEF X, R
<1>4. n >= 0 => Cardinality(X \X R) = 1 * n
  <2> HIDE DEF X, R
  <2> QED
    BY <1>1, <1>2, <1>3 DEF X, R
<1> QED
  BY <1>3, <1>4

LEMMA UnitsFinite ==
  ASSUME NEW S, IsFiniteSet(S), NEW f, \A x \in S : f[x] \in Int
  PROVE  IsFiniteSet(Units(f, S))
<1> DEFINE T == {{x} \X (1..f[x]) : x \in S}
           g == [x \in S |-> {x} \X (1..f[x])]
<1>1. g \in Surjection(S, T)
  BY DEF Surjection
<1>2. IsFiniteSet(T)
  <2> HIDE DEF g, T
  <2> QED
    BY <1>1, FS_Surjection
<1>3. \A U \in T : IsFiniteSet(U)
  <2> SUFFICES ASSUME NEW x \in S PROVE IsFiniteSet({x} \X (1..f[x]))
    OBVIOUS
  <2> QED
    BY OneUnits
<1>4. IsFiniteSet(UNION T)
  <2> HIDE DEF T
  <2> QED
    BY <1>2, <1>3, FS_UNION
<1> QED
  BY <1>4 DEF Units

\* A total is a natural, whatever it is the total of.
THEOREM TotalType ==
  ASSUME NEW S, IsFiniteSet(S), NEW f, \A x \in S : f[x] \in Int
  PROVE  Total(f, S) \in Nat
BY UnitsFinite, FS_CardinalityType DEF Total

THEOREM TotalEmpty ==
  ASSUME NEW f
  PROVE  Total(f, {}) = 0
BY FS_EmptySet DEF Total, Units

\* A total depends on the values it is the total of, and on nothing else.
THEOREM TotalSame ==
  ASSUME NEW S, NEW f, NEW g, \A x \in S : f[x] = g[x]
  PROVE  Total(f, S) = Total(g, S)
<1>1. {{x} \X (1..f[x]) : x \in S} = {{x} \X (1..g[x]) : x \in S}
  OBVIOUS
<1> QED
  BY <1>1 DEF Total, Units

\* One key more is its value more.
THEOREM TotalAdd ==
  ASSUME NEW S, IsFiniteSet(S), NEW f, \A y \in S : f[y] \in Nat,
         NEW x, x \notin S, f[x] \in Nat
  PROVE  Total(f, S \cup {x}) = Total(f, S) + f[x]
<1> DEFINE U == Units(f, S)
           V == {x} \X (1..f[x])
<1>1. Units(f, S \cup {x}) = U \cup V
  BY DEF Units
<1>2. U \cap V = {}
  BY UnitIn
<1>3. IsFiniteSet(U) /\ IsFiniteSet(V) /\ Cardinality(V) = f[x]
  <2>1. (\A y \in S : f[y] \in Int) /\ f[x] \in Int /\ f[x] >= 0
    OBVIOUS
  <2>2. IsFiniteSet(V) /\ Cardinality(V) = f[x]
    BY <2>1, OneUnits
  <2> QED
    BY <2>1, <2>2, UnitsFinite
<1>4. Cardinality(U) \in Nat
  BY <1>3, FS_CardinalityType
<1> HIDE DEF U, V
<1>5. Cardinality(U \cup V) = Cardinality(U) + Cardinality(V) - Cardinality(U \cap V)
  BY <1>3, FS_Union
<1>6. Cardinality(U \cup V) = Cardinality(U) + f[x]
  <2>1. Cardinality(U \cap V) = 0
    BY <1>2, FS_EmptySet
  <2>2. f[x] \in Nat
    OBVIOUS
  <2> QED
    BY <1>3, <1>4, <1>5, <2>1, <2>2
<1> QED
  BY <1>1, <1>6 DEF Total, U

\* Over more keys, with values that are no smaller, a total is no smaller.
THEOREM TotalGrows ==
  ASSUME NEW S, NEW T \in SUBSET S, IsFiniteSet(S), NEW f, NEW g,
         \A x \in S : g[x] \in Int,
         \A x \in T : f[x] \in Int /\ f[x] <= g[x]
  PROVE  Total(f, T) <= Total(g, S)
<1>1. Units(f, T) \in SUBSET Units(g, S)
  BY UnitIn
<1> QED
  BY <1>1, UnitsFinite, FS_Subset DEF Total

\* A value that changes moves the total by as much.
THEOREM TotalExcept ==
  ASSUME NEW S, IsFiniteSet(S), NEW f, NEW g, NEW x \in S,
         \A y \in S : f[y] \in Nat /\ g[y] \in Nat,
         \A y \in S : y # x => g[y] = f[y]
  PROVE  Total(g, S) = Total(f, S) - f[x] + g[x]
<1> DEFINE R == S \ {x}
<1>1. S = R \cup {x} /\ x \notin R
  OBVIOUS
<1>2. IsFiniteSet(R)
  BY FS_RemoveElement
<1>3. Total(f, R) = Total(g, R)
  BY TotalSame
<1>4. Total(f, R) \in Nat
  BY <1>2, TotalType
<1>5. (\A y \in R : f[y] \in Nat) /\ f[x] \in Nat /\ (\A y \in R : g[y] \in Nat) /\ g[x] \in Nat
  OBVIOUS
<1> HIDE DEF R
<1>6. Total(f, R \cup {x}) = Total(f, R) + f[x]
  BY <1>1, <1>2, <1>5, TotalAdd
<1>7. Total(g, R \cup {x}) = Total(g, R) + g[x]
  BY <1>1, <1>2, <1>5, TotalAdd
<1> QED
  BY <1>1, <1>3, <1>4, <1>5, <1>6, <1>7

\* What is bounded by one value or by two together is bounded by the two totals together.
THEOREM TotalSplit ==
  ASSUME NEW S, IsFiniteSet(S), NEW f, NEW g, NEW h,
         \A x \in S : f[x] \in Nat /\ g[x] \in Nat /\ h[x] \in Nat /\ h[x] <= f[x] + g[x]
  PROVE  Total(h, S) <= Total(f, S) + Total(g, S)
<1> DEFINE A == Units(f, S)
           over == [x \in S |-> f[x] + g[x]]
           B == Units(over, S) \ A
<1>1. Units(h, S) \subseteq A \cup B
  BY UnitIn
<1>2. IsFiniteSet(A) /\ IsFiniteSet(Units(over, S)) /\ IsFiniteSet(Units(g, S))
  <2>1. \A x \in S : over[x] \in Nat
    OBVIOUS
  <2> HIDE DEF over
  <2> QED
    BY <2>1, UnitsFinite
<1> DEFINE down == [u \in B |-> <<u[1], u[2] - f[u[1]]>>]
<1>3. \A u \in B : u = <<u[1], u[2]>> /\ u[1] \in S /\ u[2] \in Int
                   /\ f[u[1]] < u[2] /\ u[2] <= f[u[1]] + g[u[1]]
  <2> SUFFICES ASSUME NEW u \in B
               PROVE u = <<u[1], u[2]>> /\ u[1] \in S /\ u[2] \in Int
                   /\ f[u[1]] < u[2] /\ u[2] <= f[u[1]] + g[u[1]]
    OBVIOUS
  <2>0. PICK x \in S : \E n \in 1..over[x] : u = <<x, n>>
    BY UnitIn
  <2>1. PICK n \in 1..over[x] : u = <<x, n>>
    BY <2>0
  <2>2. ~(n \in 1..f[x])
    BY <2>1, UnitIn
  <2> QED
    BY <2>1, <2>2
<1>4. down \in Injection(B, Units(g, S))
  <2>1. \A u \in B : down[u] \in Units(g, S)
    <3> SUFFICES ASSUME NEW u \in B PROVE <<u[1], u[2] - f[u[1]]>> \in Units(g, S)
      OBVIOUS
    <3>1. u[2] - f[u[1]] \in 1..g[u[1]]
      BY <1>3
    <3> QED
      BY <1>3, <3>1, UnitIn
  <2>2. ASSUME NEW u \in B, NEW v \in B, down[u] = down[v] PROVE u = v
    <3>1. u[1] = v[1] /\ u[2] - f[u[1]] = v[2] - f[v[1]]
      BY <2>2
    <3>2. u[1] \in S /\ u[2] \in Int /\ v[2] \in Int /\ f[u[1]] \in Nat
      BY <1>3
    <3>3. u[2] = v[2]
      BY <3>1, <3>2
    <3>4. u = <<u[1], u[2]>> /\ v = <<v[1], v[2]>>
      BY <1>3
    <3> HIDE DEF B
    <3> QED
      BY <3>1, <3>3, <3>4
  <2>3. down \in [B -> Units(g, S)]
    BY <2>1
  <2> HIDE DEF down, B
  <2>4. DOMAIN down = B
    BY <2>3
  <2> QED
    BY <2>2, <2>3, <2>4 DEF Injection, IsInjective
<1> HIDE DEF A, B, down, over
<1>5. IsFiniteSet(B) /\ Cardinality(B) <= Cardinality(Units(g, S))
  BY <1>2, <1>4, FS_Injection
<1>6. IsFiniteSet(A \cup B) /\ Cardinality(A \cup B) <= Cardinality(A) + Cardinality(B)
  <2>1. Cardinality(A) \in Nat /\ Cardinality(B) \in Nat /\ Cardinality(A \cap B) \in Nat
    BY <1>2, <1>5, FS_CardinalityType, FS_Intersection
  <2>2. Cardinality(A \cup B) = Cardinality(A) + Cardinality(B) - Cardinality(A \cap B)
    BY <1>2, <1>5, FS_Union
  <2>3. IsFiniteSet(A \cup B)
    BY <1>2, <1>5, FS_Union
  <2> QED
    BY <2>1, <2>2, <2>3
<1>7. Cardinality(Units(h, S)) <= Cardinality(A \cup B)
  BY <1>1, <1>6, FS_Subset
<1>8. /\ Cardinality(A) \in Nat /\ Cardinality(B) \in Nat /\ Cardinality(Units(g, S)) \in Nat
      /\ Cardinality(A \cup B) \in Nat /\ Cardinality(Units(h, S)) \in Nat
  BY <1>1, <1>2, <1>5, <1>6, FS_CardinalityType, FS_Subset
<1> QED
  BY <1>5, <1>6, <1>7, <1>8 DEF Total, A
=============================================================================
