------------------------- MODULE StridedRange_proofs -------------------------
(***************************************************************************)
(* Proofs about StridedRange, for a machine of any number of words, any    *)
(* loop and any answer: what is answered of a counter, or of a value read  *)
(* from it, may be every word the machine computes there.                  *)
(***************************************************************************)
EXTENDS StridedRange, FiniteSetTheorems, WellFoundedInduction, TLAPS

-----------------------------------------------------------------------------
(* Division.                                                               *)

LEMMA DivFacts ==
  ASSUME NEW a \in Int, NEW b \in Nat \ {0}
  PROVE  /\ a \div b \in Int /\ a % b \in 0..b - 1
         /\ a = b * (a \div b) + (a % b)
OBVIOUS

LEMMA DivUnique ==
  ASSUME NEW a \in Int, NEW b \in Nat \ {0}, NEW q \in Int, NEW r \in 0..b - 1, a = b * q + r
  PROVE  a \div b = q /\ a % b = r
OBVIOUS

LEMMA Multiples ==
  ASSUME NEW b \in Nat \ {0}
  PROVE  /\ \A a \in Int : a % b = 0 => \E q \in Int : a = q * b
         /\ \A q \in Int : (q * b) % b = 0
<1>1. ASSUME NEW a \in Int, a % b = 0 PROVE \E q \in Int : a = q * b
  BY <1>1
<1>2. ASSUME NEW q \in Int PROVE (q * b) % b = 0
  BY <1>2
<1> QED BY <1>1, <1>2

LEMMA DivSum ==
  ASSUME NEW a \in Int, NEW c \in Int, NEW b \in Nat \ {0}, a % b = 0, c % b = 0
  PROVE  (a + c) % b = 0 /\ (a - c) % b = 0 /\ (-a) % b = 0
<1>1. PICK q \in Int : a = q * b
  BY Multiples
<1>2. PICK r \in Int : c = r * b
  BY Multiples
<1>3. a + c = (q + r) * b /\ a - c = (q - r) * b /\ -a = (-q) * b
  BY <1>1, <1>2
<1>4. \A n \in Int : (n * b) % b = 0
  BY Multiples
<1>5. q + r \in Int /\ q - r \in Int /\ -q \in Int
  OBVIOUS
<1> QED BY <1>3, <1>4, <1>5

\* A divisor of the divisor divides.
LEMMA DivTrans ==
  ASSUME NEW a \in Int, NEW b \in Nat \ {0}, NEW c \in Nat \ {0}, a % b = 0, b % c = 0
  PROVE  a % c = 0
<1>1. PICK q \in Int : a = q * b
  BY Multiples
<1>2. PICK r \in Int : b = r * c
  BY Multiples
<1>3. a = (q * r) * c /\ q * r \in Int
  BY <1>1, <1>2
<1> QED BY <1>3, Multiples

LEMMA DivMonotone ==
  ASSUME NEW a \in Int, NEW c \in Int, NEW b \in Nat \ {0}, a <= c
  PROVE  a \div b <= c \div b
OBVIOUS

\* The least multiple of b from a, and the greatest up to it.
LEMMA CeilFacts ==
  ASSUME NEW a \in Int, NEW b \in Nat \ {0}
  PROVE  /\ Ceil(a, b) \in Int /\ a <= Ceil(a, b) * b /\ Ceil(a, b) * b < a + b
         /\ \A n \in Int : a <= n * b => Ceil(a, b) <= n
<1> DEFINE q == (-a) \div b
<1>1. q \in Int /\ b * q <= -a /\ -a < b * q + b
  BY DivFacts
<1> HIDE DEF q
<1>2. -q \in Int /\ (-q) * b = -(b * q)
  BY <1>1
<1>3. ASSUME NEW n \in Int, a <= n * b PROVE -q <= n
  <2>1. -n * b <= -a
    BY <1>3
  <2>2. (-n) * b < b * q + b
    BY <1>1, <1>3
  <2> SUFFICES ASSUME n + 1 <= -q PROVE FALSE
    BY <1>1
  <2>3. (n + 1) * b <= (-q) * b
    BY <1>1
  <2>4. (n + 1) * b = n * b + b
    OBVIOUS
  <2> QED BY <1>1, <1>2, <1>3, <2>3, <2>4
<1> QED BY <1>1, <1>2, <1>3 DEF Ceil, q

LEMMA FloorFacts ==
  ASSUME NEW a \in Int, NEW b \in Nat \ {0}
  PROVE  /\ a \div b \in Int /\ (a \div b) * b <= a /\ a < (a \div b) * b + b
         /\ \A n \in Int : n * b <= a => n <= a \div b
<1>1. a \div b \in Int /\ (a \div b) * b <= a /\ a < (a \div b) * b + b
  BY DivFacts
<1>2. ASSUME NEW n \in Int, n * b <= a PROVE n <= a \div b
  <2>1. (n * b) \div b = n
    BY DivUnique
  <2> QED BY <1>2, <2>1, DivMonotone
<1> QED BY <1>1, <1>2

-----------------------------------------------------------------------------
(* The largest and the smallest of a set of integers.                      *)

LEMMA MaxIs ==
  ASSUME NEW S, NEW m \in S, S \subseteq Int, \A x \in S : x <= m
  PROVE  Max(S) = m
<1>1. Max(S) \in S /\ \A x \in S : Max(S) >= x
  BY DEF Max
<1>2. Max(S) \in Int /\ m \in Int /\ m <= Max(S) /\ Max(S) <= m
  BY <1>1
<1> QED BY <1>2

LEMMA MinIs ==
  ASSUME NEW S, NEW m \in S, S \subseteq Int, \A x \in S : m <= x
  PROVE  Min(S) = m
<1>1. Min(S) \in S /\ \A x \in S : Min(S) <= x
  BY DEF Min
<1>2. Min(S) \in Int /\ m \in Int /\ m <= Min(S) /\ Min(S) <= m
  BY <1>1
<1> QED BY <1>2

LEMMA MaxOfTwo ==
  ASSUME NEW a \in Int, NEW b \in Int
  PROVE  Max({a, b}) = (IF a <= b THEN b ELSE a) /\ Min({a, b}) = (IF a <= b THEN a ELSE b)
<1>1. CASE a <= b
  <2>1. Max({a, b}) = b
    BY <1>1, MaxIs
  <2>2. Min({a, b}) = a
    BY <1>1, MinIs
  <2> QED BY <1>1, <2>1, <2>2
<1>2. CASE ~(a <= b)
  <2>1. Max({a, b}) = a
    BY <1>2, MaxIs
  <2>2. Min({a, b}) = b
    BY <1>2, MinIs
  <2> QED BY <1>2, <2>1, <2>2
<1> QED BY <1>1, <1>2

\* A product distributes over a difference.
LEMMA Distributes ==
  ASSUME NEW a \in Int, NEW b \in Int, NEW s \in Nat
  PROVE  (a - b) * s = a * s - b * s /\ (a - 1) * s = a * s - s
OBVIOUS

\* A set of natural numbers that is not empty has a least element.
LEMMA LeastNat ==
  ASSUME NEW T, T \subseteq Nat, T # {}
  PROVE  \E n \in T : \A m \in T : n <= m
<1> DEFINE less == {ss \in Nat \X Nat : ss[1] < ss[2]}
<1>1. OpToRel(<, Nat) = less
  BY Zenon DEF OpToRel
<1>2. PICK n \in T : \A m \in T : ~ (<<m, n>> \in less)
  BY ZenonT(40), <1>1, NatLessThanWellFounded, WFMin
<1>3. \A m \in T : ~ (m < n)
  BY <1>2
<1> QED BY <1>3

\* A finite set of integers that is not empty has a largest and a smallest element.
LEMMA Extremes ==
  ASSUME NEW S, S \subseteq Int, IsFiniteSet(S), S # {}
  PROVE  (\E m \in S : \A x \in S : x <= m) /\ (\E m \in S : \A x \in S : m <= x)
<1> DEFINE Bounded(U) == (\E m \in U : \A x \in U : x <= m) /\ (\E m \in U : \A x \in U : m <= x)
           Bad == {n \in Nat : \E U \in SUBSET Int : /\ IsFiniteSet(U) /\ U # {}
                                                     /\ Cardinality(U) = n /\ ~Bounded(U)}
<1>1. Bad = {}
  <2> SUFFICES ASSUME Bad # {} PROVE FALSE
    OBVIOUS
  <2>1. PICK n \in Bad : \A m \in Bad : n <= m
    <3>1. Bad \subseteq Nat
      OBVIOUS
    <3> HIDE DEF Bad
    <3> QED BY <3>1, LeastNat
  <2>2. PICK U \in SUBSET Int : /\ IsFiniteSet(U) /\ U # {}
                                /\ Cardinality(U) = n /\ ~Bounded(U)
    BY <2>1
  <2>3. PICK u \in U : TRUE
    BY <2>2
  <2>4. /\ IsFiniteSet(U \ {u}) /\ Cardinality(U \ {u}) = n - 1 /\ U \ {u} \in SUBSET Int
        /\ n - 1 \in Nat
    <3>1. IsFiniteSet(U \ {u}) /\ Cardinality(U \ {u}) = n - 1
      BY <2>2, <2>3, FS_RemoveElement
    <3>2. n - 1 \in Nat
      BY <3>1, FS_CardinalityType
    <3> QED BY <2>2, <3>1, <3>2
  <2>5. CASE U \ {u} = {}
    BY <2>2, <2>3, <2>5
  <2>6. CASE U \ {u} # {}
    <3>1. Bounded(U \ {u})
      <4>1. n - 1 \notin Bad
        <5>1. n \in Nat /\ \A m \in Bad : m \in Nat /\ n <= m
          BY <2>1
        <5> HIDE DEF Bad
        <5> QED BY <5>1
      <4> QED BY <2>4, <2>6, <4>1
    <3>2. PICK a \in U \ {u}, b \in U \ {u} :
            (\A x \in U \ {u} : x <= a) /\ (\A x \in U \ {u} : b <= x)
      BY <3>1
    <3>3. u \in Int /\ a \in Int /\ b \in Int
      BY <2>2, <2>3, <3>2
    <3>4. \A x \in U : x \in Int /\ (x = u \/ x <= a) /\ (x = u \/ b <= x)
      BY <2>2, <3>2
    <3>5. \E m \in U : \A x \in U : x <= m
      <4>1. CASE u <= a
        BY <3>2, <3>4, <4>1
      <4>2. CASE a <= u
        BY <2>3, <3>3, <3>4, <4>2
      <4> QED BY <3>3, <4>1, <4>2
    <3>6. \E m \in U : \A x \in U : m <= x
      <4>1. CASE b <= u
        BY <3>2, <3>4, <4>1
      <4>2. CASE u <= b
        BY <2>3, <3>3, <3>4, <4>2
      <4> QED BY <3>3, <4>1, <4>2
    <3> QED BY <2>2, <3>5, <3>6
  <2> QED BY <2>5, <2>6
<1>2. Cardinality(S) \in Nat
  BY FS_CardinalityType
<1>3. Bounded(S)
  BY <1>1, <1>2
<1> QED BY <1>3

LEMMA MaxFacts ==
  ASSUME NEW S, S \subseteq Int, IsFiniteSet(S), S # {}
  PROVE  /\ Max(S) \in S /\ \A x \in S : x <= Max(S)
         /\ Min(S) \in S /\ \A x \in S : Min(S) <= x
<1>1. PICK m \in S : \A x \in S : x <= m
  BY Extremes
<1>2. PICK n \in S : \A x \in S : n <= x
  BY Extremes
<1> QED BY <1>1, <1>2, MaxIs, MinIs

-----------------------------------------------------------------------------
(* Strides.  A stride of 0 divides 0 alone.                                *)

Divides(s, a) == \E n \in Int : a = n * s

LEMMA DividesSum ==
  ASSUME NEW s \in Nat, NEW a \in Int, NEW b \in Int, Divides(s, a), Divides(s, b)
  PROVE  Divides(s, a + b) /\ Divides(s, a - b) /\ Divides(s, -a)
<1>1. PICK m \in Int : a = m * s
  BY DEF Divides
<1>2. PICK n \in Int : b = n * s
  BY DEF Divides
<1>3. a + b = (m + n) * s /\ a - b = (m - n) * s /\ -a = (-m) * s
  BY <1>1, <1>2
<1>4. m + n \in Int /\ m - n \in Int /\ -m \in Int
  OBVIOUS
<1> QED BY <1>3, <1>4 DEF Divides

LEMMA DividesTrans ==
  ASSUME NEW s \in Nat, NEW t \in Nat, NEW a \in Int, Divides(s, t), Divides(t, a)
  PROVE  Divides(s, a)
<1>1. PICK m \in Int : t = m * s
  BY DEF Divides
<1>2. PICK n \in Int : a = n * t
  BY DEF Divides
<1>3. a = (n * m) * s /\ n * m \in Int
  BY <1>1, <1>2
<1> QED BY <1>3 DEF Divides

LEMMA DividesSelf ==
  ASSUME NEW s \in Nat
  PROVE  /\ Divides(s, 0) /\ Divides(s, s) /\ \A n \in Int : Divides(s, n * s)
         /\ \A a \in Int : Divides(1, a)
         /\ \A a \in Int : Divides(0, a) => a = 0
<1>1. 0 = 0 * s /\ s = 1 * s
  OBVIOUS
<1>2. \A a \in Int : a = a * 1
  OBVIOUS
<1> QED BY <1>1, <1>2 DEF Divides

LEMMA DividesIsMod ==
  ASSUME NEW s \in Nat \ {0}, NEW a \in Int
  PROVE  Divides(s, a) <=> a % s = 0
BY Multiples DEF Divides

\* Less than one stride apart is not apart.
LEMMA DividesSmall ==
  ASSUME NEW s \in Nat, NEW a \in Int, Divides(s, a), -s < a, a < s
  PROVE  a = 0
<1>1. PICK n \in Int : a = n * s
  BY DEF Divides
<1>2. CASE n >= 1
  <2>1. n * s >= s
    BY <1>2
  <2> QED BY <1>1, <2>1
<1>3. CASE n <= -1
  <2>1. n * s <= -s
    BY <1>3
  <2> QED BY <1>1, <2>1
<1>4. CASE n = 0
  BY <1>1, <1>4
<1> QED BY <1>2, <1>3, <1>4

-----------------------------------------------------------------------------
(* Ranges and their points.                                                *)

LEMMA RangeFacts ==
  ASSUME NEW r \in Ranges
  PROVE  /\ r.lo \in Int /\ r.hi \in Int /\ r.stride \in Nat /\ r.lo <= r.hi
         /\ Divides(r.stride, r.hi - r.lo) /\ (r.stride = 0 <=> r.lo = r.hi)
         /\ r = Strided(r.lo, r.hi, r.stride)
         /\ r # None /\ r # Never
<1>1. /\ r \in [lo : Int, hi : Int, stride : Nat] /\ r.lo <= r.hi
      /\ IF r.stride = 0 THEN r.lo = r.hi ELSE r.lo < r.hi /\ (r.hi - r.lo) % r.stride = 0
  BY DEF Ranges
<1>2. r.lo \in Int /\ r.hi \in Int /\ r.stride \in Nat
  BY <1>1
<1>3. Divides(r.stride, r.hi - r.lo)
  <2>1. CASE r.stride = 0
    <3>1. r.hi - r.lo = 0
      BY <1>1, <1>2, <2>1
    <3> QED BY <1>2, <3>1, DividesSelf
  <2>2. CASE r.stride # 0
    <3>1. r.hi - r.lo \in Int /\ r.stride \in Nat \ {0}
      BY <1>2, <2>2
    <3> QED BY <1>1, <2>2, <3>1, DividesIsMod
  <2> QED BY <2>1, <2>2
<1>4. r = Strided(r.lo, r.hi, r.stride)
  BY <1>1 DEF Strided
<1> QED BY <1>1, <1>2, <1>3, <1>4, DistinctAssumption

LEMMA MakeRange ==
  ASSUME NEW lo \in Int, NEW hi \in Int, NEW s \in Nat, lo <= hi,
         s = 0 <=> lo = hi, Divides(s, hi - lo)
  PROVE  /\ Strided(lo, hi, s) \in Ranges
         /\ Strided(lo, hi, s).lo = lo /\ Strided(lo, hi, s).hi = hi
         /\ Strided(lo, hi, s).stride = s
<1>1. hi - lo \in Int /\ (s # 0 => s \in Nat \ {0})
  OBVIOUS
<1>2. s # 0 => (hi - lo) % s = 0
  BY <1>1, DividesIsMod
<1> QED BY <1>2 DEF Ranges, Strided

LEMMA SpanFacts ==
  ASSUME NEW lo \in Int, NEW hi \in Int, lo <= hi
  PROVE  /\ Span(lo, hi) \in Ranges /\ Span(lo, hi).lo = lo /\ Span(lo, hi).hi = hi
         /\ Span(lo, hi).stride = (IF lo = hi THEN 0 ELSE 1)
<1>1. hi - lo \in Int
  OBVIOUS
<1>2. CASE lo = hi
  <2>1. hi - lo = 0
    BY <1>2
  <2> QED BY <1>2, <2>1, DividesSelf, MakeRange DEF Span
<1>3. CASE lo # hi
  BY <1>1, <1>3, DividesSelf, MakeRange DEF Span
<1> QED BY <1>2, <1>3

\* A point is a whole number of strides from the low end, and so from the high end.
LEMMA PointsAre ==
  ASSUME NEW r \in Ranges
  PROVE  /\ \A x : x \in Points(r) <=> x \in Int /\ r.lo <= x /\ x <= r.hi /\ Divides(r.stride, x - r.lo)
         /\ \A x \in Points(r) : Divides(r.stride, r.hi - x)
         /\ r.lo \in Points(r) /\ r.hi \in Points(r)
<1>0. /\ r.lo \in Int /\ r.hi \in Int /\ r.stride \in Nat /\ r.lo <= r.hi
      /\ Divides(r.stride, r.hi - r.lo) /\ (r.stride = 0 <=> r.lo = r.hi)
  BY RangeFacts
<1>1. ASSUME NEW x \in Int
      PROVE  Divides(r.stride, x - r.lo) <=> IF r.stride = 0 THEN x = r.lo ELSE (x - r.lo) % r.stride = 0
  <2>0. x - r.lo \in Int
    BY <1>0
  <2>1. CASE r.stride = 0
    BY <1>0, <2>0, <2>1, DividesSelf
  <2>2. CASE r.stride # 0
    BY <1>0, <2>0, <2>2, DividesIsMod
  <2> QED BY <2>1, <2>2
<1>2. \A x : x \in Points(r) <=> x \in Int /\ r.lo <= x /\ x <= r.hi /\ Divides(r.stride, x - r.lo)
  BY <1>0, <1>1 DEF Points
<1>3. ASSUME NEW x \in Points(r) PROVE Divides(r.stride, r.hi - x)
  <2>1. x \in Int /\ Divides(r.stride, x - r.lo) /\ r.hi - r.lo \in Int /\ x - r.lo \in Int
    BY <1>0, <1>2
  <2>2. Divides(r.stride, (r.hi - r.lo) - (x - r.lo))
    BY <1>0, <2>1, DividesSum
  <2>3. (r.hi - r.lo) - (x - r.lo) = r.hi - x
    BY <1>0, <2>1
  <2> QED BY <2>2, <2>3
<1>4. r.lo \in Points(r)
  <2>1. r.lo - r.lo = 0
    BY <1>0
  <2> QED BY <1>0, <1>2, <2>1, DividesSelf
<1> QED BY <1>0, <1>2, <1>3, <1>4

LEMMA SpanPoints ==
  ASSUME NEW lo \in Int, NEW hi \in Int, lo <= hi
  PROVE  Points(Span(lo, hi)) = lo..hi
<1>1. /\ Span(lo, hi).lo = lo /\ Span(lo, hi).hi = hi
      /\ Span(lo, hi).stride = (IF lo = hi THEN 0 ELSE 1)
  BY SpanFacts
<1>2. CASE lo = hi
  BY <1>1, <1>2 DEF Points
<1>3. CASE lo # hi
  <2>1. \A x \in lo..hi : (x - lo) % 1 = 0
    OBVIOUS
  <2> QED BY <1>1, <1>3, <2>1 DEF Points
<1> QED BY <1>2, <1>3

\* Moving a range moves its points.
LEMMA ShiftedFacts ==
  ASSUME NEW r \in Ranges, NEW by \in Int
  PROVE  /\ Shifted(r, by) \in Ranges
         /\ Shifted(r, by).lo = r.lo + by /\ Shifted(r, by).hi = r.hi + by
         /\ Shifted(r, by).stride = r.stride
         /\ \A x \in Points(r) : x + by \in Points(Shifted(r, by))
<1>0. /\ r.lo \in Int /\ r.hi \in Int /\ r.stride \in Nat /\ r.lo <= r.hi
      /\ Divides(r.stride, r.hi - r.lo) /\ (r.stride = 0 <=> r.lo = r.hi)
      /\ r = Strided(r.lo, r.hi, r.stride)
  BY RangeFacts
<1>1. Shifted(r, by) = Strided(r.lo + by, r.hi + by, r.stride)
  BY DEF Shifted
<1>2. /\ r.lo + by \in Int /\ r.hi + by \in Int /\ r.lo + by <= r.hi + by
      /\ (r.hi + by) - (r.lo + by) = r.hi - r.lo /\ (r.lo = r.hi <=> r.lo + by = r.hi + by)
  BY <1>0
<1>3. /\ Shifted(r, by) \in Ranges
      /\ Shifted(r, by).lo = r.lo + by /\ Shifted(r, by).hi = r.hi + by
      /\ Shifted(r, by).stride = r.stride
  BY SMTT(30), <1>0, <1>1, <1>2, MakeRange
<1>4. ASSUME NEW x \in Points(r) PROVE x + by \in Points(Shifted(r, by))
  <2>1. x \in Int /\ r.lo <= x /\ x <= r.hi /\ Divides(r.stride, x - r.lo)
    BY PointsAre
  <2>2. x + by \in Int /\ r.lo + by <= x + by /\ x + by <= r.hi + by
        /\ (x + by) - (r.lo + by) = x - r.lo
    BY <1>0, <2>1
  <2> QED BY <1>3, <2>1, <2>2, PointsAre
<1> QED BY <1>3, <1>4

-----------------------------------------------------------------------------
(* Words.                                                                  *)

LEMMA WordFacts ==
  /\ WORD \in Nat /\ WORD > 1 /\ WORD \div 2 \in Nat \ {0} /\ WORD = 2 * (WORD \div 2)
  /\ S_MIN = -(WORD \div 2) /\ S_MAX = WORD \div 2 - 1
  /\ S_MIN \in Int /\ S_MAX \in Nat /\ S_MIN < 0 /\ S_MAX < WORD /\ S_MAX - S_MIN = WORD - 1
<1>1. WORD \in Nat /\ WORD > 1 /\ \A d \in 2..WORD : WORD % d = 0 => d % 2 = 0
  BY WordAssumption DEF Powers
<1>2. WORD % WORD = 0
  BY <1>1
<1>3. WORD % 2 = 0
  BY <1>1, <1>2
<1> QED BY <1>1, <1>3 DEF S_MIN, S_MAX

LEMMA ModFacts ==
  ASSUME NEW x \in Int
  PROVE  /\ mod(x) \in 0..WORD - 1 /\ Divides(WORD, x - mod(x)) /\ Divides(WORD, mod(x) - x)
<1>1. WORD \in Nat \ {0}
  BY WordFacts
<1>2. mod(x) \in 0..WORD - 1 /\ x = WORD * (x \div WORD) + mod(x) /\ x \div WORD \in Int
  BY <1>1, DivFacts DEF mod
<1>3. x - mod(x) = (x \div WORD) * WORD /\ mod(x) - x = (-(x \div WORD)) * WORD /\ -(x \div WORD) \in Int
  BY <1>1, <1>2
<1> QED BY <1>1, <1>2, <1>3 DEF Divides

\* Two integers are one word when they are a multiple of WORD apart.
LEMMA ModIs ==
  ASSUME NEW x \in Int, NEW w \in 0..WORD - 1, Divides(WORD, x - w) \/ Divides(WORD, w - x)
  PROVE  mod(x) = w
<1>1. WORD \in Nat \ {0}
  BY WordFacts
<1>2. x - w \in Int /\ w - x \in Int /\ x - w = -(w - x)
  BY <1>1
<1>3. Divides(WORD, x - w)
  BY <1>1, <1>2, DividesSum
<1>4. PICK n \in Int : x - w = n * WORD
  BY <1>3 DEF Divides
<1>5. x = WORD * n + w
  BY <1>1, <1>4
<1> QED BY <1>1, <1>5, DivUnique DEF mod

LEMMA ModSame ==
  ASSUME NEW x \in Int, NEW y \in Int
  PROVE  Divides(WORD, x - y) <=> mod(x) = mod(y)
<1>1. WORD \in Nat /\ mod(x) \in Int /\ mod(y) \in 0..WORD - 1 /\ x - y \in Int /\ y - mod(y) \in Int /\ x - mod(x) \in Int
      /\ Divides(WORD, x - mod(x)) /\ Divides(WORD, y - mod(y))
  BY WordFacts, ModFacts
<1>2. ASSUME Divides(WORD, x - y) PROVE mod(x) = mod(y)
  <2>1. Divides(WORD, (x - y) + (y - mod(y)))
    BY <1>1, <1>2, DividesSum
  <2>2. (x - y) + (y - mod(y)) = x - mod(y)
    BY <1>1
  <2> QED BY <1>1, <2>1, <2>2, ModIs
<1>3. ASSUME mod(x) = mod(y) PROVE Divides(WORD, x - y)
  <2>1. Divides(WORD, (x - mod(x)) - (y - mod(y)))
    BY <1>1, DividesSum
  <2>2. (x - mod(x)) - (y - mod(y)) = x - y
    BY <1>1, <1>3
  <2> QED BY <2>1, <2>2
<1> QED BY <1>2, <1>3

LEMMA ModOfWord ==
  ASSUME NEW w \in 0..WORD - 1
  PROVE  mod(w) = w
<1>1. w \in Int /\ w - w = 0 /\ WORD \in Nat
  BY WordFacts
<1> QED BY <1>1, ModIs, DividesSelf

LEMMA ModMod ==
  ASSUME NEW x \in Int
  PROVE  mod(mod(x)) = mod(x)
BY ModFacts, ModOfWord

LEMMA SignedFacts ==
  ASSUME NEW x \in Int
  PROVE  /\ ToSigned(x) \in S_MIN..S_MAX /\ mod(ToSigned(x)) = mod(x) /\ ToSigned(mod(x)) = ToSigned(x)
         /\ \A y \in S_MIN..S_MAX : mod(y) = mod(x) => ToSigned(x) = y
<1>1. mod(x) \in 0..WORD - 1 /\ mod(mod(x)) = mod(x)
  BY ModFacts, ModMod
<1>2. ToSigned(x) \in S_MIN..S_MAX /\ ToSigned(mod(x)) = ToSigned(x)
  BY <1>1, WordFacts DEF ToSigned
<1>3. ToSigned(x) \in Int /\ (ToSigned(x) - mod(x) = 0 \/ ToSigned(x) - mod(x) = (-1) * WORD) /\ WORD \in Nat
  BY <1>1, <1>2, WordFacts DEF ToSigned
<1>4. Divides(WORD, ToSigned(x) - mod(x))
  <2>1. CASE ToSigned(x) - mod(x) = 0
    BY <1>3, <2>1, DividesSelf
  <2>2. CASE ToSigned(x) - mod(x) = (-1) * WORD
    BY <1>3, <2>2 DEF Divides
  <2> QED BY <1>3, <2>1, <2>2
<1>5. mod(ToSigned(x)) = mod(x)
  BY <1>1, <1>3, <1>4, ModIs
<1>6. ASSUME NEW y \in S_MIN..S_MAX, mod(y) = mod(x) PROVE ToSigned(x) = y
  <2>1. y \in Int /\ ToSigned(x) - y \in Int /\ -WORD < ToSigned(x) - y /\ ToSigned(x) - y < WORD
    BY <1>2, WordFacts
  <2>2. Divides(WORD, ToSigned(x) - y)
    BY <1>3, <1>5, <1>6, <2>1, ModSame
  <2>3. ToSigned(x) - y = 0
    BY <1>3, <2>1, <2>2, DividesSmall
  <2> QED BY <1>3, <2>1, <2>3
<1> QED BY <1>2, <1>5, <1>6

-----------------------------------------------------------------------------
(* Ranges of words.                                                        *)

\* What a range may be of a word: unknown, or one of its points is that word.
Holds(r, w) == r = None \/ (r \in Ranges /\ \E x \in Points(r) : mod(x) = w)
Answered == Ranges \cup {None, Never}

\* A range that one shift by whole words takes to another holds the same words.
ByWords(r, s) == /\ s \in Ranges /\ s.stride = r.stride /\ Width(s) = Width(r)
                 /\ \E n \in Int : s = Shifted(r, n * WORD)

LEMMA ByWordsFacts ==
  ASSUME NEW r \in Ranges, NEW n \in Int
  PROVE  /\ ByWords(r, Shifted(r, n * WORD))
         /\ \A x \in Points(r) : /\ x + n * WORD \in Points(Shifted(r, n * WORD))
                                 /\ mod(x + n * WORD) = mod(x)
<1>0. WORD \in Nat /\ n * WORD \in Int
  BY WordFacts
<1>1. /\ Shifted(r, n * WORD) \in Ranges
      /\ Shifted(r, n * WORD).lo = r.lo + n * WORD /\ Shifted(r, n * WORD).hi = r.hi + n * WORD
      /\ Shifted(r, n * WORD).stride = r.stride
      /\ \A x \in Points(r) : x + n * WORD \in Points(Shifted(r, n * WORD))
  BY <1>0, ShiftedFacts
<1>2. r.lo \in Int /\ r.hi \in Int
  BY RangeFacts
<1>3. Width(Shifted(r, n * WORD)) = Width(r)
  BY <1>0, <1>1, <1>2 DEF Width
<1>4. ASSUME NEW x \in Points(r) PROVE mod(x + n * WORD) = mod(x)
  <2>1. x \in Int
    BY PointsAre
  <2>2. (x + n * WORD) - x = n * WORD /\ x + n * WORD \in Int
    BY <1>0, <2>1
  <2>3. Divides(WORD, (x + n * WORD) - x)
    BY <2>2 DEF Divides
  <2> QED BY <2>1, <2>2, <2>3, ModSame
<1> QED BY <1>1, <1>3, <1>4 DEF ByWords

LEMMA ByWordsHolds ==
  ASSUME NEW r \in Ranges, NEW s, ByWords(r, s), NEW w, Holds(r, w)
  PROVE  s \in Ranges /\ Holds(s, w)
<1>1. PICK n \in Int : s = Shifted(r, n * WORD)
  BY DEF ByWords
<1>2. PICK x \in Points(r) : mod(x) = w
  BY RangeFacts DEF Holds
<1>3. x + n * WORD \in Points(s) /\ mod(x + n * WORD) = w
  BY <1>1, <1>2, ByWordsFacts
<1> QED BY <1>3 DEF Holds, ByWords

LEMMA IntoWordFacts ==
  ASSUME NEW r \in Ranges
  PROVE  /\ intoWord(r) = None
            \/ /\ ByWords(r, intoWord(r)) /\ 0 <= intoWord(r).lo /\ intoWord(r).hi < WORD
               /\ \A x \in Points(r) : mod(x) \in Points(intoWord(r))
         /\ 0 <= r.lo /\ r.hi < WORD => intoWord(r) = r
         /\ intoWord(r) # Never
<1> DEFINE q == r.lo \div WORD
<1>1. r.lo \in Int /\ r.hi \in Int /\ r.lo <= r.hi /\ WORD \in Nat \ {0} /\ r = Strided(r.lo, r.hi, r.stride)
  BY RangeFacts, WordFacts
<1>2. q \in Int /\ q * WORD <= r.lo /\ r.lo < q * WORD + WORD
  BY <1>1, FloorFacts
<1>3. intoWord(r) = (IF r.hi - q * WORD >= WORD THEN None ELSE Shifted(r, -(q * WORD)))
  BY DEF intoWord
<1> HIDE DEF q
<1>4. -q \in Int /\ (-q) * WORD = -(q * WORD) /\ q * WORD \in Int
  BY <1>1, <1>2
<1>5. CASE r.hi - q * WORD >= WORD
  <2>1. intoWord(r) = None
    BY <1>3, <1>5
  <2>2. ~(0 <= r.lo /\ r.hi < WORD)
    <3> SUFFICES ASSUME 0 <= r.lo, r.hi < WORD PROVE FALSE
      OBVIOUS
    <3>1. q < 0
      BY <1>1, <1>2, <1>4, <1>5
    <3>2. q * WORD + WORD <= 0
      BY <1>1, <1>2, <3>1
    <3> QED BY <1>1, <1>2, <1>4, <3>2
  <2> QED BY <2>1, <2>2, DistinctAssumption
<1>6. CASE ~(r.hi - q * WORD >= WORD)
  <2>1. intoWord(r) = Shifted(r, (-q) * WORD)
    BY <1>3, <1>4, <1>6
  <2>2. /\ intoWord(r) \in Ranges /\ ByWords(r, intoWord(r))
        /\ \A x \in Points(r) : x + (-q) * WORD \in Points(intoWord(r)) /\ mod(x + (-q) * WORD) = mod(x)
    BY <1>4, <2>1, ByWordsFacts DEF ByWords
  <2>3. intoWord(r).lo = r.lo - q * WORD /\ intoWord(r).hi = r.hi - q * WORD
    BY <1>1, <1>4, <2>1 DEF Shifted, Strided
  <2>4. 0 <= intoWord(r).lo /\ intoWord(r).hi < WORD
    BY <1>1, <1>2, <1>4, <1>6, <2>3
  <2>5. ASSUME NEW x \in Points(r) PROVE mod(x) \in Points(intoWord(r))
    <3> DEFINE y == x + (-q) * WORD
    <3>1. y \in Points(intoWord(r)) /\ mod(y) = mod(x)
      BY <2>2
    <3>2. y \in Int /\ intoWord(r).lo <= y /\ y <= intoWord(r).hi
      BY <2>2, <3>1, PointsAre
    <3>3. y \in 0..WORD - 1
      BY <1>1, <1>4, <2>3, <2>4, <3>2
    <3>4. mod(y) = y
      BY <3>3, ModOfWord
    <3> QED BY <3>1, <3>4
  <2>6. ASSUME 0 <= r.lo, r.hi < WORD PROVE intoWord(r) = r
    <3>1. q = 0
      BY <1>1, <2>6, DivUnique DEF q
    <3>2. r.lo + (-q) * WORD = r.lo /\ r.hi + (-q) * WORD = r.hi
      BY <1>1, <3>1
    <3> QED BY <1>1, <2>1, <3>2 DEF Shifted
  <2> QED BY <2>2, <2>4, <2>5, <2>6, RangeFacts
<1> QED BY <1>5, <1>6

LEMMA IntoSignedFacts ==
  ASSUME NEW r \in Ranges
  PROVE  /\ intoSigned(r) = None
            \/ /\ ByWords(r, intoSigned(r)) /\ S_MIN <= intoSigned(r).lo /\ intoSigned(r).hi <= S_MAX
               /\ \A x \in Points(r) : ToSigned(x) \in Points(intoSigned(r))
         /\ S_MIN <= r.lo /\ r.hi <= S_MAX => intoSigned(r) = r
         /\ intoSigned(r) # Never
<1> DEFINE w == intoWord(r)
<1>0. /\ r.lo \in Int /\ r.hi \in Int /\ r.lo <= r.hi /\ r.stride \in Nat
      /\ WORD \in Nat /\ S_MIN \in Int /\ S_MAX \in Nat /\ S_MAX - S_MIN = WORD - 1 /\ WORD = 2 * (S_MAX + 1)
      /\ r = Strided(r.lo, r.hi, r.stride)
  BY RangeFacts, WordFacts
<1>1. /\ w = None \/ /\ ByWords(r, w) /\ 0 <= w.lo /\ w.hi < WORD
                     /\ \A x \in Points(r) : mod(x) \in Points(w)
      /\ w # Never
  BY IntoWordFacts
<1> HIDE DEF w
<1>2. CASE S_MIN <= r.lo /\ r.hi <= S_MAX
  <2>1. intoSigned(r) = r
    BY <1>0, <1>2 DEF intoSigned
  <2>2. r = Shifted(r, 0 * WORD)
    BY <1>0 DEF Shifted
  <2>3. ByWords(r, r)
    BY <2>2 DEF ByWords
  <2>4. ASSUME NEW x \in Points(r) PROVE ToSigned(x) \in Points(r)
    <3>1. x \in Int /\ r.lo <= x /\ x <= r.hi
      BY PointsAre
    <3>2. x \in S_MIN..S_MAX
      BY <1>0, <1>2, <3>1
    <3> QED BY <3>1, <3>2, SignedFacts
  <2> QED BY <1>2, <2>1, <2>3, <2>4, RangeFacts
<1>3. CASE ~(S_MIN <= r.lo /\ r.hi <= S_MAX)
  <2>1. intoSigned(r) = signedOf(w)
    BY <1>0, <1>3 DEF intoSigned, w
  <2>2. CASE w = None
    BY <1>3, <2>1, <2>2, DistinctAssumption DEF signedOf
  <2>3. CASE w # None
    <3>1. /\ w \in Ranges /\ w.lo \in Int /\ w.hi \in Int /\ w.lo <= w.hi /\ 0 <= w.lo /\ w.hi < WORD
          /\ w.stride = r.stride /\ Width(w) = Width(r)
      BY <1>1, <2>3, RangeFacts DEF ByWords
    <3>2. PICK n \in Int : w = Shifted(r, n * WORD)
      BY <1>1, <2>3 DEF ByWords
    <3>3. CASE w.hi <= S_MAX
      <4>1. intoSigned(r) = w
        BY <2>1, <2>3, <3>3 DEF signedOf
      <4>2. ASSUME NEW x \in Points(r) PROVE ToSigned(x) \in Points(w)
        <5>1. mod(x) \in Points(w) /\ x \in Int /\ mod(mod(x)) = mod(x)
          BY <1>1, <2>3, PointsAre, ModMod
        <5>2. mod(x) \in Int /\ w.lo <= mod(x) /\ mod(x) <= w.hi
          BY <3>1, <5>1, PointsAre
        <5>3. mod(x) \in S_MIN..S_MAX
          BY <1>0, <3>1, <3>3, <5>2, WordFacts
        <5> QED BY <5>1, <5>3, SignedFacts
      <4>3. S_MIN <= w.lo
        BY <1>0, <3>1, WordFacts
      <4> QED BY <1>1, <1>3, <2>3, <3>1, <3>3, <4>1, <4>2, <4>3, RangeFacts
    <3>4. CASE ~(w.hi <= S_MAX) /\ w.lo > S_MAX
      <4>1. intoSigned(r) = Shifted(w, (-1) * WORD)
        <5>1. (-1) * WORD = -WORD
          BY <1>0
        <5> QED BY <2>1, <2>3, <3>4, <5>1 DEF signedOf
      <4>2. /\ intoSigned(r) \in Ranges /\ intoSigned(r).stride = r.stride /\ Width(intoSigned(r)) = Width(r)
            /\ \A y \in Points(w) : y + (-1) * WORD \in Points(intoSigned(r)) /\ mod(y + (-1) * WORD) = mod(y)
        <5>1. -1 \in Int /\ w \in Ranges
          BY <3>1
        <5>2. /\ ByWords(w, Shifted(w, (-1) * WORD))
              /\ \A y \in Points(w) : /\ y + (-1) * WORD \in Points(Shifted(w, (-1) * WORD))
                                      /\ mod(y + (-1) * WORD) = mod(y)
          BY <5>1, ByWordsFacts
        <5> QED BY <3>1, <4>1, <5>2 DEF ByWords
      <4>3. intoSigned(r).lo = w.lo - WORD /\ intoSigned(r).hi = w.hi - WORD
        BY <1>0, <3>1, <4>1 DEF Shifted, Strided
      <4>4. intoSigned(r) = Shifted(r, (n - 1) * WORD)
        <5>1. w.lo = r.lo + n * WORD /\ w.hi = r.hi + n * WORD
          BY <3>2 DEF Shifted, Strided
        <5>2. n * WORD + (-1) * WORD = (n - 1) * WORD /\ n * WORD \in Int /\ (-1) * WORD \in Int
          BY <1>0
        <5>3. w.lo + (-1) * WORD = r.lo + (n - 1) * WORD /\ w.hi + (-1) * WORD = r.hi + (n - 1) * WORD
          BY <1>0, <5>1, <5>2
        <5> QED BY <3>1, <4>1, <5>3 DEF Shifted
      <4>5. ByWords(r, intoSigned(r))
        BY <4>2, <4>4 DEF ByWords
      <4>6. S_MIN <= intoSigned(r).lo /\ intoSigned(r).hi <= S_MAX
        BY <1>0, <3>1, <3>4, <4>3, WordFacts
      <4>7. ASSUME NEW x \in Points(r) PROVE ToSigned(x) \in Points(intoSigned(r))
        <5> DEFINE y == mod(x) + (-1) * WORD
        <5>1. mod(x) \in Points(w) /\ x \in Int /\ mod(mod(x)) = mod(x)
          BY <1>1, <2>3, PointsAre, ModMod
        <5>2. y \in Points(intoSigned(r)) /\ mod(y) = mod(x)
          BY <4>2, <5>1
        <5>3. y \in Int /\ intoSigned(r).lo <= y /\ y <= intoSigned(r).hi
          BY <4>2, <5>2, PointsAre
        <5> HIDE DEF y
        <5>4. y \in S_MIN..S_MAX
          BY <1>0, <3>1, <4>3, <4>6, <5>3
        <5>5. ToSigned(x) = y
          BY <5>1, <5>2, <5>4, SignedFacts
        <5> QED BY <5>2, <5>5
      <4> QED BY <1>3, <4>2, <4>5, <4>6, <4>7, RangeFacts
    <3>5. CASE ~(w.hi <= S_MAX) /\ ~(w.lo > S_MAX)
      BY <1>3, <2>1, <2>3, <3>5, DistinctAssumption DEF signedOf
    <3> QED BY <3>3, <3>4, <3>5
  <2> QED BY <2>2, <2>3
<1> QED BY <1>2, <1>3

-----------------------------------------------------------------------------
(* What a test proves.                                                     *)

\* A bound keeps to its window; it holds of x when x's word is one of its points.
InWindow(r, window) == IF window = "u" THEN 0 <= r.lo /\ r.hi < WORD
                       ELSE window = "s" /\ S_MIN <= r.lo /\ r.hi <= S_MAX
BoundType(b) == b = None \/ (b.r \in Ranges /\ InWindow(b.r, b.window))
BoundHolds(b, x) == b = None \/ IF b.window = "u" THEN mod(x) \in Points(b.r) ELSE ToSigned(x) \in Points(b.r)

LEMMA SpanBound ==
  ASSUME NEW lo \in Int, NEW hi \in Int,
         NEW window \in {"u", "s"},
         IF window = "u" THEN 0 <= lo /\ hi < WORD ELSE S_MIN <= lo /\ hi <= S_MAX
  PROVE  /\ BoundType(Bound(lo, hi, window))
         /\ \A x \in Int : (IF window = "u" THEN lo <= mod(x) /\ mod(x) <= hi
                            ELSE lo <= ToSigned(x) /\ ToSigned(x) <= hi)
                           => BoundHolds(Bound(lo, hi, window), x)
<1>1. CASE lo > hi
  BY <1>1 DEF Bound, BoundType, BoundHolds
<1>2. CASE ~(lo > hi)
  <2>1. Bound(lo, hi, window) = [r |-> Span(lo, hi), window |-> window]
    BY <1>2 DEF Bound
  <2>2. Span(lo, hi) \in Ranges /\ Span(lo, hi).lo = lo /\ Span(lo, hi).hi = hi /\ Points(Span(lo, hi)) = lo..hi
    BY <1>2, SpanFacts, SpanPoints
  <2>3. BoundType(Bound(lo, hi, window))
    BY <2>1, <2>2 DEF BoundType, InWindow
  <2>4. ASSUME NEW x \in Int,
               IF window = "u" THEN lo <= mod(x) /\ mod(x) <= hi ELSE lo <= ToSigned(x) /\ ToSigned(x) <= hi
        PROVE  BoundHolds(Bound(lo, hi, window), x)
    <3>1. mod(x) \in Int /\ ToSigned(x) \in Int
      BY ModFacts, SignedFacts, WordFacts
    <3> QED BY <2>1, <2>2, <2>4, <3>1 DEF BoundHolds
  <2> QED BY <2>3, <2>4
<1> QED BY <1>1, <1>2

LEMMA TestBoundSound ==
  ASSUME NEW t \in Condition
  PROVE  /\ BoundType(testBound(t.op, t.rhs))
         /\ \A x \in Int : t # None /\ Passes(t, x) => BoundHolds(testBound(t.op, t.rhs), x)
<1> DEFINE op == t.op
           w == intoWord(t.rhs)
           s == intoSigned(t.rhs)
           b == testBound(t.op, t.rhs)
<1>0. t.rhs \in Ranges /\ op \in {"eq", "ne", "ult", "ule", "ugt", "uge", "slt", "sle", "sgt", "sge"}
  BY DEF Condition
<1>1. WORD \in Nat /\ S_MIN \in Int /\ S_MAX \in Nat /\ S_MAX < WORD /\ S_MIN < 0
  BY WordFacts
<1>2. /\ w = None \/ /\ w \in Ranges /\ 0 <= w.lo /\ w.hi < WORD /\ w.lo \in Int /\ w.hi \in Int /\ w.lo <= w.hi
                     /\ \A x \in Points(t.rhs) : mod(x) \in Points(w)
      /\ s = None \/ /\ s \in Ranges /\ S_MIN <= s.lo /\ s.hi <= S_MAX /\ s.lo \in Int /\ s.hi \in Int /\ s.lo <= s.hi
                     /\ \A x \in Points(t.rhs) : ToSigned(x) \in Points(s)
  BY <1>0, IntoWordFacts, IntoSignedFacts, RangeFacts DEF ByWords
\* What the other side is, once its own words are known.
<1>3. ASSUME NEW x \in Int, t # None, Passes(t, x)
      PROVE  \E y \in Int : /\ Compare(op, mod(x), mod(y))
                            /\ w # None => mod(y) \in Points(w) /\ w.lo <= mod(y) /\ mod(y) <= w.hi
                            /\ s # None => ToSigned(y) \in Points(s) /\ s.lo <= ToSigned(y) /\ ToSigned(y) <= s.hi
                            /\ mod(y) \in Int /\ ToSigned(y) \in Int /\ ToSigned(mod(y)) = ToSigned(y)
  <2>1. PICK y \in Points(t.rhs) : Compare(op, mod(x), mod(y))
    BY <1>3 DEF Passes
  <2>2. y \in Int
    BY <1>0, PointsAre
  <2>3. w # None => mod(y) \in Points(w) /\ w.lo <= mod(y) /\ mod(y) <= w.hi
    BY <1>2, <2>1, PointsAre
  <2>4. s # None => ToSigned(y) \in Points(s) /\ s.lo <= ToSigned(y) /\ ToSigned(y) <= s.hi
    BY <1>2, <2>1, PointsAre
  <2> QED BY <2>1, <2>2, <2>3, <2>4, ModFacts, SignedFacts, WordFacts
<1>4. \A x \in Int : mod(x) \in 0..WORD - 1 /\ ToSigned(x) \in S_MIN..S_MAX /\ ToSigned(mod(x)) = ToSigned(x)
  BY ModFacts, SignedFacts
<1> HIDE DEF op, w, s, b
<1>5. b = (IF op \in {"eq", "ult", "ule", "ugt", "uge"} THEN wordBound(op, w)
           ELSE IF op \in {"slt", "sle", "sgt", "sge"} THEN signedBound(op, s) ELSE None)
  BY <1>0 DEF b, op, w, s, testBound
<1>6. CASE op = "ne"
  BY <1>5, <1>6 DEF b, BoundType, BoundHolds
<1>7. CASE w = None /\ op \in {"eq", "ult", "ule", "ugt", "uge"}
  BY <1>5, <1>7 DEF b, BoundType, BoundHolds, wordBound
<1>8. CASE s = None /\ op \in {"slt", "sle", "sgt", "sge"}
  BY <1>5, <1>8 DEF b, BoundType, BoundHolds, signedBound
<1>9. CASE w # None /\ op = "eq"
  <2>1. b = [r |-> w, window |-> "u"]
    BY <1>5, <1>9 DEF wordBound
  <2>2. BoundType(b)
    BY <1>2, <1>9, <2>1 DEF BoundType, InWindow
  <2>3. ASSUME NEW x \in Int, t # None, Passes(t, x) PROVE BoundHolds(b, x)
    <3>1. PICK y \in Int : Compare(op, mod(x), mod(y)) /\ mod(y) \in Points(w)
      BY <1>3, <1>9, <2>3
    <3>2. mod(x) = mod(y)
      BY <1>9, <3>1 DEF Compare
    <3> QED BY <2>1, <3>1, <3>2 DEF BoundHolds
  <2> QED BY <2>2, <2>3 DEF b
<1>10. CASE w # None /\ op \in {"ult", "ule", "ugt", "uge"}
  <2> DEFINE lo == IF op \in {"ult", "ule"} THEN 0 ELSE IF op = "ugt" THEN w.lo + 1 ELSE w.lo
             hi == IF op = "ult" THEN w.hi - 1 ELSE IF op = "ule" THEN w.hi ELSE WORD - 1
  <2>1. b = Bound(lo, hi, "u")
    BY <1>5, <1>10 DEF wordBound
  <2>2. lo \in Int /\ hi \in Int /\ 0 <= lo /\ hi < WORD
    BY <1>1, <1>2, <1>10
  <2>3. ASSUME NEW x \in Int, t # None, Passes(t, x) PROVE lo <= mod(x) /\ mod(x) <= hi
    <3>1. PICK y \in Int : Compare(op, mod(x), mod(y)) /\ w.lo <= mod(y) /\ mod(y) <= w.hi /\ mod(y) \in Int
      BY <1>3, <1>10, <2>3
    <3>2. CASE op = "ult"
      BY <1>1, <1>2, <1>4, <1>10, <3>1, <3>2 DEF Compare
    <3>3. CASE op = "ule"
      BY <1>1, <1>2, <1>4, <1>10, <3>1, <3>3 DEF Compare
    <3>4. CASE op = "ugt"
      BY <1>1, <1>2, <1>4, <1>10, <3>1, <3>4 DEF Compare
    <3>5. CASE op = "uge"
      BY <1>1, <1>2, <1>4, <1>10, <3>1, <3>5 DEF Compare
    <3> QED BY <1>10, <3>2, <3>3, <3>4, <3>5
  <2> HIDE DEF lo, hi
  <2>4. /\ BoundType(Bound(lo, hi, "u"))
        /\ \A x \in Int : lo <= mod(x) /\ mod(x) <= hi => BoundHolds(Bound(lo, hi, "u"), x)
    BY <2>2, SpanBound
  <2> QED BY <2>1, <2>3, <2>4 DEF b
<1>11. CASE s # None /\ op \in {"slt", "sle", "sgt", "sge"}
  <2> DEFINE lo == IF op \in {"slt", "sle"} THEN S_MIN ELSE IF op = "sgt" THEN s.lo + 1 ELSE s.lo
             hi == IF op = "slt" THEN s.hi - 1 ELSE IF op = "sle" THEN s.hi ELSE S_MAX
  <2>1. b = Bound(lo, hi, "s")
    BY <1>5, <1>11 DEF signedBound
  <2>2. lo \in Int /\ hi \in Int /\ S_MIN <= lo /\ hi <= S_MAX
    BY <1>1, <1>2, <1>11
  <2>3. ASSUME NEW x \in Int, t # None, Passes(t, x) PROVE lo <= ToSigned(x) /\ ToSigned(x) <= hi
    <3>1. PICK y \in Int : /\ Compare(op, mod(x), mod(y)) /\ s.lo <= ToSigned(y) /\ ToSigned(y) <= s.hi
                           /\ ToSigned(y) \in Int /\ ToSigned(mod(y)) = ToSigned(y)
      BY <1>3, <1>11, <2>3
    <3>0. ToSigned(mod(x)) = ToSigned(x) /\ ToSigned(x) \in Int /\ S_MIN <= ToSigned(x) /\ ToSigned(x) <= S_MAX
      BY <1>1, <1>4
    <3>2. CASE op = "slt"
      BY <1>1, <1>2, <1>11, <3>0, <3>1, <3>2 DEF Compare
    <3>3. CASE op = "sle"
      BY <1>1, <1>2, <1>11, <3>0, <3>1, <3>3 DEF Compare
    <3>4. CASE op = "sgt"
      BY <1>1, <1>2, <1>11, <3>0, <3>1, <3>4 DEF Compare
    <3>5. CASE op = "sge"
      BY <1>1, <1>2, <1>11, <3>0, <3>1, <3>5 DEF Compare
    <3> QED BY <1>11, <3>2, <3>3, <3>4, <3>5
  <2> HIDE DEF lo, hi
  <2>4. /\ BoundType(Bound(lo, hi, "s"))
        /\ \A x \in Int : lo <= ToSigned(x) /\ ToSigned(x) <= hi => BoundHolds(Bound(lo, hi, "s"), x)
    BY <2>2, SpanBound
  <2> QED BY <2>1, <2>3, <2>4 DEF b
<1> QED BY <1>0, <1>6, <1>7, <1>8, <1>9, <1>10, <1>11 DEF b, op

LEMMA FactSound ==
  ASSUME NEW t \in Condition \cup {None}
  PROVE  /\ BoundType(factOf(t))
         /\ \A x \in Int : Passes(t, x) => BoundHolds(factOf(t), x)
<1>1. CASE t = None
  BY <1>1 DEF factOf, BoundType, BoundHolds
<1>2. CASE t # None
  <2>1. t \in Condition
    BY <1>2
  <2> QED BY <1>2, <2>1, TestBoundSound DEF factOf
<1> QED BY <1>1, <1>2

-----------------------------------------------------------------------------
(* The hull of some ranges.                                                *)

\* What divides every element, and no larger number does.
LEMMA GcdFacts ==
  ASSUME NEW S, S \subseteq Nat, IsFiniteSet(S)
  PROVE  /\ gcdOf(S) \in Nat /\ \A x \in S : Divides(gcdOf(S), x)
         /\ gcdOf(S) = 0 <=> S \subseteq {0}
         /\ \A d \in Nat \ {0} : ~(S \subseteq {0}) /\ (\A x \in S : Divides(d, x)) => d <= gcdOf(S)
<1>1. CASE S \subseteq {0}
  <2>1. gcdOf(S) = 0 /\ \A x \in S : x = 0
    BY <1>1 DEF gcdOf
  <2> QED BY <1>1, <2>1, DividesSelf
<1>2. CASE ~(S \subseteq {0})
  <2> DEFINE top == Max({Abs(x) : x \in S})
             D == {d \in 1..top : \A x \in S : x % d = 0}
  <2>1. gcdOf(S) = Max(D)
    BY <1>2 DEF gcdOf
  <2>2. {Abs(x) : x \in S} = S
    <3>1. \A x \in S : Abs(x) = x
      BY DEF Abs
    <3> QED BY <3>1
  <2>3. top \in S /\ \A x \in S : x <= top
    <3>1. S \subseteq Int /\ S # {}
      BY <1>2
    <3> QED BY <2>2, <3>1, MaxFacts
  <2> HIDE DEF top
  <2>4. PICK a \in S : a > 0
    BY <1>2
  <2>5. top \in Nat /\ a \in Nat /\ top >= a
    BY <2>3, <2>4
  <2>6. 1 \in D /\ D \subseteq Int /\ D # {}
    BY <2>4, <2>5
  <2>7. IsFiniteSet(D)
    <3>1. IsFiniteSet(1..top)
      BY <2>5, FS_Interval
    <3> QED BY <3>1, FS_Subset
  <2>8. Max(D) \in D /\ \A d \in D : d <= Max(D)
    BY <2>6, <2>7, MaxFacts
  <2>9. ASSUME NEW d \in Nat \ {0}, \A x \in S : Divides(d, x) PROVE d <= gcdOf(S)
    <3>1. \A x \in S : x % d = 0
      BY <2>9, DividesIsMod
    <3>2. PICK n \in Int : a = n * d
      BY <2>9 DEF Divides
    <3>3. d <= a
      <4>1. n >= 1
        <5> SUFFICES ASSUME n <= 0 PROVE FALSE
          OBVIOUS
        <5>1. n * d <= 0
          OBVIOUS
        <5> QED BY <2>4, <2>5, <3>2, <5>1
      <4>2. n * d >= d
        BY <4>1
      <4> QED BY <3>2, <4>2
    <3>4. d \in D
      BY <2>5, <3>1, <3>3
    <3> QED BY <2>1, <2>8, <3>4
  <2>10. gcdOf(S) \in Nat \ {0} /\ \A x \in S : Divides(gcdOf(S), x)
    <3>1. Max(D) \in Nat \ {0} /\ \A x \in S : x % Max(D) = 0
      BY <2>5, <2>8
    <3>2. gcdOf(S) \in Nat \ {0} /\ \A x \in S : x \in Int /\ x % gcdOf(S) = 0
      BY <2>1, <3>1
    <3> QED BY <3>2, DividesIsMod
  <2> QED BY <1>2, <2>9, <2>10
<1> QED BY <1>1, <1>2

LEMMA ImageFinite ==
  ASSUME NEW S, IsFiniteSet(S), NEW T, NEW f \in [S -> T]
  PROVE  IsFiniteSet({f[x] : x \in S})
<1>1. f \in [S -> {f[x] : x \in S}]
  OBVIOUS
<1>2. f \in Surjection(S, {f[x] : x \in S})
  BY <1>1 DEF Surjection
<1> QED BY <1>2, FS_Surjection

\* A hull holds every point of every range it is made of.
LEMMA HullFacts ==
  ASSUME NEW S, S \subseteq Ranges, IsFiniteSet(S), S # {}
  PROVE  /\ hullOf(S) \in Ranges
         /\ \A r \in S : /\ hullOf(S).lo <= r.lo /\ r.hi <= hullOf(S).hi
                         /\ Divides(hullOf(S).stride, r.stride) /\ Divides(hullOf(S).stride, r.lo - hullOf(S).lo)
                         /\ \A x \in Points(r) : x \in Points(hullOf(S))
         /\ \E r \in S : hullOf(S).lo = r.lo
         /\ \E r \in S : hullOf(S).hi = r.hi
         /\ hullOf(S).stride = gcdOf({r.stride : r \in S} \cup {r.lo - hullOf(S).lo : r \in S})
         /\ IsFiniteSet({r.stride : r \in S} \cup {r.lo - hullOf(S).lo : r \in S})
         /\ {r.stride : r \in S} \cup {r.lo - hullOf(S).lo : r \in S} \subseteq Nat
<1> DEFINE lo == Min({r.lo : r \in S})
           hi == Max({r.hi : r \in S})
           D == {r.stride : r \in S} \cup {r.lo - lo : r \in S}
           g == gcdOf(D)
           h == hullOf(S)
<1>0. \A r \in S : /\ r \in Ranges /\ r.lo \in Int /\ r.hi \in Int /\ r.stride \in Nat /\ r.lo <= r.hi
                   /\ Divides(r.stride, r.hi - r.lo) /\ (r.stride = 0 <=> r.lo = r.hi)
  BY RangeFacts
<1>1. h = Strided(lo, hi, g)
  BY DEF hullOf
<1>2. (\E r \in S : lo = r.lo) /\ \A r \in S : lo <= r.lo
  <2> DEFINE f == [r \in S |-> r.lo]
  <2>1. {r.lo : r \in S} = {f[r] : r \in S}
    OBVIOUS
  <2>2. IsFiniteSet({f[r] : r \in S})
    <3>1. f \in [S -> Int]
      BY <1>0
    <3> HIDE DEF f
    <3> QED BY <3>1, ImageFinite
  <2> HIDE DEF f
  <2>3. {r.lo : r \in S} \subseteq Int /\ {r.lo : r \in S} # {} /\ IsFiniteSet({r.lo : r \in S})
    BY <1>0, <2>1, <2>2
  <2>4. lo \in {r.lo : r \in S} /\ \A x \in {r.lo : r \in S} : lo <= x
    BY <2>3, MaxFacts
  <2> QED BY <2>4
<1>3. (\E r \in S : hi = r.hi) /\ \A r \in S : r.hi <= hi
  <2> DEFINE f == [r \in S |-> r.hi]
  <2>1. {r.hi : r \in S} = {f[r] : r \in S}
    OBVIOUS
  <2>2. IsFiniteSet({f[r] : r \in S})
    <3>1. f \in [S -> Int]
      BY <1>0
    <3> HIDE DEF f
    <3> QED BY <3>1, ImageFinite
  <2> HIDE DEF f
  <2>3. {r.hi : r \in S} \subseteq Int /\ {r.hi : r \in S} # {} /\ IsFiniteSet({r.hi : r \in S})
    BY <1>0, <2>1, <2>2
  <2>4. hi \in {r.hi : r \in S} /\ \A x \in {r.hi : r \in S} : x <= hi
    BY <2>3, MaxFacts
  <2> QED BY <2>4
<1> HIDE DEF lo, hi
<1>4. IsFiniteSet(D)
  <2> DEFINE f == [r \in S |-> r.stride]
             e == [r \in S |-> r.lo - lo]
  <2>1. {r.stride : r \in S} = {f[r] : r \in S} /\ {r.lo - lo : r \in S} = {e[r] : r \in S}
    OBVIOUS
  <2>2. IsFiniteSet({f[r] : r \in S}) /\ IsFiniteSet({e[r] : r \in S})
    <3>1. f \in [S -> Int] /\ e \in [S -> Int]
      BY <1>0, <1>2
    <3> HIDE DEF f, e
    <3> QED BY <3>1, ImageFinite
  <2> QED BY <2>1, <2>2, FS_Union
<1>5. lo \in Int /\ hi \in Int /\ lo <= hi
  BY <1>0, <1>2, <1>3
<1>6. D \subseteq Nat
  BY <1>0, <1>2, <1>5
<1>7. g \in Nat /\ (\A x \in D : Divides(g, x)) /\ (g = 0 <=> D \subseteq {0})
  BY <1>4, <1>6, GcdFacts
<1>8. \A r \in S : r.stride \in D /\ r.lo - lo \in D
  OBVIOUS
<1>9. \A r \in S : Divides(g, r.stride) /\ Divides(g, r.lo - lo)
  BY <1>7, <1>8
<1>10. g = 0 <=> lo = hi
  <2>1. ASSUME g = 0 PROVE lo = hi
    <3>1. PICK r \in S : hi = r.hi
      BY <1>3
    <3>2. r.stride = 0 /\ r.lo - lo = 0
      BY <1>7, <1>8, <2>1
    <3> QED BY <1>0, <1>5, <3>1, <3>2
  <2>2. ASSUME lo = hi PROVE g = 0
    <3>1. ASSUME NEW r \in S PROVE r.stride = 0 /\ r.lo - lo = 0
      BY <1>0, <1>2, <1>3, <1>5, <2>2
    <3>2. D \subseteq {0}
      BY <3>1
    <3> QED BY <1>7, <3>2
  <2> QED BY <2>1, <2>2
<1> HIDE DEF D
<1>11. g \in Nat
  BY <1>7
<1>12. D = {r.stride : r \in S} \cup {r.lo - lo : r \in S}
  BY DEF D
<1> HIDE DEF g
<1>13. ASSUME NEW r \in S, NEW x \in Points(r)
       PROVE  x \in Int /\ lo <= x /\ x <= hi /\ Divides(g, x - lo)
  <2>1. x \in Int /\ r.lo <= x /\ x <= r.hi /\ Divides(r.stride, x - r.lo)
    BY <1>0, PointsAre
  <2>2. r.lo \in Int /\ r.hi \in Int /\ lo <= r.lo /\ r.hi <= hi /\ r.stride \in Nat
    BY <1>0, <1>2, <1>3
  <2>3. x - r.lo \in Int /\ r.lo - lo \in Int /\ (x - r.lo) + (r.lo - lo) = x - lo
    BY <1>5, <2>1, <2>2
  <2>4. Divides(g, x - r.lo) /\ Divides(g, r.lo - lo)
    BY <1>9, <1>11, <2>1, <2>2, <2>3, DividesTrans
  <2>5. Divides(g, (x - r.lo) + (r.lo - lo))
    BY <1>11, <2>3, <2>4, DividesSum
  <2> QED BY <1>5, <2>1, <2>2, <2>3, <2>5
<1>14. Divides(g, hi - lo)
  <2>1. PICK r \in S : hi = r.hi
    BY <1>3
  <2>2. r.hi \in Points(r)
    BY <1>0, PointsAre
  <2> QED BY <1>13, <2>1, <2>2
<1> HIDE DEF h
<1>15. h \in Ranges /\ h.lo = lo /\ h.hi = hi /\ h.stride = g
  BY <1>1, <1>5, <1>10, <1>11, <1>14, MakeRange
<1>16. ASSUME NEW r \in S, NEW x \in Points(r) PROVE x \in Points(h)
  BY <1>13, <1>15, PointsAre
<1> QED BY <1>2, <1>3, <1>4, <1>6, <1>9, <1>12, <1>15, <1>16 DEF h, g, D

LEMMA HullHolds ==
  ASSUME NEW S, S \subseteq Ranges, IsFiniteSet(S), NEW r \in S, NEW w, Holds(r, w)
  PROVE  hullOf(S) \in Ranges /\ Holds(hullOf(S), w)
<1>1. hullOf(S) \in Ranges /\ \A x \in Points(r) : x \in Points(hullOf(S))
  BY HullFacts
<1>2. PICK x \in Points(r) : mod(x) = w
  BY RangeFacts DEF Holds
<1> QED BY <1>1, <1>2 DEF Holds

-----------------------------------------------------------------------------
(* A range met with a bound.                                               *)

LEMMA MeetInFacts ==
  ASSUME NEW m \in Ranges, NEW b \in Ranges
  PROVE  /\ meetIn(m, b) = Never
            \/ /\ meetIn(m, b) \in Ranges
               /\ m.lo <= meetIn(m, b).lo /\ meetIn(m, b).hi <= m.hi
               /\ b.lo <= meetIn(m, b).lo /\ meetIn(m, b).hi <= b.hi
               /\ meetIn(m, b).stride \in {0, m.stride}
               /\ b.lo <= m.lo => meetIn(m, b).lo = m.lo
         /\ \A x \in Points(m) : b.lo <= x /\ x <= b.hi => meetIn(m, b) \in Ranges /\ x \in Points(meetIn(m, b))
<1> DEFINE lo == Max({m.lo, b.lo})
           hi == Min({m.hi, b.hi})
           s == m.stride
           i == Ceil(lo - m.lo, s)
           j == (hi - m.lo) \div s
           first == m.lo + i * s
           last == m.lo + j * s
           r == meetIn(m, b)
<1>0. /\ m.lo \in Int /\ m.hi \in Int /\ m.lo <= m.hi /\ s \in Nat /\ (s = 0 <=> m.lo = m.hi)
      /\ b.lo \in Int /\ b.hi \in Int
  BY RangeFacts
<1>1. /\ lo \in Int /\ hi \in Int /\ m.lo <= lo /\ b.lo <= lo /\ hi <= m.hi /\ hi <= b.hi
      /\ (b.lo <= m.lo => lo = m.lo)
      /\ \A x \in Int : m.lo <= x /\ b.lo <= x => lo <= x
      /\ \A x \in Int : x <= m.hi /\ x <= b.hi => x <= hi
  <2>1. lo = (IF m.lo <= b.lo THEN b.lo ELSE m.lo) /\ hi = (IF m.hi <= b.hi THEN m.hi ELSE b.hi)
    BY <1>0, MaxOfTwo
  <2> HIDE DEF lo, hi
  <2> QED BY <1>0, <2>1
<1>2. r = (IF s = 0 THEN IF lo <= hi THEN m ELSE Never
           ELSE IF first > last THEN Never
           ELSE Strided(first, last, IF first = last THEN 0 ELSE s))
  BY DEF meetIn
<1> HIDE DEF lo, hi, r
<1>3. CASE s = 0
  <2>1. \A x \in Points(m) : x = m.lo
    <3>1. \A x \in Points(m) : x \in Int /\ m.lo <= x /\ x <= m.hi
      BY PointsAre
    <3> QED BY <1>0, <1>3, <3>1
  <2>2. CASE lo <= hi
    BY <1>0, <1>1, <1>2, <1>3, <2>2 DEF r
  <2>3. CASE ~(lo <= hi)
    <3>1. ~ (b.lo <= m.lo /\ m.lo <= b.hi)
      BY <1>0, <1>1, <1>3, <2>3
    <3> QED BY <1>2, <1>3, <2>1, <2>3, <3>1 DEF r
  <2> QED BY <2>2, <2>3
<1>4. CASE s # 0
  <2>0. s \in Nat \ {0} /\ lo - m.lo \in Int /\ hi - m.lo \in Int
    BY <1>0, <1>1, <1>4
  <2>1. i \in Int /\ lo - m.lo <= i * s /\ (\A n \in Int : lo - m.lo <= n * s => i <= n)
    BY <2>0, CeilFacts
  <2>2. j \in Int /\ j * s <= hi - m.lo /\ (\A n \in Int : n * s <= hi - m.lo => n <= j)
    BY <2>0, FloorFacts
  <2>3. lo = m.lo => i = 0
    <3> SUFFICES ASSUME lo = m.lo PROVE i = 0
      OBVIOUS
    <3>1. i <= 0
      <4>1. lo - m.lo <= 0 * s
        BY <1>0
      <4> QED BY <2>1, <4>1
    <3>2. ~ (i <= -1)
      <4> SUFFICES ASSUME i <= -1 PROVE FALSE
        OBVIOUS
      <4>1. i * s <= (-1) * s
        BY <2>0, <2>1
      <4> QED BY <1>0, <2>0, <2>1, <4>1
    <3> QED BY <2>1, <3>1, <3>2
  <2> HIDE DEF i, j
  <2>4. /\ i * s \in Int /\ j * s \in Int /\ first \in Int /\ last \in Int /\ lo <= first /\ last <= hi
        /\ (lo = m.lo => first = m.lo)
    BY <1>0, <1>1, <2>0, <2>1, <2>2, <2>3
  <2>5. last - first = (j - i) * s /\ j - i \in Int
    BY <1>0, <2>1, <2>2
  <2>6. Divides(s, last - first)
    BY <2>5 DEF Divides
  <2>7. \A x \in Points(m) : b.lo <= x /\ x <= b.hi => first <= x /\ x <= last /\ Divides(s, x - first)
    <3> SUFFICES ASSUME NEW x \in Points(m), b.lo <= x, x <= b.hi
                 PROVE  first <= x /\ x <= last /\ Divides(s, x - first)
      OBVIOUS
    <3>1. x \in Int /\ m.lo <= x /\ x <= m.hi /\ Divides(s, x - m.lo)
      BY PointsAre
    <3>2. PICK n \in Int : x - m.lo = n * s
      BY <3>1 DEF Divides
    <3>3. lo <= x /\ x <= hi
      BY <1>1, <3>1
    <3>4. i <= n /\ n <= j
      BY <1>0, <1>1, <2>1, <2>2, <3>1, <3>2, <3>3
    <3>5. i * s <= n * s /\ n * s <= j * s /\ n * s \in Int
      BY <2>0, <2>1, <2>2, <3>4
    <3>6. first <= x /\ x <= last
      BY <1>0, <2>4, <3>1, <3>2, <3>5
    <3>7. x - first = (n - i) * s /\ n - i \in Int
      BY <1>0, <2>1, <3>1, <3>2
    <3> QED BY <3>6, <3>7 DEF Divides
  <2> HIDE DEF first, last
  <2>8. CASE first > last
    <3>1. \A x \in Points(m) : x \in Int
      BY PointsAre
    <3>2. \A x \in Points(m) : ~(b.lo <= x /\ x <= b.hi)
      BY <2>4, <2>7, <2>8, <3>1
    <3>3. r = Never
      BY <1>2, <1>4, <2>8
    <3> QED BY <3>2, <3>3 DEF r
  <2>9. CASE first <= last
    <3> DEFINE t == IF first = last THEN 0 ELSE s
    <3>1. r = Strided(first, last, t)
      BY <1>2, <1>4, <2>4, <2>9
    <3>2. t \in Nat /\ (t = 0 <=> first = last) /\ t \in {0, s}
      BY <1>0, <1>4
    <3>3. Divides(t, last - first)
      <4>1. CASE first = last
        <5>1. last - first = 0 /\ t = 0
          BY <2>4, <4>1
        <5> QED BY <5>1, DividesSelf
      <4>2. CASE first # last
        BY <2>6, <4>2
      <4> QED BY <4>1, <4>2
    <3> HIDE DEF t
    <3>4. r \in Ranges /\ r.lo = first /\ r.hi = last /\ r.stride = t
      BY <2>4, <2>9, <3>1, <3>2, <3>3, MakeRange
    <3>5. ASSUME NEW x \in Points(m), b.lo <= x, x <= b.hi PROVE x \in Points(r)
      <4>1. x \in Int /\ first <= x /\ x <= last /\ Divides(s, x - first)
        BY <2>7, <3>5, PointsAre
      <4>2. Divides(t, x - first)
        <5>1. CASE first = last
          <6>1. x - first = 0 /\ t = 0
            BY <2>4, <3>2, <4>1, <5>1
          <6> QED BY <6>1, DividesSelf
        <5>2. CASE first # last
          BY <3>2, <4>1, <5>2
        <5> QED BY <5>1, <5>2
      <4> QED BY <3>4, <4>1, <4>2, PointsAre
    <3>6. m.lo <= r.lo /\ r.hi <= m.hi /\ b.lo <= r.lo /\ r.hi <= b.hi /\ (b.lo <= m.lo => r.lo = m.lo)
      BY <1>0, <1>1, <2>4, <3>4
    <3> QED BY <3>2, <3>4, <3>5, <3>6 DEF r
  <2> QED BY <2>4, <2>8, <2>9
<1> QED BY <1>3, <1>4

LEMMA PieceFacts ==
  ASSUME NEW lo \in Int, NEW hi \in Int, NEW s \in Nat \ {0}, NEW by \in Int, lo <= hi, Divides(s, hi - lo)
  PROVE  LET p == Shifted(Strided(lo, hi, IF lo = hi THEN 0 ELSE s), by)
         IN  /\ p \in Ranges
             /\ \A x \in Int : lo <= x /\ x <= hi /\ Divides(s, x - lo) => x + by \in Points(p)
<1> DEFINE t == IF lo = hi THEN 0 ELSE s
           r == Strided(lo, hi, t)
<1>1. t \in Nat /\ (t = 0 <=> lo = hi)
  OBVIOUS
<1>2. \A x \in Int : lo <= x /\ x <= hi /\ Divides(s, x - lo) => Divides(t, x - lo)
  <2> SUFFICES ASSUME NEW x \in Int, lo <= x, x <= hi, Divides(s, x - lo) PROVE Divides(t, x - lo)
    OBVIOUS
  <2>1. CASE lo = hi
    <3>1. x - lo = 0 /\ t = 0
      BY <2>1
    <3> QED BY <3>1, DividesSelf
  <2>2. CASE lo # hi
    BY <2>2
  <2> QED BY <2>1, <2>2
<1>3. Divides(t, hi - lo)
  BY <1>2
<1> HIDE DEF t
<1>4. r \in Ranges /\ r.lo = lo /\ r.hi = hi /\ r.stride = t
  BY <1>1, <1>3, MakeRange
<1> HIDE DEF r
<1>5. Shifted(r, by) \in Ranges /\ \A x \in Points(r) : x + by \in Points(Shifted(r, by))
  BY <1>4, ShiftedFacts
<1>6. \A x \in Int : lo <= x /\ x <= hi /\ Divides(s, x - lo) => x \in Points(r)
  BY <1>2, <1>4, PointsAre
<1> QED BY <1>5, <1>6 DEF r, t

\* Cut in two, a range keeps every point, moved by the words its side is moved by.
LEMMA SplitFacts ==
  ASSUME NEW r \in Ranges, r.stride # 0, NEW cut \in Int, NEW floor \in Int
  PROVE  /\ splitAt(r, cut, floor) \subseteq Ranges /\ IsFiniteSet(splitAt(r, cut, floor))
         /\ \A x \in Points(r) :
              \E p \in splitAt(r, cut, floor) :
                x + (IF x < cut THEN floor - (cut - WORD) ELSE floor - cut) \in Points(p)
<1> DEFINE s == r.stride
           c == Ceil(cut - r.lo, s)
           firstUp == r.lo + c * s
           below == Min({firstUp - s, r.hi})
           above == Max({firstUp, r.lo})
           one == floor - (cut - WORD)
           two == floor - cut
           low == IF r.lo > below THEN {}
                  ELSE {Shifted(Strided(r.lo, below, IF r.lo = below THEN 0 ELSE s), one)}
           high == IF above > r.hi THEN {}
                   ELSE {Shifted(Strided(above, r.hi, IF above = r.hi THEN 0 ELSE s), two)}
<1>0. r.lo \in Int /\ r.hi \in Int /\ r.lo <= r.hi /\ s \in Nat \ {0} /\ Divides(s, r.hi - r.lo) /\ WORD \in Nat
  BY RangeFacts, WordFacts
<1>1. splitAt(r, cut, floor) = low \cup high
  BY DEF splitAt
<1>2. one \in Int /\ two \in Int /\ cut - r.lo \in Int
  BY <1>0
<1>3. c \in Int /\ cut - r.lo <= c * s /\ c * s < (cut - r.lo) + s /\ \A n \in Int : cut - r.lo <= n * s => c <= n
  BY <1>0, <1>2, CeilFacts
<1> HIDE DEF c
<1>4. c * s \in Int /\ firstUp \in Int /\ cut <= firstUp /\ firstUp - s < cut /\ firstUp - s \in Int
  BY <1>0, <1>2, <1>3
<1>5. Divides(s, (firstUp - s) - r.lo) /\ Divides(s, r.hi - firstUp) /\ Divides(s, firstUp - r.lo)
  <2>1. PICK n \in Int : r.hi - r.lo = n * s
    BY <1>0 DEF Divides
  <2>10. (c - 1) * s = c * s - s /\ (n - c) * s = n * s - c * s
    BY <1>0, <1>3, Distributes
  <2>2. (firstUp - s) - r.lo = (c - 1) * s /\ r.hi - firstUp = (n - c) * s /\ firstUp - r.lo = c * s
    <3> HIDE DEF below, above, one, two, low, high
    <3> QED BY <1>0, <1>4, <2>1, <2>10
  <2>3. c - 1 \in Int /\ n - c \in Int
    BY <1>3
  <2> QED BY <1>3, <2>2, <2>3 DEF Divides
<1>6. ASSUME NEW x \in Points(r)
      PROVE  /\ x \in Int /\ r.lo <= x /\ x <= r.hi /\ Divides(s, x - r.lo) /\ Divides(s, x - firstUp)
             /\ x < cut => x <= firstUp - s
             /\ ~(x < cut) => firstUp <= x
  <2>1. x \in Int /\ r.lo <= x /\ x <= r.hi /\ Divides(s, x - r.lo)
    BY PointsAre
  <2>2. PICK n \in Int : x - r.lo = n * s
    BY <2>1 DEF Divides
  <2>3. x - firstUp = (n - c) * s /\ n - c \in Int
    BY <1>0, <1>3, <2>1, <2>2
  <2>4. ASSUME x < cut PROVE x <= firstUp - s
    <3>1. n <= c - 1
      <4> SUFFICES ASSUME c <= n PROVE FALSE
        BY <1>3
      <4>1. c * s <= n * s
        BY <1>0, <1>3
      <4> QED BY <1>0, <1>3, <1>4, <2>1, <2>2, <2>4, <4>1
    <3>2. n * s <= (c - 1) * s /\ (c - 1) * s = c * s - s
      <4>1. \A e \in Int : n <= e => n * s <= e * s
        BY <1>0
      <4>2. c - 1 \in Int /\ (c - 1) * s = c * s - s
        BY <1>0, <1>3
      <4> QED BY <3>1, <4>1, <4>2
    <3> QED BY <1>0, <1>4, <2>1, <2>2, <3>2
  <2>5. ASSUME ~(x < cut) PROVE firstUp <= x
    <3>1. cut - r.lo <= n * s
      BY <1>0, <2>1, <2>2, <2>5
    <3>2. c * s <= n * s
      BY <1>0, <1>3, <3>1
    <3> QED BY <1>0, <1>4, <2>1, <2>2, <3>2
  <2> QED BY <2>1, <2>3, <2>4, <2>5 DEF Divides
<1> HIDE DEF firstUp
<1>7. below = (IF firstUp - s <= r.hi THEN firstUp - s ELSE r.hi) /\ above = (IF firstUp <= r.lo THEN r.lo ELSE firstUp)
  <2>1. ASSUME NEW a \in Int, NEW b \in Int
        PROVE  Max({a, b}) = (IF a <= b THEN b ELSE a) /\ Min({a, b}) = (IF a <= b THEN a ELSE b)
    BY MaxOfTwo
  <2>2. firstUp \in Int /\ firstUp - s \in Int /\ r.lo \in Int /\ r.hi \in Int
    BY <1>0, <1>4
  <2> QED BY <2>1, <2>2
<1>8. below \in Int /\ above \in Int /\ Divides(s, below - r.lo) /\ Divides(s, r.hi - above)
  BY <1>0, <1>4, <1>5, <1>7
<1> HIDE DEF below, above, one, two
<1>9. low \subseteq Ranges /\ IsFiniteSet(low)
      /\ \A x \in Points(r) : x < cut => \E p \in low : x + one \in Points(p)
  <2>1. CASE r.lo > below
    <3>1. \A x \in Points(r) : ~(x < cut)
      BY <1>0, <1>4, <1>6, <1>7, <2>1
    <3> QED BY <2>1, <3>1, FS_EmptySet
  <2>2. CASE ~(r.lo > below)
    <3> DEFINE p == Shifted(Strided(r.lo, below, IF r.lo = below THEN 0 ELSE s), one)
    <3>1. r.lo <= below
      BY <1>0, <1>8, <2>2
    <3>2. /\ p \in Ranges
          /\ \A x \in Int : r.lo <= x /\ x <= below /\ Divides(s, x - r.lo) => x + one \in Points(p)
      BY <1>0, <1>2, <1>8, <3>1, PieceFacts
    <3>3. low = {p}
      BY <2>2
    <3> HIDE DEF p
    <3>4. \A x \in Points(r) : x < cut => x + one \in Points(p)
      BY <1>0, <1>4, <1>6, <1>7, <3>2
    <3> QED BY <3>2, <3>3, <3>4, FS_Singleton
  <2> QED BY <2>1, <2>2
<1>10. high \subseteq Ranges /\ IsFiniteSet(high)
      /\ \A x \in Points(r) : ~(x < cut) => \E p \in high : x + two \in Points(p)
  <2>1. CASE above > r.hi
    <3>1. \A x \in Points(r) : x < cut
      BY <1>0, <1>4, <1>6, <1>7, <2>1
    <3> QED BY <2>1, <3>1, FS_EmptySet
  <2>2. CASE ~(above > r.hi)
    <3> DEFINE p == Shifted(Strided(above, r.hi, IF above = r.hi THEN 0 ELSE s), two)
    <3>1. above <= r.hi
      BY <1>0, <1>8, <2>2
    <3>2. /\ p \in Ranges
          /\ \A x \in Int : above <= x /\ x <= r.hi /\ Divides(s, x - above) => x + two \in Points(p)
      BY <1>0, <1>2, <1>8, <3>1, PieceFacts
    <3>3. high = {p}
      BY <2>2
    <3> HIDE DEF p
    <3>4. \A x \in Points(r) : ~(x < cut) => above <= x /\ Divides(s, x - above)
      BY <1>0, <1>4, <1>6, <1>7
    <3>5. \A x \in Points(r) : ~(x < cut) => x + two \in Points(p)
      BY <1>6, <3>2, <3>4
    <3> QED BY <3>2, <3>3, <3>5, FS_Singleton
  <2> QED BY <2>1, <2>2
<1> HIDE DEF low, high
<1>11. IsFiniteSet(low \cup high)
  BY <1>9, <1>10, FS_Union
<1>12. ASSUME NEW x \in Points(r)
       PROVE  \E p \in low \cup high : x + (IF x < cut THEN one ELSE two) \in Points(p)
  BY <1>9, <1>10
<1> QED BY <1>1, <1>9, <1>10, <1>11, <1>12 DEF one, two

\* Two integers of one window that are one word are one integer.
LEMMA OneWindow ==
  ASSUME NEW floor \in Int, NEW v \in Int, NEW y \in Int, mod(v) = mod(y),
         floor <= v, v < floor + WORD, floor <= y, y < floor + WORD
  PROVE  v = y
<1>1. v - y \in Int /\ -WORD < v - y /\ v - y < WORD /\ WORD \in Nat
  BY WordFacts
<1>2. Divides(WORD, v - y)
  BY ModSame
<1>3. v - y = 0
  BY <1>1, <1>2, DividesSmall
<1> QED BY <1>3

\* What a bound leaves of a range that crosses its window's edge.
LEMMA PiecesHold ==
  ASSUME NEW r \in Ranges, r.stride # 0, NEW b, b.r \in Ranges, NEW floor \in Int,
         floor <= b.r.lo, b.r.hi < floor + WORD
  PROVE  /\ pieces(r, b, floor) \subseteq Ranges /\ IsFiniteSet(pieces(r, b, floor))
         /\ \A x \in Points(r), v \in Points(b.r) :
              Width(r) < WORD /\ mod(x) = mod(v) => \E p \in pieces(r, b, floor) : v \in Points(p)
<1> DEFINE n == (r.lo - floor) \div WORD
           cut == floor + n * WORD + WORD
           S == splitAt(r, cut, floor)
<1>0. /\ r.lo \in Int /\ r.hi \in Int /\ r.lo <= r.hi /\ WORD \in Nat \ {0}
      /\ b.r.lo \in Int /\ b.r.hi \in Int /\ r.lo - floor \in Int
  BY RangeFacts, WordFacts
<1>1. n \in Int /\ n * WORD <= r.lo - floor /\ r.lo - floor < n * WORD + WORD
  BY <1>0, FloorFacts
<1>2. pieces(r, b, floor) = {meetIn(p, b.r) : p \in S} \ {Never}
  BY DEF pieces
<1> HIDE DEF n
<1>3. cut \in Int /\ cut - WORD <= r.lo /\ r.lo < cut /\ n * WORD \in Int
  BY <1>0, <1>1
<1>4. /\ S \subseteq Ranges /\ IsFiniteSet(S)
      /\ \A x \in Points(r) :
           \E p \in S : x + (IF x < cut THEN floor - (cut - WORD) ELSE floor - cut) \in Points(p)
  BY <1>3, SplitFacts
<1>5. \A p \in S : meetIn(p, b.r) = Never \/ meetIn(p, b.r) \in Ranges
  BY <1>4, MeetInFacts
<1>6. IsFiniteSet({meetIn(p, b.r) : p \in S})
  <2> DEFINE f == [p \in S |-> meetIn(p, b.r)]
             T == {meetIn(p, b.r) : p \in S}
  <2> HIDE DEF S
  <2>1. f \in [S -> T] /\ T = {f[p] : p \in S}
    OBVIOUS
  <2> HIDE DEF f, T
  <2>2. IsFiniteSet({f[p] : p \in S})
    <3>1. IsFiniteSet(S)
      BY <1>4
    <3>2. f \in [S -> T]
      BY <2>1
    <3> HIDE <1>4, <2>1
    <3> QED BY <3>1, <3>2, ImageFinite
  <2>3. IsFiniteSet(T)
    BY <2>1, <2>2
  <2> QED BY <2>3 DEF T
<1>7. IsFiniteSet(pieces(r, b, floor))
  BY <1>2, <1>6, FS_Subset
<1>8. ASSUME NEW x \in Points(r), NEW v \in Points(b.r), Width(r) < WORD, mod(x) = mod(v)
      PROVE  \E p \in pieces(r, b, floor) : v \in Points(p)
  <2> DEFINE by == IF x < cut THEN floor - (cut - WORD) ELSE floor - cut
             y == x + by
  <2>0. x \in Int /\ r.lo <= x /\ x <= r.hi /\ v \in Int /\ b.r.lo <= v /\ v <= b.r.hi
    BY PointsAre
  <2>1. r.hi - r.lo < WORD
    BY <1>8 DEF Width
  <2>2. by = (IF x < cut THEN (-n) * WORD ELSE (-(n + 1)) * WORD) /\ -n \in Int /\ -(n + 1) \in Int /\ by \in Int
    BY <1>0, <1>1
  <2>3. PICK p \in S : y \in Points(p)
    BY <1>4
  <2>4. floor <= y /\ y < floor + WORD /\ y \in Int
    BY <1>0, <1>3, <2>0, <2>1
  <2>5. Divides(WORD, by)
    BY <2>2 DEF Divides
  <2> HIDE DEF by
  <2>6. y - x = by
    BY <2>0, <2>2
  <2>7. mod(y) = mod(x)
    BY <2>0, <2>4, <2>5, <2>6, ModSame
  <2> HIDE DEF y
  <2>8. v = y
    BY <1>0, <1>8, <2>0, <2>4, <2>7, OneWindow
  <2>9. meetIn(p, b.r) \in Ranges /\ v \in Points(meetIn(p, b.r))
    BY <1>4, <2>0, <2>3, <2>8, MeetInFacts
  <2> QED BY <1>2, <2>9, RangeFacts
<1> QED BY <1>2, <1>5, <1>7, <1>8

LEMMA MeetOfSound ==
  ASSUME NEW r \in Ranges, NEW b, b.r \in Ranges, NEW floor \in Int,
         floor <= b.r.lo, b.r.hi < floor + WORD, NEW m \in Ranges \cup {None}
  PROVE  /\ meetOf(r, b, m, pieces(r, b, floor)) \in Ranges \cup {Never}
         /\ \A x \in Points(r), v \in Points(b.r) :
              mod(x) = mod(v) /\ (m # None => v \in Points(m))
                => Holds(meetOf(r, b, m, pieces(r, b, floor)), mod(v))
<1> DEFINE met == pieces(r, b, floor)
           q == meetOf(r, b, m, met)
<1>0. \A v \in Points(b.r) : v \in Int /\ b.r.lo <= v /\ v <= b.r.hi
  BY PointsAre
<1>1. CASE m # None
  <2>1. q = meetIn(m, b.r)
    BY <1>1 DEF meetOf
  <2>2. q \in Ranges \cup {Never}
    BY <1>1, <2>1, MeetInFacts
  <2>3. \A v \in Points(b.r) : v \in Points(m) => Holds(q, mod(v))
    BY <1>0, <1>1, <2>1, MeetInFacts DEF Holds
  <2> QED BY <1>1, <2>2, <2>3
<1>2. CASE m = None /\ (Width(r) >= WORD \/ r.stride = 0)
  <2>1. q = b.r
    BY <1>2 DEF meetOf
  <2> QED BY <2>1 DEF Holds
<1>3. CASE m = None /\ ~(Width(r) >= WORD \/ r.stride = 0)
  <2>1. /\ met \subseteq Ranges /\ IsFiniteSet(met)
        /\ \A x \in Points(r), v \in Points(b.r) :
             Width(r) < WORD /\ mod(x) = mod(v) => \E p \in met : v \in Points(p)
    BY <1>3, PiecesHold
  <2>2. q = (IF met = {} THEN Never ELSE narrower(hullOf(met), r))
    BY <1>3 DEF meetOf
  <2> HIDE DEF met
  <2>3. met # {} => /\ hullOf(met) \in Ranges
                    /\ \A p \in met : \A x \in Points(p) : x \in Points(hullOf(met))
    BY <2>1, HullFacts
  <2>4. met # {} => q \in {hullOf(met), r}
    BY <2>2 DEF narrower
  <2>5. Width(r) < WORD
    <3>1. Width(r) \in Int /\ WORD \in Int
      BY RangeFacts, WordFacts DEF Width
    <3> QED BY <1>3, <3>1
  <2>6. ASSUME NEW x \in Points(r), NEW v \in Points(b.r), mod(x) = mod(v) PROVE Holds(q, mod(v))
    <3>1. PICK p \in met : v \in Points(p)
      BY <2>1, <2>5, <2>6
    <3>2. v \in Points(hullOf(met)) /\ hullOf(met) \in Ranges
      BY <2>3, <3>1
    <3>3. CASE q = r
      BY <2>6, <3>3 DEF Holds
    <3>4. CASE q = hullOf(met)
      BY <3>2, <3>4 DEF Holds
    <3> QED BY <2>4, <3>1, <3>3, <3>4
  <2>7. q \in Ranges \cup {Never}
    BY <2>2, <2>3, <2>4
  <2> QED BY <2>6, <2>7 DEF met
<1> QED BY <1>1, <1>2, <1>3

\* A term under a bound holds what it held before, if the bound holds.
LEMMA UnderSound ==
  ASSUME NEW r \in Answered, NEW b, BoundType(b)
  PROVE  /\ under(r, b) \in Answered
         /\ \A x \in Int : Holds(r, mod(x)) /\ BoundHolds(b, x) => Holds(under(r, b), mod(x))
<1>0. /\ WORD \in Nat /\ S_MIN \in Int /\ S_MAX \in Int /\ S_MAX - S_MIN = WORD - 1
      /\ \A x \in Int : /\ mod(x) \in Int /\ ToSigned(x) \in Int
                        /\ mod(mod(x)) = mod(x) /\ mod(ToSigned(x)) = mod(x) /\ ToSigned(mod(x)) = ToSigned(x)
  BY WordFacts, ModFacts, ModMod, SignedFacts
<1>1. CASE b = None \/ r = Never
  BY <1>1 DEF under
<1>2. CASE b # None /\ r = None
  <2>1. under(r, b) = b.r /\ b.r \in Ranges
    BY <1>2, DistinctAssumption DEF under, meetBound, BoundType
  <2>2. ASSUME NEW x \in Int, BoundHolds(b, x) PROVE \E v \in Points(b.r) : mod(v) = mod(x)
    BY <1>0, <1>2, <2>2 DEF BoundHolds
  <2> QED BY <2>1, <2>2 DEF Holds, Answered
<1>3. CASE b # None /\ r \in Ranges /\ b.window = "u"
  <2> DEFINE m == intoWord(r)
             q == meetOf(r, b, m, pieces(r, b, 0))
  <2>1. under(r, b) = q
    BY <1>3, RangeFacts DEF under, meetBound
  <2>2. b.r \in Ranges /\ 0 <= b.r.lo /\ b.r.hi < 0 + WORD
    BY <1>0, <1>3, RangeFacts DEF BoundType, InWindow
  <2>3. m \in Ranges \cup {None} /\ (m # None => \A x \in Points(r) : mod(x) \in Points(m))
    BY <1>3, IntoWordFacts DEF ByWords
  <2> HIDE DEF m
  <2>4. /\ q \in Ranges \cup {Never}
        /\ \A x \in Points(r), v \in Points(b.r) :
              mod(x) = mod(v) /\ (m # None => v \in Points(m)) => Holds(q, mod(v))
    BY <1>3, <2>2, <2>3, MeetOfSound
  <2> HIDE DEF q
  <2>5. ASSUME NEW x \in Int, Holds(r, mod(x)), BoundHolds(b, x) PROVE Holds(q, mod(x))
    <3>1. PICK y \in Points(r) : mod(y) = mod(x)
      BY <1>3, <2>5, RangeFacts DEF Holds
    <3>2. mod(x) \in Points(b.r)
      BY <1>3, <2>5 DEF BoundHolds
    <3>3. m # None => mod(x) \in Points(m)
      BY <2>3, <3>1
    <3>4. mod(mod(x)) = mod(x)
      BY <1>0
    <3>5. Holds(q, mod(mod(x)))
      BY <2>4, <3>1, <3>2, <3>3, <3>4
    <3> QED BY <3>4, <3>5
  <2> QED BY <2>1, <2>4, <2>5 DEF Answered
<1>4. CASE b # None /\ r \in Ranges /\ b.window # "u"
  <2> DEFINE m == intoSigned(r)
             q == meetOf(r, b, m, pieces(r, b, S_MIN))
  <2>1. under(r, b) = q
    BY <1>4, RangeFacts DEF under, meetBound
  <2>2. b.r \in Ranges /\ S_MIN <= b.r.lo /\ b.r.hi < S_MIN + WORD
    BY <1>0, <1>4, RangeFacts DEF BoundType, InWindow
  <2>3. m \in Ranges \cup {None} /\ (m # None => \A x \in Points(r) : ToSigned(x) \in Points(m))
    BY <1>4, IntoSignedFacts DEF ByWords
  <2> HIDE DEF m
  <2>4. /\ q \in Ranges \cup {Never}
        /\ \A x \in Points(r), v \in Points(b.r) :
              mod(x) = mod(v) /\ (m # None => v \in Points(m)) => Holds(q, mod(v))
    BY <1>0, <1>4, <2>2, <2>3, MeetOfSound
  <2> HIDE DEF q
  <2>5. ASSUME NEW x \in Int, Holds(r, mod(x)), BoundHolds(b, x) PROVE Holds(q, mod(x))
    <3>1. PICK y \in Points(r) : mod(y) = mod(x)
      BY <1>4, <2>5, RangeFacts DEF Holds
    <3>0. y \in Int
      BY <1>4, PointsAre
    <3>2. ToSigned(x) \in Points(b.r)
      BY <1>4, <2>5 DEF BoundHolds
    <3>3. ToSigned(y) = ToSigned(x)
      <4>1. ToSigned(mod(y)) = ToSigned(y) /\ ToSigned(mod(x)) = ToSigned(x)
        BY <1>0, <3>0
      <4> QED BY <3>1, <4>1
    <3>4. m # None => ToSigned(x) \in Points(m)
      BY <2>3, <3>1, <3>3
    <3>5. mod(ToSigned(x)) = mod(x)
      BY <1>0
    <3>6. Holds(q, mod(ToSigned(x)))
      BY <2>4, <3>1, <3>2, <3>4, <3>5
    <3> QED BY <3>5, <3>6
  <2> QED BY <2>1, <2>4, <2>5 DEF Answered
<1> QED BY <1>1, <1>2, <1>3, <1>4 DEF Answered

LEMMA NarrowerFacts ==
  ASSUME NEW r \in Ranges \cup {None}, NEW s \in Ranges \cup {None}
  PROVE  /\ narrower(r, s) \in {r, s}
         /\ \A w : Holds(r, w) /\ Holds(s, w) => Holds(narrower(r, s), w)
BY DEF narrower

-----------------------------------------------------------------------------
(* A product and a sum.                                                    *)

LEMMA TimesFacts ==
  ASSUME NEW c \in Int, c # 0, NEW s \in Nat, NEW d \in Nat, Divides(s, d), s = 0 <=> d = 0
  PROVE  /\ Abs(c) * s \in Nat /\ (Abs(c) * s = 0 <=> d = 0)
         /\ Abs(c) * d \in Nat /\ Divides(Abs(c) * s, Abs(c) * d)
         /\ Abs(c) * d = (IF c > 0 THEN c * d ELSE -(c * d))
<1> DEFINE a == Abs(c)
<1>1. a \in Nat \ {0} /\ a = (IF c > 0 THEN c ELSE -c)
  BY DEF Abs
<1>2. PICK n \in Int : d = n * s
  BY DEF Divides
<1> HIDE DEF a
<1>3. a * s \in Nat /\ a * d \in Nat
  BY <1>1
<1>4. a * s = 0 <=> s = 0
  BY <1>1
<1>5. a * d = n * (a * s)
  BY <1>1, <1>2
<1>6. a * d = (IF c > 0 THEN c * d ELSE -(c * d))
  BY <1>1
<1> QED BY <1>3, <1>4, <1>5, <1>6 DEF Divides, a

LEMMA FormSound ==
  ASSUME NEW e, e.mul \in Int, e.add \in Int, NEW r \in Answered
  PROVE  /\ formRange(e, r) \in Answered
         /\ \A w \in Int : Holds(r, mod(w)) => Holds(formRange(e, r), mod(e.mul * w + e.add))
         /\ r \in Ranges /\ e.mul # 0 =>
              /\ formRange(e, r) \in Ranges
              /\ formRange(e, r).lo = e.add + e.mul * (IF e.mul > 0 THEN r.lo ELSE r.hi)
              /\ formRange(e, r).hi = e.add + e.mul * (IF e.mul > 0 THEN r.hi ELSE r.lo)
              /\ formRange(e, r).stride = Abs(e.mul) * r.stride
<1> DEFINE q == formRange(e, r)
<1>1. CASE e.mul = 0
  <2>1. q = Span(e.add, e.add)
    BY <1>1 DEF formRange, Point
  <2>2. q \in Ranges /\ e.add \in Points(q)
    BY <2>1, SpanFacts, SpanPoints
  <2>3. \A w \in Int : e.mul * w + e.add = e.add
    BY <1>1
  <2> QED BY <1>1, <2>2, <2>3 DEF Holds, Answered
<1>2. CASE e.mul # 0 /\ r \in {None, Never}
  <2>1. q = r
    BY <1>2 DEF formRange, Known
  <2>2. ~(r \in Ranges)
    BY <1>2, RangeFacts
  <2>3. r = Never => \A w : ~Holds(r, w)
    BY <2>2, DistinctAssumption DEF Holds
  <2> QED BY <1>2, <2>1, <2>2, <2>3 DEF Holds
<1>3. CASE e.mul # 0 /\ r \in Ranges
  <2> DEFINE c == e.mul
             lo == e.add + c * (IF c > 0 THEN r.lo ELSE r.hi)
             hi == e.add + c * (IF c > 0 THEN r.hi ELSE r.lo)
             s == Abs(c) * r.stride
  <2>0. /\ r.lo \in Int /\ r.hi \in Int /\ r.stride \in Nat /\ r.lo <= r.hi
        /\ Divides(r.stride, r.hi - r.lo) /\ (r.stride = 0 <=> r.lo = r.hi)
        /\ WORD \in Nat /\ c \in Int
    BY <1>3, RangeFacts, WordFacts
  <2>1. q = Strided(lo, hi, s)
    BY <1>3, RangeFacts DEF formRange, Known
  <2>2. \A x \in Int, y \in Int : c * x \in Int /\ c * y \in Int /\ c * x - c * y = c * (x - y)
    <3> HIDE DEF c
    <3> QED BY <2>0
  <2>3. lo \in Int /\ hi \in Int /\ hi - lo = (IF c > 0 THEN c * (r.hi - r.lo) ELSE -(c * (r.hi - r.lo)))
    <3>1. c * r.lo \in Int /\ c * r.hi \in Int /\ c * r.hi - c * r.lo = c * (r.hi - r.lo)
      BY <2>0, <2>2
    <3>2. CASE c > 0
      <4>1. lo = e.add + c * r.lo /\ hi = e.add + c * r.hi
        BY <3>2
      <4> HIDE DEF c, lo, hi
      <4> QED BY <3>1, <3>2, <4>1
    <3>3. CASE ~(c > 0)
      <4>1. lo = e.add + c * r.hi /\ hi = e.add + c * r.lo
        BY <3>3
      <4> HIDE DEF c, lo, hi
      <4> QED BY <3>1, <3>3, <4>1
    <3> QED BY <3>2, <3>3
  <2>4. r.hi - r.lo \in Nat /\ (r.stride = 0 <=> r.hi - r.lo = 0)
    BY <2>0
  <2>5. s \in Nat /\ (s = 0 <=> lo = hi) /\ lo <= hi /\ Divides(s, hi - lo)
    <3>1. /\ s \in Nat /\ (s = 0 <=> r.hi - r.lo = 0)
          /\ Abs(c) * (r.hi - r.lo) \in Nat /\ Divides(s, Abs(c) * (r.hi - r.lo))
          /\ Abs(c) * (r.hi - r.lo) = (IF c > 0 THEN c * (r.hi - r.lo) ELSE -(c * (r.hi - r.lo)))
      <4> DEFINE d == r.hi - r.lo
      <4>1. /\ c \in Int /\ c # 0 /\ r.stride \in Nat /\ d \in Nat /\ Divides(r.stride, d)
            /\ (r.stride = 0 <=> d = 0)
        BY <1>3, <2>0, <2>4
      <4> HIDE DEF c, d, lo, hi
      <4>2. /\ Abs(c) * r.stride \in Nat /\ (Abs(c) * r.stride = 0 <=> d = 0)
            /\ Abs(c) * d \in Nat /\ Divides(Abs(c) * r.stride, Abs(c) * d)
            /\ Abs(c) * d = (IF c > 0 THEN c * d ELSE -(c * d))
        BY <4>1, TimesFacts
      <4> QED BY <4>2 DEF d
    <3> HIDE DEF lo, hi
    <3>2. hi - lo = Abs(c) * (r.hi - r.lo)
      BY <2>3, <3>1
    <3>3. r.hi - r.lo = 0 <=> hi - lo = 0
      <4>1. Abs(c) \in Nat \ {0}
        BY <1>3, <2>0 DEF Abs
      <4> HIDE DEF c
      <4> QED BY <2>4, <3>2, <4>1
    <3> QED BY <2>3, <3>1, <3>2, <3>3
  <2> HIDE DEF q, s
  <2>6. q \in Ranges /\ q.lo = lo /\ q.hi = hi /\ q.stride = s
    <3> HIDE DEF lo, hi
    <3> QED BY <2>1, <2>3, <2>5, MakeRange
  <2>7. ASSUME NEW w \in Int, Holds(r, mod(w)) PROVE Holds(q, mod(c * w + e.add))
    <3>1. PICK x \in Points(r) : mod(x) = mod(w)
      BY <1>3, <2>7, RangeFacts DEF Holds
    <3>2. x \in Int /\ r.lo <= x /\ x <= r.hi /\ Divides(r.stride, x - r.lo) /\ Divides(r.stride, r.hi - x)
      BY <1>3, <3>1, PointsAre
    <3> DEFINE y == c * x + e.add
    <3>3. y \in Int /\ y - lo = (IF c > 0 THEN c * (x - r.lo) ELSE -(c * (r.hi - x)))
                    /\ hi - y = (IF c > 0 THEN c * (r.hi - x) ELSE -(c * (x - r.lo)))
      <4>1. /\ c * r.lo \in Int /\ c * r.hi \in Int /\ c * x \in Int
            /\ c * x - c * r.lo = c * (x - r.lo) /\ c * r.hi - c * x = c * (r.hi - x)
        BY <2>0, <2>2, <3>2
      <4>2. CASE c > 0
        <5>1. lo = e.add + c * r.lo /\ hi = e.add + c * r.hi
          BY <4>2
        <5> HIDE DEF c, lo, hi
        <5> QED BY <4>1, <4>2, <5>1
      <4>3. CASE ~(c > 0)
        <5>1. lo = e.add + c * r.hi /\ hi = e.add + c * r.lo
          BY <4>3
        <5> HIDE DEF c, lo, hi
        <5> QED BY <4>1, <4>3, <5>1
      <4> QED BY <4>2, <4>3
    <3>4. /\ \A a \in Nat, b \in Nat : Divides(b, a) => Divides(Abs(c) * b, Abs(c) * a)
          /\ \A a \in Nat : Abs(c) * a = (IF c > 0 THEN c * a ELSE -(c * a)) /\ Abs(c) * a >= 0
      <4>1. Abs(c) \in Nat
        BY <2>0 DEF Abs
      <4>2. ASSUME NEW a \in Nat, NEW b \in Nat, Divides(b, a) PROVE Divides(Abs(c) * b, Abs(c) * a)
        <5>1. PICK n \in Int : a = n * b
          BY <4>2 DEF Divides
        <5> HIDE DEF c
        <5>2. Abs(c) * a = n * (Abs(c) * b)
          BY <4>1, <5>1
        <5> QED BY <5>2 DEF Divides
      <4>3. ASSUME NEW a \in Nat PROVE Abs(c) * a = (IF c > 0 THEN c * a ELSE -(c * a)) /\ Abs(c) * a >= 0
        <5>1. Abs(c) * a = (IF c > 0 THEN c * a ELSE -(c * a))
          <6>1. Abs(c) = (IF c > 0 THEN c ELSE -c)
            BY <2>0 DEF Abs
          <6> HIDE DEF c
          <6> QED BY <2>0, <6>1
        <5>2. Abs(c) * a >= 0
          <6> HIDE DEF c
          <6> QED BY <4>1
        <5> QED BY <5>1, <5>2
      <4> QED BY <4>2, <4>3
    <3>5. y \in Points(q)
      <4>1. x - r.lo \in Nat /\ r.hi - x \in Nat
        BY <2>0, <3>2
      <4>2. y - lo = Abs(c) * (IF c > 0 THEN x - r.lo ELSE r.hi - x)
            /\ hi - y = Abs(c) * (IF c > 0 THEN r.hi - x ELSE x - r.lo)
        BY <3>3, <3>4, <4>1
      <4>3. Divides(s, y - lo)
        BY <2>0, <3>2, <3>4, <4>1, <4>2 DEF s
      <4> HIDE DEF lo, hi, y
      <4>4. y - lo >= 0 /\ hi - y >= 0
        BY <3>4, <4>1, <4>2
      <4>5. lo <= y /\ y <= hi
        BY <2>3, <3>3, <4>4
      <4> QED BY <2>6, <3>3, <4>3, <4>5, PointsAre
    <3>6. mod(y) = mod(c * w + e.add)
      <4>1. PICK n \in Int : x - w = n * WORD
        <5>1. Divides(WORD, x - w)
          BY <2>7, <3>1, <3>2, ModSame
        <5> QED BY <5>1 DEF Divides
      <4>2. c * x - c * w = c * (n * WORD) /\ c * w \in Int /\ c * x \in Int
        <5>1. c * x \in Int /\ c * w \in Int /\ c * x - c * w = c * (x - w)
          BY <2>2, <2>7, <3>2
        <5> QED BY <4>1, <5>1
      <4>3. y - (c * w + e.add) = (c * n) * WORD /\ c * n \in Int /\ c * w + e.add \in Int
        <5>1. c * (n * WORD) = (c * n) * WORD
          BY <2>0
        <5>2. y - (c * w + e.add) = c * x - c * w
          BY <4>2
        <5> QED BY <2>0, <4>2, <5>1, <5>2
      <4>4. Divides(WORD, y - (c * w + e.add))
        BY <4>3 DEF Divides
      <4> QED BY <3>3, <4>3, <4>4, ModSame
    <3> QED BY <2>6, <3>5, <3>6 DEF Holds
  <2> QED BY <1>3, <2>6, <2>7 DEF q, s, Answered
<1> QED BY <1>1, <1>2, <1>3 DEF Answered

-----------------------------------------------------------------------------
(* Bits.                                                                   *)

LEMMA HalfPower ==
  ASSUME NEW p \in Powers, p > 1
  PROVE  \E q \in Powers : p = 2 * q
<1>1. p \in 1..WORD /\ p \in Nat /\ \A d \in 2..p : p % d = 0 => d % 2 = 0
  BY WordFacts DEF Powers
<1>2. p % 2 = 0
  <2>1. p \in 2..p /\ p % p = 0
    BY <1>1
  <2> QED BY <1>1, <2>1
<1> DEFINE q == p \div 2
<1>3. q \in Nat \ {0} /\ p = 2 * q
  BY <1>1, <1>2
<1> HIDE DEF q
<1>4. ASSUME NEW d \in 2..q, q % d = 0 PROVE d % 2 = 0
  <2>1. d \in Nat \ {0}
    BY <1>3
  <2>20. \A a \in Int : a % d = 0 => \E n \in Int : a = n * d
    BY <2>1, Multiples
  <2>2. PICK n \in Int : q = n * d
    BY <1>3, <1>4, <2>20
  <2>3. p = (2 * n) * d /\ 2 * n \in Int
    BY <1>3, <2>1, <2>2
  <2>4. p % d = 0
    BY <2>1, <2>3, Multiples
  <2> QED BY <1>1, <1>3, <2>1, <2>4
<1>5. q \in Powers
  BY <1>1, <1>3, <1>4, WordFacts DEF Powers
<1> QED BY <1>3, <1>5

\* A power of two is an even multiple of every smaller one.
LEMMA PowersDivide ==
  \A a \in Powers, b \in Powers : a < b => \E n \in Nat : n >= 1 /\ b = (2 * n) * a
<1> DEFINE T == {b \in Powers : \E a \in Powers : a < b /\ ~ \E n \in Nat : n >= 1 /\ b = (2 * n) * a}
<1>0. Powers \subseteq Nat \ {0}
  BY WordFacts DEF Powers
<1>1. T = {}
  <2> SUFFICES ASSUME T # {} PROVE FALSE
    OBVIOUS
  <2>1. PICK b \in T : \A c \in T : b <= c
    <3>1. T \subseteq Nat
      BY <1>0
    <3> HIDE DEF T
    <3> QED BY <3>1, LeastNat
  <2>2. PICK a \in Powers : a < b /\ ~ \E n \in Nat : n >= 1 /\ b = (2 * n) * a
    BY <2>1
  <2>3. a \in Nat \ {0} /\ b \in Nat \ {0} /\ b \in Powers
    BY <1>0, <2>1
  <2>4. PICK q \in Powers : b = 2 * q
    BY <2>2, <2>3, HalfPower
  <2>5. q \in Nat \ {0} /\ q < b /\ q \notin T
    BY <1>0, <2>1, <2>3, <2>4
  <2>6. CASE a = q
    <3>1. b = (2 * 1) * a
      BY <2>3, <2>4, <2>6
    <3> QED BY <2>2, <3>1
  <2>7. CASE a < q
    <3>1. PICK n \in Nat : n >= 1 /\ q = (2 * n) * a
      BY <2>5, <2>7
    <3>2. b = (2 * (2 * n)) * a /\ 2 * n \in Nat /\ 2 * n >= 1
      BY <2>3, <2>4, <3>1
    <3> QED BY <2>2, <3>2
  <2>8. CASE q < a
    <3>1. PICK h \in Powers : a = 2 * h
      BY <2>3, <2>5, <2>8, HalfPower
    <3>2. h \in Nat \ {0} /\ h < q
      BY <1>0, <2>2, <2>3, <2>4, <2>5, <3>1
    <3>3. PICK n \in Nat : n >= 1 /\ q = (2 * n) * h
      BY <2>5, <3>2
    <3>4. q = n * a
      BY <3>1, <3>2, <3>3
    <3>5. n * a >= a
      BY <2>3, <3>3
    <3> QED BY <2>3, <2>5, <2>8, <3>4, <3>5
  <2> QED BY <2>3, <2>5, <2>6, <2>7, <2>8
<1> QED BY <1>1

\* The bits under q are those of the rest by q.
LEMMA BitOfRest ==
  ASSUME NEW x \in Nat, NEW q \in Powers, NEW b \in Powers, b < q
  PROVE  HasBit(x, b) <=> HasBit(x % q, b)
<1>0. q \in Nat \ {0} /\ b \in Nat \ {0}
  BY WordFacts DEF Powers
<1>1. PICK n \in Nat : n >= 1 /\ q = (2 * n) * b
  BY PowersDivide
<1> DEFINE t == x \div q
           y == x % q
           u == y \div b
           r == y % b
<1>2. t \in Int /\ y \in Nat /\ x = q * t + y
  <2>1. x \in Int
    OBVIOUS
  <2>2. t \in Int /\ y \in 0..q - 1 /\ x = q * t + y
    BY <1>0, <2>1, DivFacts
  <2> HIDE DEF t, y
  <2> QED BY <1>0, <2>2
<1> HIDE DEF t, y
<1>3. u \in Int /\ r \in 0..b - 1 /\ y = b * u + r
  <2>1. y \in Int
    BY <1>2
  <2> QED BY <1>0, <2>1, DivFacts
<1> HIDE DEF u, r
<1> DEFINE v == n * t
<1>4. v \in Int /\ q * t = b * (2 * v)
  <2>1. q * t = ((2 * n) * b) * t
    BY <1>1
  <2>2. ((2 * n) * b) * t = b * (2 * (n * t))
    BY <1>0, <1>2
  <2> QED BY <1>2, <2>1, <2>2
<1> HIDE DEF v
<1>5. x = b * (2 * v + u) + r
  <2>1. b * (2 * v + u) = b * (2 * v) + b * u
    BY <1>0, <1>3, <1>4
  <2>2. b * (2 * v) \in Int /\ b * u \in Int /\ r \in Int
    BY <1>0, <1>3, <1>4
  <2> QED BY <1>2, <1>3, <1>4, <2>1, <2>2
<1>6. x \div b = 2 * v + u
  <2> DEFINE w == 2 * v + u
  <2>1. w \in Int /\ x \in Int
    BY <1>3, <1>4
  <2>2. x = b * w + r
    BY <1>5
  <2> HIDE DEF w
  <2>3. x \div b = w
    BY <1>0, <1>3, <2>1, <2>2, DivUnique
  <2> QED BY <2>3 DEF w
<1>7. (2 * v + u) % 2 = u % 2
  BY <1>3, <1>4
<1> QED BY <1>6, <1>7 DEF HasBit, u, y

\* A word below p = 2 * q is its top bit and the rest.
LEMMA TopBit ==
  ASSUME NEW q \in Nat \ {0}, NEW x \in 0..2 * q - 1
  PROVE  /\ x % q \in 0..q - 1 /\ x = (IF HasBit(x, q) THEN q ELSE 0) + (x % q)
<1>1. x \div q \in Int /\ x % q \in 0..q - 1 /\ x = q * (x \div q) + (x % q)
  BY DivFacts
<1>2. x \div q \in {0, 1}
  BY <1>1
<1>3. CASE x \div q = 0
  BY <1>1, <1>3 DEF HasBit
<1>4. CASE x \div q = 1
  BY <1>1, <1>4 DEF HasBit
<1> QED BY <1>2, <1>3, <1>4

\* A number whose bits another has too is no larger.
LEMMA SubBits ==
  \A p \in Powers : \A x \in 0..p - 1, z \in 0..p - 1 :
    (\A b \in Powers : b < p /\ HasBit(z, b) => HasBit(x, b)) => z <= x
<1> DEFINE Fits(p, x, z) == \A b \in Powers : b < p /\ HasBit(z, b) => HasBit(x, b)
           T == {p \in Powers : \E x \in 0..p - 1, z \in 0..p - 1 : Fits(p, x, z) /\ ~(z <= x)}
<1>0. Powers \subseteq Nat \ {0}
  BY WordFacts DEF Powers
<1>1. T = {}
  <2> SUFFICES ASSUME T # {} PROVE FALSE
    OBVIOUS
  <2>1. PICK p \in T : \A c \in T : p <= c
    <3>1. T \subseteq Nat
      BY <1>0
    <3> HIDE DEF T
    <3> QED BY <3>1, LeastNat
  <2>2. PICK x \in 0..p - 1, z \in 0..p - 1 : Fits(p, x, z) /\ ~(z <= x)
    BY <2>1
  <2>3. p \in Powers /\ p \in Nat \ {0} /\ p > 1
    BY <1>0, <2>1, <2>2
  <2>4. PICK q \in Powers : p = 2 * q
    BY <2>3, HalfPower
  <2>5. q \in Nat \ {0} /\ q < p /\ q \notin T
    <3>1. q \in Nat \ {0} /\ q < p
      BY <1>0, <2>3, <2>4
    <3> HIDE DEF T
    <3> QED BY <2>1, <2>3, <3>1
  <2>6. /\ x % q \in 0..q - 1 /\ x = (IF HasBit(x, q) THEN q ELSE 0) + (x % q)
        /\ z % q \in 0..q - 1 /\ z = (IF HasBit(z, q) THEN q ELSE 0) + (z % q)
    BY <2>2, <2>4, <2>5, TopBit
  <2>7. Fits(q, x % q, z % q)
    <3> SUFFICES ASSUME NEW b \in Powers, b < q, HasBit(z % q, b) PROVE HasBit(x % q, b)
      OBVIOUS
    <3>1. x \in Nat /\ z \in Nat /\ b \in Nat /\ b < p
      BY <1>0, <2>2, <2>3, <2>5
    <3>2. HasBit(z, b)
      BY <3>1, BitOfRest
    <3>3. HasBit(x, b)
      BY <2>2, <3>1, <3>2
    <3> QED BY <3>1, <3>3, BitOfRest
  <2>8. z % q <= x % q
    BY <2>5, <2>6, <2>7
  <2>9. HasBit(z, q) => HasBit(x, q)
    BY <2>2, <2>5
  <2> QED BY <2>2, <2>5, <2>6, <2>8, <2>9
<1> QED BY <1>1

\* Any two numbers have a number of their common bits.
LEMMA CommonBits ==
  \A p \in Powers : \A x \in 0..p - 1, y \in 0..p - 1 :
    \E z \in 0..p - 1 : \A b \in Powers : b < p => (HasBit(z, b) <=> HasBit(x, b) /\ HasBit(y, b))
<1> DEFINE And(p, x, y, z) == \A b \in Powers : b < p => (HasBit(z, b) <=> HasBit(x, b) /\ HasBit(y, b))
           T == {p \in Powers : \E x \in 0..p - 1, y \in 0..p - 1 : ~ \E z \in 0..p - 1 : And(p, x, y, z)}
<1>0. Powers \subseteq Nat \ {0}
  BY WordFacts DEF Powers
<1>1. T = {}
  <2> SUFFICES ASSUME T # {} PROVE FALSE
    OBVIOUS
  <2>1. PICK p \in T : \A c \in T : p <= c
    <3>1. T \subseteq Nat
      BY <1>0
    <3> HIDE DEF T
    <3> QED BY <3>1, LeastNat
  <2>2. PICK x \in 0..p - 1, y \in 0..p - 1 : ~ \E z \in 0..p - 1 : And(p, x, y, z)
    BY <2>1
  <2>3. p \in Powers /\ p \in Nat \ {0}
    BY <1>0, <2>1
  <2>4. CASE p = 1
    <3>1. \A b \in Powers : ~(b < 1)
      BY <1>0
    <3>2. And(p, x, y, 0) /\ 0 \in 0..p - 1
      BY <2>4, <3>1
    <3> QED BY <2>2, <3>2
  <2>5. CASE p # 1
    <3>0. p > 1
      BY <2>3, <2>5
    <3>1. PICK q \in Powers : p = 2 * q
      BY <2>3, <3>0, HalfPower
    <3>2. q \in Nat \ {0} /\ q < p /\ q \notin T
      <4>1. q \in Nat \ {0} /\ q < p
        BY <1>0, <2>3, <3>1
      <4> HIDE DEF T
      <4> QED BY <2>1, <2>3, <4>1
    <3>3. x % q \in 0..q - 1 /\ y % q \in 0..q - 1 /\ x \in Nat /\ y \in Nat
      <4>1. x \in 0..2 * q - 1 /\ y \in 0..2 * q - 1 /\ x \in Nat /\ y \in Nat
        BY <2>3, <3>1
      <4> QED BY <3>2, <4>1, TopBit
    <3>4. PICK t \in 0..q - 1 : And(q, x % q, y % q, t)
      BY <3>2, <3>3
    <3> DEFINE top == IF HasBit(x, q) /\ HasBit(y, q) THEN 1 ELSE 0
               z == q * top + t
    <3>5. top \in {0, 1}
      OBVIOUS
    <3> HIDE DEF top
    <3>6. z \in 0..p - 1 /\ z \div q = top /\ z % q = t
      <4>1. top \in Int
        BY <3>5
      <4>2. z \div q = top /\ z % q = t
        <5>1. z \in Int /\ z = q * top + t
          BY <3>2, <4>1
        <5> HIDE DEF z
        <5> QED BY <3>2, <4>1, <5>1, DivUnique
      <4>3. z \in 0..p - 1
        BY <3>1, <3>2, <3>5
      <4> QED BY <4>2, <4>3
    <3> HIDE DEF z
    <3>7. HasBit(z, q) <=> HasBit(x, q) /\ HasBit(y, q)
      <4>1. (top % 2 = 1) <=> top = 1
        BY <3>5
      <4> QED BY <3>6, <4>1 DEF HasBit, top
    <3>8. ASSUME NEW b \in Powers, b < p PROVE HasBit(z, b) <=> HasBit(x, b) /\ HasBit(y, b)
      <4>0. b \in Nat \ {0} /\ z \in Nat
        BY <1>0, <3>6
      <4>1. CASE b = q
        BY <3>7, <4>1
      <4>2. CASE b < q
        <5>1. /\ HasBit(z, b) <=> HasBit(t, b)
              /\ HasBit(x, b) <=> HasBit(x % q, b)
              /\ HasBit(y, b) <=> HasBit(y % q, b)
          BY <3>3, <3>6, <4>0, <4>2, BitOfRest
        <5> QED BY <3>4, <4>2, <5>1
      <4>3. CASE q < b
        <5>1. PICK n \in Nat : n >= 1 /\ b = (2 * n) * q
          BY <4>3, PowersDivide
        <5>2. (2 * n) * q >= 2 * q
          BY <3>2, <5>1
        <5> QED BY <3>1, <3>2, <3>8, <4>0, <5>1, <5>2
      <4> QED BY <3>2, <4>0, <4>1, <4>2, <4>3
    <3> QED BY <2>2, <3>6, <3>8
  <2> QED BY <2>4, <2>5
<1> QED BY <1>1

\* The common bits are no more than either; a mask of 2^n - 1 keeps what fits it.
LEMMA BitAndFacts ==
  ASSUME NEW x \in 0..WORD - 1, NEW y \in 0..WORD - 1
  PROVE  /\ BitAnd(x, y) \in 0..WORD - 1 /\ BitAnd(x, y) <= x /\ BitAnd(x, y) <= y
         /\ x <= y /\ y + 1 \in Powers => BitAnd(x, y) = x
<1> DEFINE z == BitAnd(x, y)
<1>0. WORD \in Powers /\ WORD \in Nat /\ \A b \in Powers : b \in Nat \ {0} /\ b <= WORD /\ (b < WORD <=> b # WORD)
  BY WordAssumption DEF Powers
<1>1. z \in 0..WORD - 1 /\ \A b \in Powers \ {WORD} : HasBit(z, b) <=> HasBit(x, b) /\ HasBit(y, b)
  <2> DEFINE P(w) == \A b \in Powers \ {WORD} : HasBit(w, b) <=> HasBit(x, b) /\ HasBit(y, b)
  <2>1. \E w \in 0..WORD - 1 : P(w)
    <3>1. \E w \in 0..WORD - 1 : \A b \in Powers : b < WORD => (HasBit(w, b) <=> HasBit(x, b) /\ HasBit(y, b))
      BY <1>0, CommonBits
    <3> QED BY <1>0, <3>1
  <2>2. z = CHOOSE w \in 0..WORD - 1 : P(w)
    BY DEF BitAnd
  <2> HIDE DEF P, z
  <2>3. z \in 0..WORD - 1 /\ P(z)
    BY <2>1, <2>2
  <2> QED BY <2>3 DEF P
<1> HIDE DEF z
<1>2. z <= x /\ z <= y
  <2>1. \A b \in Powers : b < WORD /\ HasBit(z, b) => HasBit(x, b) /\ HasBit(y, b)
    BY <1>0, <1>1
  <2> QED BY <1>0, <1>1, <2>1, SubBits
<1>3. ASSUME x <= y, y + 1 \in Powers PROVE z = x
  <2>1. ASSUME NEW b \in Powers, b < WORD, HasBit(x, b) PROVE HasBit(z, b)
    <3>0. b \in Nat \ {0} /\ x \in Nat /\ y \in Nat
      BY <1>0
    <3>1. b <= x
      <4> SUFFICES ASSUME x < b PROVE FALSE
        BY <3>0
      <4>1. x \div b = 0
        <5>1. x = b * 0 + x /\ x \in 0..b - 1
          BY <3>0
        <5> QED BY <3>0, <5>1, DivUnique
      <4> QED BY <2>1, <4>1 DEF HasBit
    <3>2. b < y + 1
      BY <1>3, <3>0, <3>1
    <3>3. PICK n \in Nat : n >= 1 /\ y + 1 = (2 * n) * b
      BY <1>3, <3>2, PowersDivide
    <3>4. y = b * (2 * n - 1) + (b - 1)
      <4>1. (2 * n) * b = b * (2 * n - 1) + b
        BY <3>0, <3>3
      <4>2. b * (2 * n - 1) \in Int
        BY <3>0, <3>3
      <4> QED BY <3>0, <3>3, <4>1, <4>2
    <3>5. y \div b = 2 * n - 1
      <4>1. 2 * n - 1 \in Int /\ b - 1 \in 0..b - 1
        BY <3>0, <3>3
      <4> QED BY <3>0, <3>4, <4>1, DivUnique
    <3>6. HasBit(y, b)
      BY <3>3, <3>5 DEF HasBit
    <3> QED BY <1>0, <1>1, <2>1, <3>6
  <2>2. x <= z
    BY <1>0, <1>1, <2>1, SubBits
  <2> QED BY <1>1, <1>2, <2>2
<1> QED BY <1>1, <1>2, <1>3 DEF z

-----------------------------------------------------------------------------
(* The operations.  X is the word the operand leaves.                      *)

LEMMA ExpressionFacts ==
  ASSUME NEW e \in Expression
  PROVE  /\ e.op \in {"id", "zext", "sext", "and", "shr_u", "umod", "smod"} /\ e.arg \in Ranges
         /\ (e.op \in {"zext", "sext", "shr_u"} => e.arg.lo > 0) /\ e.mul \in Int /\ e.add \in Int
<1>1. /\ e \in [mul : Int, add : Int, arg : Ranges, op : {"id", "zext", "sext", "and", "shr_u", "umod", "smod"}]
      /\ e.op \in {"zext", "shr_u"} => e.arg.lo \in Powers
      /\ e.op = "sext" => 2 * e.arg.lo \in Powers
  BY DEF Expression
<1>2. \A x \in Int : x \in Powers \/ 2 * x \in Powers => x > 0
  BY DEF Powers
<1>3. e.arg.lo \in Int
  BY <1>1, RangeFacts
<1> QED BY <1>1, <1>2, <1>3

\* An operand's words, and its signed words.
WordsOf(x)  == IF Known(x) THEN intoWord(x) ELSE None
SignedsOf(x) == IF Known(x) THEN intoSigned(x) ELSE None

LEMMA WordsOfFacts ==
  ASSUME NEW x \in Answered
  PROVE  /\ WordsOf(x) \in Ranges \cup {None}
         /\ WordsOf(x) # None => 0 <= WordsOf(x).lo /\ WordsOf(x).hi < WORD
         /\ \A X \in 0..WORD - 1 : Holds(x, X) /\ WordsOf(x) # None
              => /\ X \in Points(WordsOf(x)) /\ WordsOf(x).lo <= X /\ X <= WordsOf(x).hi
                 /\ Holds(WordsOf(x), X)
<1>1. CASE x \in Ranges
  <2> DEFINE w == intoWord(x)
  <2>1. WordsOf(x) = w
    BY <1>1, RangeFacts DEF WordsOf, Known
  <2>2. w = None \/ (w \in Ranges /\ 0 <= w.lo /\ w.hi < WORD /\ \A y \in Points(x) : mod(y) \in Points(w))
    BY <1>1, IntoWordFacts DEF ByWords
  <2> HIDE DEF w
  <2>3. ASSUME NEW X \in 0..WORD - 1, Holds(x, X), w # None
        PROVE  X \in Points(w) /\ w.lo <= X /\ X <= w.hi /\ Holds(w, X)
    <3>1. X \in Points(w)
      BY <1>1, <2>2, <2>3, RangeFacts DEF Holds
    <3> QED BY <2>2, <2>3, <3>1, PointsAre, ModOfWord DEF Holds
  <2> QED BY <2>1, <2>2, <2>3
<1>2. CASE x \in {None, Never}
  BY <1>2 DEF WordsOf, Known
<1> QED BY <1>1, <1>2 DEF Answered

LEMMA SignedsOfFacts ==
  ASSUME NEW x \in Answered
  PROVE  /\ SignedsOf(x) \in Ranges \cup {None}
         /\ SignedsOf(x) # None => S_MIN <= SignedsOf(x).lo /\ SignedsOf(x).hi <= S_MAX
         /\ \A X \in 0..WORD - 1 : Holds(x, X) /\ SignedsOf(x) # None
              => /\ ToSigned(X) \in Points(SignedsOf(x)) /\ SignedsOf(x).lo <= ToSigned(X) /\ ToSigned(X) <= SignedsOf(x).hi
                 /\ Holds(SignedsOf(x), X)
<1>1. CASE x \in Ranges
  <2> DEFINE w == intoSigned(x)
  <2>1. SignedsOf(x) = w
    BY <1>1, RangeFacts DEF SignedsOf, Known
  <2>2. w = None \/ (w \in Ranges /\ S_MIN <= w.lo /\ w.hi <= S_MAX /\ \A y \in Points(x) : ToSigned(y) \in Points(w))
    BY <1>1, IntoSignedFacts DEF ByWords
  <2> HIDE DEF w
  <2>3. ASSUME NEW X \in 0..WORD - 1, Holds(x, X), w # None
        PROVE  ToSigned(X) \in Points(w) /\ w.lo <= ToSigned(X) /\ ToSigned(X) <= w.hi /\ Holds(w, X)
    <3>1. PICK y \in Points(x) : mod(y) = X
      BY <1>1, <2>3, RangeFacts DEF Holds
    <3>2. y \in Int /\ ToSigned(X) = ToSigned(y)
      BY <1>1, <3>1, PointsAre, SignedFacts
    <3>3. ToSigned(X) \in Points(w) /\ mod(ToSigned(X)) = X
      BY <2>2, <2>3, <3>1, <3>2, SignedFacts
    <3> QED BY <2>2, <2>3, <3>3, PointsAre DEF Holds
  <2> QED BY <2>1, <2>2, <2>3
<1>2. CASE x \in {None, Never}
  BY <1>2 DEF SignedsOf, Known
<1> QED BY <1>1, <1>2 DEF Answered

\* A span holds every word in it.
LEMMA SpanHolds ==
  ASSUME NEW lo \in Int, NEW hi \in Int, NEW v \in Int, lo <= v, v <= hi
  PROVE  Span(lo, hi) \in Ranges /\ Holds(Span(lo, hi), mod(v)) /\ (v \in 0..WORD - 1 => Holds(Span(lo, hi), v))
<1>1. lo <= hi /\ v \in lo..hi
  OBVIOUS
<1>2. Span(lo, hi) \in Ranges /\ v \in Points(Span(lo, hi))
  BY <1>1, SpanFacts, SpanPoints
<1> QED BY <1>2, ModOfWord DEF Holds

\* A shift divides the stride where it can.
LEMMA ShiftSound ==
  ASSUME NEW w \in Ranges, NEW by \in Nat \ {0}
  PROVE  LET lo == w.lo \div by
             top == w.hi \div by
             r == Strided(lo, top, IF lo = top THEN 0 ELSE IF w.stride % by = 0 THEN w.stride \div by ELSE 1)
         IN  r \in Ranges /\ \A X \in Points(w) : X \div by \in Points(r)
<1> DEFINE lo == w.lo \div by
           top == w.hi \div by
           t == w.stride \div by
           s == IF lo = top THEN 0 ELSE IF w.stride % by = 0 THEN t ELSE 1
           r == Strided(lo, top, s)
<1>0. w.lo \in Int /\ w.hi \in Int /\ w.lo <= w.hi /\ w.stride \in Nat /\ (w.stride = 0 <=> w.lo = w.hi)
  BY RangeFacts
<1>1. lo \in Int /\ top \in Int /\ lo <= top
  BY <1>0, DivMonotone, DivFacts
<1>2. \A a \in Int, n \in Int : (a + n * by) \div by = a \div by + n
  <2> SUFFICES ASSUME NEW a \in Int, NEW n \in Int PROVE (a + n * by) \div by = a \div by + n
    OBVIOUS
  <2>1. a \div by \in Int /\ a % by \in 0..by - 1 /\ a = by * (a \div by) + (a % by)
    BY DivFacts
  <2>2. a + n * by = by * (a \div by + n) + (a % by) /\ a + n * by \in Int /\ a \div by + n \in Int
    BY <2>1
  <2> QED BY <2>1, <2>2, DivUnique
<1>3. t \in Nat /\ (w.stride % by = 0 => w.stride = t * by)
  BY <1>0
<1> HIDE DEF t
<1>4. ASSUME NEW X \in Points(w) PROVE X \div by \in Int /\ lo <= X \div by /\ X \div by <= top /\ Divides(s, X \div by - lo)
  <2>0. X \in Int /\ w.lo <= X /\ X <= w.hi /\ Divides(w.stride, X - w.lo)
    BY PointsAre
  <2>1. X \div by \in Int /\ lo <= X \div by /\ X \div by <= top
    BY <1>0, <2>0, DivMonotone, DivFacts
  <2>2. CASE lo = top
    <3>1. X \div by - lo = 0 /\ s = 0
      BY <1>1, <2>1, <2>2
    <3> QED BY <2>1, <3>1, DividesSelf
  <2>3. CASE lo # top /\ w.stride % by = 0
    <3>1. PICK n \in Int : X - w.lo = n * w.stride
      BY <2>0 DEF Divides
    <3>2. X = w.lo + (n * t) * by /\ n * t \in Int
      <4>1. n * (t * by) = (n * t) * by /\ n * t \in Int
        BY <1>3
      <4>2. n * w.stride = n * (t * by)
        BY <1>3, <2>3
      <4> QED BY <1>0, <2>0, <3>1, <4>1, <4>2
    <3>3. X \div by = lo + n * t
      BY <1>0, <1>2, <3>2
    <3>4. X \div by - lo = n * t /\ s = t
      BY <1>1, <2>3, <3>2, <3>3
    <3> QED BY <2>1, <3>4 DEF Divides
  <2>4. CASE lo # top /\ w.stride % by # 0
    <3>1. s = 1 /\ X \div by - lo \in Int
      BY <1>1, <2>1, <2>4
    <3> QED BY <2>1, <3>1, DividesSelf
  <2> QED BY <2>2, <2>3, <2>4
<1>5. s \in Nat /\ (s = 0 <=> lo = top)
  <2>1. ASSUME lo # top, w.stride % by = 0 PROVE t # 0
    <3>1. w.stride # 0
      BY <1>0, <2>1
    <3> QED BY <1>3, <2>1, <3>1
  <2> QED BY <1>3, <2>1
<1>6. Divides(s, top - lo)
  <2>1. w.hi \in Points(w)
    BY PointsAre
  <2> QED BY <1>4, <2>1
<1> HIDE DEF s, lo, top
<1>7. r \in Ranges /\ r.lo = lo /\ r.hi = top /\ r.stride = s
  BY <1>1, <1>5, <1>6, MakeRange
<1> HIDE DEF r
<1>8. \A X \in Points(w) : X \div by \in Points(r)
  BY <1>4, <1>7, PointsAre
<1> QED BY <1>7, <1>8 DEF r, s, t, lo, top

\* What zext, and and shr_u leave of X.
MaskedWord(e, X) == CASE e.op = "zext"  -> X % e.arg.lo
                      [] e.op = "and"   -> BitAnd(X, mod(e.arg.lo))
                      [] e.op = "shr_u" -> X \div e.arg.lo

LEMMA ShiftMaskSound ==
  ASSUME NEW e \in Expression, e.op \in {"zext", "and", "shr_u"},
         NEW w \in Ranges \cup {None}, w # None => 0 <= w.lo /\ w.hi < WORD
  PROVE  /\ shiftMaskRange(e, w) \in Ranges \cup {None}
         /\ \A X \in 0..WORD - 1 : (w # None => X \in Points(w))
              => /\ MaskedWord(e, X) \in 0..WORD - 1
                 /\ Holds(shiftMaskRange(e, w), MaskedWord(e, X))
<1> DEFINE c == e.arg.lo
           m == mod(c)
<1>0. /\ e.arg \in Ranges /\ c \in Int /\ (e.op \in {"zext", "shr_u"} => c \in Nat \ {0}) /\ m \in 0..WORD - 1
      /\ WORD \in Nat
  <2>1. e.arg \in Ranges /\ (e.op \in {"zext", "shr_u"} => e.arg.lo > 0)
    BY ExpressionFacts
  <2> QED BY <2>1, RangeFacts, ModFacts, WordFacts
<1>1. w # None => /\ w \in Ranges /\ w.lo \in Int /\ w.hi \in Int /\ w.lo <= w.hi
                  /\ \A X \in Points(w) : X \in Int /\ w.lo <= X /\ X <= w.hi
  BY RangeFacts, PointsAre
<1>2. CASE e.op = "zext"
  <2>1. shiftMaskRange(e, w) = (IF w # None /\ w.hi < c THEN w ELSE None)
    BY <1>2 DEF shiftMaskRange
  <2>2. ASSUME NEW X \in 0..WORD - 1, w # None => X \in Points(w)
        PROVE  MaskedWord(e, X) \in 0..WORD - 1 /\ Holds(shiftMaskRange(e, w), MaskedWord(e, X))
    <3>1. MaskedWord(e, X) = X % c
      BY <1>2 DEF MaskedWord
    <3>2. X % c \in 0..c - 1 /\ X % c <= X
      <4>1. c \in Nat \ {0} /\ X \in Nat
        BY <1>0, <1>2
      <4> HIDE DEF c
      <4> QED BY <4>1
    <3>3. X % c \in 0..WORD - 1
      BY <1>0, <3>2
    <3>4. CASE w # None /\ w.hi < c
      <4>1. X <= w.hi /\ X < c
        BY <1>0, <1>1, <2>2, <3>4
      <4>2. X % c = X
        <5>1. c \in Nat \ {0} /\ X \in 0..c - 1
          BY <1>0, <1>2, <4>1
        <5> HIDE DEF c
        <5> QED BY <5>1
      <4>3. mod(X) = X
        BY ModOfWord
      <4> QED BY <1>1, <2>1, <2>2, <3>1, <3>3, <3>4, <4>2, <4>3 DEF Holds
    <3>5. CASE ~(w # None /\ w.hi < c)
      BY <2>1, <3>1, <3>3, <3>5 DEF Holds
    <3> QED BY <3>4, <3>5
  <2> QED BY <2>1, <2>2
<1>3. CASE e.op = "and"
  <2> DEFINE hi == IF w = None THEN m ELSE Min({m, w.hi})
  <2>1. shiftMaskRange(e, w) = (IF w # None /\ w.hi <= m /\ m + 1 \in Powers THEN w ELSE Span(0, hi))
    BY <1>3 DEF shiftMaskRange
  <2>2. hi \in Int /\ 0 <= hi /\ (hi = m \/ (w # None /\ hi = w.hi))
    <3>1. CASE w = None
      BY <1>0, <3>1
    <3>2. CASE w # None
      <4>1. hi = (IF m <= w.hi THEN m ELSE w.hi)
        <5>1. m \in Int /\ w.hi \in Int
          BY <1>0, <1>1, <3>2
        <5> HIDE DEF m
        <5> QED BY <3>2, <5>1, MaxOfTwo
      <4> HIDE DEF hi
      <4> QED BY <1>0, <1>1, <3>2, <4>1
    <3> QED BY <3>1, <3>2
  <2> HIDE DEF hi
  <2>3. shiftMaskRange(e, w) \in Ranges \cup {None}
    BY <2>1, <2>2, SpanFacts
  <2>4. ASSUME NEW X \in 0..WORD - 1, w # None => X \in Points(w)
        PROVE  MaskedWord(e, X) \in 0..WORD - 1 /\ Holds(shiftMaskRange(e, w), MaskedWord(e, X))
    <3> DEFINE z == MaskedWord(e, X)
    <3>1. z = BitAnd(X, m)
      BY <1>3 DEF MaskedWord
    <3>2. z \in 0..WORD - 1 /\ z <= X /\ z <= m /\ (X <= m /\ m + 1 \in Powers => z = X)
      BY <1>0, <3>1, BitAndFacts
    <3> HIDE DEF z
    <3>3. CASE w # None /\ w.hi <= m /\ m + 1 \in Powers
      <4>1. X <= m
        BY <1>0, <1>1, <2>4, <3>3
      <4>2. z = X /\ mod(X) = X
        BY <3>2, <3>3, <4>1, ModOfWord
      <4> QED BY <1>1, <2>1, <2>4, <3>2, <3>3, <4>2 DEF Holds, z
    <3>4. CASE ~(w # None /\ w.hi <= m /\ m + 1 \in Powers)
      <4>1. z <= hi /\ 0 <= z /\ z \in Int
        BY <1>0, <1>1, <2>2, <2>4, <3>2
      <4>2. Holds(Span(0, hi), z)
        BY <2>2, <3>2, <4>1, SpanHolds
      <4> QED BY <2>1, <3>2, <3>4, <4>2 DEF z
    <3> QED BY <3>3, <3>4
  <2> QED BY <2>3, <2>4
<1>4. CASE e.op = "shr_u"
  <2> DEFINE lo == w.lo \div c
             top == w.hi \div c
             q == Strided(lo, top, IF lo = top THEN 0 ELSE IF w.stride % c = 0 THEN w.stride \div c ELSE 1)
  <2>1. shiftMaskRange(e, w) = (IF w = None THEN None ELSE q)
    BY <1>4 DEF shiftMaskRange
  <2>0. c \in Nat \ {0}
    BY <1>0, <1>4
  <2>2. w # None => q \in Ranges /\ \A X \in Points(w) : X \div c \in Points(q)
    BY <1>1, <2>0, ShiftSound
  <2> HIDE DEF q, c
  <2>3. ASSUME NEW X \in 0..WORD - 1, w # None => X \in Points(w)
        PROVE  MaskedWord(e, X) \in 0..WORD - 1 /\ Holds(shiftMaskRange(e, w), MaskedWord(e, X))
    <3>1. MaskedWord(e, X) = X \div c
      BY <1>4 DEF MaskedWord, c
    <3>2. X \div c \in 0..WORD - 1
      <4>1. X \in Nat /\ X < WORD
        BY <1>0
      <4>2. X \div c \in Nat /\ X \div c <= X
        BY <2>0, <4>1
      <4> QED BY <1>0, <4>1, <4>2
    <3>3. mod(X \div c) = X \div c
      BY <3>2, ModOfWord
    <3> QED BY <2>1, <2>2, <2>3, <3>1, <3>2, <3>3 DEF Holds
  <2> QED BY <2>1, <2>2, <2>3
<1> QED BY <1>2, <1>3, <1>4

LEMMA WidthSound ==
  ASSUME NEW e \in Expression, e.op \in {"zext", "and", "shr_u"}
  PROVE  /\ widthOf(e) \in Ranges \cup {None}
         /\ \A X \in 0..WORD - 1 : MaskedWord(e, X) \in 0..WORD - 1 => Holds(widthOf(e), MaskedWord(e, X))
<1> DEFINE c == e.arg.lo
           m == mod(c)
           P == {x \in Powers : x > m}
<1>0. c \in Int /\ (e.op \in {"zext", "shr_u"} => c \in Nat \ {0}) /\ m \in 0..WORD - 1 /\ WORD \in Nat
  <2>1. e.arg \in Ranges /\ (e.op \in {"zext", "shr_u"} => e.arg.lo > 0)
    BY ExpressionFacts
  <2> QED BY <2>1, RangeFacts, ModFacts, WordFacts
<1>1. CASE e.op = "zext"
  <2>1. widthOf(e) = Span(0, c - 1)
    BY <1>1 DEF widthOf
  <2>2. \A X \in 0..WORD - 1 : MaskedWord(e, X) = X % c /\ X % c \in 0..c - 1
    BY <1>0, <1>1 DEF MaskedWord
  <2>3. 0 \in Int /\ c - 1 \in Int /\ 0 <= c - 1
    BY <1>0, <1>1
  <2> HIDE DEF c
  <2>4. Span(0, c - 1) \in Ranges
    BY <2>3, SpanFacts
  <2>5. ASSUME NEW X \in 0..WORD - 1, MaskedWord(e, X) \in 0..WORD - 1 PROVE Holds(Span(0, c - 1), MaskedWord(e, X))
    <3>1. MaskedWord(e, X) \in Int /\ 0 <= MaskedWord(e, X) /\ MaskedWord(e, X) <= c - 1
      BY <2>2, <2>3
    <3> QED BY <2>3, <2>5, <3>1, SpanHolds
  <2> QED BY <2>1, <2>4, <2>5
<1>2. CASE e.op = "and" /\ m <= S_MAX
  <2> DEFINE p == Min(P)
  <2>1. widthOf(e) = Span(0, p - 1)
    BY <1>2 DEF widthOf
  <2>2. p \in P
    <3>1. WORD \in P /\ P \subseteq Int
      BY <1>0, WordAssumption DEF Powers
    <3>2. IsFiniteSet(P)
      <4>1. IsFiniteSet(1..WORD)
        BY <1>0, FS_Interval
      <4> QED BY <4>1, FS_Subset DEF Powers
    <3> HIDE DEF P
    <3> QED BY <3>1, <3>2, MaxFacts
  <2>3. p \in Int /\ m <= p - 1 /\ 0 <= p - 1
    BY <1>0, <2>2 DEF Powers
  <2> HIDE DEF p
  <2>4. Span(0, p - 1) \in Ranges
    BY <2>3, SpanFacts
  <2>5. ASSUME NEW X \in 0..WORD - 1, MaskedWord(e, X) \in 0..WORD - 1 PROVE Holds(Span(0, p - 1), MaskedWord(e, X))
    <3>1. MaskedWord(e, X) <= m
      BY <1>0, <1>2, BitAndFacts DEF MaskedWord
    <3>2. MaskedWord(e, X) \in Int /\ 0 <= MaskedWord(e, X) /\ MaskedWord(e, X) <= p - 1
      BY <1>0, <2>3, <2>5, <3>1
    <3> QED BY <2>3, <2>5, <3>2, SpanHolds
  <2> QED BY <2>1, <2>4, <2>5
<1>3. CASE e.op = "shr_u"
  <2> DEFINE top == (WORD - 1) \div c
  <2>1. widthOf(e) = Span(0, top) /\ \A X : MaskedWord(e, X) = X \div c
    BY <1>3 DEF widthOf, MaskedWord
  <2>2. c \in Nat \ {0} /\ WORD - 1 \in Int /\ 0 <= WORD - 1
    BY <1>0, <1>3
  <2> HIDE DEF c
  <2>3. top \in Int /\ 0 <= top
    BY <2>2
  <2>4. \A X \in 0..WORD - 1 : X \div c \in Int /\ X \div c <= top
    <3> SUFFICES ASSUME NEW X \in 0..WORD - 1 PROVE X \div c \in Int /\ X \div c <= top
      OBVIOUS
    <3>1. X \in Int /\ X <= WORD - 1
      BY <2>2
    <3> QED BY <2>2, <3>1, DivMonotone, DivFacts
  <2> HIDE DEF top
  <2>5. Span(0, top) \in Ranges
    BY <2>3, SpanFacts
  <2>6. ASSUME NEW X \in 0..WORD - 1, MaskedWord(e, X) \in 0..WORD - 1 PROVE Holds(Span(0, top), MaskedWord(e, X))
    <3>1. MaskedWord(e, X) \in Int /\ 0 <= MaskedWord(e, X) /\ MaskedWord(e, X) <= top
      BY <1>0, <2>1, <2>4, <2>6
    <3> QED BY <2>3, <2>6, <3>1, SpanHolds
  <2> QED BY <2>1, <2>5, <2>6
<1>4. CASE e.op = "and" /\ ~(m <= S_MAX)
  <2>1. widthOf(e) = None
    BY <1>4 DEF widthOf
  <2> QED BY <2>1 DEF Holds
<1> QED BY <1>1, <1>2, <1>3, <1>4

LEMMA UmodSound ==
  ASSUME NEW w \in Ranges \cup {None}, w # None => 0 <= w.lo /\ w.hi < WORD,
         NEW y \in Ranges \cup {None}, y # None => 0 <= y.lo /\ y.hi < WORD
  PROVE  /\ umodRange(w, y) \in Ranges \cup {None}
         /\ \A X \in 0..WORD - 1, d \in 0..WORD - 1 :
              (w # None => X \in Points(w)) /\ (y # None => y.lo <= d /\ d <= y.hi)
              => /\ d # 0 => X % d \in 0..WORD - 1 /\ Holds(umodRange(w, y), X % d)
                 /\ d = 0 => umodRange(w, y) = None
<1> DEFINE q == umodRange(w, y)
<1>0. /\ w # None => w \in Ranges /\ w.lo \in Int /\ w.hi \in Int /\ w.lo <= w.hi
                     /\ \A X \in Points(w) : X \in Int /\ w.lo <= X /\ X <= w.hi
      /\ y # None => y \in Ranges /\ y.lo \in Int /\ y.hi \in Int /\ y.lo <= y.hi
      /\ WORD \in Nat
  BY RangeFacts, PointsAre, WordFacts
<1>1. ASSUME NEW X \in 0..WORD - 1, NEW d \in 0..WORD - 1, d # 0
      PROVE  X % d \in 0..WORD - 1 /\ X % d <= d - 1 /\ X % d <= X /\ (X < d => X % d = X) /\ mod(X) = X
  <2>1. X \in Nat /\ d \in Nat \ {0}
    BY <1>0, <1>1
  <2>2. X % d \in 0..d - 1 /\ X % d <= X /\ (X < d => X % d = X)
    BY <2>1
  <2> QED BY <1>0, <2>1, <2>2, ModOfWord
<1>2. CASE y = None \/ (y # None /\ y.lo < 1)
  <2>1. q = None
    BY <1>2 DEF umodRange
  <2> QED BY <1>1, <2>1 DEF Holds
<1>3. CASE y # None /\ ~(y.lo < 1) /\ w = None
  <2>1. q = Span(0, y.hi - 1)
    BY <1>3 DEF umodRange
  <2>2. y.hi - 1 \in Int /\ 0 <= y.hi - 1
    BY <1>0, <1>3
  <2>3. Span(0, y.hi - 1) \in Ranges
    BY <2>2, SpanFacts
  <2>4. ASSUME NEW X \in 0..WORD - 1, NEW d \in 0..WORD - 1, y.lo <= d, d <= y.hi
        PROVE  d # 0 /\ X % d \in 0..WORD - 1 /\ Holds(Span(0, y.hi - 1), X % d)
    <3>1. d # 0
      BY <1>0, <1>3, <2>4
    <3>2. X % d \in 0..WORD - 1 /\ X % d <= d - 1
      BY <1>1, <3>1
    <3>3. X % d \in Int /\ 0 <= X % d /\ X % d <= y.hi - 1
      BY <1>0, <1>3, <2>4, <3>2
    <3> QED BY <2>2, <3>1, <3>2, <3>3, SpanHolds
  <2> QED BY <1>3, <2>1, <2>3, <2>4
<1>4. CASE y # None /\ ~(y.lo < 1) /\ w # None /\ w.hi < y.lo
  <2>1. q = w
    BY <1>4 DEF umodRange
  <2>2. ASSUME NEW X \in 0..WORD - 1, NEW d \in 0..WORD - 1, y.lo <= d, d <= y.hi, X \in Points(w)
        PROVE  d # 0 /\ X % d \in 0..WORD - 1 /\ Holds(w, X % d)
    <3>1. d # 0 /\ X < d
      BY <1>0, <1>4, <2>2
    <3>2. X % d = X /\ mod(X) = X
      BY <1>1, <3>1
    <3> QED BY <1>0, <1>4, <2>2, <3>1, <3>2 DEF Holds
  <2> QED BY <1>4, <2>1, <2>2
<1>5. CASE y # None /\ ~(y.lo < 1) /\ w # None /\ ~(w.hi < y.lo)
  <2> DEFINE hi == Min({y.hi - 1, w.hi})
  <2>1. q = Span(0, hi)
    BY <1>5 DEF umodRange
  <2>2. hi = (IF y.hi - 1 <= w.hi THEN y.hi - 1 ELSE w.hi)
    <3>1. y.hi - 1 \in Int /\ w.hi \in Int
      BY <1>0, <1>5
    <3> QED BY <3>1, MaxOfTwo
  <2> HIDE DEF hi
  <2>3. hi \in Int /\ 0 <= hi
    BY <1>0, <1>5, <2>2
  <2>4. Span(0, hi) \in Ranges
    BY <2>3, SpanFacts
  <2>5. ASSUME NEW X \in 0..WORD - 1, NEW d \in 0..WORD - 1, y.lo <= d, d <= y.hi, X \in Points(w)
        PROVE  d # 0 /\ X % d \in 0..WORD - 1 /\ Holds(Span(0, hi), X % d)
    <3>1. d # 0
      BY <1>0, <1>5, <2>5
    <3>2. X % d \in 0..WORD - 1 /\ X % d <= d - 1 /\ X % d <= X
      BY <1>1, <3>1
    <3>3. X % d \in Int /\ 0 <= X % d /\ X % d <= hi
      BY <1>0, <1>5, <2>2, <2>5, <3>2
    <3> QED BY <2>3, <3>1, <3>2, <3>3, SpanHolds
  <2> QED BY <1>5, <2>1, <2>4, <2>5
<1> QED BY <1>2, <1>3, <1>4, <1>5

LEMMA SRemFacts ==
  ASSUME NEW a \in Int, NEW b \in Int, b # 0
  PROVE  /\ SRem(a, b) \in Int /\ Abs(b) \in Nat \ {0}
         /\ 1 - Abs(b) <= SRem(a, b) /\ SRem(a, b) <= Abs(b) - 1
         /\ (IF a < 0 THEN a <= SRem(a, b) /\ SRem(a, b) <= 0 ELSE 0 <= SRem(a, b) /\ SRem(a, b) <= a)
         /\ -Abs(b) < a /\ a < Abs(b) => SRem(a, b) = a
<1> DEFINE d == Abs(b)
<1>0. d \in Nat \ {0}
  BY DEF Abs
<1> HIDE DEF d
<1>1. SRem(a, b) = (IF a < 0 THEN -((-a) % d) ELSE a % d)
  BY DEF SRem, d
<1>2. \A n \in Nat : n % d \in 0..d - 1 /\ n % d <= n /\ (n < d => n % d = n)
  BY <1>0
<1>3. CASE a < 0
  <2>1. -a \in Nat
    BY <1>3
  <2> QED BY <1>0, <1>1, <1>2, <1>3, <2>1 DEF d
<1>4. CASE ~(a < 0)
  BY <1>0, <1>1, <1>2, <1>4 DEF d
<1> QED BY <1>3, <1>4

LEMMA SmodOfSound ==
  ASSUME NEW x \in Ranges \cup {None}, NEW least \in Int, NEW most \in Int, 1 <= least, least <= most
  PROVE  /\ smodOf(x, least, most) \in Ranges \cup {None}
         /\ \A a \in Int, b \in Int :
              b # 0 /\ least <= Abs(b) /\ Abs(b) <= most /\ (x # None => a \in Points(x))
                => Holds(smodOf(x, least, most), mod(SRem(a, b)))
<1> DEFINE q == smodOf(x, least, most)
<1>0. x # None => /\ x \in Ranges /\ x.lo \in Int /\ x.hi \in Int /\ x.lo <= x.hi
                  /\ \A a \in Points(x) : a \in Int /\ x.lo <= a /\ a <= x.hi
  BY RangeFacts, PointsAre
<1>1. CASE x = None
  <2>1. q = Span(1 - most, most - 1)
    BY <1>1 DEF smodOf
  <2>2. 1 - most \in Int /\ most - 1 \in Int /\ 1 - most <= most - 1
    OBVIOUS
  <2>3. q \in Ranges
    BY <2>1, <2>2, SpanFacts
  <2>4. ASSUME NEW a \in Int, NEW b \in Int, b # 0, least <= Abs(b), Abs(b) <= most
        PROVE  Holds(q, mod(SRem(a, b)))
    <3>1. SRem(a, b) \in Int /\ 1 - most <= SRem(a, b) /\ SRem(a, b) <= most - 1
      <4>1. SRem(a, b) \in Int /\ Abs(b) \in Nat /\ 1 - Abs(b) <= SRem(a, b) /\ SRem(a, b) <= Abs(b) - 1
        BY <2>4, SRemFacts
      <4> QED BY <2>4, <4>1
    <3> QED BY <2>1, <2>2, <3>1, SpanHolds
  <2> QED BY <2>3, <2>4
<1>2. CASE x # None /\ -x.lo < least /\ x.hi < least
  <2>1. q = x
    BY <1>2 DEF smodOf
  <2>2. ASSUME NEW a \in Points(x), NEW b \in Int, b # 0, least <= Abs(b), Abs(b) <= most
        PROVE  Holds(q, mod(SRem(a, b)))
    <3>1. a \in Int /\ x.lo <= a /\ a <= x.hi /\ Abs(b) \in Nat
      BY <1>0, <1>2, <2>2, SRemFacts
    <3>2. -Abs(b) < a /\ a < Abs(b)
      BY <1>0, <1>2, <2>2, <3>1
    <3>3. SRem(a, b) = a
      BY <2>2, <3>1, <3>2, SRemFacts
    <3> QED BY <1>0, <1>2, <2>1, <3>3 DEF Holds
  <2> QED BY <1>0, <1>2, <2>1, <2>2
<1>3. CASE x # None /\ ~(-x.lo < least /\ x.hi < least)
  <2> DEFINE lo == IF x.lo < 0 THEN Max({1 - most, x.lo}) ELSE 0
             hi == IF x.hi > 0 THEN Min({most - 1, x.hi}) ELSE 0
  <2>1. q = Span(lo, hi)
    BY <1>3 DEF smodOf
  <2>2. /\ lo = (IF x.lo < 0 THEN IF 1 - most <= x.lo THEN x.lo ELSE 1 - most ELSE 0)
        /\ hi = (IF x.hi > 0 THEN IF most - 1 <= x.hi THEN most - 1 ELSE x.hi ELSE 0)
    <3>1. 1 - most \in Int /\ most - 1 \in Int /\ x.lo \in Int /\ x.hi \in Int
      BY <1>0, <1>3
    <3>2. /\ Max({1 - most, x.lo}) = (IF 1 - most <= x.lo THEN x.lo ELSE 1 - most)
          /\ Min({most - 1, x.hi}) = (IF most - 1 <= x.hi THEN most - 1 ELSE x.hi)
      BY <3>1, MaxOfTwo
    <3> QED BY <3>2
  <2> HIDE DEF lo, hi
  <2>3. lo \in Int /\ hi \in Int /\ lo <= 0 /\ 0 <= hi
    BY <1>0, <1>3, <2>2
  <2>4. q \in Ranges
    BY <2>1, <2>3, SpanFacts
  <2>5. ASSUME NEW a \in Points(x), NEW b \in Int, b # 0, least <= Abs(b), Abs(b) <= most
        PROVE  Holds(q, mod(SRem(a, b)))
    <3>1. a \in Int /\ x.lo <= a /\ a <= x.hi
      BY <1>0, <1>3
    <3>2. /\ SRem(a, b) \in Int /\ Abs(b) \in Nat \ {0}
          /\ 1 - Abs(b) <= SRem(a, b) /\ SRem(a, b) <= Abs(b) - 1
          /\ (IF a < 0 THEN a <= SRem(a, b) /\ SRem(a, b) <= 0 ELSE 0 <= SRem(a, b) /\ SRem(a, b) <= a)
      BY <2>5, <3>1, SRemFacts
    <3>3. lo <= SRem(a, b) /\ SRem(a, b) <= hi
      BY <1>0, <1>3, <2>2, <2>5, <3>1, <3>2
    <3> QED BY <2>1, <2>3, <3>2, <3>3, SpanHolds
  <2> QED BY <1>0, <1>3, <2>4, <2>5
<1> QED BY <1>1, <1>2, <1>3

LEMMA SmodSound ==
  ASSUME NEW x \in Ranges \cup {None}, NEW y \in Ranges \cup {None}
  PROVE  /\ smodRange(x, y) \in Ranges \cup {None}
         /\ \A a \in Int, b \in Int :
              (x # None => a \in Points(x)) /\ (y # None => b \in Points(y))
                => /\ b # 0 => Holds(smodRange(x, y), mod(SRem(a, b)))
                   /\ b = 0 => smodRange(x, y) = None
<1>0. y # None => /\ y \in Ranges /\ y.lo \in Int /\ y.hi \in Int /\ y.lo <= y.hi
                  /\ \A b \in Points(y) : b \in Int /\ y.lo <= b /\ b <= y.hi
  BY RangeFacts, PointsAre
<1>1. CASE y = None \/ (y # None /\ y.lo <= 0 /\ y.hi >= 0)
  <2>1. smodRange(x, y) = None
    BY <1>1 DEF smodRange
  <2> QED BY <2>1 DEF Holds
<1>2. CASE y # None /\ y.lo > 0
  <2>1. smodRange(x, y) = smodOf(x, y.lo, y.hi)
    BY <1>0, <1>2 DEF smodRange
  <2>2. \A b \in Points(y) : b \in Int /\ b # 0 /\ y.lo <= Abs(b) /\ Abs(b) <= y.hi
    BY <1>0, <1>2 DEF Abs
  <2>3. y.lo \in Int /\ y.hi \in Int /\ 1 <= y.lo /\ y.lo <= y.hi
    BY <1>0, <1>2
  <2> QED BY <1>2, <2>1, <2>2, <2>3, SmodOfSound
<1>3. CASE y # None /\ y.hi < 0
  <2>1. smodRange(x, y) = smodOf(x, -y.hi, -y.lo)
    BY <1>0, <1>3 DEF smodRange
  <2>2. \A b \in Points(y) : b \in Int /\ b # 0 /\ -y.hi <= Abs(b) /\ Abs(b) <= -y.lo
    BY <1>0, <1>3 DEF Abs
  <2>3. -y.lo \in Int /\ -y.hi \in Int /\ 1 <= -y.hi /\ -y.hi <= -y.lo
    BY <1>0, <1>3
  <2> QED BY <1>3, <2>1, <2>2, <2>3, SmodOfSound
<1>4. y # None => (y.lo > 0 \/ y.hi < 0 \/ (y.lo <= 0 /\ y.hi >= 0))
  BY <1>0
<1> QED BY <1>1, <1>2, <1>3, <1>4

\* The remainder of X by a divisor, for every word the divisor may be.
LEMMA RemainderSound ==
  ASSUME NEW e \in Expression, e.op \in {"umod", "smod"}, NEW x \in Answered,
         NEW X \in 0..WORD - 1, NEW y \in Points(e.arg)
  PROVE  /\ e.op = "umod" /\ Holds(x, X) =>
              \A v \in (IF mod(y) = 0 THEN 0..WORD - 1 ELSE {X % mod(y)}) :
                v \in 0..WORD - 1 /\ Holds(remainderRange(e, x), v)
         /\ e.op = "smod" /\ Holds(x, X) =>
              \A v \in (IF mod(y) = 0 THEN 0..WORD - 1 ELSE {mod(SRem(ToSigned(X), ToSigned(y)))}) :
                v \in 0..WORD - 1 /\ Holds(remainderRange(e, x), v)
<1>0. e.arg \in Ranges /\ y \in Int /\ X \in Int
  <2>1. e.arg \in Ranges
    BY ExpressionFacts
  <2> QED BY <2>1, PointsAre, WordFacts
<1>1. ASSUME e.op = "umod", Holds(x, X),
             NEW v \in (IF mod(y) = 0 THEN 0..WORD - 1 ELSE {X % mod(y)})
      PROVE  v \in 0..WORD - 1 /\ Holds(remainderRange(e, x), v)
  <2> DEFINE w == WordsOf(x)
             z == intoWord(e.arg)
             d == mod(y)
  <2>1. remainderRange(e, x) = umodRange(w, z)
    BY <1>1 DEF remainderRange, WordsOf
  <2>2. /\ w \in Ranges \cup {None} /\ (w # None => 0 <= w.lo /\ w.hi < WORD)
        /\ (w # None => X \in Points(w))
    BY <1>1, WordsOfFacts
  <2>3. /\ z \in Ranges \cup {None} /\ (z # None => 0 <= z.lo /\ z.hi < WORD)
        /\ (z # None => d \in Points(z))
    BY <1>0, IntoWordFacts DEF ByWords
  <2>4. d \in 0..WORD - 1
    BY <1>0, ModFacts
  <2>5. v \in (IF d = 0 THEN 0..WORD - 1 ELSE {X % d})
    BY <1>1
  <2> HIDE DEF w, z, d
  <2>6. z # None => z.lo <= d /\ d <= z.hi
    BY <2>3, PointsAre
  <2>7. /\ d # 0 => X % d \in 0..WORD - 1 /\ Holds(umodRange(w, z), X % d)
        /\ d = 0 => umodRange(w, z) = None
    BY <2>2, <2>3, <2>4, <2>6, UmodSound
  <2> QED BY <2>1, <2>5, <2>7 DEF Holds
<1>2. ASSUME e.op = "smod", Holds(x, X),
             NEW v \in (IF mod(y) = 0 THEN 0..WORD - 1 ELSE {mod(SRem(ToSigned(X), ToSigned(y)))})
      PROVE  v \in 0..WORD - 1 /\ Holds(remainderRange(e, x), v)
  <2> DEFINE w == SignedsOf(x)
             z == intoSigned(e.arg)
             a == ToSigned(X)
             b == ToSigned(y)
  <2>1. remainderRange(e, x) = smodRange(w, z)
    BY <1>2 DEF remainderRange, SignedsOf
  <2>2. w \in Ranges \cup {None} /\ (w # None => a \in Points(w))
    BY <1>2, SignedsOfFacts
  <2>3. z \in Ranges \cup {None} /\ (z # None => b \in Points(z))
    BY <1>0, IntoSignedFacts DEF ByWords
  <2>4. a \in Int /\ b \in Int
    BY <1>0, SignedFacts, WordFacts
  <2>5. mod(y) = 0 <=> b = 0
    <3>1. mod(b) = mod(y)
      BY <1>0, SignedFacts
    <3>2. mod(y) = 0 => b = 0
      BY WordFacts DEF ToSigned
    <3>3. mod(0) = 0
      <4>1. 0 \in 0..WORD - 1
        BY WordFacts
      <4> QED BY <4>1, ModOfWord
    <3> QED BY <3>1, <3>2, <3>3
  <2>6. v \in (IF mod(y) = 0 THEN 0..WORD - 1 ELSE {mod(SRem(a, b))})
    BY <1>2
  <2> HIDE DEF w, z, a, b
  <2>7. /\ b # 0 => Holds(smodRange(w, z), mod(SRem(a, b)))
        /\ b = 0 => smodRange(w, z) = None
    BY <2>2, <2>3, <2>4, SmodSound
  <2>8. b # 0 => mod(SRem(a, b)) \in 0..WORD - 1
    BY <2>4, SRemFacts, ModFacts
  <2> QED BY <2>1, <2>5, <2>6, <2>7, <2>8 DEF Holds
<1> QED BY <1>1, <1>2

\* What an operation leaves of its operand.
LEMMA OperationTyped ==
  ASSUME NEW e \in Expression, NEW x \in Answered
  PROVE  operationRange(e, x) \in Answered
<1>0. e.op \in {"id", "zext", "sext", "and", "shr_u", "umod", "smod"} /\ e.arg \in Ranges
      /\ (e.op = "sext" => TRUE) /\ (e.op \in {"zext", "sext", "shr_u"} => e.arg.lo > 0)
  BY ExpressionFacts
<1>1. CASE e.op = "id"
  BY <1>1 DEF operationRange
<1>2. CASE e.op = "sext"
  <2> DEFINE c == e.arg.lo
  <2>1. c \in Int /\ c > 0
    BY <1>0, <1>2, RangeFacts
  <2>2. operationRange(e, x) = Strided(-c, c - 1, 1)
    BY <1>2 DEF operationRange
  <2> HIDE DEF c
  <2>3. -c \in Int /\ c - 1 \in Int /\ -c <= c - 1 /\ -c # c - 1 /\ (c - 1) - (-c) \in Int
    BY <2>1
  <2>4. Divides(1, (c - 1) - (-c))
    BY <2>3, DividesSelf
  <2> QED BY <2>2, <2>3, <2>4, MakeRange DEF Answered
<1>3. CASE e.op \in {"umod", "smod"}
  <2>1. operationRange(e, x) = remainderRange(e, x)
    BY <1>3 DEF operationRange
  <2>2. intoWord(e.arg) \in Ranges \cup {None} /\ intoSigned(e.arg) \in Ranges \cup {None}
        /\ (intoWord(e.arg) # None => 0 <= intoWord(e.arg).lo /\ intoWord(e.arg).hi < WORD)
    BY <1>0, IntoWordFacts, IntoSignedFacts DEF ByWords
  <2>3. WordsOf(x) \in Ranges \cup {None} /\ SignedsOf(x) \in Ranges \cup {None}
        /\ (WordsOf(x) # None => 0 <= WordsOf(x).lo /\ WordsOf(x).hi < WORD)
    BY WordsOfFacts, SignedsOfFacts
  <2>4. remainderRange(e, x) \in {umodRange(WordsOf(x), intoWord(e.arg)), smodRange(SignedsOf(x), intoSigned(e.arg))}
    BY DEF remainderRange, WordsOf, SignedsOf
  <2>5. umodRange(WordsOf(x), intoWord(e.arg)) \in Ranges \cup {None}
    BY <2>2, <2>3, UmodSound
  <2>6. smodRange(SignedsOf(x), intoSigned(e.arg)) \in Ranges \cup {None}
    BY <2>2, <2>3, SmodSound
  <2> QED BY <2>1, <2>4, <2>5, <2>6 DEF Answered
<1>4. CASE e.op \in {"zext", "and", "shr_u"}
  <2>1. operationRange(e, x) = narrower(shiftMaskRange(e, WordsOf(x)), widthOf(e))
    BY <1>4 DEF operationRange, WordsOf
  <2>2. shiftMaskRange(e, WordsOf(x)) \in Ranges \cup {None}
    BY <1>4, WordsOfFacts, ShiftMaskSound
  <2>3. widthOf(e) \in Ranges \cup {None}
    BY <1>4, WidthSound
  <2> QED BY <2>1, <2>2, <2>3, NarrowerFacts DEF Answered
<1> QED BY <1>0, <1>1, <1>2, <1>3, <1>4

LEMMA OperationSound ==
  ASSUME NEW e \in Expression, NEW w \in Int, NEW x \in Answered, Holds(x, mod(e.mul * w + e.add)),
         NEW v \in Values(e, w)
  PROVE  v \in 0..WORD - 1 /\ Holds(operationRange(e, x), v)
<1> DEFINE X == mod(e.mul * w + e.add)
           c == e.arg.lo
<1>0. /\ e.op \in {"id", "zext", "sext", "and", "shr_u", "umod", "smod"} /\ e.arg \in Ranges
      /\ (e.op \in {"zext", "sext", "shr_u"} => c > 0) /\ e.mul \in Int /\ e.add \in Int /\ c \in Int
  <2>1. /\ e.op \in {"id", "zext", "sext", "and", "shr_u", "umod", "smod"} /\ e.arg \in Ranges
        /\ (e.op \in {"zext", "sext", "shr_u"} => c > 0) /\ e.mul \in Int /\ e.add \in Int
    BY ExpressionFacts
  <2> QED BY <2>1, RangeFacts
<1>1. X \in 0..WORD - 1
  <2>1. e.mul * w + e.add \in Int
    BY <1>0
  <2> QED BY <2>1, ModFacts
<1>2. Holds(x, X)
  OBVIOUS
<1>3. /\ e.op = "id" => v = X
      /\ e.op = "sext" => v = mod(((X + c) % (2 * c)) - c)
      /\ e.op \in {"zext", "and", "shr_u"} => v = MaskedWord(e, X)
      /\ e.op = "umod" => \E y \in Points(e.arg) : v \in (IF mod(y) = 0 THEN 0..WORD - 1 ELSE {X % mod(y)})
      /\ e.op = "smod" => \E y \in Points(e.arg) :
            v \in (IF mod(y) = 0 THEN 0..WORD - 1 ELSE {mod(SRem(ToSigned(X), ToSigned(y)))})
  <2>1. v \in (CASE e.op = "id"    -> {X}
        [] e.op = "zext"  -> {X % c}
        [] e.op = "sext"  -> {mod(((X + c) % (2 * c)) - c)}
        [] e.op = "and"   -> {BitAnd(X, mod(c))}
        [] e.op = "shr_u" -> {X \div c}
        [] e.op = "umod"  -> UNION {IF mod(y) = 0 THEN 0..WORD - 1 ELSE {X % mod(y)} : y \in Points(e.arg)}
        [] e.op = "smod"  -> UNION {IF mod(y) = 0 THEN 0..WORD - 1
                                    ELSE {mod(SRem(ToSigned(X), ToSigned(y)))} : y \in Points(e.arg)})
    BY DEF Values
  <2> HIDE DEF X
  <2>2. CASE e.op = "id"
    BY <2>1, <2>2
  <2>3. CASE e.op = "zext"
    BY <2>1, <2>3 DEF MaskedWord
  <2>4. CASE e.op = "sext"
    BY <2>1, <2>4
  <2>5. CASE e.op = "and"
    BY <2>1, <2>5 DEF MaskedWord
  <2>6. CASE e.op = "shr_u"
    BY <2>1, <2>6 DEF MaskedWord
  <2>7. CASE e.op = "umod"
    BY <2>1, <2>7
  <2>8. CASE e.op = "smod"
    BY <2>1, <2>8
  <2> QED BY <1>0, <2>2, <2>3, <2>4, <2>5, <2>6, <2>7, <2>8
<1> HIDE DEF X
<1>4. CASE e.op = "id"
  BY <1>1, <1>2, <1>3, <1>4 DEF operationRange
<1>5. CASE e.op = "sext"
  <2> DEFINE y == ((X + c) % (2 * c)) - c
             r == Strided(-c, c - 1, 1)
  <2>1. v = mod(y) /\ operationRange(e, x) = r
    BY <1>3, <1>5 DEF operationRange
  <2>2. c \in Nat \ {0} /\ X \in Int
    BY <1>0, <1>1, <1>5
  <2> HIDE DEF c
  <2>3. y \in -c..c - 1
    <3>1. (X + c) % (2 * c) \in 0..2 * c - 1
      <4>1. 2 * c \in Nat \ {0} /\ X + c \in Int
        BY <2>2
      <4> QED BY <4>1, DivFacts
    <3> QED BY <2>2, <3>1
  <2> HIDE DEF y
  <2>4. r \in Ranges /\ y \in Points(r)
    <3>1. /\ -c \in Int /\ c - 1 \in Int /\ -c <= c - 1 /\ -c # c - 1 /\ (c - 1) - (-c) \in Int
          /\ y \in Int /\ -c <= y /\ y <= c - 1 /\ y - (-c) \in Int
      BY <2>2, <2>3
    <3>2. Divides(1, (c - 1) - (-c)) /\ Divides(1, y - (-c))
      BY <3>1, DividesSelf
    <3>3. r \in Ranges /\ r.lo = -c /\ r.hi = c - 1 /\ r.stride = 1
      BY <3>1, <3>2, MakeRange
    <3> HIDE DEF r
    <3> QED BY <3>1, <3>2, <3>3, PointsAre
  <2>5. mod(y) \in 0..WORD - 1
    <3>1. y \in Int
      BY <2>2, <2>3
    <3> QED BY <3>1, ModFacts
  <2> QED BY <2>1, <2>4, <2>5 DEF Holds
<1>6. CASE e.op \in {"umod", "smod"}
  <2>1. operationRange(e, x) = remainderRange(e, x)
    BY <1>6 DEF operationRange
  <2>2. CASE e.op = "umod"
    <3>1. PICK y \in Points(e.arg) : v \in (IF mod(y) = 0 THEN 0..WORD - 1 ELSE {X % mod(y)})
      BY <1>3, <2>2
    <3> QED BY <1>1, <1>2, <2>1, <2>2, <3>1, RemainderSound
  <2>3. CASE e.op = "smod"
    <3>1. PICK y \in Points(e.arg) :
            v \in (IF mod(y) = 0 THEN 0..WORD - 1 ELSE {mod(SRem(ToSigned(X), ToSigned(y)))})
      BY <1>3, <2>3
    <3> QED BY <1>1, <1>2, <2>1, <2>3, <3>1, RemainderSound
  <2> QED BY <1>6, <2>2, <2>3
<1>7. CASE e.op \in {"zext", "and", "shr_u"}
  <2> DEFINE s == WordsOf(x)
  <2>1. operationRange(e, x) = narrower(shiftMaskRange(e, s), widthOf(e))
    BY <1>7 DEF operationRange, WordsOf
  <2>2. s \in Ranges \cup {None} /\ (s # None => 0 <= s.lo /\ s.hi < WORD) /\ (s # None => X \in Points(s))
    BY <1>1, <1>2, WordsOfFacts
  <2> HIDE DEF s
  <2>3. /\ shiftMaskRange(e, s) \in Ranges \cup {None}
        /\ MaskedWord(e, X) \in 0..WORD - 1 /\ Holds(shiftMaskRange(e, s), MaskedWord(e, X))
    BY <1>1, <1>7, <2>2, ShiftMaskSound
  <2>4. widthOf(e) \in Ranges \cup {None} /\ Holds(widthOf(e), MaskedWord(e, X))
    BY <1>1, <1>7, <2>3, WidthSound
  <2>5. Holds(narrower(shiftMaskRange(e, s), widthOf(e)), MaskedWord(e, X))
    BY <2>3, <2>4, NarrowerFacts
  <2> QED BY <1>3, <1>7, <2>1, <2>3, <2>5
<1> QED BY <1>0, <1>4, <1>5, <1>6, <1>7

LEMMA TermSound ==
  ASSUME NEW e \in Expression, NEW r \in Answered
  PROVE  /\ termRange(e, r) \in Answered
         /\ \A w \in Int : \A v \in Values(e, w) :
              Holds(r, mod(w)) => v \in 0..WORD - 1 /\ Holds(termRange(e, r), v)
<1>0. e.mul \in Int /\ e.add \in Int
  BY ExpressionFacts
<1>1. formRange(e, r) \in Answered
  BY <1>0, FormSound
<1>2. termRange(e, r) \in Answered
  BY <1>1, OperationTyped DEF termRange
<1>3. ASSUME NEW w \in Int, NEW v \in Values(e, w), Holds(r, mod(w))
      PROVE  v \in 0..WORD - 1 /\ Holds(termRange(e, r), v)
  <2>1. Holds(formRange(e, r), mod(e.mul * w + e.add))
    BY <1>0, <1>3, FormSound
  <2> QED BY <1>1, <2>1, OperationSound DEF termRange
<1> QED BY <1>2, <1>3

-----------------------------------------------------------------------------
(* What a back edge passes.                                                *)

LEMMA ProgramFacts ==
  ASSUME NEW programs \in Families, NEW p \in programs
  PROVE  /\ p.start \in Ranges /\ IsFiniteSet(p.edges) /\ p.use \in Expression /\ p.guard \in Condition \cup {None}
         /\ \A e \in p.edges : e \in BackEdge /\ e.arg \in Expression
                               /\ e.onK \in Condition \cup {None} /\ e.onNext \in Condition \cup {None}
<1>1. p \in Program /\ IsFiniteSet(p.edges)
  BY ProgramsAssumption
<1>2. /\ p.start \in Ranges /\ p.edges \in SUBSET BackEdge
      /\ p.use \in Expression /\ p.guard \in Condition \cup {None}
  BY <1>1 DEF Program
<1>3. \A e \in BackEdge : e.arg \in Expression
                          /\ e.onK \in Condition \cup {None} /\ e.onNext \in Condition \cup {None}
  BY DEF BackEdge
<1> QED BY <1>1, <1>2, <1>3

\* A word the edge may pass, from a word the counter may be, is in what the edge is said to pass.
LEMMA EdgeSound ==
  ASSUME NEW e \in BackEdge, NEW r \in Answered
  PROVE  /\ edgeRange(e, r) \in Answered
         /\ \A w \in Int : \A v \in Values(e.arg, w) :
              Holds(r, mod(w)) /\ Passes(e.onK, w) /\ Passes(e.onNext, v)
                => v \in 0..WORD - 1 /\ Holds(edgeRange(e, r), v)
<1> DEFINE f == factOf(e.onK)
           g == IF Constant(e.arg) THEN None ELSE factOf(e.onNext)
           t == termRange(e.arg, under(r, f))
<1>0. e.arg \in Expression /\ e.onK \in Condition \cup {None} /\ e.onNext \in Condition \cup {None}
  BY DEF BackEdge
<1>1. BoundType(f) /\ \A x \in Int : Passes(e.onK, x) => BoundHolds(f, x)
  BY <1>0, FactSound
<1>2. BoundType(g) /\ \A x \in Int : Passes(e.onNext, x) => BoundHolds(g, x)
  <2>1. BoundType(factOf(e.onNext)) /\ \A x \in Int : Passes(e.onNext, x) => BoundHolds(factOf(e.onNext), x)
    BY <1>0, FactSound
  <2>2. BoundType(None) /\ \A x : BoundHolds(None, x)
    BY DEF BoundType, BoundHolds
  <2> QED BY <2>1, <2>2
<1>3. edgeRange(e, r) = under(t, g)
  BY DEF edgeRange
<1> HIDE DEF f, g
<1>4. under(r, f) \in Answered /\ \A x \in Int : Holds(r, mod(x)) /\ BoundHolds(f, x) => Holds(under(r, f), mod(x))
  BY <1>1, UnderSound
<1>5. /\ t \in Answered
      /\ \A w \in Int : \A v \in Values(e.arg, w) :
              Holds(under(r, f), mod(w)) => v \in 0..WORD - 1 /\ Holds(t, v)
  BY <1>0, <1>4, TermSound
<1> HIDE DEF t
<1>6. under(t, g) \in Answered /\ \A x \in Int : Holds(t, mod(x)) /\ BoundHolds(g, x) => Holds(under(t, g), mod(x))
  BY <1>2, <1>5, UnderSound
<1>7. ASSUME NEW w \in Int, NEW v \in Values(e.arg, w), Holds(r, mod(w)), Passes(e.onK, w), Passes(e.onNext, v)
      PROVE  v \in 0..WORD - 1 /\ Holds(under(t, g), v)
  <2>1. v \in 0..WORD - 1 /\ Holds(t, v)
    BY <1>1, <1>4, <1>5, <1>7
  <2>2. v \in Int /\ mod(v) = v
    BY <2>1, ModOfWord, WordFacts
  <2> QED BY <1>2, <1>6, <1>7, <2>1, <2>2
<1> QED BY <1>3, <1>6, <1>7

-----------------------------------------------------------------------------
(* What the in-edges pass, and what their tests name.                      *)

LEMMA PassedFacts ==
  ASSUME NEW programs \in Families, NEW p \in programs, NEW r \in Answered
  PROVE  /\ passed(p, r) \subseteq Answered /\ IsFiniteSet(passed(p, r)) /\ p.start \in passed(p, r)
         /\ \A e \in p.edges : edgeRange(e, r) \in passed(p, r)
<1> DEFINE f == [e \in p.edges |-> edgeRange(e, r)]
           T == {edgeRange(e, r) : e \in p.edges}
<1>1. p.start \in Ranges /\ IsFiniteSet(p.edges) /\ \A e \in p.edges : e \in BackEdge
  BY ProgramFacts
<1>2. T \subseteq Answered
  BY <1>1, EdgeSound
<1>3. IsFiniteSet(T)
  <2>1. f \in [p.edges -> T] /\ T = {f[e] : e \in p.edges}
    OBVIOUS
  <2> HIDE DEF f, T
  <2>2. IsFiniteSet({f[e] : e \in p.edges})
    <3>1. IsFiniteSet(p.edges)
      BY <1>1
    <3>2. f \in [p.edges -> T]
      BY <2>1
    <3> QED BY ONLY <3>1, <3>2, ImageFinite
  <2> QED BY <2>1, <2>2
<1>4. passed(p, r) = {p.start} \cup T
  BY DEF passed
<1>5. IsFiniteSet({p.start} \cup T)
  <2>1. IsFiniteSet({p.start})
    BY FS_Singleton
  <2> HIDE DEF T
  <2> QED BY <1>3, <2>1, FS_Union
<1> QED BY <1>1, <1>2, <1>4, <1>5 DEF Answered

LEMMA SeedsFacts ==
  ASSUME NEW programs \in Families, NEW p \in programs
  PROVE  /\ seeds(p) \ {None, Never} \subseteq Ranges /\ IsFiniteSet(seeds(p) \ {None, Never})
         /\ p.start \in seeds(p) \ {None, Never}
<1>1. p.start \in Ranges /\ p.start # None /\ p.start # Never
  BY ProgramFacts, RangeFacts
<1>2. None \in Answered
  BY DEF Answered
<1>3. passed(p, None) \subseteq Answered /\ IsFiniteSet(passed(p, None)) /\ p.start \in passed(p, None)
  BY <1>2, PassedFacts
<1>4. seeds(p) \subseteq passed(p, None) /\ p.start \in seeds(p)
  BY DEF seeds, passed
<1>5. seeds(p) \ {None, Never} \subseteq Ranges
  BY <1>3, <1>4 DEF Answered
<1>6. IsFiniteSet(seeds(p) \ {None, Never})
  <2>1. seeds(p) \ {None, Never} \in SUBSET passed(p, None)
    BY <1>4
  <2> QED BY <1>3, <2>1, FS_Subset
<1> QED BY <1>1, <1>4, <1>5, <1>6

LEMMA SidesFacts ==
  ASSUME NEW b, BoundType(b)
  PROVE  boundSides(b) \subseteq Ranges /\ IsFiniteSet(boundSides(b))
<1>1. CASE b = None
  BY <1>1, FS_EmptySet DEF boundSides
<1>2. CASE b # None
  <2> DEFINE P == {Point(b.r.lo), Point(b.r.hi)}
  <2>1. b.r.lo \in Int /\ b.r.hi \in Int
    BY <1>2, RangeFacts DEF BoundType
  <2>2. \A x \in Int : Point(x) \in Ranges
    BY SpanFacts DEF Point
  <2>3. P \subseteq Ranges
    BY <2>1, <2>2
  <2>4. boundSides(b) \in SUBSET P
    BY <1>2 DEF boundSides
  <2>5. IsFiniteSet(P)
    <3>1. IsFiniteSet({Point(b.r.lo)}) /\ IsFiniteSet({Point(b.r.hi)})
      BY FS_Singleton
    <3>2. IsFiniteSet({Point(b.r.lo)} \cup {Point(b.r.hi)})
      BY <3>1, FS_Union
    <3>3. P = {Point(b.r.lo)} \cup {Point(b.r.hi)}
      OBVIOUS
    <3> QED BY <3>2, <3>3
  <2> HIDE DEF P
  <2> QED BY <2>3, <2>4, <2>5, FS_Subset
<1> QED BY <1>1, <1>2

LEMMA NamedFacts ==
  ASSUME NEW programs \in Families, NEW p \in programs, NEW r
  PROVE  named(p, r) \subseteq Ranges /\ IsFiniteSet(named(p, r))
<1> DEFINE side(e) == boundSides(factOf(e.onK)) \cup
                        (IF e.arg.mul = 0 THEN {} ELSE boundSides(factOf(e.onNext)))
           D == {d \in p.edges : edgeRange(d, r) # Never}
           f == [e \in D |-> side(e)]
           T == {side(e) : e \in D}
<1>1. IsFiniteSet(p.edges) /\ \A e \in p.edges : e.onK \in Condition \cup {None} /\ e.onNext \in Condition \cup {None}
  BY ProgramFacts
<1>2. \A e \in p.edges : side(e) \subseteq Ranges /\ IsFiniteSet(side(e))
  <2> SUFFICES ASSUME NEW e \in p.edges PROVE side(e) \subseteq Ranges /\ IsFiniteSet(side(e))
    OBVIOUS
  <2>1. BoundType(factOf(e.onK)) /\ BoundType(factOf(e.onNext))
    BY <1>1, FactSound
  <2>2. /\ boundSides(factOf(e.onK)) \subseteq Ranges /\ IsFiniteSet(boundSides(factOf(e.onK)))
        /\ boundSides(factOf(e.onNext)) \subseteq Ranges /\ IsFiniteSet(boundSides(factOf(e.onNext)))
    BY <2>1, SidesFacts
  <2>3. IsFiniteSet(IF e.arg.mul = 0 THEN {} ELSE boundSides(factOf(e.onNext)))
    BY <2>2, FS_EmptySet
  <2>4. IsFiniteSet(side(e))
    BY <2>2, <2>3, FS_Union
  <2> QED BY <2>2, <2>4
<1>3. named(p, r) = UNION T
  BY DEF named
<1>4. \A t \in T : t \subseteq Ranges /\ IsFiniteSet(t)
  BY <1>2
<1>5. IsFiniteSet(D)
  BY <1>1, FS_Subset
<1>6. IsFiniteSet(T)
  <2>1. f \in [D -> T] /\ T = {f[e] : e \in D}
    OBVIOUS
  <2> HIDE DEF f, T, D
  <2>2. IsFiniteSet({f[e] : e \in D})
    <3>1. f \in [D -> T]
      BY <2>1
    <3> QED BY ONLY <1>5, <3>1, ImageFinite
  <2> QED BY <2>1, <2>2
<1> HIDE DEF T
<1>7. IsFiniteSet(UNION T)
  BY <1>4, <1>6, FS_UNION
<1> QED BY <1>3, <1>4, <1>7

-----------------------------------------------------------------------------
(* The counter's range.                                                    *)

LEMMA MovedFacts ==
  ASSUME NEW r \in Ranges
  PROVE  moved(r) \in Ranges /\ \A w : Holds(r, w) => Holds(moved(r), w)
<1>1. intoWord(r) = None \/ ByWords(r, intoWord(r))
  BY IntoWordFacts
<1>2. CASE intoWord(r) = None
  BY <1>2 DEF moved
<1>3. CASE intoWord(r) # None
  <2>1. ByWords(r, intoWord(r)) /\ moved(r) = intoWord(r)
    BY <1>1, <1>3 DEF moved
  <2>2. intoWord(r) \in Ranges
    BY <2>1 DEF ByWords
  <2>3. \A w : Holds(r, w) => Holds(intoWord(r), w)
    BY <2>1, ByWordsHolds
  <2> QED BY <2>1, <2>2, <2>3
<1> QED BY <1>2, <1>3

LEMMA CounterRangeSound ==
  ASSUME NEW programs \in Families, NEW p \in programs, NEW known \in Ranges \cup {None},
         NEW wordFirst \in BOOLEAN
  PROVE  /\ counterRange(p, known, wordFirst) \in Ranges \cup {None}
         /\ \A w : Holds(known, w) /\ (\E g \in passed(p, None) : Holds(g, w))
              => Holds(counterRange(p, known, wordFirst), w)
<1> DEFINE direct == passed(p, None)
           put(r) == IF wordFirst THEN moved(r) ELSE r
           S == {put(r) : r \in direct \ {Never}}
           u == unionOf(direct, wordFirst)
           kn == IF known = None \/ ~wordFirst THEN known ELSE moved(known)
<1>1. direct \subseteq Answered /\ IsFiniteSet(direct) /\ p.start \in direct /\ p.start \in Ranges
  BY PassedFacts, ProgramFacts DEF Answered
<1>2. kn \in Ranges \cup {None} /\ \A w : Holds(known, w) => Holds(kn, w)
  <2>1. CASE known = None \/ ~wordFirst
    BY <2>1
  <2>2. CASE ~(known = None \/ ~wordFirst)
    BY <2>2, MovedFacts
  <2> QED BY <2>1, <2>2
<1>3. u \in Ranges \cup {None} /\ \A w : (\E g \in direct : Holds(g, w)) => Holds(u, w)
  <2>1. CASE None \in direct
    BY <2>1 DEF unionOf, Holds
  <2>2. CASE None \notin direct
    <3>1. u = hullOf(S)
      BY <2>2 DEF unionOf
    <3>2. direct \ {Never} \subseteq Ranges
      BY <1>1, <2>2 DEF Answered
    <3>3. \A r \in Ranges : put(r) \in Ranges /\ \A w : Holds(r, w) => Holds(put(r), w)
      BY MovedFacts
    <3>4. S \subseteq Ranges
      BY <3>2, <3>3
    <3>5. S # {}
      <4>1. p.start # Never
        BY <1>1, DistinctAssumption
      <4>2. put(p.start) \in S
        BY <1>1, <4>1
      <4> QED BY <4>2
    <3>6. IsFiniteSet(S)
      <4> DEFINE D == direct \ {Never}
                 f == [r \in D |-> put(r)]
      <4>1. IsFiniteSet(D)
        BY <1>1, FS_Difference
      <4>2. f \in [D -> S] /\ S = {f[r] : r \in D}
        OBVIOUS
      <4> HIDE DEF f, S, D
      <4>3. IsFiniteSet({f[r] : r \in D})
        <5>1. f \in [D -> S]
          BY <4>2
        <5> QED BY ONLY <4>1, <5>1, ImageFinite
      <4> QED BY <4>2, <4>3
    <3>7. ASSUME NEW w, NEW g \in direct, Holds(g, w) PROVE Holds(hullOf(S), w)
      <4>1. g # Never /\ g # None
        BY <2>2, <3>7, DistinctAssumption DEF Holds
      <4>2. put(g) \in S /\ Holds(put(g), w)
        BY <3>2, <3>3, <3>7, <4>1
      <4> HIDE DEF S, put
      <4> QED BY <3>4, <3>6, <4>2, HullHolds
    <3>8. hullOf(S) \in Ranges
      <4> HIDE DEF S
      <4> QED BY <3>4, <3>5, <3>6, HullFacts
    <3> QED BY <3>1, <3>7, <3>8
  <2> QED BY <2>1, <2>2
<1>4. counterRange(p, known, wordFirst) = narrower(u, kn)
  BY DEF counterRange
<1> HIDE DEF u, kn, direct
<1>5. narrower(u, kn) \in Ranges \cup {None} /\ \A w : Holds(u, w) /\ Holds(kn, w) => Holds(narrower(u, kn), w)
  BY <1>2, <1>3, NarrowerFacts
<1> QED BY <1>2, <1>3, <1>4, <1>5 DEF direct

-----------------------------------------------------------------------------
(* The answer in a window.                                                 *)

LEMMA MayBeSound ==
  ASSUME NEW r \in Ranges, NEW w \in 0..WORD - 1, Holds(r, w)
  PROVE  rangeMayBe(r, w)
<1> DEFINE at(n) == r.lo + mod(w - r.lo) + n * WORD
<1>1. PICK x \in Points(r) : mod(x) = w
  BY RangeFacts DEF Holds
<1>2. /\ x \in Int /\ r.lo \in Int /\ r.hi \in Int /\ r.lo <= x /\ x <= r.hi /\ WORD \in Nat \ {0} /\ w \in Int
      /\ IF r.stride = 0 THEN x = r.lo ELSE (x - r.lo) % r.stride = 0
  BY RangeFacts, PointsAre, WordFacts DEF Points
<1> DEFINE n == (x - r.lo) \div WORD
<1>3. n \in Nat /\ x - r.lo = WORD * n + mod(x - r.lo)
  <2>1. x - r.lo \in Nat
    BY <1>2
  <2>2. n \in Int /\ (x - r.lo) % WORD \in 0..WORD - 1 /\ x - r.lo = WORD * n + ((x - r.lo) % WORD)
    <3> DEFINE d == x - r.lo
    <3>1. d \in Int /\ WORD \in Nat \ {0}
      BY <1>2
    <3> HIDE DEF d
    <3>2. d \div WORD \in Int /\ d % WORD \in 0..WORD - 1 /\ d = WORD * (d \div WORD) + (d % WORD)
      BY <3>1, DivFacts
    <3> QED BY <3>2 DEF d
  <2>3. n >= 0
    BY <1>2, <2>1
  <2> QED BY <2>2, <2>3 DEF mod
<1> HIDE DEF n
<1>4. mod(w - r.lo) = mod(x - r.lo)
  <2>1. x - r.lo \in Int /\ w - r.lo \in Int /\ (w - r.lo) - (x - r.lo) = w - x
    BY <1>2
  <2>2. Divides(WORD, w - x)
    <3>1. mod(w) = mod(x)
      BY <1>1, ModOfWord
    <3> QED BY <1>2, <3>1, ModSame
  <2> QED BY <2>1, <2>2, ModSame
<1>5. mod(x - r.lo) \in Int
  <2>1. x - r.lo \in Int
    BY <1>2
  <2> QED BY <2>1, ModFacts
<1>6. x = at(n)
  BY <1>2, <1>3, <1>4, <1>5
<1>7. CASE n <= 64
  <2>1. n \in 0..65 /\ at(n) <= r.hi /\ (IF r.stride = 0 THEN at(n) = r.lo ELSE (at(n) - r.lo) % r.stride = 0)
    BY <1>2, <1>3, <1>6, <1>7
  <2> QED BY <2>1 DEF rangeMayBe
<1>8. CASE n > 64
  <2>1. 65 * WORD <= n * WORD
    BY <1>2, <1>3, <1>8
  <2>2. at(65) <= r.hi
    BY <1>2, <1>3, <1>4, <1>5, <1>6, <2>1
  <2>3. 65 \in 0..65 /\ 65 > 64
    OBVIOUS
  <2> QED BY <2>2, <2>3 DEF rangeMayBe
<1> QED BY <1>3, <1>7, <1>8

\* What an answer in a window is, and what it says of the words its readings hold.
AnswerTyped(q, window) ==
  /\ q \in Ranges \cup {None}
  /\ q # None => /\ window = "word" => 0 <= q.lo /\ q.hi < WORD
                 /\ window = "narrowest" => S_MIN <= q.lo /\ q.hi < WORD
AnswerCovers(q, window, w) ==
  q = None \/ IF window \in {"integers", "wordFirst"} THEN rangeMayBe(q, w) ELSE \E x \in Points(q) : mod(x) = w

LEMMA InWindowSound ==
  ASSUME NEW r \in Answered, NEW m \in Answered, NEW window \in Windows
  PROVE  /\ AnswerTyped(inWindow(r, m, window), window)
         /\ \A w \in 0..WORD - 1 : Holds(r, w) /\ Holds(m, w) => AnswerCovers(inWindow(r, m, window), window, w)
<1> DEFINE q == inWindow(r, m, window)
           rw == otherwise(wordOf(r), wordOf(m))
           rn == otherwise(narrowOf(r), narrowOf(m))
<1>0. /\ S_MIN \in Int /\ S_MAX \in Int /\ WORD \in Int /\ S_MIN < 0 /\ S_MAX < WORD
      /\ \A s \in Ranges : s.lo \in Int /\ s.hi \in Int /\ s.lo <= s.hi
  BY WordFacts, RangeFacts
<1>1. \A s : wordOf(s) = WordsOf(s) /\ narrowOf(s) = SignedsOf(s)
  BY DEF wordOf, WordsOf, narrowOf, SignedsOf
<1>2. /\ rw \in Ranges \cup {None} /\ (rw # None => 0 <= rw.lo /\ rw.hi < WORD)
      /\ \A w \in 0..WORD - 1 : Holds(r, w) /\ Holds(m, w) => Holds(rw, w)
  <2>1. rw \in {WordsOf(r), WordsOf(m)}
    BY <1>1 DEF otherwise
  <2>2. \A s \in Answered : /\ WordsOf(s) \in Ranges \cup {None}
                            /\ WordsOf(s) # None => 0 <= WordsOf(s).lo /\ WordsOf(s).hi < WORD
                            /\ \A w \in 0..WORD - 1 : Holds(s, w) => Holds(WordsOf(s), w)
    BY WordsOfFacts DEF Holds
  <2> HIDE DEF rw
  <2> QED BY <2>1, <2>2
<1>3. /\ rn \in Ranges \cup {None} /\ (rn # None => S_MIN <= rn.lo /\ rn.hi <= S_MAX)
      /\ \A w \in 0..WORD - 1 : Holds(r, w) /\ Holds(m, w) => Holds(rn, w)
  <2>1. rn \in {SignedsOf(r), SignedsOf(m)}
    BY <1>1 DEF otherwise
  <2>2. \A s \in Answered : /\ SignedsOf(s) \in Ranges \cup {None}
                            /\ SignedsOf(s) # None => S_MIN <= SignedsOf(s).lo /\ SignedsOf(s).hi <= S_MAX
                            /\ \A w \in 0..WORD - 1 : Holds(s, w) => Holds(SignedsOf(s), w)
    BY SignedsOfFacts DEF Holds
  <2> HIDE DEF rn
  <2> QED BY <2>1, <2>2
<1> HIDE DEF rw, rn
<1>5. CASE window = "integers"
  <2>1. q = IF Known(r) THEN r ELSE None
    BY <1>5 DEF inWindow
  <2>2. q \in Ranges \cup {None} /\ (q # None => q = r)
    BY <2>1 DEF Known, Answered
  <2>3. \A w \in 0..WORD - 1 : Holds(r, w) => AnswerCovers(q, window, w)
    BY <1>5, <2>2, MayBeSound DEF AnswerCovers
  <2> QED BY <1>5, <2>2, <2>3 DEF AnswerTyped
<1>6. CASE window = "wordFirst"
  <2>1. q = IF Known(m) THEN m ELSE None
    BY <1>6 DEF inWindow
  <2>2. q \in Ranges \cup {None} /\ (q # None => q = m)
    BY <2>1 DEF Known, Answered
  <2>3. \A w \in 0..WORD - 1 : Holds(m, w) => AnswerCovers(q, window, w)
    BY <1>6, <2>2, MayBeSound DEF AnswerCovers
  <2> QED BY <1>6, <2>2, <2>3 DEF AnswerTyped
<1>7. CASE window = "word"
  <2>1. q = IF Known(r) THEN rw ELSE None
    BY <1>7 DEF inWindow, rw
  <2>2. AnswerTyped(q, window)
    BY <1>2, <1>7, <2>1 DEF AnswerTyped
  <2>3. \A w \in 0..WORD - 1 : Holds(r, w) /\ Holds(m, w) => AnswerCovers(q, window, w)
    BY <1>2, <1>7, <2>1 DEF AnswerCovers, Holds
  <2> QED BY <2>2, <2>3
<1>8. CASE window = "narrowest"
  <2>1. q = IF ~Known(r) THEN None ELSE chosen(rn, rw)
    BY <1>8 DEF inWindow, rw, rn
  <2>2. q = None \/ q \in {rn, rw}
    BY <2>1 DEF chosen
  <2>3. AnswerTyped(q, window)
    BY <1>0, <1>2, <1>3, <1>8, <2>2 DEF AnswerTyped
  <2>4. \A w \in 0..WORD - 1 : Holds(r, w) /\ Holds(m, w) => AnswerCovers(q, window, w)
    BY <1>2, <1>3, <1>8, <2>2 DEF AnswerCovers, Holds
  <2> QED BY <2>3, <2>4
<1> QED BY <1>5, <1>6, <1>7, <1>8 DEF Windows

\* The two readings of an expression below a guard, the counter being known to be in known.
Reading(p, known, e, guard, wordFirst) == termRange(e, under(counterRange(p, known, wordFirst), factOf(guard)))

LEMMA ReadingSound ==
  ASSUME NEW programs \in Families, NEW p \in programs, NEW known \in Ranges \cup {None},
         NEW e \in Expression, NEW guard \in Condition \cup {None}, NEW wordFirst \in BOOLEAN
  PROVE  /\ Reading(p, known, e, guard, wordFirst) \in Answered
         /\ \A w \in 0..WORD - 1 : \A v \in Values(e, w) :
              Holds(known, w) /\ (\E g \in passed(p, None) : Holds(g, w)) /\ Passes(guard, w)
                => v \in 0..WORD - 1 /\ Holds(Reading(p, known, e, guard, wordFirst), v)
<1> DEFINE c == counterRange(p, known, wordFirst)
           f == factOf(guard)
<1>1. /\ c \in Answered
      /\ \A w : Holds(known, w) /\ (\E g \in passed(p, None) : Holds(g, w)) => Holds(c, w)
  BY CounterRangeSound DEF Answered
<1>2. BoundType(f) /\ \A x \in Int : Passes(guard, x) => BoundHolds(f, x)
  BY FactSound
<1> HIDE DEF c, f
<1>3. under(c, f) \in Answered /\ \A x \in Int : Holds(c, mod(x)) /\ BoundHolds(f, x) => Holds(under(c, f), mod(x))
  BY <1>1, <1>2, UnderSound
<1>4. /\ termRange(e, under(c, f)) \in Answered
      /\ \A w \in Int : \A v \in Values(e, w) :
           Holds(under(c, f), mod(w)) => v \in 0..WORD - 1 /\ Holds(termRange(e, under(c, f)), v)
  BY <1>3, TermSound
<1>5. \A w \in 0..WORD - 1 : w \in Int /\ mod(w) = w
  BY ModOfWord, WordFacts
<1>6. Reading(p, known, e, guard, wordFirst) = termRange(e, under(c, f))
  BY DEF Reading, c, f
<1> QED BY <1>1, <1>2, <1>3, <1>4, <1>5, <1>6

-----------------------------------------------------------------------------
(* The inductive invariant.                                                *)

\* A range that holds where the counter starts, and that no back edge leaves.
Kept(p, r) ==
  /\ r \in Ranges /\ Points(p.start) \subseteq Points(r)
  /\ \A e \in p.edges : /\ edgeRange(e, r) \in Ranges \cup {Never}
                        /\ edgeRange(e, r) # Never => Points(edgeRange(e, r)) \subseteq Points(r)

Answers(p, known) ==
  [of \in {"counter", "use"} |-> [window \in Windows |->
     IF of = "counter" THEN stridedRange(p, known, Id, None, window)
     ELSE stridedRange(p, known, p.use, p.guard, window)]]

LoopOK   == \E programs \in Families : loop \in programs
RoundOK  == round \in 0..INDUCTION_ROUNDS
HypOK    == hyp \in Ranges /\ Points(loop.start) \subseteq Points(hyp)
ProvenOK == proven.r = None \/ Kept(loop, proven.r)
AnswerOK == answer # None => proven.done /\ answer = Answers(loop, proven.r)
\* What the induction proved holds the counter, and so does what some in-edge passes.
CounterOK ==
  k # None => /\ answer # None /\ k \in 0..WORD - 1
              /\ Holds(proven.r, k) /\ \E g \in passed(loop, None) : Holds(g, k)
UseOK ==
  use # None => /\ answer # None /\ use \in 0..WORD - 1
                /\ \A wordFirst \in BOOLEAN : Holds(Reading(loop, proven.r, loop.use, loop.guard, wordFirst), use)
IInv == LoopOK /\ RoundOK /\ HypOK /\ ProvenOK /\ AnswerOK /\ CounterOK /\ UseOK

LEMMA InitOK ==
  Init => IInv
<1> SUFFICES ASSUME Init PROVE IInv
  OBVIOUS
<1>1. LoopOK /\ RoundOK
  BY DEF Init, LoopOK, RoundOK, INDUCTION_ROUNDS
<1>2. PICK programs \in Families : loop \in programs
  BY <1>1 DEF LoopOK
<1>3. HypOK
  <2> DEFINE S == seeds(loop) \ {None, Never}
  <2>1. S \subseteq Ranges /\ IsFiniteSet(S) /\ loop.start \in S
    BY <1>2, SeedsFacts
  <2>2. hyp = hullOf(S)
    BY DEF Init
  <2> HIDE DEF S
  <2>3. hullOf(S) \in Ranges /\ \A r \in S : \A x \in Points(r) : x \in Points(hullOf(S))
    BY <2>1, HullFacts
  <2> QED BY <2>1, <2>2, <2>3 DEF HypOK
<1>4. ProvenOK /\ AnswerOK /\ CounterOK /\ UseOK
  BY DEF Init, ProvenOK, AnswerOK, CounterOK, UseOK
<1> QED BY <1>1, <1>3, <1>4 DEF IInv

\* The hypothesis grown by what the in-edges pass holds both.
LEMMA GrownFacts ==
  ASSUME NEW h \in Ranges, NEW got, got \subseteq Answered, IsFiniteSet(got), None \notin got
  PROVE  /\ {h} \cup (got \ {Never}) \subseteq Ranges /\ IsFiniteSet({h} \cup (got \ {Never}))
         /\ hullOf({h} \cup (got \ {Never})) \in Ranges
         /\ Points(h) \subseteq Points(hullOf({h} \cup (got \ {Never})))
         /\ \A g \in got : g # Never => g \in Ranges /\ Points(g) \subseteq Points(hullOf({h} \cup (got \ {Never})))
<1> DEFINE S == {h} \cup (got \ {Never})
<1>1. got \ {Never} \subseteq Ranges
  BY DEF Answered
<1>2. S \subseteq Ranges /\ S # {}
  BY <1>1
<1>3. IsFiniteSet(S)
  <2>1. IsFiniteSet({h}) /\ IsFiniteSet(got \ {Never})
    BY FS_Singleton, FS_Difference
  <2> QED BY <2>1, FS_Union
<1>4. \A r \in S : \A x \in Points(r) : x \in Points(hullOf(S))
  <2> HIDE DEF S
  <2> QED BY <1>2, <1>3, HullFacts
<1>5. hullOf(S) \in Ranges
  <2> HIDE DEF S
  <2> QED BY <1>2, <1>3, HullFacts
<1> QED BY <1>1, <1>2, <1>3, <1>4, <1>5

LEMMA GrowKeeps ==
  ASSUME IInv, Grow
  PROVE  IInv'
<1> DEFINE got == passed(loop, hyp)
           next == hullOf({hyp} \cup (got \ {Never}))
<1>1. /\ LoopOK /\ RoundOK /\ HypOK /\ ProvenOK /\ AnswerOK /\ CounterOK /\ UseOK
      /\ round < INDUCTION_ROUNDS /\ None \notin got /\ round' = round + 1
      /\ hyp' = (IF round = 0 THEN hullOf({next} \cup named(loop, hyp)) ELSE next)
      /\ UNCHANGED <<loop, proven, answer, k, use>>
  BY DEF IInv, Grow, GrowTo, grown
<1>2. PICK programs \in Families : loop \in programs
  BY <1>1 DEF LoopOK
<1>3. got \subseteq Answered /\ IsFiniteSet(got) /\ hyp \in Ranges
  <2>1. hyp \in Ranges /\ hyp \in Answered
    BY <1>1 DEF HypOK, Answered
  <2> QED BY <1>2, <2>1, PassedFacts
<1> HIDE DEF got
<1>4. next \in Ranges /\ Points(hyp) \subseteq Points(next)
  BY <1>1, <1>3, GrownFacts
<1> HIDE DEF next
<1>5. hyp' \in Ranges /\ Points(next) \subseteq Points(hyp')
  <2>1. CASE round # 0
    BY <1>1, <1>4, <2>1
  <2>2. CASE round = 0
    <3> DEFINE S == {next} \cup named(loop, hyp)
    <3>1. named(loop, hyp) \subseteq Ranges /\ IsFiniteSet(named(loop, hyp))
      BY <1>2, NamedFacts
    <3>2. IsFiniteSet({next})
      BY FS_Singleton
    <3>3. S \subseteq Ranges /\ S # {} /\ next \in S
      BY <1>4, <3>1
    <3>4. IsFiniteSet(S)
      BY <3>1, <3>2, FS_Union
    <3>5. hyp' = hullOf(S)
      BY <1>1, <2>2
    <3> HIDE DEF S
    <3>6. hullOf(S) \in Ranges /\ \A x \in Points(next) : x \in Points(hullOf(S))
      BY <3>3, <3>4, HullFacts
    <3> QED BY <3>5, <3>6
  <2> QED BY <2>1, <2>2
<1>6. HypOK'
  BY <1>1, <1>4, <1>5 DEF HypOK
<1>7. RoundOK'
  BY <1>1 DEF RoundOK, INDUCTION_ROUNDS
<1>8. LoopOK' /\ ProvenOK' /\ AnswerOK' /\ CounterOK' /\ UseOK'
  BY <1>1 DEF LoopOK, ProvenOK, AnswerOK, CounterOK, UseOK
<1> QED BY <1>6, <1>7, <1>8 DEF IInv

LEMMA ConcludeKeeps ==
  ASSUME IInv, Conclude
  PROVE  IInv'
<1> DEFINE got == passed(loop, hyp)
           fails == round = INDUCTION_ROUNDS \/ None \in got
<1>1. /\ LoopOK /\ RoundOK /\ HypOK /\ AnswerOK /\ CounterOK /\ UseOK /\ ~proven.done
      /\ (~fails => hullOf({hyp} \cup (got \ {Never})) = hyp)
      /\ proven' = [done |-> TRUE, r |-> IF fails THEN None ELSE hyp]
      /\ UNCHANGED <<loop, hyp, round, answer, k, use>>
  BY DEF IInv, Conclude, Concluded, grown
<1>2. PICK programs \in Families : loop \in programs
  BY <1>1 DEF LoopOK
<1>3. /\ got \subseteq Answered /\ IsFiniteSet(got) /\ hyp \in Ranges /\ Points(loop.start) \subseteq Points(hyp)
      /\ \A e \in loop.edges : edgeRange(e, hyp) \in got
  <2>1. hyp \in Ranges /\ hyp \in Answered /\ Points(loop.start) \subseteq Points(hyp)
    BY <1>1 DEF HypOK, Answered
  <2> QED BY <1>2, <2>1, PassedFacts
<1>4. answer = None /\ k = None /\ use = None
  BY <1>1 DEF AnswerOK, CounterOK, UseOK
<1>5. ASSUME ~fails PROVE Kept(loop, hyp)
  <2> HIDE DEF got
  <2>1. None \notin got
    BY <1>5
  <2>2. \A g \in got : g # Never => g \in Ranges /\ Points(g) \subseteq Points(hyp)
    BY <1>1, <1>3, <1>5, <2>1, GrownFacts
  <2> QED BY <1>3, <2>2 DEF Kept
<1>6. ProvenOK'
  <2>1. proven'.r = (IF fails THEN None ELSE hyp)
    BY <1>1
  <2> HIDE DEF fails
  <2>2. CASE fails
    BY <2>1, <2>2 DEF ProvenOK
  <2>3. CASE ~fails
    BY <1>1, <1>5, <2>1, <2>3 DEF ProvenOK, Kept
  <2> QED BY <2>2, <2>3
<1>7. LoopOK' /\ RoundOK' /\ HypOK' /\ AnswerOK' /\ CounterOK' /\ UseOK'
  BY <1>1, <1>4 DEF LoopOK, RoundOK, HypOK, AnswerOK, CounterOK, UseOK
<1> QED BY <1>6, <1>7 DEF IInv

LEMMA AnswerKeeps ==
  ASSUME IInv, Answer
  PROVE  IInv'
<1>1. /\ LoopOK /\ RoundOK /\ HypOK /\ ProvenOK /\ AnswerOK /\ CounterOK /\ UseOK
      /\ proven.done /\ answer = None /\ answer' = Answers(loop, proven.r)
      /\ UNCHANGED <<loop, hyp, round, proven, k, use>>
  BY DEF IInv, Answer, Answers
<1>2. k = None /\ use = None
  BY <1>1 DEF CounterOK, UseOK
<1> QED BY <1>1, <1>2 DEF IInv, LoopOK, RoundOK, HypOK, ProvenOK, AnswerOK, CounterOK, UseOK

LEMMA EnterKeeps ==
  ASSUME IInv, Enter
  PROVE  IInv'
<1>1. /\ LoopOK /\ RoundOK /\ HypOK /\ ProvenOK /\ AnswerOK /\ CounterOK /\ UseOK
      /\ answer # None /\ k = None
      /\ UNCHANGED <<loop, hyp, round, proven, answer, use>>
  BY DEF IInv, Enter
<1>2. PICK programs \in Families : loop \in programs
  BY <1>1 DEF LoopOK
<1>3. PICK x \in Points(loop.start) : k' = mod(x)
  BY DEF Enter
<1>4. loop.start \in Ranges /\ x \in Int
  BY <1>2, ProgramFacts, PointsAre
<1>5. k' \in 0..WORD - 1
  BY <1>3, <1>4, ModFacts
<1>6. Holds(proven.r, k')
  BY <1>1, <1>3 DEF ProvenOK, Kept, Holds
<1>7. \E g \in passed(loop, None) : Holds(g, k')
  <2>1. loop.start \in passed(loop, None)
    BY DEF passed
  <2>2. Holds(loop.start, k')
    BY <1>3, <1>4 DEF Holds
  <2> QED BY <2>1, <2>2
<1>8. CounterOK'
  BY <1>1, <1>5, <1>6, <1>7 DEF CounterOK
<1> QED BY <1>1, <1>8 DEF IInv, LoopOK, RoundOK, HypOK, ProvenOK, AnswerOK, UseOK

LEMMA IterateKeeps ==
  ASSUME IInv, NEW e \in loop.edges, Iterate(e)
  PROVE  IInv'
<1>1. /\ LoopOK /\ RoundOK /\ HypOK /\ ProvenOK /\ AnswerOK /\ CounterOK /\ UseOK
      /\ k # None /\ Passes(e.onK, k) /\ k' \in Values(e.arg, k) /\ Passes(e.onNext, k')
      /\ use' = None /\ UNCHANGED <<loop, hyp, round, proven, answer>>
  BY DEF IInv, Iterate
<1>2. PICK programs \in Families : loop \in programs
  BY <1>1 DEF LoopOK
<1>3. e \in BackEdge
  BY <1>2, ProgramFacts
<1>4. answer # None /\ k \in 0..WORD - 1 /\ Holds(proven.r, k)
  BY <1>1 DEF CounterOK
<1>5. k \in Int /\ mod(k) = k
  BY <1>4, ModOfWord, WordFacts
<1>6. \A r \in Answered : Holds(r, k) => k' \in 0..WORD - 1 /\ Holds(edgeRange(e, r), k')
  BY <1>1, <1>3, <1>5, EdgeSound
<1>7. k' \in 0..WORD - 1 /\ Holds(edgeRange(e, None), k')
  <2>1. None \in Answered /\ Holds(None, k)
    BY DEF Answered, Holds
  <2> QED BY <1>6, <2>1
<1>8. \E g \in passed(loop, None) : Holds(g, k')
  <2>1. edgeRange(e, None) \in passed(loop, None)
    BY DEF passed
  <2> QED BY <1>7, <2>1
<1>9. Holds(proven.r, k')
  <2>1. CASE proven.r = None
    BY <2>1 DEF Holds
  <2>2. CASE proven.r # None
    <3>1. Kept(loop, proven.r)
      BY <1>1, <2>2 DEF ProvenOK
    <3>2. Holds(edgeRange(e, proven.r), k')
      BY <1>4, <1>6, <3>1 DEF Kept, Answered
    <3>3. /\ edgeRange(e, proven.r) \in Ranges \cup {Never}
          /\ (edgeRange(e, proven.r) # Never => Points(edgeRange(e, proven.r)) \subseteq Points(proven.r))
          /\ proven.r \in Ranges
      BY <3>1 DEF Kept
    <3>4. edgeRange(e, proven.r) # Never /\ edgeRange(e, proven.r) # None
      BY <3>2, <3>3, RangeFacts, DistinctAssumption DEF Holds
    <3>5. PICK x \in Points(edgeRange(e, proven.r)) : mod(x) = k'
      BY <3>2, <3>4 DEF Holds
    <3> QED BY <3>3, <3>4, <3>5 DEF Holds
  <2> QED BY <2>1, <2>2
<1>10. CounterOK'
  BY <1>1, <1>4, <1>7, <1>8, <1>9 DEF CounterOK
<1>11. UseOK'
  BY <1>1 DEF UseOK
<1> QED BY <1>1, <1>10, <1>11 DEF IInv, LoopOK, RoundOK, HypOK, ProvenOK, AnswerOK

LEMMA ReadKeeps ==
  ASSUME IInv, Read
  PROVE  IInv'
<1>1. /\ LoopOK /\ RoundOK /\ HypOK /\ ProvenOK /\ AnswerOK /\ CounterOK /\ UseOK
      /\ k # None /\ Passes(loop.guard, k) /\ use' \in Values(loop.use, k)
      /\ UNCHANGED <<loop, hyp, round, proven, answer, k>>
  BY DEF IInv, Read
<1>2. PICK programs \in Families : loop \in programs
  BY <1>1 DEF LoopOK
<1>3. answer # None /\ k \in 0..WORD - 1 /\ Holds(proven.r, k) /\ \E g \in passed(loop, None) : Holds(g, k)
  BY <1>1 DEF CounterOK
<1>4. proven.r \in Ranges \cup {None} /\ loop.use \in Expression /\ loop.guard \in Condition \cup {None}
  BY <1>1, <1>2, ProgramFacts DEF ProvenOK, Kept
<1>5. \A wordFirst \in BOOLEAN :
        use' \in 0..WORD - 1 /\ Holds(Reading(loop, proven.r, loop.use, loop.guard, wordFirst), use')
  BY <1>1, <1>2, <1>3, <1>4, ReadingSound
<1>6. UseOK'
  BY <1>1, <1>3, <1>5 DEF UseOK
<1> QED BY <1>1, <1>6 DEF IInv, LoopOK, RoundOK, HypOK, ProvenOK, AnswerOK, CounterOK

LEMMA StepOK ==
  IInv /\ [Next]_vars => IInv'
<1> SUFFICES ASSUME IInv, [Next]_vars PROVE IInv'
  OBVIOUS
<1>1. CASE Grow
  BY <1>1, GrowKeeps
<1>2. CASE Conclude
  BY <1>2, ConcludeKeeps
<1>3. CASE Answer
  BY <1>3, AnswerKeeps
<1>4. CASE Enter
  BY <1>4, EnterKeeps
<1>5. CASE Read
  BY <1>5, ReadKeeps
<1>6. ASSUME NEW e \in loop.edges, Iterate(e) PROVE IInv'
  BY <1>6, IterateKeeps
<1>7. CASE UNCHANGED vars
  BY <1>7 DEF IInv, LoopOK, RoundOK, HypOK, ProvenOK, AnswerOK, CounterOK, UseOK, vars
<1> QED BY <1>1, <1>2, <1>3, <1>4, <1>5, <1>6, <1>7 DEF Next

(***************************************************************************)
(* stridedRange (bits.ts:837-1205): the hypothesis holds where the counter *)
(* starts, what the induction proved is kept by every back edge, and the   *)
(* word the counter holds is in it and in what some in-edge passes.        *)
(***************************************************************************)
THEOREM InductionHolds == Spec => []IInv
<1>1. Init => IInv
  BY InitOK
<1>2. IInv /\ [Next]_vars => IInv'
  BY StepOK
<1> QED BY <1>1, <1>2, PTL DEF Spec

-----------------------------------------------------------------------------
(* What is answered.                                                       *)

LEMMA IdFacts ==
  Id \in Expression /\ Id.mul = 1 /\ Id.add = 0 /\ Id.op = "id" /\ \A w \in 0..WORD - 1 : Values(Id, w) = {w}
<1>1. Point(0) \in Ranges
  BY SpanFacts DEF Point
<1>2. Id \in Expression /\ Id.mul = 1 /\ Id.add = 0 /\ Id.op = "id"
  BY <1>1 DEF Id, Expression
<1>3. ASSUME NEW w \in 0..WORD - 1 PROVE Values(Id, w) = {w}
  <2>1. Id.mul * w + Id.add = w /\ mod(w) = w
    BY <1>2, ModOfWord, WordFacts
  <2>2. Values(Id, w) = {mod(Id.mul * w + Id.add)}
    BY <1>2 DEF Values
  <2> QED BY <2>1, <2>2
<1> QED BY <1>2, <1>3

LEMMA AnswerFacts ==
  ASSUME IInv, answer # None, NEW of \in {"counter", "use"}, NEW window \in Windows
  PROVE  /\ AnswerTyped(answer[of][window], window)
         /\ of = "counter" /\ k # None => AnswerCovers(answer[of][window], window, k)
         /\ of = "use" /\ use # None => AnswerCovers(answer[of][window], window, use)
<1> DEFINE e == IF of = "counter" THEN Id ELSE loop.use
           guard == IF of = "counter" THEN None ELSE loop.guard
           read(wordFirst) == Reading(loop, proven.r, e, guard, wordFirst)
<1>1. LoopOK /\ ProvenOK /\ AnswerOK /\ CounterOK /\ UseOK
  BY DEF IInv
<1>2. PICK programs \in Families : loop \in programs
  BY <1>1 DEF LoopOK
<1>3. /\ proven.r \in Ranges \cup {None} /\ loop.use \in Expression /\ loop.guard \in Condition \cup {None}
      /\ Id \in Expression
  BY <1>1, <1>2, ProgramFacts, IdFacts DEF ProvenOK, Kept
<1>4. e \in Expression /\ guard \in Condition \cup {None}
  BY <1>3
<1>5. answer[of][window] = inWindow(read(FALSE), read(TRUE), window)
  <2>1. answer = Answers(loop, proven.r)
    BY <1>1 DEF AnswerOK
  <2>2. answer[of][window] = (IF of = "counter" THEN stridedRange(loop, proven.r, Id, None, window)
                              ELSE stridedRange(loop, proven.r, loop.use, loop.guard, window))
    BY <2>1 DEF Answers
  <2>3. answer[of][window] = stridedRange(loop, proven.r, e, guard, window)
    BY <2>2
  <2> HIDE DEF e, guard
  <2> QED BY <2>3 DEF stridedRange, Reading
<1>6. ASSUME of = "counter", k # None
      PROVE  k \in 0..WORD - 1 /\ Holds(read(FALSE), k) /\ Holds(read(TRUE), k)
  <2>1. k \in 0..WORD - 1 /\ Holds(proven.r, k) /\ \E g \in passed(loop, None) : Holds(g, k)
    BY <1>1, <1>6 DEF CounterOK
  <2>2. k \in Values(e, k) /\ Passes(guard, k)
    BY <1>6, <2>1, IdFacts DEF Passes
  <2> HIDE DEF e, guard
  <2>3. \A wordFirst \in BOOLEAN : Holds(Reading(loop, proven.r, e, guard, wordFirst), k)
    BY <1>2, <1>3, <1>4, <2>1, <2>2, ReadingSound
  <2> QED BY <2>1, <2>3
<1>7. ASSUME of = "use", use # None
      PROVE  use \in 0..WORD - 1 /\ Holds(read(FALSE), use) /\ Holds(read(TRUE), use)
  BY <1>1, <1>7 DEF UseOK
<1> HIDE DEF e, guard
<1>8. read(FALSE) \in Answered /\ read(TRUE) \in Answered
  BY <1>2, <1>3, <1>4, ReadingSound
<1> HIDE DEF read
<1>9. /\ AnswerTyped(inWindow(read(FALSE), read(TRUE), window), window)
      /\ \A w \in 0..WORD - 1 : Holds(read(FALSE), w) /\ Holds(read(TRUE), w)
           => AnswerCovers(inWindow(read(FALSE), read(TRUE), window), window, w)
  BY <1>8, InWindowSound
<1> QED BY <1>5, <1>6, <1>7, <1>9

(***************************************************************************)
(* bits.ts:834-842: an answer in a window is a range of that window, whose *)
(* ends are a whole number of strides apart, for every loop and machine.   *)
(***************************************************************************)
THEOREM TypeCorrect == Spec => []TypeOK
<1>1. IInv => TypeOK
  <2> SUFFICES ASSUME IInv PROVE TypeOK
    OBVIOUS
  <2>1. LoopOK /\ RoundOK /\ CounterOK /\ UseOK
    BY DEF IInv
  <2>2. ASSUME answer # None, NEW of \in {"counter", "use"}, NEW window \in {"word", "narrowest"},
               answer[of][window] # None
        PROVE  LET r == answer[of][window]
               IN  /\ (IF window = "word" THEN 0 ELSE S_MIN) <= r.lo /\ r.lo <= r.hi /\ r.hi < WORD
                   /\ (r.stride = 0) <=> (r.lo = r.hi)
                   /\ r.stride # 0 => Width(r) % r.stride = 0
    <3> DEFINE r == answer[of][window]
    <3>1. window \in Windows
      BY DEF Windows
    <3>2. AnswerTyped(r, window)
      BY <2>2, <3>1, AnswerFacts
    <3>3. r # None
      BY <2>2
    <3> HIDE DEF r
    <3>4. r \in Ranges /\ (IF window = "word" THEN 0 ELSE S_MIN) <= r.lo /\ r.hi < WORD
      BY <2>2, <3>2, <3>3 DEF AnswerTyped
    <3>5. r.lo <= r.hi /\ ((r.stride = 0) <=> (r.lo = r.hi))
      BY <3>4, RangeFacts
    <3>6. r.stride # 0 => Width(r) % r.stride = 0
      BY <3>4 DEF Ranges, Width
    <3> QED BY <3>4, <3>5, <3>6 DEF r
  <2> QED BY <2>1, <2>2 DEF TypeOK, LoopOK, RoundOK, CounterOK, UseOK
<1> QED BY <1>1, InductionHolds, PTL

(***************************************************************************)
(* bits.ts:837-838, 265-270: no run of any loop, however often it goes     *)
(* round and wherever it wraps, takes the counter out of its answer.       *)
(***************************************************************************)
THEOREM CounterStaysCovered == Spec => []CounterCovered
<1>1. IInv => CounterCovered
  <2> SUFFICES ASSUME IInv, k # None, NEW window \in Windows
               PROVE  LET r == answer["counter"][window]
                      IN  r = None \/ IF window \in {"integers", "wordFirst"} THEN rangeMayBe(r, k)
                                      ELSE \E x \in Points(r) : mod(x) = k
    BY DEF CounterCovered, Covers
  <2>1. answer # None
    BY DEF IInv, CounterOK
  <2>2. AnswerCovers(answer["counter"][window], window, k)
    BY <2>1, AnswerFacts
  <2> QED BY <2>2 DEF AnswerCovers
<1> QED BY <1>1, InductionHolds, PTL

(***************************************************************************)
(* bits.ts:838-840, 844-861: nor does a value read from the counter below  *)
(* a test leave what was answered of it there, for any expression of the   *)
(* model and any test.                                                     *)
(***************************************************************************)
THEOREM UseStaysCovered == Spec => []UseCovered
<1>1. IInv => UseCovered
  <2> SUFFICES ASSUME IInv, use # None, NEW window \in Windows
               PROVE  LET r == answer["use"][window]
                      IN  r = None \/ IF window \in {"integers", "wordFirst"} THEN rangeMayBe(r, use)
                                      ELSE \E x \in Points(r) : mod(x) = use
    BY DEF UseCovered, Covers
  <2>1. answer # None
    BY DEF IInv, UseOK
  <2>2. AnswerCovers(answer["use"][window], window, use)
    BY <2>1, AnswerFacts
  <2> QED BY <2>2 DEF AnswerCovers
<1> QED BY <1>1, InductionHolds, PTL

-----------------------------------------------------------------------------
(* An up-counter under a latch.                                            *)

\* The hull of ranges one of which already holds the others.
LEMMA HullIs ==
  ASSUME NEW S, S \subseteq Ranges, IsFiniteSet(S), NEW h \in S,
         \A r \in S : /\ h.lo <= r.lo /\ r.hi <= h.hi
                      /\ Divides(h.stride, r.stride) /\ Divides(h.stride, r.lo - h.lo)
  PROVE  hullOf(S) = h
<1> DEFINE q == hullOf(S)
           D == {r.stride : r \in S} \cup {r.lo - q.lo : r \in S}
<1>1. /\ q \in Ranges /\ q.lo <= h.lo /\ h.hi <= q.hi
      /\ (\E r \in S : q.lo = r.lo) /\ (\E r \in S : q.hi = r.hi)
      /\ q.stride = gcdOf(D) /\ IsFiniteSet(D) /\ D \subseteq Nat
  BY HullFacts
<1>2. /\ q.lo \in Int /\ q.hi \in Int /\ q.stride \in Nat /\ (q.stride = 0 <=> q.lo = q.hi)
      /\ q = Strided(q.lo, q.hi, q.stride)
      /\ h.lo \in Int /\ h.hi \in Int /\ h.stride \in Nat /\ (h.stride = 0 <=> h.lo = h.hi)
      /\ h = Strided(h.lo, h.hi, h.stride)
  BY <1>1, RangeFacts
<1>3. \A r \in S : r.lo \in Int /\ r.hi \in Int
  BY RangeFacts
<1>4. q.lo = h.lo /\ q.hi = h.hi
  <2> HIDE DEF q
  <2> QED BY <1>1, <1>2, <1>3
<1>5. q.stride = h.stride
  <2>1. CASE h.stride = 0
    BY <1>2, <1>4, <2>1
  <2>2. CASE h.stride # 0
    <3>1. h.stride \in D /\ ~(D \subseteq {0})
      BY <2>2
    <3>2. \A x \in D : Divides(h.stride, x)
      BY <1>4
    <3> HIDE DEF D
    <3>3. gcdOf(D) \in Nat /\ Divides(gcdOf(D), h.stride) /\ h.stride <= gcdOf(D)
      <4>1. /\ gcdOf(D) \in Nat /\ \A x \in D : Divides(gcdOf(D), x)
            /\ \A d \in Nat \ {0} : ~(D \subseteq {0}) /\ (\A x \in D : Divides(d, x)) => d <= gcdOf(D)
        BY <1>1, GcdFacts
      <4> QED BY <1>2, <2>2, <3>1, <3>2, <4>1
    <3>4. ~(h.stride < gcdOf(D))
      BY <1>2, <2>2, <3>3, DividesSmall
    <3> QED BY <1>1, <1>2, <3>3, <3>4
  <2> QED BY <2>1, <2>2
<1> HIDE DEF q
<1> QED BY <1>2, <1>4, <1>5 DEF q

\* The loop of UpCounter: its one edge e adds c, under a latch that leaves floor..b.
LatchLoop(p, b, c, e, floor) ==
  /\ p.start \in Ranges /\ 0 <= p.start.lo /\ p.start.hi + c <= S_MAX
  /\ b \in Nat /\ c \in Nat \ {0} /\ b + c <= S_MAX
  /\ p.edges = {e} /\ e.arg = [Id EXCEPT !.add = c] /\ e.onK = None
  /\ floor \in {0, S_MIN}
  /\ factOf(e.onNext) = [r |-> Span(floor, b), window |-> IF floor = 0 THEN "u" ELSE "s"]

LEMMA LatchIs ==
  ASSUME NEW programs \in Families, NEW p \in programs, NEW b \in 0..S_MAX, UpCounter(p, b)
  PROVE  \E c, e, floor : LatchLoop(p, b, c, e, floor)
<1>1. PICK c \in 1..WORD, t \in {e.onNext : e \in p.edges} :
        /\ p.edges = {[arg |-> [Id EXCEPT !.add = c], onK |-> None, onNext |-> t]}
        /\ b + c <= S_MAX /\ p.start.hi + c <= S_MAX
        /\ t # None /\ t.rhs.lo \in 0..S_MAX
        /\ \/ t.op \in {"slt", "ult"} /\ t.rhs.hi = b + 1
           \/ t.op \in {"sle", "ule"} /\ t.rhs.hi = b
  BY DEF UpCounter
<1> DEFINE e == [arg |-> [Id EXCEPT !.add = c], onK |-> None, onNext |-> t]
           floor == IF t.op \in {"ult", "ule"} THEN 0 ELSE S_MIN
<1>2. /\ WORD \in Nat /\ S_MIN \in Int /\ S_MAX \in Nat /\ S_MIN < 0 /\ S_MAX < WORD
      /\ p.start.lo \in 0..S_MAX /\ b \in Nat /\ c \in Nat \ {0}
  BY WordFacts DEF UpCounter
<1>3. t \in Condition /\ p.start \in Ranges
  BY <1>1, ProgramFacts
<1>4. t.rhs \in Ranges /\ t.rhs.lo \in Int /\ t.rhs.hi \in Int /\ 0 <= t.rhs.lo /\ t.rhs.hi <= S_MAX
  <2>1. t.rhs \in Ranges
    BY <1>3 DEF Condition
  <2> QED BY <1>1, <1>2, <2>1, RangeFacts
<1>5. intoWord(t.rhs) = t.rhs /\ intoSigned(t.rhs) = t.rhs /\ t.rhs # None
  <2>1. t.rhs.hi < WORD /\ S_MIN <= t.rhs.lo
    BY <1>2, <1>4
  <2> QED BY <1>4, <2>1, IntoWordFacts, IntoSignedFacts, RangeFacts
<1>6. testBound(t.op, t.rhs) = Bound(floor, b, IF floor = 0 THEN "u" ELSE "s")
  <2>1. CASE t.op \in {"ult", "ule"}
    <3>1. testBound(t.op, t.rhs) = wordBound(t.op, t.rhs)
      BY <1>5, <2>1 DEF testBound
    <3>2. wordBound(t.op, t.rhs) = Bound(0, b, "u")
      <4>1. CASE t.op = "ult"
        <5>1. t.rhs.hi - 1 = b
          BY <1>1, <1>2, <1>4, <4>1
        <5> QED BY <1>5, <4>1, <5>1 DEF wordBound
      <4>2. CASE t.op = "ule"
        <5>1. t.rhs.hi = b
          BY <1>1, <1>2, <1>4, <4>2
        <5> QED BY <1>5, <4>2, <5>1 DEF wordBound
      <4> QED BY <2>1, <4>1, <4>2
    <3> QED BY <2>1, <3>1, <3>2
  <2>2. CASE t.op \in {"slt", "sle"}
    <3>1. testBound(t.op, t.rhs) = signedBound(t.op, t.rhs)
      BY <1>5, <2>2 DEF testBound
    <3>2. signedBound(t.op, t.rhs) = Bound(S_MIN, b, "s")
      <4>1. CASE t.op = "slt"
        <5>1. t.rhs.hi - 1 = b
          BY <1>1, <1>2, <1>4, <4>1
        <5> QED BY <1>5, <4>1, <5>1 DEF signedBound
      <4>2. CASE t.op = "sle"
        <5>1. t.rhs.hi = b
          BY <1>1, <1>2, <1>4, <4>2
        <5> QED BY <1>5, <4>2, <5>1 DEF signedBound
      <4> QED BY <2>2, <4>1, <4>2
    <3>3. floor = S_MIN /\ S_MIN # 0
      BY <1>2, <2>2
    <3> QED BY <3>1, <3>2, <3>3
  <2> QED BY <1>1, <2>1, <2>2
<1>7. factOf(t) = [r |-> Span(floor, b), window |-> IF floor = 0 THEN "u" ELSE "s"]
  <2>1. floor <= b /\ ~(floor > b)
    BY <1>2
  <2> HIDE DEF floor
  <2> QED BY <1>1, <1>6, <2>1 DEF factOf, Bound
<1>8. LatchLoop(p, b, c, e, floor)
  BY <1>1, <1>2, <1>3, <1>7 DEF LatchLoop
<1> QED BY <1>8

\* What the edge passes of a counter that cannot wrap, and of one nothing is known of.
LEMMA LatchEdge ==
  ASSUME NEW p, NEW b, NEW c, NEW e, NEW floor, LatchLoop(p, b, c, e, floor),
         NEW r \in Ranges, 0 <= r.lo, r.hi + c <= S_MAX
  PROVE  LET x == edgeRange(e, r)
         IN  x # Never => /\ x \in Ranges /\ x.lo = r.lo + c /\ x.hi <= r.hi + c /\ x.hi <= b
                          /\ x.stride \in {0, r.stride}
<1> DEFINE a == e.arg
           f == factOf(e.onNext)
           q == formRange(a, r)
           x == edgeRange(e, r)
<1>1. /\ WORD \in Nat /\ S_MIN \in Int /\ S_MAX \in Nat /\ S_MIN < 0 /\ S_MAX < WORD
      /\ b \in Nat /\ c \in Nat \ {0} /\ b + c <= S_MAX /\ floor \in Int /\ floor <= 0 /\ e.onK = None
  BY WordFacts DEF LatchLoop
<1>2. a.mul = 1 /\ a.add = c /\ a.op = "id"
  BY DEF LatchLoop, Id
<1>3. r.lo \in Int /\ r.hi \in Int /\ r.stride \in Nat /\ r.lo <= r.hi /\ r # Never /\ r # None
  BY RangeFacts
<1>4. q \in Ranges /\ q.lo = r.lo + c /\ q.hi = r.hi + c /\ q.stride = r.stride
  <2>1. r \in Answered /\ a.mul \in Int /\ a.add \in Int
    BY <1>1, <1>2 DEF Answered
  <2>2. /\ q \in Ranges
        /\ q.lo = a.add + a.mul * (IF a.mul > 0 THEN r.lo ELSE r.hi)
        /\ q.hi = a.add + a.mul * (IF a.mul > 0 THEN r.hi ELSE r.lo)
        /\ q.stride = Abs(a.mul) * r.stride
    <3> HIDE DEF a
    <3> QED BY <1>2, <2>1, FormSound
  <2>3. Abs(a.mul) = 1
    BY <1>2 DEF Abs
  <2> HIDE DEF q, a
  <2> QED BY <1>1, <1>2, <1>3, <2>2, <2>3
<1>5. x = under(q, f)
  <2>1. under(r, factOf(e.onK)) = r
    BY <1>1 DEF factOf, under
  <2>2. termRange(a, r) = q
    BY <1>2 DEF termRange, operationRange
  <2>3. ~Constant(a)
    BY <1>2 DEF Constant
  <2> QED BY <2>1, <2>2, <2>3 DEF edgeRange
<1>6. f.r = Span(floor, b) /\ f.window = (IF floor = 0 THEN "u" ELSE "s") /\ f # None
  <2>1. f = [r |-> Span(floor, b), window |-> IF floor = 0 THEN "u" ELSE "s"]
    BY DEF LatchLoop
  <2>2. f \in EdgeBound
    <3>1. Span(floor, b) \in Ranges
      BY <1>1, SpanFacts
    <3> QED BY <2>1, <3>1 DEF EdgeBound
  <2>3. f # None
    BY <2>2, DistinctAssumption
  <2> HIDE DEF f
  <2> QED BY <2>1, <2>3
<1> HIDE DEF f, a
<1>7. intoWord(q) = q /\ intoSigned(q) = q /\ q # None /\ q # Never
  <2>1. 0 <= q.lo /\ q.hi < WORD /\ S_MIN <= q.lo /\ q.hi <= S_MAX
    <3> HIDE DEF q
    <3> QED BY <1>1, <1>3, <1>4
  <2> HIDE DEF q
  <2> QED BY <1>4, <2>1, IntoWordFacts, IntoSignedFacts, RangeFacts
<1> HIDE DEF q, x
<1>8. x = meetIn(q, Span(floor, b))
  BY <1>5, <1>6, <1>7 DEF under, meetBound, meetOf
<1>9. /\ Span(floor, b) \in Ranges /\ Span(floor, b).lo = floor /\ Span(floor, b).hi = b
  BY <1>1, SpanFacts
<1>10. x # Never => /\ x \in Ranges /\ x.hi <= q.hi /\ x.hi <= b /\ x.stride \in {0, q.stride}
                    /\ (floor <= q.lo => x.lo = q.lo)
  BY <1>4, <1>8, <1>9, MeetInFacts
<1> QED BY <1>1, <1>3, <1>4, <1>10 DEF x

LEMMA LatchUnknown ==
  ASSUME NEW p, NEW b, NEW c, NEW e, NEW floor, LatchLoop(p, b, c, e, floor)
  PROVE  edgeRange(e, None) = Span(floor, b) /\ readsItself(e)
<1> DEFINE f == factOf(e.onNext)
<1>1. e.arg.mul = 1 /\ e.arg.op = "id" /\ e.onK = None
  BY DEF LatchLoop, Id
<1>2. f = [r |-> Span(floor, b), window |-> IF floor = 0 THEN "u" ELSE "s"] /\ f \in EdgeBound
  <2>1. floor \in Int /\ b \in Int /\ floor <= b
    BY WordFacts DEF LatchLoop
  <2>2. Span(floor, b) \in Ranges
    BY <2>1, SpanFacts
  <2> QED BY <2>2 DEF LatchLoop, EdgeBound
<1>3. termRange(e.arg, under(None, factOf(e.onK))) = None
  BY <1>1 DEF factOf, under, termRange, operationRange, formRange, Known
<1>4. ~Constant(e.arg) /\ readsItself(e)
  BY <1>1 DEF Constant, readsItself
<1>5. edgeRange(e, None) = under(None, f)
  BY <1>3, <1>4 DEF edgeRange
<1> HIDE DEF f
<1>6. under(None, f) = f.r
  BY <1>2, DistinctAssumption DEF under, meetBound
<1> QED BY <1>2, <1>4, <1>5, <1>6

\* Once the latch is named: a hypothesis from the start up to the latch or to the end of
\* the start, in steps that divide the loop's own.
Settled(p, b, r) ==
  /\ r \in Ranges /\ r.lo = p.start.lo /\ r.hi = Max({b, p.start.hi})
  /\ Divides(r.stride, p.start.stride) /\ \A e \in p.edges : Divides(r.stride, e.arg.add)

\* The seeds are the start alone.
LEMMA LatchStarts ==
  ASSUME NEW p, NEW b, NEW c, NEW e, NEW floor, LatchLoop(p, b, c, e, floor)
  PROVE  hullOf(seeds(p) \ {None, Never}) = p.start
<1>1. p.start \in Ranges /\ p.edges = {e}
  BY DEF LatchLoop
<1>2. readsItself(e) /\ p.start # None /\ p.start # Never
  BY <1>1, LatchUnknown, RangeFacts
<1>3. seeds(p) \ {None, Never} = {p.start}
  BY <1>1, <1>2 DEF seeds
<1> DEFINE S == {p.start}
<1>4. hullOf(S) = p.start
  <2>1. /\ p.start.stride \in Nat /\ p.start.lo \in Int /\ p.start.hi \in Int
        /\ p.start.lo - p.start.lo = 0 /\ p.start.lo <= p.start.lo /\ p.start.hi <= p.start.hi
    BY <1>1, RangeFacts
  <2>2. Divides(p.start.stride, p.start.stride) /\ Divides(p.start.stride, p.start.lo - p.start.lo)
    BY <2>1, DividesSelf
  <2>3. IsFiniteSet(S) /\ S \subseteq Ranges /\ p.start \in S /\ \A r \in S : r = p.start
    BY <1>1, FS_Singleton
  <2> HIDE DEF S
  <2> QED BY <2>1, <2>2, <2>3, HullIs
<1> QED BY <1>3, <1>4

\* A settled hypothesis is one no in-edge leaves.
LEMMA LatchSettles ==
  ASSUME NEW p, NEW b, NEW c, NEW e, NEW floor, LatchLoop(p, b, c, e, floor),
         NEW r, Settled(p, b, r)
  PROVE  None \notin passed(p, r) /\ hullOf({r} \cup (passed(p, r) \ {Never})) = r
<1> DEFINE x == edgeRange(e, r)
           S == {r} \cup (passed(p, r) \ {Never})
<1>1. /\ p.start \in Ranges /\ p.edges = {e} /\ 0 <= p.start.lo /\ p.start.hi + c <= S_MAX
      /\ b \in Nat /\ c \in Nat \ {0} /\ b + c <= S_MAX /\ S_MAX \in Nat /\ e.arg.add = c
  BY WordFacts DEF LatchLoop, Id
<1>2. /\ p.start.lo \in Int /\ p.start.hi \in Int /\ p.start.stride \in Nat /\ p.start # None
      /\ p.start.lo <= p.start.hi
  BY <1>1, RangeFacts
<1>3. r.hi = (IF b <= p.start.hi THEN p.start.hi ELSE b)
  BY <1>1, <1>2, MaxOfTwo DEF Settled
<1>4. /\ r \in Ranges /\ r.lo = p.start.lo /\ Divides(r.stride, p.start.stride) /\ Divides(r.stride, c)
      /\ r.stride \in Nat /\ r.lo \in Int /\ r.hi \in Int /\ r # None
  BY <1>1, RangeFacts DEF Settled
<1>5. x # Never => x \in Ranges /\ x.lo = r.lo + c /\ x.hi <= b /\ x.stride \in {0, r.stride}
  <2>1. 0 <= r.lo /\ r.hi + c <= S_MAX
    BY <1>1, <1>2, <1>3, <1>4
  <2> HIDE DEF x
  <2> QED BY <1>4, <2>1, LatchEdge DEF x
<1>6. passed(p, r) = {p.start, x}
  BY <1>1 DEF passed
<1> HIDE DEF x
<1>7. None \notin passed(p, r)
  BY <1>2, <1>5, <1>6, DistinctAssumption
<1>8. IsFiniteSet(S) /\ S \subseteq Ranges /\ r \in S
  <2>1. IsFiniteSet({r}) /\ IsFiniteSet({p.start}) /\ IsFiniteSet({x})
    BY FS_Singleton
  <2>2. IsFiniteSet({p.start} \cup {x})
    BY <2>1, FS_Union
  <2>3. {p.start} \cup {x} = passed(p, r)
    BY <1>6
  <2>4. IsFiniteSet(passed(p, r) \ {Never})
    BY <2>2, <2>3, FS_Difference
  <2>5. IsFiniteSet(S)
    BY <2>1, <2>4, FS_Union
  <2> QED BY <1>1, <1>4, <1>5, <1>6, <2>5
<1>9. ASSUME NEW g \in S
      PROVE  r.lo <= g.lo /\ g.hi <= r.hi /\ Divides(r.stride, g.stride) /\ Divides(r.stride, g.lo - r.lo)
  <2>0. Divides(r.stride, 0) /\ Divides(r.stride, r.stride)
    BY <1>4, DividesSelf
  <2>1. CASE g = r
    <3>1. r.lo - r.lo = 0 /\ r.lo <= r.lo /\ r.hi <= r.hi
      BY <1>4
    <3> QED BY <2>0, <2>1, <3>1
  <2>2. CASE g = p.start
    <3>1. p.start.lo - r.lo = 0 /\ r.lo <= p.start.lo /\ p.start.hi <= r.hi
      BY <1>1, <1>2, <1>3, <1>4
    <3> QED BY <1>4, <2>0, <2>2, <3>1
  <2>3. CASE g = x /\ x # Never
    <3>1. x.lo - r.lo = c /\ r.lo <= x.lo /\ x.hi <= r.hi
      <4>1. x.hi \in Int /\ x.lo \in Int
        BY <1>5, <2>3, RangeFacts
      <4> QED BY <1>1, <1>2, <1>3, <1>4, <1>5, <2>3, <4>1
    <3>2. Divides(r.stride, x.stride)
      BY <1>5, <2>0, <2>3
    <3> QED BY <1>4, <2>3, <3>1, <3>2
  <2> QED BY <1>6, <2>1, <2>2, <2>3
<1>10. hullOf(S) = r
  <2> HIDE DEF S
  <2> QED BY <1>8, <1>9, HullIs
<1> QED BY <1>7, <1>10

\* The first round that grows names the latch, and settles.
LEMMA LatchNames ==
  ASSUME NEW p, NEW b, NEW c, NEW e, NEW floor, LatchLoop(p, b, c, e, floor),
         NEW next, next = hullOf({p.start} \cup (passed(p, p.start) \ {Never})), next # p.start
  PROVE  Settled(p, b, hullOf({next} \cup named(p, p.start)))
<1> DEFINE x == edgeRange(e, p.start)
           S == {p.start, x}
           T == {next, Point(b)}
           h == hullOf(T)
<1>1. /\ p.start \in Ranges /\ p.edges = {e} /\ 0 <= p.start.lo /\ p.start.hi + c <= S_MAX
      /\ b \in Nat /\ c \in Nat \ {0} /\ b + c <= S_MAX /\ S_MAX \in Nat /\ S_MIN \in Int /\ S_MIN < 0
      /\ S_MAX < WORD /\ WORD \in Nat /\ e.arg.add = c /\ e.arg.mul = 1 /\ e.onK = None
      /\ floor \in {0, S_MIN}
  BY WordFacts DEF LatchLoop, Id
<1>2. /\ p.start.lo \in Int /\ p.start.hi \in Int /\ p.start.stride \in Nat /\ p.start # Never
      /\ p.start.lo <= p.start.hi
  BY <1>1, RangeFacts
<1>3. passed(p, p.start) = {p.start, x}
  BY <1>1 DEF passed
<1>4. x # Never
  <2> SUFFICES ASSUME x = Never PROVE FALSE
    OBVIOUS
  <2>1. {p.start} \cup (passed(p, p.start) \ {Never}) = {p.start}
    BY <1>2, <1>3
  <2>2. IsFiniteSet({p.start}) /\ Divides(p.start.stride, p.start.stride) /\ Divides(p.start.stride, 0)
    BY <1>2, FS_Singleton, DividesSelf
  <2>3. p.start.lo - p.start.lo = 0 /\ p.start.lo <= p.start.lo /\ p.start.hi <= p.start.hi
    BY <1>2
  <2>4. hullOf({p.start}) = p.start
    <3> DEFINE U == {p.start}
    <3>1. p.start \in U /\ U \subseteq Ranges /\ \A r \in U : r = p.start
      BY <1>1
    <3>2. IsFiniteSet(U)
      BY <2>2
    <3> HIDE DEF U
    <3>3. hullOf(U) = p.start
      BY <2>2, <2>3, <3>1, <3>2, HullIs
    <3> QED BY <3>3 DEF U
  <2> QED BY <2>1, <2>4
<1>5. x \in Ranges /\ x.lo = p.start.lo + c /\ x.hi <= b /\ x.stride \in {0, p.start.stride}
  BY <1>1, <1>4, LatchEdge
<1>6. x.lo \in Int /\ x.hi \in Int /\ x.stride \in Nat /\ x.lo <= x.hi
  BY <1>5, RangeFacts
<1>7. named(p, p.start) = {Point(b)}
  <2> DEFINE f == factOf(e.onNext)
  <2>1. f = [r |-> Span(floor, b), window |-> IF floor = 0 THEN "u" ELSE "s"] /\ f # None
    <3>1. floor \in Int /\ floor <= b
      BY <1>1
    <3>2. Span(floor, b) \in Ranges
      BY <1>1, <3>1, SpanFacts
    <3>3. f = [r |-> Span(floor, b), window |-> IF floor = 0 THEN "u" ELSE "s"]
      BY DEF LatchLoop
    <3>4. f \in EdgeBound
      BY <3>2, <3>3 DEF EdgeBound
    <3> QED BY <3>3, <3>4, DistinctAssumption
  <2>2. Span(floor, b).lo = floor /\ Span(floor, b).hi = b
    BY <1>1, SpanFacts
  <2>3. b # 0 /\ b # WORD - 1 /\ b # S_MAX /\ b # S_MIN
    BY <1>1, <1>2, <1>5, <1>6
  <2>4. boundSides(f) = {Point(b)}
    <3>1. f.r.lo = floor /\ f.r.hi = b /\ f.window = (IF floor = 0 THEN "u" ELSE "s")
      BY <2>1, <2>2
    <3> HIDE DEF f
    <3>2. {f.r.lo, f.r.hi} \ (IF f.window = "u" THEN {0, WORD - 1} ELSE {S_MIN, S_MAX}) = {b}
      BY <1>1, <2>3, <3>1
    <3> QED BY <2>1, <3>2 DEF boundSides
  <2>5. {d \in p.edges : edgeRange(d, p.start) # Never} = {e}
    BY <1>1, <1>4
  <2>6. boundSides(factOf(e.onK)) = {}
    BY <1>1 DEF factOf, boundSides
  <2>7. e.arg.mul # 0
    BY <1>1
  <2> HIDE DEF f
  <2>8. (boundSides(factOf(e.onK)) \cup (IF e.arg.mul = 0 THEN {} ELSE boundSides(factOf(e.onNext)))) = {Point(b)}
    BY <2>4, <2>6, <2>7 DEF f
  <2> QED BY <2>5, <2>8 DEF named
<1> HIDE DEF x
<1>8. IsFiniteSet(S) /\ S \subseteq Ranges /\ S # {} /\ hullOf(S) = next
  <2>1. IsFiniteSet({p.start}) /\ IsFiniteSet({x})
    BY FS_Singleton
  <2>2. IsFiniteSet({p.start} \cup {x}) /\ {p.start} \cup {x} = S
    BY <2>1, FS_Union
  <2>3. {p.start} \cup (passed(p, p.start) \ {Never}) = S
    BY <1>2, <1>3, <1>4
  <2>4. IsFiniteSet(S)
    BY <2>2
  <2> QED BY <1>1, <1>5, <2>3, <2>4
<1>9. /\ next \in Ranges /\ next.lo \in Int /\ next.hi \in Int /\ next.stride \in Nat
      /\ next.lo = p.start.lo /\ next.hi \in {p.start.hi, x.hi} /\ p.start.hi <= next.hi /\ x.hi <= next.hi
      /\ Divides(next.stride, p.start.stride) /\ Divides(next.stride, c)
  <2> HIDE DEF S
  <2>1. /\ hullOf(S) \in Ranges
        /\ \A r \in S : /\ hullOf(S).lo <= r.lo /\ r.hi <= hullOf(S).hi
                        /\ Divides(hullOf(S).stride, r.stride) /\ Divides(hullOf(S).stride, r.lo - hullOf(S).lo)
        /\ \E r \in S : hullOf(S).lo = r.lo
        /\ \E r \in S : hullOf(S).hi = r.hi
    BY <1>8, HullFacts
  <2>2. /\ next \in Ranges
        /\ next.lo <= p.start.lo /\ p.start.hi <= next.hi /\ next.lo <= x.lo /\ x.hi <= next.hi
        /\ Divides(next.stride, p.start.stride) /\ Divides(next.stride, x.lo - next.lo)
        /\ next.lo \in {p.start.lo, x.lo} /\ next.hi \in {p.start.hi, x.hi}
    BY <1>8, <2>1 DEF S
  <2>3. next.lo \in Int /\ next.hi \in Int /\ next.stride \in Nat
    BY <2>2, RangeFacts
  <2>4. next.lo = p.start.lo /\ x.lo - next.lo = c
    BY <1>1, <1>2, <1>5, <1>6, <2>2, <2>3
  <2> QED BY <2>2, <2>3, <2>4
<1>10. Point(b) \in Ranges /\ Point(b).lo = b /\ Point(b).hi = b
  BY <1>1, SpanFacts DEF Point
<1>11. IsFiniteSet(T) /\ T \subseteq Ranges /\ T # {}
  <2>1. IsFiniteSet({next}) /\ IsFiniteSet({Point(b)})
    BY FS_Singleton
  <2>2. IsFiniteSet({next} \cup {Point(b)}) /\ {next} \cup {Point(b)} = T
    BY <2>1, FS_Union
  <2>3. IsFiniteSet(T)
    BY <2>2
  <2> QED BY <1>9, <1>10, <2>3
<1>12. /\ h \in Ranges /\ h.lo <= next.lo /\ next.hi <= h.hi /\ h.lo <= b /\ b <= h.hi
       /\ h.lo \in {next.lo, b} /\ h.hi \in {next.hi, b} /\ Divides(h.stride, next.stride)
       /\ h.lo \in Int /\ h.hi \in Int /\ h.stride \in Nat
  <2> HIDE DEF T
  <2>1. /\ hullOf(T) \in Ranges
        /\ \A r \in T : /\ hullOf(T).lo <= r.lo /\ r.hi <= hullOf(T).hi /\ Divides(hullOf(T).stride, r.stride)
        /\ \E r \in T : hullOf(T).lo = r.lo
        /\ \E r \in T : hullOf(T).hi = r.hi
    BY <1>11, HullFacts
  <2>2. /\ h.lo <= next.lo /\ next.hi <= h.hi /\ h.lo <= b /\ b <= h.hi
        /\ h.lo \in {next.lo, b} /\ h.hi \in {next.hi, b} /\ Divides(h.stride, next.stride)
    BY <1>10, <2>1 DEF T
  <2> QED BY <2>1, <2>2, RangeFacts
<1>13. h = hullOf({next} \cup named(p, p.start))
  <2>1. {next} \cup named(p, p.start) = T
    BY <1>7
  <2> QED BY <2>1
<1> HIDE DEF h
<1>14. h.lo = p.start.lo /\ h.hi = Max({b, p.start.hi})
  <2>1. Max({b, p.start.hi}) = (IF b <= p.start.hi THEN p.start.hi ELSE b)
    <3>1. b \in Int /\ p.start.hi \in Int
      BY <1>1, <1>2
    <3> QED BY ONLY <3>1, MaxOfTwo
  <2> QED BY <1>1, <1>2, <1>5, <1>6, <1>9, <1>12, <2>1
<1>15. Divides(h.stride, p.start.stride) /\ Divides(h.stride, c)
  <2>1. p.start.stride \in Int /\ c \in Int
    BY <1>1, <1>2
  <2> QED BY <1>9, <1>12, <2>1, DividesTrans
<1>16. Settled(p, b, h)
  BY <1>1, <1>12, <1>14, <1>15 DEF Settled
<1> QED BY <1>13, <1>16

\* The start until the latch is named, then a range that no in-edge leaves.
LatchOK ==
  \A b \in 0..S_MAX : UpCounter(loop, b) =>
    /\ \/ round = 0 /\ hyp = loop.start
       \/ round = 1 /\ Settled(loop, b, hyp)
    /\ proven.done => /\ proven.r \in Ranges /\ proven.r.lo = loop.start.lo
                      /\ proven.r.hi <= Max({b, loop.start.hi})

LEMMA LatchInit ==
  Init => LatchOK
<1> SUFFICES ASSUME Init, NEW b \in 0..S_MAX, UpCounter(loop, b)
             PROVE  round = 0 /\ hyp = loop.start /\ ~proven.done
  BY DEF LatchOK
<1>1. PICK programs \in Families : loop \in programs
  BY DEF Init
<1>2. PICK c, e, floor : LatchLoop(loop, b, c, e, floor)
  BY <1>1, LatchIs
<1>3. hyp = loop.start
  BY <1>2, LatchStarts DEF Init
<1>4. \E d \in loop.edges : readsItself(d)
  BY <1>2, LatchUnknown DEF LatchLoop
<1>5. round = 0
  BY <1>4 DEF Init
<1>6. ~proven.done
  BY DEF Init
<1> QED BY <1>3, <1>5, <1>6

LEMMA LatchGrows ==
  ASSUME IInv, LatchOK, Grow
  PROVE  LatchOK'
<1>1. LoopOK /\ UNCHANGED <<loop, proven>> /\ round' = round + 1
  BY DEF IInv, Grow
<1> SUFFICES ASSUME NEW b \in 0..S_MAX, UpCounter(loop, b)
             PROVE  round' = 1 /\ Settled(loop, b, hyp')
  BY <1>1 DEF LatchOK
<1>2. PICK programs \in Families : loop \in programs
  BY <1>1 DEF LoopOK
<1>3. PICK c, e, floor : LatchLoop(loop, b, c, e, floor)
  BY <1>2, LatchIs
<1> DEFINE next == hullOf({hyp} \cup (passed(loop, hyp) \ {Never}))
<1>4. /\ next # hyp
      /\ hyp' = IF round = 0 THEN hullOf({next} \cup named(loop, hyp)) ELSE next
  BY DEF Grow, GrowTo, grown
<1>5. CASE round = 0 /\ hyp = loop.start
  <2>1. hyp' = hullOf({next} \cup named(loop, loop.start))
    BY <1>4, <1>5
  <2>2. next = hullOf({loop.start} \cup (passed(loop, loop.start) \ {Never})) /\ next # loop.start
    BY <1>4, <1>5
  <2> HIDE DEF next
  <2>3. Settled(loop, b, hullOf({next} \cup named(loop, loop.start)))
    BY <1>3, <2>2, LatchNames
  <2> QED BY <1>1, <1>5, <2>1, <2>3
<1>6. CASE round = 1 /\ Settled(loop, b, hyp)
  <2>1. next = hyp
    BY <1>3, <1>6, LatchSettles
  <2> QED BY <1>4, <2>1
<1> QED BY <1>5, <1>6 DEF LatchOK

LEMMA LatchConcludes ==
  ASSUME IInv, LatchOK, Conclude
  PROVE  LatchOK'
<1>1. /\ LoopOK /\ UNCHANGED <<loop, hyp, round>>
      /\ proven' = [done |-> TRUE, r |-> IF round = INDUCTION_ROUNDS \/ None \in passed(loop, hyp) THEN None ELSE hyp]
  BY DEF IInv, Conclude, Concluded
<1> SUFFICES ASSUME NEW b \in 0..S_MAX, UpCounter(loop, b)
             PROVE  /\ (round = 0 /\ hyp = loop.start) \/ (round = 1 /\ Settled(loop, b, hyp))
                    /\ proven'.r \in Ranges /\ proven'.r.lo = loop.start.lo
                    /\ proven'.r.hi <= Max({b, loop.start.hi})
  BY <1>1 DEF LatchOK
<1>2. PICK programs \in Families : loop \in programs
  BY <1>1 DEF LoopOK
<1>3. PICK c, e, floor : LatchLoop(loop, b, c, e, floor)
  BY <1>2, LatchIs
<1>4. (round = 0 /\ hyp = loop.start) \/ (round = 1 /\ Settled(loop, b, hyp))
  BY DEF LatchOK
<1>5. round # INDUCTION_ROUNDS
  BY <1>4 DEF INDUCTION_ROUNDS
<1>6. loop.start \in Ranges /\ loop.start.hi \in Int /\ loop.start # None
  BY <1>2, ProgramFacts, RangeFacts
<1>7. Max({b, loop.start.hi}) \in Int /\ loop.start.hi <= Max({b, loop.start.hi})
  <2>1. b \in Int /\ loop.start.hi \in Int
    BY <1>6, WordFacts
  <2>2. Max({b, loop.start.hi}) = (IF b <= loop.start.hi THEN loop.start.hi ELSE b)
    BY ONLY <2>1, MaxOfTwo
  <2> QED BY <2>1, <2>2
<1>8. hyp \in Ranges /\ hyp.lo = loop.start.lo /\ hyp.hi <= Max({b, loop.start.hi})
  BY <1>4, <1>6, <1>7 DEF Settled
<1>9. None \notin passed(loop, hyp)
  <2>1. CASE round = 0 /\ hyp = loop.start
    <3>1. 0 <= loop.start.lo /\ loop.start.hi + c <= S_MAX /\ loop.edges = {e}
      BY <1>3 DEF LatchLoop
    <3>2. edgeRange(e, loop.start) # None
      BY <1>3, <1>6, <3>1, LatchEdge, RangeFacts, DistinctAssumption
    <3> QED BY <1>6, <2>1, <3>1, <3>2 DEF passed
  <2>2. CASE round = 1 /\ Settled(loop, b, hyp)
    BY <1>3, <2>2, LatchSettles
  <2> QED BY <1>4, <2>1, <2>2
<1>10. proven'.r = hyp
  BY <1>1, <1>5, <1>9
<1> QED BY <1>4, <1>8, <1>10

LEMMA LatchStep ==
  ASSUME IInv, LatchOK, [Next]_vars
  PROVE  LatchOK'
<1>1. CASE Grow
  BY <1>1, LatchGrows
<1>2. CASE Conclude
  BY <1>2, LatchConcludes
<1>3. CASE UNCHANGED <<loop, hyp, round, proven>>
  BY <1>3 DEF LatchOK
<1>4. CASE Answer
  BY <1>3, <1>4 DEF Answer
<1>5. CASE Enter
  BY <1>3, <1>5 DEF Enter
<1>6. CASE Read
  BY <1>3, <1>6 DEF Read
<1>7. ASSUME NEW e \in loop.edges, Iterate(e) PROVE LatchOK'
  BY <1>3, <1>7 DEF Iterate
<1>8. CASE UNCHANGED vars
  BY <1>3, <1>8 DEF vars
<1> QED BY <1>1, <1>2, <1>4, <1>5, <1>6, <1>7, <1>8 DEF Next

\* What was proved, or the union where that is no wider, begins at the start and ends by the latch.
LEMMA LatchRange ==
  ASSUME NEW p, NEW b, NEW c, NEW e, NEW floor, LatchLoop(p, b, c, e, floor),
         NEW known \in Ranges, known.lo = p.start.lo, known.hi <= Max({b, p.start.hi})
  PROVE  LET r == counterRange(p, known, FALSE)
         IN  r \in Ranges /\ r.lo = p.start.lo /\ r.hi <= Max({b, p.start.hi})
<1> DEFINE F == Span(floor, b)
           S == {p.start, F}
           u == hullOf(S)
           top == Max({b, p.start.hi})
<1>1. /\ p.start \in Ranges /\ p.edges = {e} /\ 0 <= p.start.lo /\ b \in Int /\ floor \in Int /\ floor <= 0
      /\ floor <= b
  BY WordFacts DEF LatchLoop
<1>2. /\ p.start.lo \in Int /\ p.start.hi \in Int /\ p.start # None /\ p.start # Never
      /\ known.lo \in Int /\ known.hi \in Int /\ known # None
  BY <1>1, RangeFacts
<1>3. top \in Int /\ b <= top /\ p.start.hi <= top /\ known.hi <= top /\ top \in {b, p.start.hi}
  <2>1. top = (IF b <= p.start.hi THEN p.start.hi ELSE b)
    <3>1. b \in Int /\ p.start.hi \in Int
      BY <1>1, <1>2
    <3> QED BY ONLY <3>1, MaxOfTwo
  <2> QED BY <1>1, <1>2, <2>1
<1>4. F \in Ranges /\ F.lo = floor /\ F.hi = b /\ F # None /\ F # Never
  <2>1. F \in Ranges /\ F.lo = floor /\ F.hi = b
    BY <1>1, SpanFacts
  <2> QED BY <2>1, RangeFacts
<1>5. edgeRange(e, None) = F
  BY LatchUnknown
<1> HIDE DEF F
<1>6. passed(p, None) = S
  BY <1>1, <1>5 DEF passed
<1>7. unionOf(passed(p, None), FALSE) = u
  <2>1. None \notin S /\ S \ {Never} = S
    BY <1>2, <1>4
  <2>2. {IF FALSE THEN moved(r) ELSE r : r \in S} = S
    OBVIOUS
  <2> HIDE DEF S
  <2> QED BY <1>6, <2>1, <2>2 DEF unionOf
<1>8. IsFiniteSet(S) /\ S \subseteq Ranges /\ S # {}
  <2>1. IsFiniteSet({p.start}) /\ IsFiniteSet({F})
    BY FS_Singleton
  <2>2. IsFiniteSet({p.start} \cup {F}) /\ {p.start} \cup {F} = S
    BY <2>1, FS_Union
  <2>3. IsFiniteSet(S)
    BY <2>2
  <2> QED BY <1>1, <1>4, <2>3
<1>9. /\ u \in Ranges /\ u.lo <= p.start.lo /\ p.start.hi <= u.hi /\ b <= u.hi
      /\ u.hi \in {p.start.hi, b} /\ u.lo \in Int /\ u.hi \in Int
  <2> HIDE DEF S
  <2>1. /\ hullOf(S) \in Ranges
        /\ \A r \in S : hullOf(S).lo <= r.lo /\ r.hi <= hullOf(S).hi
        /\ \E r \in S : hullOf(S).hi = r.hi
    BY <1>8, HullFacts
  <2>2. u \in Ranges /\ u.lo <= p.start.lo /\ p.start.hi <= u.hi /\ b <= u.hi /\ u.hi \in {p.start.hi, b}
    BY <1>4, <2>1 DEF S
  <2> QED BY <2>2, RangeFacts
<1>10. counterRange(p, known, FALSE) = narrower(u, known)
  BY <1>7 DEF counterRange
<1> HIDE DEF u, S, top
<1>11. CASE Width(u) <= Width(known)
  <2>1. u.hi - u.lo <= known.hi - known.lo
    BY <1>11 DEF Width
  <2>2. u.lo = p.start.lo /\ u.hi <= top
    BY <1>1, <1>2, <1>3, <1>9, <2>1
  <2>3. narrower(u, known) = u
    BY <1>9, <1>11, RangeFacts DEF narrower
  <2> QED BY <1>9, <1>10, <2>2, <2>3 DEF top
<1>12. CASE ~(Width(u) <= Width(known))
  <2>1. narrower(u, known) = known
    BY <1>2, <1>12 DEF narrower
  <2> QED BY <1>10, <2>1
<1> QED BY <1>11, <1>12

(***************************************************************************)
(* bits.ts:1129-1138: an up-counter from a word that is not negative, under*)
(* a latch that tests the value it passes, is answered a range from its    *)
(* start up to the latch, or to the start's own end, on every machine.     *)
(***************************************************************************)
THEOREM LatchesBound == Spec => []LatchBounds
<1>1. IInv /\ LatchOK => LatchBounds
  <2> SUFFICES ASSUME IInv, LatchOK, answer # None, NEW b \in 0..S_MAX, UpCounter(loop, b)
               PROVE  LET r == answer["counter"]["word"]
                      IN  r # None /\ r.lo = loop.start.lo /\ r.hi <= Max({b, loop.start.hi})
    BY DEF LatchBounds
  <2>1. LoopOK /\ proven.done /\ answer = Answers(loop, proven.r)
    BY DEF IInv, AnswerOK
  <2>2. PICK programs \in Families : loop \in programs
    BY <2>1 DEF LoopOK
  <2>3. PICK c, e, floor : LatchLoop(loop, b, c, e, floor)
    BY <2>2, LatchIs
  <2> DEFINE r == counterRange(loop, proven.r, FALSE)
             a == answer["counter"]["word"]
  <2>4. proven.r \in Ranges /\ proven.r.lo = loop.start.lo /\ proven.r.hi <= Max({b, loop.start.hi})
    BY <2>1 DEF LatchOK
  <2>5. r \in Ranges /\ r.lo = loop.start.lo /\ r.hi <= Max({b, loop.start.hi})
    BY <2>3, <2>4, LatchRange
  <2>6. a = stridedRange(loop, proven.r, Id, None, "word")
    BY <2>1 DEF Answers, Windows
  <2> HIDE DEF a, r
  <2>7. termRange(Id, under(r, None)) = r
    <3>1. r.lo \in Int /\ r.hi \in Int /\ r.stride \in Nat /\ r = Strided(r.lo, r.hi, r.stride)
          /\ r # None /\ r # Never
      BY <2>5, RangeFacts
    <3>2. under(r, None) = r
      BY DEF under
    <3>3. Id.mul = 1 /\ Id.add = 0 /\ Id.op = "id"
      BY DEF Id
    <3>4. formRange(Id, r) = Strided(0 + 1 * r.lo, 0 + 1 * r.hi, Abs(1) * r.stride)
      BY <3>1, <3>3 DEF formRange, Known
    <3>5. 0 + 1 * r.lo = r.lo /\ 0 + 1 * r.hi = r.hi /\ Abs(1) * r.stride = r.stride
      BY <3>1 DEF Abs
    <3> QED BY <3>1, <3>2, <3>3, <3>4, <3>5 DEF termRange, operationRange
  <2>8. intoWord(r) = r /\ r # None /\ r # Never
    <3>1. loop.start \in Ranges /\ 0 <= loop.start.lo /\ loop.start.hi + c <= S_MAX /\ b + c <= S_MAX
          /\ c \in Nat /\ b \in Int /\ S_MAX \in Int /\ S_MAX < WORD /\ WORD \in Int
      BY <2>3, WordFacts DEF LatchLoop
    <3>2. loop.start.lo \in Int /\ loop.start.hi \in Int /\ r.lo \in Int /\ r.hi \in Int
      BY <2>5, <3>1, RangeFacts
    <3>3. Max({b, loop.start.hi}) = (IF b <= loop.start.hi THEN loop.start.hi ELSE b)
      BY ONLY <3>1, <3>2, MaxOfTwo
    <3>4. 0 <= r.lo /\ r.hi < WORD
      BY <2>5, <3>1, <3>2, <3>3
    <3> QED BY <2>5, <3>4, IntoWordFacts, RangeFacts
  <2>9. a = r
    <3>1. factOf(None) = None
      BY DEF factOf
    <3>2. stridedRange(loop, proven.r, Id, None, "word") = inWindow(r, termRange(Id, under(counterRange(loop, proven.r, TRUE), None)), "word")
      BY <2>7, <3>1 DEF stridedRange, r
    <3>3. \A m : inWindow(r, m, "word") = r
      BY <2>8 DEF inWindow, Known, wordOf, otherwise
    <3> QED BY <2>6, <3>2, <3>3
  <2> QED BY <2>5, <2>8, <2>9 DEF a
<1>2. Init => LatchOK
  BY LatchInit
<1>3. IInv /\ LatchOK /\ [Next]_vars => LatchOK'
  BY LatchStep
<1> QED BY <1>1, <1>2, <1>3, InductionHolds, PTL DEF Spec

=============================================================================
