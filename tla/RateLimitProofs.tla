--------------------------- MODULE RateLimitProofs --------------------------
(***************************************************************************)
(* What RateLimit promises, for any limits, windows, identifiers and       *)
(* number of concurrent requests: the counters and delays stay in their    *)
(* ranges, the delay is that of unbounded integers although it is computed *)
(* in a fixed width, a bucket admits at most twice its limit within one    *)
(* window, and only a failed EXPIRE, or an INCR whose reply was lost,      *)
(* leaves a counter without an end.                                        *)
(***************************************************************************)
EXTENDS RateLimit, FiniteSetTheorems, FunctionTheorems, TLAPS

-----------------------------------------------------------------------------
(* Powers of two: the number of subsets *)

\* 2 ^ n subsets of n elements, so a power is at least one.
LEMMA PowerIsPositive ==
    ASSUME NEW n \in Nat
    PROVE  2 ^ n \in Nat \ {0}
<1>1. IsFiniteSet(1..n) /\ Cardinality(1..n) = n
  BY FS_Interval
<1>2. IsFiniteSet(SUBSET (1..n)) /\ Cardinality(SUBSET (1..n)) = 2 ^ n
  BY <1>1, FS_SUBSET
<1>3. SUBSET (1..n) # {}
  OBVIOUS
<1> QED BY <1>2, <1>3, FS_CardinalityType, FS_EmptySet

\* A subset of a disjoint union is a pair of subsets.
LEMMA SubsetsPair ==
    ASSUME NEW S, NEW T, S \cap T = {}
    PROVE  ExistsBijection((SUBSET S) \X (SUBSET T), SUBSET (S \cup T))
<1> DEFINE P == (SUBSET S) \X (SUBSET T)
           Q == SUBSET (S \cup T)
           f == [c \in P |-> c[1] \cup c[2]]
<1>1. f \in [P -> Q]
  OBVIOUS
<1>2. \A c, d \in P : f[c] = f[d] => c = d
  <2> SUFFICES ASSUME NEW A \in SUBSET S, NEW B \in SUBSET T,
                      NEW C \in SUBSET S, NEW D \in SUBSET T, A \cup B = C \cup D
               PROVE  A = C /\ B = D
    OBVIOUS
  <2> QED OBVIOUS
<1>3. \A U \in Q : \E c \in P : f[c] = U
  <2> SUFFICES ASSUME NEW U \in Q PROVE \E c \in P : f[c] = U
    OBVIOUS
  <2>1. <<U \cap S, U \cap T>> \in P /\ (U \cap S) \cup (U \cap T) = U
    OBVIOUS
  <2>2. f[<<U \cap S, U \cap T>>] = U
    BY <2>1
  <2> QED BY <2>1, <2>2
<1>4. f \in Bijection(P, Q)
  BY <1>1, <1>2, <1>3, Fun_IsBij
<1> QED BY <1>4 DEF ExistsBijection

\* Exponents add.
LEMMA PowersMultiply ==
    ASSUME NEW a \in Nat, NEW b \in Nat
    PROVE  2 ^ (a + b) = 2 ^ a * 2 ^ b
<1> DEFINE S == 1..a
           T == (a + 1)..(a + b)
<1>1. /\ IsFiniteSet(S) /\ Cardinality(S) = a
      /\ IsFiniteSet(T) /\ Cardinality(T) = b
      /\ IsFiniteSet(1..(a + b)) /\ Cardinality(1..(a + b)) = a + b
  <2>1. /\ IsFiniteSet(S) /\ Cardinality(S) = IF 1 > a THEN 0 ELSE a - 1 + 1
        /\ IsFiniteSet(1..(a + b)) /\ Cardinality(1..(a + b)) = IF 1 > a + b THEN 0 ELSE a + b - 1 + 1
    BY FS_Interval
  <2>2. IsFiniteSet(T) /\ Cardinality(T) = IF a + 1 > a + b THEN 0 ELSE a + b - (a + 1) + 1
    BY FS_Interval
  <2> HIDE DEF S, T
  <2> QED BY <2>1, <2>2
<1>2. S \cap T = {} /\ S \cup T = 1..(a + b)
  OBVIOUS
<1>3. ExistsBijection((SUBSET S) \X (SUBSET T), SUBSET (1..(a + b)))
  BY <1>2, SubsetsPair
<1> HIDE DEF S, T
<1>4. /\ IsFiniteSet(SUBSET S) /\ Cardinality(SUBSET S) = 2 ^ a
      /\ IsFiniteSet(SUBSET T) /\ Cardinality(SUBSET T) = 2 ^ b
      /\ Cardinality(SUBSET (1..(a + b))) = 2 ^ (a + b)
  BY <1>1, FS_SUBSET
<1>5. /\ IsFiniteSet((SUBSET S) \X (SUBSET T))
      /\ Cardinality((SUBSET S) \X (SUBSET T)) = 2 ^ a * 2 ^ b
  BY <1>4, FS_Product
<1> QED BY <1>3, <1>4, <1>5, FS_Bijection

\* The remainder of a division, as the product wraps around.
LEMMA Remainder ==
    ASSUME NEW x \in Int, NEW m \in Nat \ {0}
    PROVE  /\ x % m \in 0..(m - 1)
           /\ \E q \in Int : x = q * m + (x % m)
<1>1. x % m \in 0..(m - 1)
  OBVIOUS
<1>2. x = (x \div m) * m + (x % m) /\ x \div m \in Int
  OBVIOUS
<1> QED BY <1>1, <1>2

-----------------------------------------------------------------------------
(* The delay in a fixed width *)

\* The range of a Duration: 2 ^ IntWidth values from -Half to Half - 1.
Half == 2 ^ (IntWidth - 1)

\* Twice Half is the number of values.
LEMMA Widths ==
    /\ IntWidth \in Nat \ {0, 1} /\ Half \in Nat \ {0} /\ 2 ^ IntWidth = 2 * Half
    /\ MinInt = -Half /\ MaxInt = Half - 1
    /\ 2 ^ 0 = 1 /\ 2 ^ 1 = 2
<1>1. IntWidth \in Nat \ {0, 1}
  BY WidthIsUseful
<1>2. Half \in Nat \ {0}
  BY <1>1, PowerIsPositive DEF Half
<1>3. 2 ^ 0 = 1
  <2>1. 2 ^ 0 \in Nat \ {0} /\ 2 ^ (0 + 0) = 2 ^ 0 * 2 ^ 0
    BY PowerIsPositive, PowersMultiply
  <2>2. ASSUME NEW x \in Nat \ {0}, x = x * x PROVE x = 1
    BY <2>2
  <2> QED BY <2>1, <2>2
<1>4. 2 ^ 1 = 2
  <2>1. IsFiniteSet({1}) /\ Cardinality({1}) = 1
    BY FS_Singleton
  <2>2. Cardinality(SUBSET {1}) = 2 ^ 1
    BY <2>1, FS_SUBSET
  <2>3. ASSUME NEW a, NEW b, a # b
        PROVE  Cardinality({a, b}) = 2
    <3>1. IsFiniteSet({a}) /\ Cardinality({a}) = 1
      BY FS_Singleton
    <3>2. Cardinality({a} \cup {b}) = IF b \in {a} THEN Cardinality({a}) ELSE Cardinality({a}) + 1
      BY <3>1, FS_AddElement
    <3>3. {a} \cup {b} = {a, b} /\ b \notin {a}
      BY <2>3
    <3> QED BY <3>1, <3>2, <3>3
  <2>4. SUBSET {1} = {{}, {1}} /\ {} # {1}
    OBVIOUS
  <2>5. Cardinality({{}, {1}}) = 2
    BY <2>3, <2>4
  <2> QED BY <2>2, <2>4, <2>5
<1>5. 2 ^ IntWidth = 2 * Half
  <2>1. IntWidth - 1 \in Nat /\ 1 + (IntWidth - 1) = IntWidth
    BY <1>1
  <2>2. 2 ^ (1 + (IntWidth - 1)) = 2 ^ 1 * 2 ^ (IntWidth - 1)
    BY <2>1, PowersMultiply
  <2> QED BY <1>2, <1>4, <2>1, <2>2 DEF Half
<1> QED BY <1>1, <1>2, <1>3, <1>4, <1>5 DEF MinInt, MaxInt, Half

\* Wrapping keeps the range and adds a multiple of the number of values.
LEMMA WrapsBy ==
    ASSUME NEW x \in Int
    PROVE  Wrapped(x) \in (-Half)..(Half - 1) /\ \E q \in Int : Wrapped(x) = x - q * (2 * Half)
<1> DEFINE r == (x + Half) % (2 * Half)
<1>1. Wrapped(x) = r - Half
  BY Widths DEF Wrapped
<1>2. x + Half \in Int /\ 2 * Half \in Nat \ {0}
  BY Widths
<1>3. r \in 0..(2 * Half - 1) /\ \E q \in Int : x + Half = q * (2 * Half) + r
  BY <1>2, Remainder
<1> HIDE DEF r
<1> QED BY <1>1, <1>3, Widths

\* A value in range is itself.
LEMMA WrapKeeps ==
    ASSUME NEW x \in (-Half)..(Half - 1)
    PROVE  Wrapped(x) = x
<1>0. Half \in Nat \ {0} /\ x \in Int
  BY Widths
<1>1. Wrapped(x) \in (-Half)..(Half - 1)
  BY <1>0, WrapsBy
<1>2. PICK q \in Int : Wrapped(x) = x - q * (2 * Half)
  BY <1>0, WrapsBy
<1>3. q < 1 /\ q > -1
  <2>1. q >= 1 => q * (2 * Half) >= 2 * Half
    BY <1>0
  <2>2. q <= -1 => q * (2 * Half) <= -(2 * Half)
    BY <1>0
  <2> QED BY <1>0, <1>1, <1>2, <2>1, <2>2
<1>4. q = 0
  BY <1>3
<1> QED BY <1>0, <1>2, <1>4

\* A multiple of Half wraps to MinInt or to zero.
LEMMA WrapOfHalves ==
    ASSUME NEW j \in Int
    PROVE  Wrapped(j * Half) <= 0
<1>0. Half \in Nat \ {0} /\ j * Half \in Int
  BY Widths
<1>1. Wrapped(j * Half) \in (-Half)..(Half - 1)
  BY <1>0, WrapsBy
<1>2. PICK q \in Int : Wrapped(j * Half) = j * Half - q * (2 * Half)
  BY <1>0, WrapsBy
<1>3. Wrapped(j * Half) = (j - 2 * q) * Half
  BY <1>0, <1>2
<1>4. (j - 2 * q) \in Int /\ ((j - 2 * q) >= 1 => (j - 2 * q) * Half >= Half)
  BY <1>0
<1>5. j - 2 * q <= 0
  BY <1>0, <1>1, <1>3, <1>4
<1>6. (j - 2 * q) * Half <= 0
  BY <1>0, <1>4, <1>5
<1> QED BY <1>3, <1>6

\* As long as the product of the odd part of base and max is in range, a product
\* that leaves the range wraps to zero or below, or to a multiple of a power of
\* two that is above max already: the check "delay > max || delay <= 0" catches
\* every overflow, for each outcome of the conversion from float64.
LEMMA DelayExact ==
    ASSUME NEW s \in Nat, NEW odd \in Nat \ {0}, NEW z \in Nat,
           NEW base, base = odd * 2 ^ z, NEW max \in base..MaxInt, odd * max <= MaxInt
    PROVE  Delays(s, base, max) = {IntendedDelay(s, base, max)}
<1>0. /\ Half \in Nat \ {0} /\ MinInt = -Half /\ MaxInt = Half - 1 /\ IntWidth \in Nat \ {0, 1}
      /\ 2 ^ s \in Nat \ {0} /\ 2 ^ z \in Nat \ {0}
  BY Widths, PowerIsPositive
<1>1. base \in Nat \ {0} /\ max \in Nat \ {0} /\ base <= max /\ max < Half
  <2>1. ASSUME NEW a \in Nat \ {0}, NEW b \in Nat \ {0} PROVE a * b \in Nat \ {0}
    BY <2>1
  <2>2. base \in Nat \ {0}
    BY <1>0, <2>1
  <2> QED BY <1>0, <2>2
<1>2. ASSUME NEW d \in Int, d > max \/ d <= 0 PROVE Capped(d, max) = max
  BY <1>1, <1>2 DEF Capped
\* At Half and beyond max is meant.
<1>3. ASSUME base * 2 ^ s >= Half PROVE IntendedDelay(s, base, max) = max
  <2>1. base * 2 ^ s \in Int
    BY <1>0, <1>1
  <2> QED BY <1>0, <1>1, <1>3, <2>1 DEF IntendedDelay
<1>4. ASSUME NEW k \in Nat, k >= IntWidth - 1
      PROVE  \E m \in Nat \ {0} : 2 ^ k = m * Half
  <2>1. k - (IntWidth - 1) \in Nat /\ (k - (IntWidth - 1)) + (IntWidth - 1) = k /\ IntWidth - 1 \in Nat
    BY <1>0, <1>4
  <2>2. 2 ^ k = 2 ^ (k - (IntWidth - 1)) * Half
    BY <2>1, PowersMultiply DEF Half
  <2> QED BY <2>1, <2>2, PowerIsPositive
<1>5. CASE s < IntWidth - 1
  <2> DEFINE g == 2 ^ (s + z)
  <2>1. g \in Nat \ {0} /\ g = 2 ^ s * 2 ^ z
    BY PowerIsPositive, PowersMultiply
  <2>2. 2 ^ s * base = odd * g /\ base * 2 ^ s = odd * g /\ odd * g \in Nat
    <3>1. ASSUME NEW a \in Nat, NEW b \in Nat, NEW c \in Nat
          PROVE  a * (c * b) = c * (a * b) /\ (c * b) * a = c * (a * b) /\ c * (a * b) \in Nat
      BY <3>1
    <3> QED BY <1>0, <2>1, <3>1
  <2>3. Delays(s, base, max) = {Capped(Wrapped(odd * g), max)}
    BY <1>5, <2>2 DEF Delays, PowerOfTwo
  <2> HIDE DEF g
  <2>4. CASE s + z >= IntWidth - 1
    <3>1. PICK m \in Nat \ {0} : g = m * Half
      BY <1>4, <2>4 DEF g
    <3>2. odd * g = (odd * m) * Half /\ odd * m \in Int
      BY <1>0, <3>1
    <3>3. Wrapped(odd * g) <= 0 /\ Wrapped(odd * g) \in Int
      BY <1>0, <2>2, <3>2, WrapOfHalves, WrapsBy
    <3>4. odd * g >= Half
      <4>1. odd * m >= 1
        BY <3>1
      <4>2. ASSUME NEW a \in Int, a >= 1 PROVE a * Half >= Half
        BY <1>0, <4>2
      <4> QED BY <3>2, <4>1, <4>2
    <3> QED BY <1>2, <1>3, <2>2, <2>3, <3>3, <3>4
  <2>5. CASE ~(s + z >= IntWidth - 1) /\ odd * g <= MaxInt
    <3>1. odd * g \in (-Half)..(Half - 1)
      BY <1>0, <2>2, <2>5
    <3>2. Wrapped(odd * g) = odd * g
      BY <3>1, WrapKeeps
    <3>3. odd * g > 0
      <4>1. ASSUME NEW a \in Nat \ {0}, NEW b \in Nat \ {0} PROVE a * b > 0
        BY <4>1
      <4> QED BY <2>1, <4>1
    <3>4. Capped(odd * g, max) = IntendedDelay(s, base, max)
      BY <1>1, <2>2, <3>3 DEF Capped, IntendedDelay
    <3> QED BY <2>3, <3>2, <3>4
  <2>6. CASE ~(s + z >= IntWidth - 1) /\ ~(odd * g <= MaxInt)
    <3>1. g > max
      <4>1. g <= max => odd * g <= odd * max
        BY <1>1, <2>1
      <4> QED BY <1>0, <1>1, <2>1, <2>2, <2>6, <4>1
    <3>2. PICK m \in Nat \ {0} : 2 * Half = m * g
      <4>1. IntWidth - (s + z) \in Nat /\ (IntWidth - (s + z)) + (s + z) = IntWidth
        BY <1>0, <2>6
      <4>2. ASSUME NEW a \in Nat, NEW b \in Nat, a + b = IntWidth
            PROVE  2 ^ IntWidth = 2 ^ a * 2 ^ b
        BY <4>2, PowersMultiply
      <4>3. 2 ^ IntWidth = 2 ^ (IntWidth - (s + z)) * g
        BY <4>1, <4>2 DEF g
      <4> QED BY <4>1, <4>3, PowerIsPositive, Widths
    <3>3. PICK q \in Int : Wrapped(odd * g) = odd * g - q * (2 * Half)
      BY <2>2, WrapsBy
    <3>4. Wrapped(odd * g) = (odd - q * m) * g
      BY <2>1, <3>2, <3>3
    <3>5. odd - q * m \in Int
      BY <3>2
    <3>6. ASSUME NEW t \in Int PROVE t * g <= 0 \/ t * g >= g
      <4>1. CASE t <= 0
        BY <2>1, <4>1
      <4>2. CASE t >= 1
        BY <2>1, <4>2
      <4> QED BY <4>1, <4>2
    <3>7. Wrapped(odd * g) <= 0 \/ Wrapped(odd * g) > max
      <4>1. Wrapped(odd * g) <= 0 \/ Wrapped(odd * g) >= g
        BY <3>4, <3>5, <3>6
      <4>2. Wrapped(odd * g) \in Int
        BY <2>1, <3>4, <3>5
      <4> QED BY <1>1, <2>1, <3>1, <4>1, <4>2
    <3>8. Wrapped(odd * g) \in Int
      BY <2>1, <3>4, <3>5
    <3>9. odd * g >= Half
      BY <1>0, <2>2, <2>6
    <3> QED BY <1>2, <1>3, <2>2, <2>3, <3>7, <3>8, <3>9
  <2> QED BY <2>4, <2>5, <2>6
<1>6. CASE ~(s < IntWidth - 1)
  <2>1. base * 2 ^ s >= Half
    <3>1. PICK m \in Nat \ {0} : 2 ^ s = m * Half
      BY <1>0, <1>4, <1>6
    <3>2. base * 2 ^ s = (base * m) * Half /\ base * m >= 1 /\ base * m \in Int
      BY <1>0, <1>1, <3>1
    <3>3. ASSUME NEW a \in Int, a >= 1 PROVE a * Half >= Half
      BY <1>0, <3>3
    <3> QED BY <3>2, <3>3
  <2>2. IntendedDelay(s, base, max) = max
    BY <1>3, <2>1
  <2>3. Delays(s, base, max) = {Capped(Wrapped(MinInt * base), max), Capped(Wrapped(MaxInt * base), max)}
    BY <1>6 DEF Delays, PowerOfTwo
  <2>4. Capped(Wrapped(MinInt * base), max) = max
    <3>1. MinInt * base = (-base) * Half /\ -base \in Int /\ (-base) * Half \in Int
      BY <1>0, <1>1
    <3>2. Wrapped((-base) * Half) <= 0 /\ Wrapped((-base) * Half) \in Int
      BY <1>0, <3>1, WrapOfHalves, WrapsBy
    <3> QED BY <1>2, <3>1, <3>2
  <2>5. Capped(Wrapped(MaxInt * base), max) = max
    <3> DEFINE x == MaxInt * base
    <3>1. x = base * Half - base /\ x \in Int
      BY <1>0, <1>1
    <3>2. PICK q \in Int : Wrapped(x) = x - q * (2 * Half)
      BY <3>1, WrapsBy
    <3>3. Wrapped(x) \in (-Half)..(Half - 1)
      BY <3>1, WrapsBy
    <3> HIDE DEF x
    <3> DEFINE j == base - 2 * q
    <3>4. j \in Int /\ Wrapped(x) = j * Half - base
      BY <1>0, <1>1, <3>1, <3>2
    <3>5. (j >= 2 => j * Half >= 2 * Half) /\ (j <= 0 => j * Half <= 0)
      BY <1>0, <3>4
    <3>6. j <= 1
      BY <1>0, <1>1, <3>3, <3>4, <3>5
    <3>7. CASE j <= 0
      <4>1. Wrapped(x) <= 0 /\ Wrapped(x) \in Int
        BY <1>0, <1>1, <3>3, <3>4, <3>5, <3>7
      <4> QED BY <1>2, <4>1 DEF x
    <3>8. CASE j = 1
      <4>1. Wrapped(x) = Half - base
        BY <1>0, <3>4, <3>8
      <4>2. z = 0
        <5> SUFFICES ASSUME z # 0 PROVE FALSE
          OBVIOUS
        <5>1. z - 1 \in Nat /\ 1 + (z - 1) = z
          OBVIOUS
        <5>2. 2 ^ z = 2 ^ 1 * 2 ^ (z - 1) /\ 2 ^ (z - 1) \in Nat
          BY <5>1, PowersMultiply, PowerIsPositive
        <5>3. base = 2 * (odd * 2 ^ (z - 1)) /\ odd * 2 ^ (z - 1) \in Int
          BY <5>2, Widths
        <5> QED BY <3>4, <3>8, <5>3
      <4>3. base = odd
        BY <4>2, Widths
      <4>4. CASE base = 1
        <5>1. Wrapped(x) = MaxInt
          BY <1>0, <4>1, <4>4
        <5> QED BY <1>0, <1>1, <5>1 DEF Capped, x
      <4>5. CASE base # 1
        <5>1. ASSUME NEW a \in Nat, NEW b \in Nat, a >= 2, b >= a PROVE a + b <= a * b
          <6>1. a * b >= 2 * b
            BY <5>1
          <6> QED BY <5>1, <6>1
        <5>2. base + max <= Half - 1
          BY <1>0, <1>1, <4>3, <4>5, <5>1
        <5>3. Wrapped(x) > max /\ Wrapped(x) \in Int
          BY <1>0, <1>1, <4>1, <5>2
        <5> QED BY <1>2, <5>3 DEF x
      <4> QED BY <4>4, <4>5
    <3> QED BY <3>4, <3>6, <3>7, <3>8
  <2> QED BY <2>2, <2>3, <2>4, <2>5
<1> QED BY <1>5, <1>6

-----------------------------------------------------------------------------
(* Typing *)

\* A Redis counter with its time to live; 0 when there is none.
Counter == [n: Nat, ttl: Nat]

\* A request past the limiter carries its locals, and is penalised only after
\* BackoffAfter failures.
Carries(p, l) ==
    /\ p # "idle" => l \in Locals
    /\ p = "fail_set" => l.n >= BackoffAfter

\* The inductive invariant.
Inv ==
    /\ TypeOK
    /\ rl \in [Key -> Counter] /\ fail \in [Ident -> Counter]
    /\ loc \in [Req -> Locals \cup {None}]
    /\ \A r \in Req : Carries(pc[r], loc[r])

\* The rules, as numbers.
LEMMA RuleFacts ==
    /\ \A k \in Key : Limit(k) \in Nat /\ Window(k) \in Nat
    /\ BackoffAfter \in Nat \ {0} /\ BackoffBase \in Nat \ {0} /\ FailureWindow \in Nat \ {0}
    /\ BackoffMax \in Nat \ {0} /\ MaxFails \in Nat
<1>1. \A k \in Key : Limit(k) \in Nat /\ Window(k) \in Nat
  BY RulesAreNaturals DEF Limit, Window
<1>2. BackoffMax \in Nat \ {0}
  BY DelaysArePositive, Widths
<1> QED BY <1>1, <1>2, DelaysArePositive, FailsReachTheWidth

\* What the Redis commands do to a counter.
LEMMA CounterOps ==
    ASSUME NEW c \in Counter
    PROVE  /\ NoCounter \in Counter /\ NoCounter.n = 0 /\ NoCounter.ttl = 0
           /\ \A cap \in Nat : /\ Incremented(c, cap) \in Counter
                               /\ Incremented(c, cap).ttl = c.ttl
                               /\ c.n <= cap => Incremented(c, cap).n <= cap
           /\ \A d \in Nat : /\ ExpiringIn(c, d) \in Counter
                             /\ ExpiringIn(c, d).n = c.n
                             /\ ExpiringIn(c, d).ttl \in {c.ttl, d}
           /\ Aged(c) \in Counter /\ Aged(c).n <= c.n /\ Aged(c).ttl <= c.ttl
<1>1. NoCounter \in Counter /\ NoCounter.n = 0 /\ NoCounter.ttl = 0
  BY DEF NoCounter, Counter
<1>2. ASSUME NEW cap \in Nat
      PROVE  /\ Incremented(c, cap) \in Counter
             /\ Incremented(c, cap).ttl = c.ttl
             /\ c.n <= cap => Incremented(c, cap).n <= cap
  BY DEF Incremented, Counter
<1>3. ASSUME NEW d \in Nat
      PROVE  /\ ExpiringIn(c, d) \in Counter
             /\ ExpiringIn(c, d).n = c.n
             /\ ExpiringIn(c, d).ttl \in {c.ttl, d}
  BY DEF ExpiringIn, Counter
<1>4. Aged(c) \in Counter /\ Aged(c).n <= c.n /\ Aged(c).ttl <= c.ttl
  BY DEF Aged, NoCounter, Counter
<1> QED BY <1>1, <1>2, <1>3, <1>4

\* Every delay a build may impose is between 0 and BackoffMax.
LEMMA DelayCapped ==
    ASSUME NEW s \in Nat, NEW d \in Delays(s, BackoffBase, BackoffMax)
    PROVE  d \in 0..BackoffMax
<1>1. PICK p \in PowerOfTwo(s) : d = Capped(Wrapped(p * BackoffBase), BackoffMax)
  BY DEF Delays
<1>2. p \in Int
  BY PowerIsPositive, Widths DEF PowerOfTwo
<1>3. p * BackoffBase \in Int
  BY <1>2, RuleFacts
<1>4. Wrapped(p * BackoffBase) \in Int
  BY <1>3, WrapsBy, Widths
<1> QED BY <1>1, <1>4, RuleFacts DEF Capped

\* A step of r to label with locals l.
LEMMA Moves ==
    ASSUME Inv, NEW r \in Req, NEW label \in PC, NEW l \in Locals \cup {None},
           Continue(r, label, l), Carries(label, l)
    PROVE  /\ pc' \in [Req -> PC] /\ loc' \in [Req -> Locals \cup {None}]
           /\ \A q \in Req : Carries(pc[q], loc[q])'
<1>1. /\ pc' \in [Req -> PC] /\ pc'[r] = label /\ \A q \in Req \ {r} : pc'[q] = pc[q]
      /\ loc' \in [Req -> Locals \cup {None}] /\ loc'[r] = l /\ \A q \in Req \ {r} : loc'[q] = loc[q]
  BY DEF Inv, TypeOK, Continue, Goto
<1> QED BY <1>1 DEF Inv, Carries

\* A request that ends carries nothing.
LEMMA Finishes ==
    ASSUME Inv, NEW r \in Req, Finish(r)
    PROVE  /\ pc' \in [Req -> PC] /\ loc' \in [Req -> Locals \cup {None}]
           /\ \A q \in Req : Carries(pc[q], loc[q])'
<1>1. Carries("idle", None)
  BY DEF Carries
<1> QED BY <1>1, Moves DEF Finish, PC

\* Past the limiter.
LEMMA PastTheLimiter ==
    ASSUME Inv, NEW r \in Req, NEW q \in Locals, Admit(r, q) \/ Unavailable(r, q)
    PROVE  /\ pc' \in [Req -> PC] /\ loc' \in [Req -> Locals \cup {None}]
           /\ \A p \in Req : Carries(pc[p], loc[p])'
<1> DEFINE l == [q EXCEPT !.n = 0]
<1>1. l \in Locals
  BY DEF Locals
<1> HIDE DEF l
<1>2. Carries("check", l)
  BY <1>1 DEF Carries
<1>3. CASE Finish(r)
  BY <1>3, Finishes
<1>4. CASE Continue(r, "check", l)
  BY <1>1, <1>2, <1>4, Moves DEF PC
<1> QED BY <1>3, <1>4 DEF Admit, Unavailable, l

\* The counters are in range.
RlOK == /\ rl \in [Key -> Counter]
        /\ \A k \in Key : rl[k].n \in 0 .. Limit(k) + 2 /\ rl[k].ttl \in 0 .. Window(k)
\* The failures of an identity too.
FailOK == /\ fail \in [Ident -> Counter]
          /\ \A a \in Ident : fail[a].n \in 0 .. MaxFails /\ fail[a].ttl \in 0 .. FailureWindow

\* One counter changes.
LEMMA RlSet ==
    ASSUME RlOK, NEW k \in Key, NEW c \in Counter, c.n <= Limit(k) + 2, c.ttl <= Window(k),
           rl' = [rl EXCEPT ![k] = c]
    PROVE  RlOK'
<1>1. c.n \in Nat /\ c.ttl \in Nat /\ Limit(k) \in Nat /\ Window(k) \in Nat
  BY RuleFacts DEF Counter
<1>2. c.n \in 0 .. Limit(k) + 2 /\ c.ttl \in 0 .. Window(k)
  BY <1>1
<1>3. rl' \in [Key -> Counter] /\ rl'[k] = c /\ \A m \in Key \ {k} : rl'[m] = rl[m]
  BY DEF RlOK
<1> QED BY <1>2, <1>3 DEF RlOK

\* One count of failures changes.
LEMMA FailSets ==
    ASSUME FailOK, NEW a \in Ident, NEW c \in Counter, c.n <= MaxFails, c.ttl <= FailureWindow,
           fail' = [fail EXCEPT ![a] = c]
    PROVE  FailOK'
<1>1. c.n \in 0 .. MaxFails /\ c.ttl \in 0 .. FailureWindow
  BY RuleFacts DEF Counter
<1>2. fail' \in [Ident -> Counter] /\ fail'[a] = c /\ \A m \in Ident \ {a} : fail'[m] = fail[m]
  BY DEF FailOK
<1> QED BY <1>1, <1>2 DEF FailOK

\* A step keeps the invariant when the tables and the requests do.
LEMMA Keeps ==
    ASSUME Inv, RlOK', FailOK', backoff' \in [Ident -> 0 .. BackoffMax],
           UNCHANGED failClosed, lost' \subseteq Key,
           pc' \in [Req -> PC], loc' \in [Req -> Locals \cup {None}],
           \A q \in Req : Carries(pc[q], loc[q])'
    PROVE  Inv'
  BY DEF Inv, TypeOK, RlOK, FailOK

\* One second passes for every key.
LEMMA TickKeeps == Inv /\ Tick => Inv'
<1> SUFFICES ASSUME Inv, Tick PROVE Inv'
  OBVIOUS
<1>1. RlOK'
  <2>1. ASSUME NEW k \in Key
        PROVE  Aged(rl[k]) \in Counter /\ Aged(rl[k]).n \in 0 .. Limit(k) + 2
               /\ Aged(rl[k]).ttl \in 0 .. Window(k)
    <3>1. rl[k] \in Counter /\ rl[k].n \in 0 .. Limit(k) + 2 /\ rl[k].ttl \in 0 .. Window(k)
      BY DEF Inv, TypeOK
    <3>2. Aged(rl[k]) \in Counter /\ Aged(rl[k]).n <= rl[k].n /\ Aged(rl[k]).ttl <= rl[k].ttl
      BY <3>1, CounterOps
    <3>3. Aged(rl[k]).n \in Nat /\ Aged(rl[k]).ttl \in Nat
      BY <3>2 DEF Counter
    <3> QED BY <3>1, <3>2, <3>3, RuleFacts
  <2> QED BY <2>1 DEF Tick, RlOK
<1>2. FailOK'
  <2>1. ASSUME NEW a \in Ident
        PROVE  Aged(fail[a]) \in Counter /\ Aged(fail[a]).n \in 0 .. MaxFails
               /\ Aged(fail[a]).ttl \in 0 .. FailureWindow
    <3>1. fail[a] \in Counter /\ fail[a].n \in 0 .. MaxFails /\ fail[a].ttl \in 0 .. FailureWindow
      BY DEF Inv, TypeOK
    <3>2. Aged(fail[a]) \in Counter /\ Aged(fail[a]).n <= fail[a].n /\ Aged(fail[a]).ttl <= fail[a].ttl
      BY <3>1, CounterOps
    <3>3. Aged(fail[a]).n \in Nat /\ Aged(fail[a]).ttl \in Nat
      BY <3>2 DEF Counter
    <3> QED BY <3>1, <3>2, <3>3, RuleFacts
  <2> QED BY <2>1 DEF Tick, FailOK
<1>3. backoff' \in [Ident -> 0 .. BackoffMax]
  <2>1. backoff' = [a \in Ident |-> IF backoff[a] = 0 THEN 0 ELSE backoff[a] - 1]
    BY DEF Tick
  <2>2. ASSUME NEW a \in Ident
        PROVE  (IF backoff[a] = 0 THEN 0 ELSE backoff[a] - 1) \in 0 .. BackoffMax
    <3>1. backoff[a] \in 0 .. BackoffMax /\ BackoffMax \in Nat
      BY RuleFacts DEF Inv, TypeOK
    <3> QED BY <3>1
  <2> QED BY <2>1, <2>2
<1> QED BY <1>1, <1>2, <1>3, Keeps DEF Tick, Inv, TypeOK, Carries

\* middleware.RateLimit and Limiter.Allow.
LEMMA AllowKeeps ==
    ASSUME Inv, NEW r \in Req, NEW k \in Key, NEW a \in Ident,
           Incr(r, k, a) \/ IncrFails(r, k, a) \/ Unlimited(r, k, a)
    PROVE  Inv'
<1>0. /\ RlOK /\ FailOK /\ backoff \in [Ident -> 0 .. BackoffMax] /\ lost \subseteq Key
      /\ Limit(k) \in Nat /\ Window(k) \in Nat
  BY RuleFacts DEF Inv, TypeOK, RlOK, FailOK
<1>1. ASSUME NEW n \in Nat PROVE Request(k, a, n) \in Locals
  BY DEF Request, Locals
<1>2. CASE IncrFails(r, k, a) \/ Unlimited(r, k, a)
  <2>1. /\ pc' \in [Req -> PC] /\ loc' \in [Req -> Locals \cup {None}]
        /\ \A p \in Req : Carries(pc[p], loc[p])'
    BY <1>1, <1>2, PastTheLimiter DEF IncrFails, Unlimited
  <2>2. UNCHANGED <<rl, fail, backoff, failClosed, lost>>
    BY <1>2 DEF IncrFails, Unlimited, redis, history
  <2>3. RlOK' /\ FailOK' /\ backoff' \in [Ident -> 0 .. BackoffMax] /\ lost' \subseteq Key
    BY <1>0, <2>2 DEF RlOK, FailOK
  <2> QED BY <2>1, <2>2, <2>3, Keeps
<1>3. CASE Incr(r, k, a)
  <2> DEFINE c == Incremented(rl[k], Limit(k) + 2)
             q == Request(k, a, c.n)
  <2>1. c \in Counter /\ c.n <= Limit(k) + 2 /\ c.ttl <= Window(k) /\ c.n \in Nat
    <3>1. rl[k] \in Counter /\ rl[k].n <= Limit(k) + 2 /\ rl[k].ttl <= Window(k) /\ Limit(k) + 2 \in Nat
      BY <1>0 DEF RlOK
    <3>2. c \in Counter /\ c.ttl = rl[k].ttl /\ c.n <= Limit(k) + 2
      BY <3>1, CounterOps
    <3> QED BY <3>1, <3>2 DEF Counter
  <2>2. q \in Locals
    BY <1>1, <2>1
  <2>3. rl' = [rl EXCEPT ![k] = c] /\ UNCHANGED <<fail, backoff, failClosed, lost>>
    BY <1>3 DEF Incr
  <2>4. Continue(r, "expire", q) \/ Admit(r, q) \/ Finish(r)
    BY <1>3 DEF Incr
  <2> HIDE DEF c, q
  <2>5. RlOK'
    BY <1>0, <2>1, <2>3, RlSet
  <2>6. Carries("expire", q)
    BY <2>2 DEF Carries
  <2>7. /\ pc' \in [Req -> PC] /\ loc' \in [Req -> Locals \cup {None}]
        /\ \A p \in Req : Carries(pc[p], loc[p])'
    <3>1. CASE Continue(r, "expire", q)
      BY <2>2, <2>6, <3>1, Moves DEF PC
    <3> QED BY <2>2, <2>4, <3>1, PastTheLimiter, Finishes
  <2>8. FailOK' /\ backoff' \in [Ident -> 0 .. BackoffMax] /\ lost' \subseteq Key
    BY <1>0, <2>3 DEF FailOK
  <2> QED BY <2>3, <2>5, <2>7, <2>8, Keeps
<1> QED BY <1>2, <1>3

\* An INCR whose reply is lost.
LEMMA UnheardKeeps ==
    ASSUME Inv, NEW k \in Key, UnheardIncr(k)
    PROVE  Inv'
<1> DEFINE c == Incremented(rl[k], Limit(k) + 2)
<1>0. RlOK /\ FailOK /\ Limit(k) \in Nat /\ lost \subseteq Key
  BY RuleFacts DEF Inv, TypeOK, RlOK, FailOK
<1>1. c \in Counter /\ c.n <= Limit(k) + 2 /\ c.ttl <= Window(k)
  <2>1. rl[k] \in Counter /\ rl[k].n <= Limit(k) + 2 /\ rl[k].ttl <= Window(k) /\ Limit(k) + 2 \in Nat
    BY <1>0 DEF RlOK
  <2> QED BY <2>1, CounterOps
<1>2. /\ rl' = [rl EXCEPT ![k] = c] /\ lost' \subseteq Key
      /\ UNCHANGED <<fail, backoff, failClosed, pc, loc>>
  BY <1>0 DEF UnheardIncr
<1> HIDE DEF c
<1>3. RlOK' /\ FailOK'
  BY <1>0, <1>1, <1>2, RlSet DEF FailOK
<1> QED BY <1>2, <1>3, Keeps DEF Inv, TypeOK, Carries

\* EXPIRE, and the steps of the password grant.
LEMMA StepKeeps ==
    ASSUME Inv, NEW r \in Req, Step(r)
    PROVE  Inv'
<1> DEFINE l == loc[r]
           Moved == /\ pc' \in [Req -> PC] /\ loc' \in [Req -> Locals \cup {None}]
                    /\ \A p \in Req : Carries(pc[p], loc[p])'
<1>0. /\ RlOK /\ FailOK /\ backoff \in [Ident -> 0 .. BackoffMax] /\ lost \subseteq Key
      /\ Carries(pc[r], l) /\ l \in Locals \cup {None} /\ pc[r] \in PC
  BY DEF Inv, TypeOK, RlOK, FailOK
<1>1. pc[r] # "idle" => l \in Locals /\ l.key \in Key /\ l.id \in Ident /\ l.n \in Nat
  BY <1>0 DEF Carries, Locals
<1>2. Finish(r) => Moved
  BY Finishes
<1>3. ASSUME NEW label \in PC, Goto(r, label), UNCHANGED loc, Carries(label, l)
      PROVE  Moved
  <2>1. loc' = [loc EXCEPT ![r] = l]
    BY <1>3 DEF Inv
  <2> QED BY <1>0, <1>3, <2>1, Moves DEF Continue
<1> HIDE DEF Moved
<1>4. ASSUME UNCHANGED <<rl, fail, backoff, failClosed, lost>>, Moved
      PROVE  Inv'
  <2>1. RlOK' /\ FailOK' /\ backoff' \in [Ident -> 0 .. BackoffMax] /\ lost' \subseteq Key
    BY <1>0, <1>4 DEF RlOK, FailOK
  <2> QED BY <1>4, <2>1, Keeps DEF Moved
<1>e. ASSUME pc[r] # "idle", rl' = [rl EXCEPT ![l.key] = ExpiringIn(rl[l.key], Window(l.key))]
       PROVE  RlOK'
  <2> DEFINE c == ExpiringIn(rl[l.key], Window(l.key))
  <2>1. c \in Counter /\ c.n <= Limit(l.key) + 2 /\ c.ttl <= Window(l.key)
    <3>1. /\ rl[l.key] \in Counter /\ Window(l.key) \in Nat /\ Limit(l.key) \in Nat
          /\ rl[l.key].n <= Limit(l.key) + 2 /\ rl[l.key].ttl <= Window(l.key)
      BY <1>0, <1>1, <1>e, RuleFacts DEF RlOK
    <3>2. c \in Counter /\ c.n = rl[l.key].n /\ c.ttl \in {rl[l.key].ttl, Window(l.key)}
      BY <3>1, CounterOps
    <3> QED BY <3>1, <3>2
  <2> HIDE DEF c
  <2> QED BY <1>0, <1>1, <1>e, <2>1, RlSet DEF c
<1>5. CASE Expire(r)
  <2>1. /\ pc[r] # "idle" /\ rl' = [rl EXCEPT ![l.key] = ExpiringIn(rl[l.key], Window(l.key))]
        /\ UNCHANGED <<fail, backoff, failClosed, lost>>
        /\ Admit(r, l) \/ Finish(r)
    BY <1>5 DEF Expire, history
  <2>2. Moved
    BY <1>1, <2>1, PastTheLimiter, Finishes DEF Moved
  <2>4. RlOK'
    BY <1>e, <2>1
  <2>5. FailOK' /\ backoff' \in [Ident -> 0 .. BackoffMax] /\ lost' \subseteq Key
    BY <1>0, <2>1 DEF FailOK
  <2> QED BY <2>1, <2>2, <2>4, <2>5, Keeps DEF Moved
<1>6. CASE ExpireFails(r)
  <2>1. /\ pc[r] # "idle" /\ UNCHANGED <<fail, backoff, failClosed>> /\ Unavailable(r, l)
        /\ rl' = [rl EXCEPT ![l.key] = ExpiringIn(rl[l.key], Window(l.key))] \/ UNCHANGED rl
        /\ lost' = lost \cup {l.key} \/ UNCHANGED lost
    BY <1>6 DEF ExpireFails
  <2>2. Moved
    BY <1>1, <2>1, PastTheLimiter DEF Moved
  <2>3. RlOK'
    BY <1>0, <1>1, <1>e, <2>1 DEF RlOK
  <2>4. FailOK' /\ backoff' \in [Ident -> 0 .. BackoffMax] /\ lost' \subseteq Key
    BY <1>0, <1>1, <2>1 DEF FailOK
  <2> QED BY <2>1, <2>2, <2>3, <2>4, Keeps DEF Moved
<1>7. CASE CheckBackoff(r) \/ CheckFails(r)
  <2>1. /\ pc[r] = "check" /\ UNCHANGED <<rl, fail, backoff, failClosed, lost>>
        /\ Finish(r) \/ (Goto(r, "verify") /\ UNCHANGED loc)
    BY <1>7 DEF CheckBackoff, CheckFails, redis, history
  <2>2. Carries("verify", l)
    BY <1>1, <2>1 DEF Carries
  <2> QED BY <1>2, <1>3, <1>4, <2>1, <2>2 DEF PC
<1>8. CASE FailIncr(r)
  <2> DEFINE c == Incremented(fail[l.id], MaxFails)
             m == [l EXCEPT !.n = c.n]
  <2>1. /\ pc[r] = "verify" /\ fail' = [fail EXCEPT ![l.id] = c] /\ Continue(r, "fail_expire", m)
        /\ UNCHANGED <<rl, backoff, failClosed, lost>>
    BY <1>8 DEF FailIncr, history
  <2>2. c \in Counter /\ c.n <= MaxFails /\ c.ttl <= FailureWindow /\ c.n \in Nat
    <3>1. fail[l.id] \in Counter /\ fail[l.id].n <= MaxFails /\ fail[l.id].ttl <= FailureWindow
      BY <1>0, <1>1, <2>1, RuleFacts DEF FailOK
    <3>2. c \in Counter /\ c.ttl = fail[l.id].ttl /\ c.n <= MaxFails
      BY <3>1, CounterOps, RuleFacts
    <3> QED BY <3>1, <3>2 DEF Counter
  <2> HIDE DEF c
  <2>3. m \in Locals
    BY <1>1, <2>1, <2>2 DEF Locals
  <2> HIDE DEF m
  <2>4. Moved
    <3>1. Carries("fail_expire", m)
      BY <2>3 DEF Carries
    <3> QED BY <2>1, <2>3, <3>1, Moves DEF Moved, PC
  <2>5. FailOK'
    BY <1>0, <1>1, <2>1, <2>2, FailSets
  <2>6. RlOK' /\ backoff' \in [Ident -> 0 .. BackoffMax] /\ lost' \subseteq Key
    BY <1>0, <2>1 DEF RlOK
  <2> QED BY <2>1, <2>4, <2>5, <2>6, Keeps DEF Moved
<1>9. CASE FailExpire(r)
  <2> DEFINE c == ExpiringIn(fail[l.id], FailureWindow)
  <2>1. /\ pc[r] = "fail_expire" /\ fail' = [fail EXCEPT ![l.id] = c]
        /\ \/ l.n >= BackoffAfter /\ Goto(r, "fail_set") /\ UNCHANGED loc
           \/ Finish(r)
        /\ UNCHANGED <<rl, backoff, failClosed, lost>>
    BY <1>9 DEF FailExpire, history
  <2>2. c \in Counter /\ c.n <= MaxFails /\ c.ttl <= FailureWindow
    <3>1. fail[l.id] \in Counter /\ fail[l.id].n <= MaxFails /\ fail[l.id].ttl <= FailureWindow
      BY <1>0, <1>1, <2>1, RuleFacts DEF FailOK
    <3>2. c \in Counter /\ c.n = fail[l.id].n /\ c.ttl \in {fail[l.id].ttl, FailureWindow}
      BY <3>1, CounterOps, RuleFacts
    <3> QED BY <3>1, <3>2, RuleFacts
  <2> HIDE DEF c
  <2>3. l.n >= BackoffAfter => Carries("fail_set", l)
    BY <1>1, <2>1 DEF Carries
  <2>4. Moved
    BY <1>2, <1>3, <2>1, <2>3 DEF PC
  <2>5. FailOK'
    BY <1>0, <1>1, <2>1, <2>2, FailSets
  <2>6. RlOK' /\ backoff' \in [Ident -> 0 .. BackoffMax] /\ lost' \subseteq Key
    BY <1>0, <2>1 DEF RlOK
  <2> QED BY <2>1, <2>4, <2>5, <2>6, Keeps DEF Moved
<1>10. CASE FailSet(r)
  <2>1. /\ pc[r] = "fail_set" /\ Finish(r) /\ UNCHANGED <<rl, fail, failClosed, lost>>
    BY <1>10 DEF FailSet, history
  <2>2. l.n - BackoffAfter \in Nat /\ l.id \in Ident
    BY <1>0, <1>1, <2>1, RuleFacts DEF Carries
  <2>3. PICK d \in Delays(l.n - BackoffAfter, BackoffBase, BackoffMax) :
          backoff' = [backoff EXCEPT ![l.id] = d]
    BY <1>10 DEF FailSet
  <2>4. d \in 0 .. BackoffMax
    BY <2>2, DelayCapped
  <2>5. backoff' \in [Ident -> 0 .. BackoffMax]
    BY <1>0, <2>3, <2>4
  <2>6. RlOK' /\ FailOK' /\ lost' \subseteq Key
    BY <1>0, <2>1 DEF RlOK, FailOK
  <2> QED BY <1>2, <2>1, <2>5, <2>6, Keeps DEF Moved
<1>11. CASE Reset(r)
  <2>1. /\ pc[r] = "verify" /\ Finish(r) /\ UNCHANGED <<rl, failClosed, lost>>
        /\ fail' = [fail EXCEPT ![l.id] = NoCounter] /\ backoff' = [backoff EXCEPT ![l.id] = 0]
    BY <1>11 DEF Reset, history
  <2>2. NoCounter \in Counter /\ NoCounter.n <= MaxFails /\ NoCounter.ttl <= FailureWindow
    BY RuleFacts DEF NoCounter, Counter
  <2>3. FailOK'
    BY <1>0, <1>1, <2>1, <2>2, FailSets
  <2>z. 0 \in 0 .. BackoffMax
    BY RuleFacts
  <2>4. backoff' \in [Ident -> 0 .. BackoffMax]
    BY <1>0, <2>1, <2>z
  <2>5. RlOK' /\ lost' \subseteq Key
    BY <1>0, <2>1 DEF RlOK
  <2> QED BY <1>2, <2>1, <2>3, <2>4, <2>5, Keeps DEF Moved
<1>12. CASE End(r)
  BY <1>2, <1>4, <1>12 DEF End, redis, history
<1> QED BY <1>5, <1>6, <1>7, <1>8, <1>9, <1>10, <1>11, <1>12 DEF Step

-----------------------------------------------------------------------------
(* Theorems *)

\* Redis starts empty.
LEMMA InitInv == Init => Inv
<1> SUFFICES ASSUME Init PROVE Inv
  OBVIOUS
<1>1. NoCounter \in Counter /\ NoCounter.n = 0 /\ NoCounter.ttl = 0
  BY DEF NoCounter, Counter
<1>2. rl \in [Key -> Counter] /\ fail \in [Ident -> Counter]
  BY <1>1 DEF Init
<1>3. \A k \in Key : rl[k].n \in 0 .. Limit(k) + 2 /\ rl[k].ttl \in 0 .. Window(k)
  BY <1>1, RuleFacts DEF Init
<1>4. \A a \in Ident : fail[a].n \in 0 .. MaxFails /\ fail[a].ttl \in 0 .. FailureWindow
  BY <1>1, RuleFacts DEF Init
<1>z. 0 \in 0 .. BackoffMax
  BY RuleFacts
<1>5. backoff \in [Ident -> 0 .. BackoffMax]
  BY <1>z DEF Init
<1>6. /\ failClosed \in BOOLEAN /\ lost \subseteq Key
      /\ pc \in [Req -> PC] /\ loc \in [Req -> Locals \cup {None}]
      /\ \A r \in Req : Carries(pc[r], loc[r])
  BY DEF Init, PC, Carries
<1> QED BY <1>2, <1>3, <1>4, <1>5, <1>6 DEF Inv, TypeOK

\* Every step keeps it.
LEMMA NextInv == Inv /\ [Next]_vars => Inv'
<1> SUFFICES ASSUME Inv, [Next]_vars PROVE Inv'
  OBVIOUS
<1>1. CASE Next
  BY <1>1, TickKeeps, AllowKeeps, UnheardKeeps, StepKeeps DEF Next
<1>2. CASE UNCHANGED vars
  BY <1>2 DEF vars, Inv, TypeOK, Carries
<1> QED BY <1>1, <1>2

\* TypeOK of RateLimit: no delay exceeds BackoffMax and no counter lives longer
\* than its window, whatever the arithmetic of the build makes of an overflow.
THEOREM ThrottleTyped == Spec => []TypeOK
<1>1. Inv => TypeOK
  BY DEF Inv
<1> QED BY <1>1, InitInv, NextInv, PTL DEF Spec

\* BackoffBase is an odd number times a power of two, and the odd number times
\* BackoffMax fits a Duration.  1s and 60s, the defaults, are 5^9 * 2^9 ns and
\* 6 * 10^10 ns: about 1.2 * 10^17, below 2^63.
FitsTheWidth ==
    \E odd \in Nat \ {0}, z \in Nat :
        BackoffBase = odd * 2 ^ z /\ odd * BackoffMax <= MaxInt

\* DelayIsExact, for every number of failures and every width of integers.
THEOREM DelaysAreExact ==
    ASSUME FitsTheWidth
    PROVE  Spec => []DelayIsExact
<1>1. Inv => DelayIsExact
  <2> SUFFICES ASSUME Inv, NEW r \in Req, pc[r] = "fail_set"
               PROVE  Delays(loc[r].n - BackoffAfter, BackoffBase, BackoffMax) =
                        {IntendedDelay(loc[r].n - BackoffAfter, BackoffBase, BackoffMax)}
    BY DEF DelayIsExact
  <2>1. loc[r].n - BackoffAfter \in Nat
    BY RuleFacts DEF Inv, Carries, Locals
  <2>2. PICK odd \in Nat \ {0}, z \in Nat :
          BackoffBase = odd * 2 ^ z /\ odd * BackoffMax <= MaxInt
    BY DEF FitsTheWidth
  <2> QED BY <2>1, <2>2, DelayExact, DelaysArePositive
<1> QED BY <1>1, InitInv, NextInv, PTL DEF Spec

-----------------------------------------------------------------------------
(* The admissions of a bucket *)

\* The requests that a counter has admitted.
Admitted(k, c) == IF c.n < Limit(k) THEN c.n ELSE Limit(k)

\* What a counter c of k says of the ages a of the last admissions.  The newest
\* are its own; before them come at most Limit of the counter before, and all
\* others are a window's length past.  Once the counter has its expiry, what it
\* did not admit itself is past by the time it ends.
Spread(k, c, a) ==
    /\ a \in [Latest(k) -> 0 .. Window(k)]
    /\ \A i \in Latest(k) : i > Admitted(k, c) + Limit(k) => a[i] = Window(k)
    /\ c.ttl > 0 => \A i \in Latest(k) : i > Admitted(k, c) => a[i] + c.ttl >= Window(k)

\* The inductive invariant of BurstBound.
BurstInv == DOMAIN ages = Key /\ \A k \in Key : Spread(k, rl[k], ages[k])

\* A second passes; when it is the last one of the counter, the next counter
\* starts with what this one admitted before it.
LEMMA SpreadAged ==
    ASSUME NEW k \in Key, NEW c \in Counter, NEW a, Spread(k, c, a)
    PROVE  Spread(k, Aged(c), [i \in Latest(k) |-> IF a[i] < Window(k) THEN a[i] + 1 ELSE a[i]])
<1> DEFINE b == [i \in Latest(k) |-> IF a[i] < Window(k) THEN a[i] + 1 ELSE a[i]]
<1>1. Limit(k) \in Nat /\ Window(k) \in Nat /\ c.n \in Nat /\ c.ttl \in Nat
  BY RuleFacts DEF Counter
<1>2. Admitted(k, c) \in 0 .. Limit(k) /\ Latest(k) \subseteq Nat
  BY <1>1 DEF Admitted, Latest
<1>3. \A i \in Latest(k) : a[i] \in 0 .. Window(k) /\ b[i] \in 0 .. Window(k) /\ b[i] >= a[i]
                           /\ (b[i] = Window(k) \/ b[i] = a[i] + 1)
  BY <1>1 DEF Spread
<1>4. b \in [Latest(k) -> 0 .. Window(k)]
  BY <1>3
<1> HIDE DEF b
<1>5. CASE c.ttl = 1
  <2>1. Aged(c).n = 0 /\ Aged(c).ttl = 0
    BY <1>5 DEF Aged, NoCounter
  <2>2. Admitted(k, Aged(c)) = 0
    BY <1>1, <2>1 DEF Admitted
  <2>3. ASSUME NEW i \in Latest(k), i > Limit(k) PROVE b[i] = Window(k)
    <3>1. i > Admitted(k, c)
      BY <1>1, <1>2, <2>3
    <3>2. a[i] + 1 >= Window(k)
      BY <1>1, <1>5, <3>1 DEF Spread
    <3> QED BY <1>1, <1>3, <3>2
  <2>4. \A i \in Latest(k) : i > 0 + Limit(k) => b[i] = Window(k)
    BY <1>1, <2>3
  <2> QED BY <1>4, <2>1, <2>2, <2>4 DEF Spread, b
<1>6. CASE c.ttl # 1
  <2>1. Aged(c).n = c.n /\ Aged(c).ttl = IF c.ttl = 0 THEN 0 ELSE c.ttl - 1
    BY <1>6 DEF Aged, Counter
  <2>2. Admitted(k, Aged(c)) = Admitted(k, c)
    BY <2>1 DEF Admitted
  <2>3. \A i \in Latest(k) : i > Admitted(k, c) + Limit(k) => b[i] = Window(k)
    BY <1>1, <1>3 DEF Spread
  <2>4. ASSUME Aged(c).ttl > 0, NEW i \in Latest(k), i > Admitted(k, c)
        PROVE  b[i] + Aged(c).ttl >= Window(k)
    <3>1. c.ttl > 0 /\ Aged(c).ttl = c.ttl - 1
      BY <1>1, <2>1, <2>4
    <3>2. a[i] + c.ttl >= Window(k)
      BY <2>4, <3>1 DEF Spread
    <3> QED BY <1>1, <1>3, <3>1, <3>2
  <2> QED BY <1>4, <2>2, <2>3, <2>4 DEF Spread, b
<1> QED BY <1>5, <1>6

\* One more request is counted, and admitted or not.
LEMMA SpreadCounted ==
    ASSUME NEW k \in Key, NEW c \in Counter, NEW a, Spread(k, c, a)
    PROVE  LET d == Incremented(c, Limit(k) + 2) IN
           /\ Admits(k, d.n) => Spread(k, d, [i \in Latest(k) |-> IF i = 1 THEN 0 ELSE a[i - 1]])
           /\ ~Admits(k, d.n) => Spread(k, d, a)
<1> DEFINE d == Incremented(c, Limit(k) + 2)
           b == [i \in Latest(k) |-> IF i = 1 THEN 0 ELSE a[i - 1]]
<1>1. Limit(k) \in Nat /\ Window(k) \in Nat /\ c.n \in Nat /\ c.ttl \in Nat
  BY RuleFacts DEF Counter
<1>2. d.ttl = c.ttl /\ d.n = IF c.n < Limit(k) + 2 THEN c.n + 1 ELSE c.n
  BY DEF Incremented, Counter
<1>3. \A i \in Latest(k) : i \in Nat /\ a[i] \in 0 .. Window(k)
                           /\ (i # 1 => i - 1 \in Latest(k))
  BY <1>1 DEF Spread, Latest
<1> HIDE DEF d
<1>4. CASE Admits(k, d.n)
  <2>1. Admitted(k, d) = Admitted(k, c) + 1 /\ Admitted(k, c) \in Nat
    BY <1>1, <1>2, <1>4 DEF Admits, Admitted
  <2>2. b \in [Latest(k) -> 0 .. Window(k)]
    BY <1>1, <1>3
  <2>3. ASSUME NEW i \in Latest(k), i > Admitted(k, d)
        PROVE  b[i] = a[i - 1] /\ i - 1 \in Latest(k) /\ i - 1 > Admitted(k, c)
               /\ (i > Admitted(k, d) + Limit(k) => i - 1 > Admitted(k, c) + Limit(k))
    <3>1. i # 1 /\ i \in Nat
      BY <1>3, <2>1, <2>3
    <3> QED BY <1>1, <1>3, <2>1, <2>3, <3>1
  <2> HIDE DEF b
  <2>4. ASSUME NEW i \in Latest(k), i > Admitted(k, d) + Limit(k) PROVE b[i] = Window(k)
    <3>1. i \in Nat /\ Admitted(k, d) \in Nat
      BY <1>3, <2>1
    <3>2. i > Admitted(k, d)
      BY <1>1, <2>4, <3>1
    <3> QED BY <2>3, <2>4, <3>2 DEF Spread
  <2>5. ASSUME d.ttl > 0, NEW i \in Latest(k), i > Admitted(k, d) PROVE b[i] + d.ttl >= Window(k)
    BY <1>2, <2>3, <2>5 DEF Spread
  <2>6. Spread(k, d, b)
    BY <2>2, <2>4, <2>5 DEF Spread
  <2> QED BY <1>4, <2>6 DEF b, d
<1>5. CASE ~Admits(k, d.n)
  <2>1. Admitted(k, d) = Admitted(k, c)
    BY <1>1, <1>2, <1>5 DEF Admits, Admitted
  <2>2. Spread(k, d, a)
    BY <1>2, <2>1 DEF Spread
  <2> QED BY <1>5, <2>2 DEF d
<1> QED BY <1>4, <1>5

\* A request is counted that nobody hears of: the counter admits one less.
LEMMA SpreadUnheard ==
    ASSUME NEW k \in Key, NEW c \in Counter, NEW a, Spread(k, c, a)
    PROVE  Spread(k, Incremented(c, Limit(k) + 2), a)
<1> DEFINE d == Incremented(c, Limit(k) + 2)
<1>1. Limit(k) \in Nat /\ c.n \in Nat /\ Latest(k) \subseteq Nat
  BY RuleFacts DEF Counter, Latest
<1>2. d.ttl = c.ttl /\ d.n = IF c.n < Limit(k) + 2 THEN c.n + 1 ELSE c.n
  BY DEF Incremented, Counter
<1> HIDE DEF d
<1>3. Admitted(k, c) \in Nat /\ Admitted(k, d) \in Nat /\ Admitted(k, c) <= Admitted(k, d)
  BY <1>1, <1>2 DEF Admitted
<1>4. \A i \in Latest(k) : /\ i > Admitted(k, d) => i > Admitted(k, c)
                           /\ i > Admitted(k, d) + Limit(k) => i > Admitted(k, c) + Limit(k)
  BY <1>1, <1>3
<1>5. Spread(k, d, a)
  BY <1>2, <1>4 DEF Spread
<1> QED BY <1>5 DEF d

\* Nothing was admitted for a window's length.
LEMMA SpreadLongAgo ==
    ASSUME NEW k \in Key, NEW c \in Counter
    PROVE  Spread(k, c, LongAgo(k))
<1>1. Window(k) \in Nat /\ c.ttl \in Nat
  BY RuleFacts DEF Counter
<1> QED BY <1>1 DEF Spread, LongAgo

\* A counter that gets a whole window to live says nothing of the ages, so an
\* EXPIRE that comes late, or to a later counter, does no harm.
LEMMA SpreadExpiring ==
    ASSUME NEW k \in Key, NEW c \in Counter, NEW a, Spread(k, c, a)
    PROVE  Spread(k, ExpiringIn(c, Window(k)), a)
<1> DEFINE d == ExpiringIn(c, Window(k))
<1>1. Window(k) \in Nat /\ d.n = c.n /\ d.ttl \in {c.ttl, Window(k)}
  BY RuleFacts, CounterOps
<1> HIDE DEF d
<1>2. Admitted(k, d) = Admitted(k, c)
  BY <1>1 DEF Admitted
<1>3. \A i \in Latest(k) : a[i] + Window(k) >= Window(k)
  BY <1>1 DEF Spread
<1>4. Spread(k, d, a)
  BY <1>1, <1>2, <1>3 DEF Spread
<1> QED BY <1>4 DEF d

\* Nothing was admitted yet.
LEMMA InitBurst == Init => BurstInv
<1> SUFFICES ASSUME Init, NEW k \in Key PROVE Spread(k, rl[k], ages[k])
  BY DEF BurstInv, Init
<1>1. rl[k] \in Counter /\ ages[k] = LongAgo(k)
  BY DEF Init, NoCounter, Counter
<1> QED BY <1>1, SpreadLongAgo

\* Every command keeps it, in whatever order commands of several requests come.
LEMMA NextBurst == Inv /\ BurstInv /\ [Next]_vars => BurstInv'
<1> SUFFICES ASSUME Inv, BurstInv, [Next]_vars PROVE BurstInv'
  OBVIOUS
<1>0. /\ rl \in [Key -> Counter] /\ DOMAIN ages = Key
      /\ \A k \in Key : rl[k] \in Counter /\ Spread(k, rl[k], ages[k])
  BY DEF Inv, BurstInv
<1>1. ASSUME UNCHANGED <<rl, ages>> PROVE BurstInv'
  BY <1>1 DEF BurstInv
<1>2. CASE Tick
  <2> SUFFICES ASSUME NEW k \in Key PROVE Spread(k, rl'[k], ages'[k])
    BY <1>2 DEF BurstInv, Tick
  <2>1. rl'[k] = Aged(rl[k])
        /\ ages'[k] = [i \in Latest(k) |->
                         IF ages[k][i] < Window(k) THEN ages[k][i] + 1 ELSE ages[k][i]]
    BY <1>2 DEF Tick
  <2> QED BY <1>0, <2>1, SpreadAged
<1>3. ASSUME NEW r \in Req, NEW k \in Key, NEW a \in Ident, Incr(r, k, a) PROVE BurstInv'
  <2> DEFINE c == Incremented(rl[k], Limit(k) + 2)
  <2>1. /\ rl' = [rl EXCEPT ![k] = c]
        /\ ages' = IF Admits(k, c.n) THEN [ages EXCEPT ![k] = OneMore(k)] ELSE ages
    BY <1>3 DEF Incr
  <2>2. /\ Admits(k, c.n) => Spread(k, c, OneMore(k))
        /\ ~Admits(k, c.n) => Spread(k, c, ages[k])
    BY <1>0, SpreadCounted DEF OneMore
  <2> HIDE DEF c
  <2>3. DOMAIN ages' = Key /\ \A m \in Key \ {k} : rl'[m] = rl[m] /\ ages'[m] = ages[m]
    BY <1>0, <2>1
  <2>4. rl'[k] = c /\ ages'[k] = IF Admits(k, c.n) THEN OneMore(k) ELSE ages[k]
    BY <1>0, <2>1
  <2>5. Spread(k, rl'[k], ages'[k])
    BY <2>2, <2>4
  <2> QED BY <1>0, <2>3, <2>5 DEF BurstInv
<1>e. ASSUME NEW k \in Key, rl' = [rl EXCEPT ![k] = ExpiringIn(rl[k], Window(k))], UNCHANGED ages
      PROVE  BurstInv'
  <2>1. Spread(k, ExpiringIn(rl[k], Window(k)), ages[k])
    BY <1>0, SpreadExpiring
  <2>2. DOMAIN ages' = Key /\ \A m \in Key : Spread(m, rl'[m], ages'[m])
    BY <1>0, <1>e, <2>1
  <2> QED BY <2>2 DEF BurstInv
<1>4. ASSUME NEW r \in Req, Step(r) PROVE BurstInv'
  <2>1. CASE Expire(r) \/ ExpireFails(r)
    <3> DEFINE k == loc[r].key
    <3>1. k \in Key
      BY <2>1 DEF Expire, ExpireFails, Inv, Carries, Locals
    <3>2. /\ UNCHANGED ages
          /\ rl' = [rl EXCEPT ![k] = ExpiringIn(rl[k], Window(k))] \/ UNCHANGED rl
      BY <2>1 DEF Expire, ExpireFails, history
    <3> HIDE DEF k
    <3> QED BY <1>1, <1>e, <3>1, <3>2
  <2>2. CASE ~(Expire(r) \/ ExpireFails(r))
    <3>1. UNCHANGED <<rl, ages>>
      BY <1>4, <2>2 DEF Step, CheckBackoff, CheckFails, FailIncr, FailExpire,
           FailSet, Reset, End, redis, history
    <3> QED BY <1>1, <3>1
  <2> QED BY <2>1, <2>2
<1>5. ASSUME NEW r \in Req, NEW k \in Key, NEW a \in Ident, IncrFails(r, k, a) \/ Unlimited(r, k, a)
      PROVE  BurstInv'
  <2>1. UNCHANGED rl /\ (ages' = ages \/ ages' = [ages EXCEPT ![k] = LongAgo(k)])
    BY <1>5 DEF IncrFails, Unlimited, redis, history
  <2>2. Spread(k, rl[k], LongAgo(k))
    BY <1>0, SpreadLongAgo
  <2>3. DOMAIN ages' = Key /\ \A m \in Key : Spread(m, rl'[m], ages'[m])
    BY <1>0, <2>1, <2>2
  <2> QED BY <2>3 DEF BurstInv
<1>7. ASSUME NEW k \in Key, UnheardIncr(k) PROVE BurstInv'
  <2>1. rl' = [rl EXCEPT ![k] = Incremented(rl[k], Limit(k) + 2)] /\ UNCHANGED ages
    BY <1>7 DEF UnheardIncr
  <2>2. Spread(k, Incremented(rl[k], Limit(k) + 2), ages[k])
    BY <1>0, SpreadUnheard
  <2>3. DOMAIN ages' = Key /\ \A m \in Key : Spread(m, rl'[m], ages'[m])
    BY <1>0, <2>1, <2>2
  <2> QED BY <2>3 DEF BurstInv
<1>6. CASE UNCHANGED vars
  BY <1>1, <1>6 DEF vars
<1> QED BY <1>2, <1>3, <1>4, <1>5, <1>6, <1>7 DEF Next

\* BurstBound, for all limits and windows and any number of concurrent requests:
\* a stretch of one window's length in which no request was waved through uncounted
\* meets the admissions of two counters at most, whatever INCRs and EXPIREs failed
\* or were executed unheard.
THEOREM BurstsAreBounded == Spec => []BurstBound
<1>1. Inv /\ BurstInv => BurstBound
  <2> SUFFICES ASSUME Inv, BurstInv, NEW k \in Key PROVE ages[k][2 * Limit(k) + 1] >= Window(k)
    BY DEF BurstBound
  <2>1. Limit(k) \in Nat /\ Window(k) \in Nat /\ rl[k].n \in Nat
    BY RuleFacts DEF Inv, Counter
  <2>2. Admitted(k, rl[k]) \in 0 .. Limit(k)
    BY <2>1 DEF Admitted
  <2>3. 2 * Limit(k) + 1 \in Latest(k) /\ 2 * Limit(k) + 1 > Admitted(k, rl[k]) + Limit(k)
    BY <2>1, <2>2 DEF Latest
  <2>4. ages[k][2 * Limit(k) + 1] = Window(k)
    BY <2>3 DEF BurstInv, Spread
  <2> QED BY <2>1, <2>4
<1> QED BY <1>1, InitInv, NextInv, InitBurst, NextBurst, PTL DEF Spec

-----------------------------------------------------------------------------
(* The life of a counter *)

\* A counter without an expiry is about to be given one, or its EXPIRE failed, or
\* the reply to its first INCR was lost:
\* no other order of the commands of Limiter.Allow leaves a counter that never
\* ends, and its address locked out.
CounterEnds ==
    \A k \in Key : rl[k].n > 0 =>
        \/ rl[k].ttl > 0 \/ k \in lost
        \/ \E r \in Req : pc[r] = "expire" /\ loc[r].key = k

\* The inductive invariant of CounterEnds: who is about to EXPIRE has a window.
EndInv == CounterEnds /\ \A r \in Req : pc[r] = "expire" => Enabled(loc[r].key)

\* A step of one request leaves the others where they are.
LEMMA OthersStay ==
    ASSUME Inv, NEW r \in Req,
           \/ Step(r)
           \/ \E k \in Key, a \in Ident : Incr(r, k, a) \/ IncrFails(r, k, a) \/ Unlimited(r, k, a)
    PROVE  \A q \in Req \ {r} : pc'[q] = pc[q] /\ loc'[q] = loc[q]
<1>0. DOMAIN pc = Req /\ DOMAIN loc = Req
  BY DEF Inv, TypeOK
<1>1. ASSUME NEW label, NEW l, Continue(r, label, l)
      PROVE  \A q \in Req \ {r} : pc'[q] = pc[q] /\ loc'[q] = loc[q]
  BY <1>0, <1>1 DEF Continue, Goto
<1>2. ASSUME NEW label, Goto(r, label), UNCHANGED loc
      PROVE  \A q \in Req \ {r} : pc'[q] = pc[q] /\ loc'[q] = loc[q]
  BY <1>0, <1>2 DEF Goto
<1>3. ASSUME NEW q, Admit(r, q) \/ Unavailable(r, q) \/ Finish(r)
      PROVE  \E label, l : Continue(r, label, l)
  BY <1>3 DEF Admit, Unavailable, Finish
<1>4. \/ \E label, l : Continue(r, label, l)
      \/ \E label : Goto(r, label) /\ UNCHANGED loc
  <2>1. CASE Expire(r) \/ ExpireFails(r)
    BY <1>3, <2>1 DEF Expire, ExpireFails
  <2>2. CASE CheckBackoff(r) \/ CheckFails(r) \/ FailIncr(r) \/ FailExpire(r)
    BY <2>2 DEF CheckBackoff, CheckFails, FailIncr, FailExpire, Finish
  <2>3. CASE FailSet(r) \/ Reset(r) \/ End(r)
    BY <2>3 DEF FailSet, Reset, End, Finish
  <2>4. ASSUME NEW k \in Key, NEW a \in Ident, Incr(r, k, a) \/ IncrFails(r, k, a) \/ Unlimited(r, k, a)
        PROVE  \E label, l : Continue(r, label, l)
    BY <1>3, <2>4 DEF Incr, IncrFails, Unlimited
  <2> QED BY <2>1, <2>2, <2>3, <2>4 DEF Step
<1> QED BY <1>1, <1>2, <1>4

\* Past the limiter nobody is about to EXPIRE.
LEMMA NotExpiring ==
    ASSUME Inv, NEW r \in Req, NEW q, Admit(r, q) \/ Unavailable(r, q) \/ Finish(r)
    PROVE  pc'[r] # "expire"
<1>1. DOMAIN pc = Req
  BY DEF Inv, TypeOK
<1> QED BY <1>1 DEF Admit, Unavailable, Finish, Continue, Goto

\* Who is not about to EXPIRE was not a reason for a counter to end.
LEMMA WitnessStays ==
    ASSUME NEW r \in Req, NEW k \in Key,
           \A q \in Req \ {r} : pc'[q] = pc[q] /\ loc'[q] = loc[q],
           pc[r] # "expire" \/ loc[r].key # k,
           \E q \in Req : pc[q] = "expire" /\ loc[q].key = k
    PROVE  \E q \in Req : pc'[q] = "expire" /\ loc'[q].key = k
  OBVIOUS

\* Every command keeps it.
LEMMA NextEnd == Inv /\ EndInv /\ [Next]_vars => EndInv'
<1> SUFFICES ASSUME Inv, EndInv, [Next]_vars PROVE EndInv'
  OBVIOUS
<1> DEFINE Ending(k) == \/ rl[k].ttl > 0 \/ k \in lost
                        \/ \E q \in Req : pc[q] = "expire" /\ loc[q].key = k
<1>0. /\ rl \in [Key -> Counter] /\ \A k \in Key : rl[k] \in Counter /\ rl[k].n \in Nat /\ rl[k].ttl \in Nat
      /\ pc \in [Req -> PC] /\ DOMAIN loc = Req
  BY DEF Inv, TypeOK, Counter
<1>e. \A k \in Key : rl[k].n > 0 => Ending(k)
  BY DEF EndInv, CounterEnds
<1>w. \A q \in Req : pc[q] = "expire" => Enabled(loc[q].key)
  BY DEF EndInv
<1>1. ASSUME NEW r \in Req, pc[r] # "expire", pc'[r] # "expire", UNCHANGED <<rl, lost>>,
             \A q \in Req \ {r} : pc'[q] = pc[q] /\ loc'[q] = loc[q]
      PROVE  EndInv'
  <2>1. ASSUME NEW k \in Key, rl'[k].n > 0 PROVE Ending(k)'
    BY <1>1, <1>e, <2>1
  <2>2. ASSUME NEW q \in Req, pc'[q] = "expire" PROVE Enabled(loc'[q].key)
    BY <1>1, <1>w, <2>2
  <2> QED BY <2>1, <2>2 DEF EndInv, CounterEnds, Enabled, Limit, Window
<1>2. CASE Tick
  <2>1. ASSUME NEW k \in Key, rl'[k].n > 0 PROVE Ending(k)'
    <3>1. rl'[k] = Aged(rl[k]) /\ UNCHANGED <<pc, loc, lost>>
      BY <1>2 DEF Tick
    <3>2. rl[k].ttl # 1
      BY <2>1, <3>1 DEF Aged, NoCounter
    <3>3. rl'[k].n = rl[k].n /\ rl'[k].ttl = IF rl[k].ttl = 0 THEN 0 ELSE rl[k].ttl - 1
      BY <1>0, <3>1, <3>2 DEF Aged, Counter
    <3>4. rl[k].ttl > 0 => rl'[k].ttl > 0
      BY <1>0, <3>2, <3>3
    <3> QED BY <1>e, <2>1, <3>1, <3>3, <3>4
  <2>2. UNCHANGED <<pc, loc>>
    BY <1>2 DEF Tick
  <2> QED BY <1>w, <2>1, <2>2 DEF EndInv, CounterEnds, Enabled, Limit, Window
<1>3. ASSUME NEW r \in Req, NEW k \in Key, NEW a \in Ident, Incr(r, k, a) PROVE EndInv'
  <2> DEFINE c == Incremented(rl[k], Limit(k) + 2)
             q == Request(k, a, c.n)
  <2>1. /\ pc[r] = "idle" /\ Enabled(k) /\ rl' = [rl EXCEPT ![k] = c] /\ UNCHANGED lost
        /\ \/ StartsWindow(c.n) /\ Continue(r, "expire", q)
           \/ ~StartsWindow(c.n) /\ (Admit(r, q) \/ Finish(r))
    BY <1>3 DEF Incr
  <2>2. c.ttl = rl[k].ttl /\ (rl[k].n = 0 => c.n = 1)
    BY <1>0, RuleFacts DEF Incremented, Counter
  <2>3. q.key = k
    BY DEF Request
  <2> HIDE DEF c, q
  <2>4. \A p \in Req \ {r} : pc'[p] = pc[p] /\ loc'[p] = loc[p]
    BY <1>3, OthersStay
  <2>5. \/ pc'[r] = "expire" /\ loc'[r].key = k
        \/ pc'[r] # "expire" /\ c.n # 1
    <3>1. CASE Continue(r, "expire", q)
      BY <1>0, <2>3, <3>1 DEF Continue, Goto
    <3>2. CASE ~StartsWindow(c.n) /\ (Admit(r, q) \/ Finish(r))
      BY <3>2, NotExpiring DEF StartsWindow
    <3> QED BY <2>1, <3>1, <3>2
  <2>6. ASSUME NEW m \in Key, rl'[m].n > 0 PROVE Ending(m)'
    <3>1. CASE m = k
      <4>1. rl'[m].ttl = rl[m].ttl
        BY <1>0, <2>1, <2>2, <3>1
      <4>2. CASE rl[k].n = 0
        BY <2>2, <2>5, <3>1, <4>2
      <4>3. CASE rl[k].n # 0
        <5>1. Ending(m)
          BY <1>0, <1>e, <3>1, <4>3
        <5> QED BY <2>1, <2>4, <4>1, <5>1
      <4> QED BY <4>2, <4>3
    <3>2. CASE m # k
      <4>1. rl'[m] = rl[m]
        BY <1>0, <2>1, <3>2
      <4>2. Ending(m)
        BY <1>e, <2>6, <4>1
      <4> QED BY <2>1, <2>4, <4>1, <4>2
    <3> QED BY <3>1, <3>2
  <2>7. ASSUME NEW p \in Req, pc'[p] = "expire" PROVE Enabled(loc'[p].key)
    BY <1>w, <2>1, <2>4, <2>5, <2>7
  <2> QED BY <2>6, <2>7 DEF EndInv, CounterEnds, Enabled, Limit, Window
<1>4. ASSUME NEW r \in Req, Step(r) PROVE EndInv'
  <2>0. \A p \in Req \ {r} : pc'[p] = pc[p] /\ loc'[p] = loc[p]
    BY <1>4, OthersStay
  <2>1. CASE Expire(r) \/ ExpireFails(r)
    <3> DEFINE k == loc[r].key
    <3>1. k \in Key /\ pc[r] = "expire" /\ Window(k) > 0
      BY <1>w, <2>1 DEF Expire, ExpireFails, Inv, Carries, Locals, Enabled
    <3>2. pc'[r] # "expire"
      BY <2>1, NotExpiring DEF Expire, ExpireFails
    <3>3. \/ rl' = [rl EXCEPT ![k] = ExpiringIn(rl[k], Window(k))] /\ UNCHANGED lost
          \/ rl' = rl /\ lost' = lost \cup {k}
      BY <2>1 DEF Expire, ExpireFails, history
    <3>4. rl[k].n > 0 => ExpiringIn(rl[k], Window(k)).ttl = Window(k)
      BY <1>0, <3>1 DEF ExpiringIn, Counter
    <3>5. ExpiringIn(rl[k], Window(k)).n = rl[k].n
      BY <1>0, <3>1, CounterOps, RuleFacts
    <3> HIDE DEF k
    <3>6. ASSUME NEW m \in Key, rl'[m].n > 0 PROVE Ending(m)'
      <4>1. CASE m = k
        BY <1>0, <3>1, <3>3, <3>4, <3>5, <3>6, <4>1
      <4>2. CASE m # k
        <5>1. rl'[m] = rl[m] /\ (m \in lost => m \in lost')
          BY <1>0, <3>3, <4>2
        <5>2. Ending(m)
          BY <1>e, <3>6, <5>1
        <5>3. (\E q \in Req : pc[q] = "expire" /\ loc[q].key = m)
                => \E q \in Req : pc'[q] = "expire" /\ loc'[q].key = m
          BY <2>0, <4>2, WitnessStays DEF k
        <5> QED BY <5>1, <5>2, <5>3
      <4> QED BY <4>1, <4>2
    <3>7. ASSUME NEW p \in Req, pc'[p] = "expire" PROVE Enabled(loc'[p].key)
      BY <1>w, <2>0, <3>2, <3>7
    <3> QED BY <3>6, <3>7 DEF EndInv, CounterEnds, Enabled, Limit, Window
  <2>2. CASE CheckBackoff(r) \/ CheckFails(r) \/ FailIncr(r) \/ FailExpire(r) \/ FailSet(r)
             \/ Reset(r) \/ End(r)
    <3>1. pc[r] # "expire" /\ UNCHANGED <<rl, lost>>
      BY <2>2 DEF CheckBackoff, CheckFails, FailIncr, FailExpire, FailSet, Reset, End, redis, history
    <3>2. pc'[r] # "expire"
      BY <1>0, <2>2 DEF CheckBackoff, CheckFails, FailIncr, FailExpire, FailSet, Reset, End,
           Finish, Continue, Goto
    <3> QED BY <1>1, <2>0, <3>1, <3>2
  <2> QED BY <1>4, <2>1, <2>2 DEF Step
<1>5. ASSUME NEW r \in Req, NEW k \in Key, NEW a \in Ident, IncrFails(r, k, a) \/ Unlimited(r, k, a)
      PROVE  EndInv'
  <2>1. pc[r] # "expire" /\ UNCHANGED <<rl, lost>> /\ pc'[r] # "expire"
    BY <1>5, NotExpiring DEF IncrFails, Unlimited, redis, history
  <2>2. \A p \in Req \ {r} : pc'[p] = pc[p] /\ loc'[p] = loc[p]
    BY <1>5, OthersStay
  <2> QED BY <1>1, <2>1, <2>2
<1>7. ASSUME NEW k \in Key, UnheardIncr(k) PROVE EndInv'
  <2> DEFINE c == Incremented(rl[k], Limit(k) + 2)
  <2>1. /\ rl' = [rl EXCEPT ![k] = c] /\ UNCHANGED <<pc, loc>>
        /\ lost' = IF rl[k].n = 0 THEN lost \cup {k} ELSE lost
    BY <1>7 DEF UnheardIncr
  <2>2. c.ttl = rl[k].ttl
    BY <1>0 DEF Incremented, Counter
  <2> HIDE DEF c
  <2>3. ASSUME NEW m \in Key, rl'[m].n > 0 PROVE Ending(m)'
    <3>1. rl'[m].ttl = rl[m].ttl /\ (m # k => rl'[m] = rl[m])
      BY <1>0, <2>1, <2>2
    <3>2. CASE m = k /\ rl[k].n = 0
      BY <2>1, <3>2
    <3>3. CASE ~(m = k /\ rl[k].n = 0)
      <4>1. Ending(m)
        BY <1>0, <1>e, <2>3, <3>1, <3>3
      <4> QED BY <2>1, <3>1, <4>1
    <3> QED BY <3>2, <3>3
  <2> QED BY <1>w, <2>1, <2>3 DEF EndInv, CounterEnds, Enabled, Limit, Window
<1>6. CASE UNCHANGED vars
  BY <1>6 DEF vars, EndInv, CounterEnds, Enabled, Limit, Window
<1> QED BY <1>2, <1>3, <1>4, <1>5, <1>6, <1>7 DEF Next

\* The safety half of WindowEnds, for any number of requests between one's INCR
\* and its EXPIRE: only a failed EXPIRE, or a first INCR that Redis executed and
\* nobody heard of, leaves a counter without an end.
THEOREM CountersEnd == Spec => []CounterEnds
<1>1. Init => EndInv
  BY DEF Init, EndInv, CounterEnds, NoCounter
<1>2. EndInv => CounterEnds
  BY DEF EndInv
<1> QED BY <1>1, <1>2, InitInv, NextInv, NextEnd, PTL DEF Spec
=============================================================================
