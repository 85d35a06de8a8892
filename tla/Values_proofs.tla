----------------------------- MODULE Values_proofs -----------------------------
(***************************************************************************)
(* For every width, alphabet and set of calls: numbers and strings arrive  *)
(* as they were sent, a missing bit is noticed, and whatever the bits, a   *)
(* decoder keeps inside its input and its type.  The first half is about   *)
(* the operators of Numbers: what they write they read back, wherever in a *)
(* stream it stands and wherever the stream is cut.                        *)
(***************************************************************************)
EXTENDS Values, TLAPS, FiniteSetTheorems, FunctionTheorems, SequenceTheorems,
        WellFoundedInduction

Bit == {0, 1}

(* Induction, for a set of numbers; and the least number of a set. *)
LEMMA LeastNumber ==
  ASSUME NEW T, T \subseteq Nat, T # {}
  PROVE  \E x \in T : \A y \in T : x <= y
<1>1. PICK x \in T : \A y \in T : ~(<<y, x>> \in OpToRel(<, Nat))
  BY WFMin, NatLessThanWellFounded
<1>2. ASSUME NEW y \in T
      PROVE  x <= y
  <2>1. x \in Nat /\ y \in Nat
    OBVIOUS
  <2>2. ~(y < x)
    BY <1>1, <2>1 DEF OpToRel
  <2> QED BY <2>1, <2>2
<1> QED BY <1>2

(* A set of numbers with 0 and with the successor of each has them all. *)
LEMMA Induction ==
  ASSUME NEW X, 0 \in X, \A n \in Nat : n \in X => n + 1 \in X
  PROVE  Nat \subseteq X
<1> DEFINE T == Nat \ X
<1> SUFFICES ASSUME T # {} PROVE FALSE
  OBVIOUS
<1>1. PICK x \in T : \A y \in T : x <= y
  <2>1. T \subseteq Nat
    OBVIOUS
  <2> HIDE DEF T
  <2> QED BY <2>1, LeastNumber
<1>2. x \in Nat /\ x # 0
  OBVIOUS
<1>3. x - 1 \in Nat /\ x - 1 < x /\ (x - 1) + 1 = x
  BY <1>2
<1>4. x - 1 \in T
  BY <1>2, <1>3
<1> QED BY <1>1, <1>3, <1>4

-----------------------------------------------------------------------------
(* Powers of two.  2 ^ n is known as the number of subsets of 1 .. n: each *)
(* subset of 1 .. n + 1 is one of 1 .. n, or that with n + 1 added.        *)
LEMMA SubsetsDouble ==
  ASSUME NEW n \in Nat
  PROVE  Cardinality(SUBSET (1 .. n + 1)) = 2 * Cardinality(SUBSET (1 .. n))
<1> DEFINE A == SUBSET (1 .. n)
           With == {T \union {n + 1} : T \in A}
           f == [T \in A |-> T \union {n + 1}]
<1>1. IsFiniteSet(A)
  <2>1. IsFiniteSet(1 .. n)
    BY FS_Interval
  <2> QED BY <2>1, FS_SUBSET
<1>2. f \in Bijection(A, With)
  <2>1. f \in [A -> With]
    OBVIOUS
  <2>2. ASSUME NEW T \in A, NEW V \in A, f[T] = f[V]
        PROVE  T = V
    <3>1. n + 1 \notin T /\ n + 1 \notin V
      OBVIOUS
    <3>2. T \union {n + 1} = V \union {n + 1}
      BY <2>2
    <3> QED BY <3>1, <3>2
  <2>3. \A V \in With : \E T \in A : f[T] = V
    OBVIOUS
  <2>4. f \in Injection(A, With)
    <3> HIDE DEF f, A, With
    <3> QED BY <2>1, <2>2, Fun_IsInj
  <2>5. f \in Surjection(A, With)
    <3> HIDE DEF f, A, With
    <3> QED BY <2>1, <2>3, Fun_IsSurj
  <2> QED BY <2>4, <2>5 DEF Bijection
<1>3. IsFiniteSet(With) /\ Cardinality(With) = Cardinality(A)
  <2>1. ExistsBijection(A, With)
    BY <1>2 DEF ExistsBijection
  <2> HIDE DEF A, With
  <2> QED BY <1>1, <2>1, FS_Bijection
<1>4. A \cap With = {}
  OBVIOUS
<1>5. A \union With = SUBSET (1 .. n + 1)
  <2>1. ASSUME NEW T \in SUBSET (1 .. n + 1)
        PROVE  T \in A \union With
    <3>1. CASE n + 1 \in T
      <4> DEFINE V == T \ {n + 1}
      <4>1. V \in A
        OBVIOUS
      <4>2. T = V \union {n + 1}
        BY <3>1
      <4> HIDE DEF V
      <4> QED BY <4>1, <4>2
    <3>2. CASE n + 1 \notin T
      BY <3>2
    <3> QED BY <3>1, <3>2
  <2>2. 1 .. n \subseteq 1 .. n + 1 /\ n + 1 \in 1 .. n + 1
    OBVIOUS
  <2> QED BY <2>1, <2>2
<1>6. Cardinality(A) \in Nat /\ Cardinality({}) = 0
  BY <1>1, FS_CardinalityType, FS_EmptySet
<1>7. Cardinality(A \union With) = Cardinality(A) + Cardinality(With) - Cardinality(A \cap With)
  <2> HIDE DEF A, With
  <2> QED BY <1>1, <1>3, FS_Union
<1> HIDE DEF A, With
<1>8. Cardinality(A \union With) = 2 * Cardinality(A)
  <2>1. Cardinality(A \cap With) = 0
    BY <1>4, <1>6
  <2> QED BY <1>3, <1>6, <1>7, <2>1
<1> QED BY <1>5, <1>8 DEF A

(* The powers of two are numbers, and each is twice the one before. *)
LEMMA PowerNext ==
  ASSUME NEW n \in Nat
  PROVE  2 ^ n \in Nat /\ 2 ^ (n + 1) = 2 * 2 ^ n /\ 2 ^ 0 = 1
<1>1. IsFiniteSet(1 .. n) /\ Cardinality(1 .. n) = n
  BY FS_Interval
<1>2. IsFiniteSet(1 .. n + 1) /\ Cardinality(1 .. n + 1) = n + 1
  BY FS_Interval
<1>3. Cardinality(SUBSET (1 .. n)) = 2 ^ n /\ IsFiniteSet(SUBSET (1 .. n))
  BY <1>1, FS_SUBSET
<1>4. Cardinality(SUBSET (1 .. n + 1)) = 2 ^ (n + 1)
  BY <1>2, FS_SUBSET
<1>5. 2 ^ n \in Nat
  BY <1>3, FS_CardinalityType
<1>6. 2 ^ 0 = 1
  OBVIOUS
<1> QED BY <1>3, <1>4, <1>5, <1>6, SubsetsDouble

(* A power of two is at least 1. *)
LEMMA PowerType ==
  ASSUME NEW n \in Nat
  PROVE  2 ^ n \in Nat /\ 2 ^ n >= 1
<1> DEFINE X == {m \in Nat : 2 ^ m >= 1}
<1>1. 0 \in X
  BY PowerNext
<1>2. ASSUME NEW m \in Nat, m \in X
      PROVE  m + 1 \in X
  BY <1>2, PowerNext
<1>3. Nat \subseteq X
  <2> HIDE DEF X
  <2> QED BY <1>1, <1>2, Induction
<1> QED BY <1>3, PowerNext

(* A larger exponent gives a larger power. *)
LEMMA PowerUp ==
  ASSUME NEW m \in Nat, NEW n \in Nat, m < n
  PROVE  2 ^ m < 2 ^ n
<1> DEFINE X == {k \in Nat : 2 ^ m < 2 ^ (m + (k + 1))}
<1>1. 0 \in X
  <2>1. 2 ^ (m + 1) = 2 * 2 ^ m /\ 2 ^ m \in Nat /\ 2 ^ m >= 1
    BY PowerNext, PowerType
  <2>2. m + (0 + 1) = m + 1
    OBVIOUS
  <2> QED BY <2>1, <2>2
<1>2. ASSUME NEW k \in Nat, k \in X
      PROVE  k + 1 \in X
  <2>1. m + (k + 1) \in Nat /\ m + ((k + 1) + 1) = (m + (k + 1)) + 1
    OBVIOUS
  <2>2. 2 ^ ((m + (k + 1)) + 1) = 2 * 2 ^ (m + (k + 1)) /\ 2 ^ (m + (k + 1)) \in Nat
    BY <2>1, PowerNext
  <2>3. 2 ^ m \in Nat /\ 2 ^ m < 2 ^ (m + (k + 1))
    BY <1>2, PowerType
  <2> QED BY <2>1, <2>2, <2>3
<1>3. Nat \subseteq X
  <2> HIDE DEF X
  <2> QED BY <1>1, <1>2, Induction
<1>4. n - m - 1 \in Nat /\ m + ((n - m - 1) + 1) = n
  OBVIOUS
<1>5. n - m - 1 \in X
  BY <1>3, <1>4
<1> QED BY <1>4, <1>5

(* The same, where the exponents may be equal. *)
LEMMA PowerAtMost ==
  ASSUME NEW m \in Nat, NEW n \in Nat, m <= n
  PROVE  2 ^ m <= 2 ^ n
<1>1. CASE m < n
  BY <1>1, PowerUp, PowerType
<1>2. CASE m = n
  BY <1>2, PowerType
<1> QED BY <1>1, <1>2

(* The power of a sum is the product of the powers. *)
LEMMA PowerSum ==
  ASSUME NEW m \in Nat, NEW n \in Nat
  PROVE  2 ^ (m + n) = 2 ^ m * 2 ^ n
<1> DEFINE X == {k \in Nat : 2 ^ (m + k) = 2 ^ m * 2 ^ k}
<1>1. 0 \in X
  <2>1. 2 ^ 0 = 1 /\ 2 ^ m \in Nat /\ m + 0 = m
    BY PowerNext
  <2> QED BY <2>1
<1>2. ASSUME NEW k \in Nat, k \in X
      PROVE  k + 1 \in X
  <2>1. 2 ^ ((m + k) + 1) = 2 * 2 ^ (m + k) /\ 2 ^ (k + 1) = 2 * 2 ^ k
    BY PowerNext
  <2>2. 2 ^ m \in Nat /\ 2 ^ k \in Nat /\ m + (k + 1) = (m + k) + 1
    BY PowerType
  <2>3. 2 ^ (m + k) = 2 ^ m * 2 ^ k
    BY <1>2
  <2>4. \A a, b \in Nat : 2 * (a * b) = a * (2 * b)
    OBVIOUS
  <2> QED BY <2>1, <2>2, <2>3, <2>4
<1>3. Nat \subseteq X
  <2> HIDE DEF X
  <2> QED BY <1>1, <1>2, Induction
<1> QED BY <1>3

-----------------------------------------------------------------------------
(* Division by a number that is not fixed. *)
Divided(v, m, q, r) == v \div m = q /\ v % m = r
Divides(v, m) ==
  /\ v \div m \in Int /\ v % m \in 0 .. m - 1
  /\ v = m * (v \div m) + (v % m)
  /\ v >= 0 => v \div m >= 0

(* Quotient and remainder exist and are what the operators give. *)
LEMMA Division ==
  ASSUME NEW v \in Int, NEW m \in Nat \ {0}
  PROVE  Divides(v, m)
<1>1. v \div m \in Int /\ v % m \in 0 .. m - 1
  OBVIOUS
<1>2. v = m * (v \div m) + (v % m)
  OBVIOUS
<1>3. ASSUME v >= 0, v \div m <= -1
      PROVE  FALSE
  <2> DEFINE q == v \div m
  <2>1. m * q <= m * (-1)
    <3>1. \A a \in Nat \ {0}, b \in Int : b <= -1 => a * b <= a * (-1)
      OBVIOUS
    <3> QED BY <1>1, <1>3, <3>1
  <2> HIDE DEF q
  <2> QED BY <1>1, <1>2, <1>3, <2>1 DEF q
<1> QED BY <1>1, <1>2, <1>3 DEF Divides

(* Whatever is a quotient with a remainder is the quotient. *)
LEMMA DivisionIs ==
  ASSUME NEW m \in Nat \ {0}, NEW q \in Int, NEW r \in 0 .. m - 1, NEW v, v = m * q + r
  PROVE  Divided(v, m, q, r)
<1> DEFINE p == v \div m
           s == v % m
<1>1. p \in Int /\ s \in 0 .. m - 1 /\ m * p + s = m * q + r
  <2>1. v \in Int
    OBVIOUS
  <2>2. v = m * p + s /\ p \in Int /\ s \in 0 .. m - 1
    BY <2>1, Division DEF Divides
  <2> QED BY <2>2
<1> HIDE DEF p, s
<1>2. \A a, b \in Int : a < b => m * a + m <= m * b
  <2> SUFFICES ASSUME NEW a \in Int, NEW b \in Int, a < b PROVE m * a + m <= m * b
    OBVIOUS
  <2>1. m * (b - a) >= m
    <3>1. \A c \in Nat \ {0} : m * c >= m
      OBVIOUS
    <3> QED BY <3>1
  <2>2. m * (b - a) = m * b - m * a
    OBVIOUS
  <2> QED BY <2>1, <2>2
<1>3. ~(p < q)
  BY <1>1, <1>2
<1>4. ~(q < p)
  BY <1>1, <1>2
<1>5. p = q
  BY <1>1, <1>3, <1>4
<1>6. s = r
  BY <1>1, <1>5
<1> QED BY <1>5, <1>6 DEF p, s, Divided

(* To divide by m and then by 2 is to divide by 2 * m. *)
LEMMA DivideTwice ==
  ASSUME NEW v \in Nat, NEW m \in Nat \ {0}
  PROVE  (v \div m) \div 2 = v \div (2 * m)
<1> DEFINE u == v \div m
           r == v % m
           q == u \div 2
           b == u % 2
<1>1. u \in Nat /\ r \in 0 .. m - 1 /\ v = m * u + r
  <2>1. v \in Int /\ v >= 0
    OBVIOUS
  <2>2. Divides(v, m)
    BY <2>1, Division
  <2> QED BY <2>1, <2>2 DEF Divides
<1> HIDE DEF u, r
<1>2. q \in Nat /\ b \in 0 .. 1 /\ u = 2 * q + b
  BY <1>1
<1> HIDE DEF q, b
<1>3. v = (2 * m) * q + (m * b + r) /\ m * b + r \in 0 .. 2 * m - 1
  <2>1. m * (2 * q + b) = (2 * m) * q + m * b
    BY <1>2
  <2>2. m * b \in {0, m}
    BY <1>2
  <2> QED BY <1>1, <1>2, <2>1, <2>2
<1>4. 2 * m \in Nat \ {0}
  OBVIOUS
<1>5. Divided(v, 2 * m, q, m * b + r)
  BY <1>2, <1>3, <1>4, DivisionIs
<1> QED BY <1>5 DEF q, u, Divided

(* The lowest bit of a remainder, and the bits above it. *)
LEMMA LastBit ==
  ASSUME NEW u \in Nat, NEW m \in Nat \ {0}
  PROVE  u % (2 * m) = 2 * ((u \div 2) % m) + (u % 2)
<1> DEFINE h == u \div 2
           b == u % 2
           q == h \div m
           r == h % m
<1>1. h \in Nat /\ b \in 0 .. 1 /\ u = 2 * h + b
  OBVIOUS
<1> HIDE DEF h, b
<1>2. q \in Nat /\ r \in 0 .. m - 1 /\ h = m * q + r
  <2>1. h \in Int /\ h >= 0
    BY <1>1
  <2>2. Divides(h, m)
    BY <2>1, Division
  <2> QED BY <2>1, <2>2 DEF Divides
<1> HIDE DEF q, r
<1>3. u = (2 * m) * q + (2 * r + b) /\ 2 * r + b \in 0 .. 2 * m - 1
  <2>1. 2 * (m * q + r) = (2 * m) * q + 2 * r
    BY <1>2
  <2> QED BY <1>1, <1>2, <2>1
<1>4. 2 * m \in Nat \ {0}
  OBVIOUS
<1>5. Divided(u, 2 * m, q, 2 * r + b)
  BY <1>2, <1>3, <1>4, DivisionIs
<1> QED BY <1>5 DEF r, b, h, Divided

(* A number below a power of two is its own remainder. *)
LEMMA Remainder ==
  ASSUME NEW n \in Nat, NEW v \in 0 .. 2 ^ n - 1
  PROVE  v % 2 ^ n = v /\ v \div 2 ^ n = 0
<1>1. 2 ^ n \in Nat \ {0} /\ v \in Int
  BY PowerType
<1>2. v = 2 ^ n * 0 + v
  BY <1>1
<1>3. Divided(v, 2 ^ n, 0, v)
  BY <1>1, <1>2, DivisionIs
<1> QED BY <1>3 DEF Divided

-----------------------------------------------------------------------------
(* Bits of a number and the number of bits. *)
Field(v, n) == BitsOf(v, n) \in Seq(Bit) /\ Len(BitsOf(v, n)) = n

(* A field is a sequence of bits of its width. *)
LEMMA BitsType ==
  ASSUME NEW v \in Nat, NEW n \in Nat
  PROVE  Field(v, n)
<1>1. ASSUME NEW k \in 1 .. n
      PROVE  (v \div 2 ^ (n - k)) % 2 \in Bit
  <2>1. 2 ^ (n - k) \in Nat \ {0} /\ v \in Int
    BY PowerType
  <2>2. Divides(v, 2 ^ (n - k))
    BY <2>1, Division
  <2>3. v \div 2 ^ (n - k) \in Int
    BY <2>2 DEF Divides
  <2>4. \A u \in Int : u % 2 \in {0, 1}
    OBVIOUS
  <2> QED BY <2>3, <2>4 DEF Bit
<1>2. BitsOf(v, n) \in [1 .. n -> Bit]
  BY <1>1 DEF BitsOf
<1> QED BY <1>2 DEF Field

(* NumberOf is the last of the sums g of the first bits. *)
Adds(bits, g) == g[0] = 0 /\ \A k \in 1 .. Len(bits) : g[k] = 2 * g[k - 1] + bits[k]

(* The sum that NumberOf is defined by adds up bit by bit. *)
LEMMA NumberDefined ==
  ASSUME NEW bits \in Seq(Bit)
  PROVE  \E g : Adds(bits, g) /\ NumberOf(bits) = g[Len(bits)]
<1> DEFINE up(m, g) == [k \in 0 .. m |-> IF k = 0 THEN 0 ELSE 2 * g[k - 1] + bits[k]]
           X == {m \in Nat : \E g : g = up(m, g)}
<1>1. 0 \in X
  <2> DEFINE e == [k \in 0 .. 0 |-> 0]
  <2>1. e = up(0, e)
    OBVIOUS
  <2> QED BY <2>1
<1>2. ASSUME NEW m \in Nat, m \in X
      PROVE  m + 1 \in X
  <2>1. PICK u : u = up(m, u)
    BY <1>2
  <2> DEFINE h == up(m + 1, u)
  <2>2. ASSUME NEW k \in 0 .. m + 1, k # 0
        PROVE  h[k - 1] = u[k - 1]
    <3>1. k - 1 \in 0 .. m /\ k - 1 \in 0 .. m + 1
      BY <2>2
    <3>2. u[k - 1] = IF k - 1 = 0 THEN 0 ELSE 2 * u[(k - 1) - 1] + bits[k - 1]
      BY <2>1, <3>1
    <3> QED BY <3>1, <3>2
  <2>3. h = up(m + 1, h)
    BY <2>2
  <2>4. \E g : g = up(m + 1, g)
    <3> HIDE DEF h
    <3> QED BY <2>3
  <2> HIDE DEF up
  <2> QED BY <2>4
<1> DEFINE n == Len(bits)
<1>3. \E g : g = up(n, g)
  <2>1. Nat \subseteq X
    <3> HIDE DEF X
    <3> QED BY <1>1, <1>2, Induction
  <2>2. n \in Nat
    OBVIOUS
  <2> QED BY <2>1, <2>2
<1> DEFINE sum == CHOOSE g : g = up(n, g)
<1>4. sum = up(n, sum)
  BY <1>3
<1>5. NumberOf(bits) = sum[n]
  BY DEF NumberOf
<1> HIDE DEF sum
<1>6. Adds(bits, sum)
  <2>1. n \in Nat
    OBVIOUS
  <2>2. ASSUME NEW k \in 1 .. n
        PROVE  sum[k] = 2 * sum[k - 1] + bits[k]
    <3>1. k \in 0 .. n /\ k # 0
      OBVIOUS
    <3> QED BY <1>4, <3>1
  <2>3. sum[0] = 0
    BY <1>4, <2>1
  <2> QED BY <2>2, <2>3 DEF Adds
<1> QED BY <1>5, <1>6

(* The sum of k bits is below 2 ^ k. *)
LEMMA SumBounds ==
  ASSUME NEW bits \in Seq(Bit), NEW g, Adds(bits, g)
  PROVE  \A k \in 0 .. Len(bits) : g[k] \in 0 .. 2 ^ k - 1
<1> DEFINE n == Len(bits)
           X == {k \in Nat : k <= n => g[k] \in 0 .. 2 ^ k - 1}
<1>1. 0 \in X
  BY PowerNext DEF Adds
<1>2. ASSUME NEW k \in Nat, k \in X
      PROVE  k + 1 \in X
  <2> SUFFICES ASSUME k + 1 <= n PROVE g[k + 1] \in 0 .. 2 ^ (k + 1) - 1
    OBVIOUS
  <2>1. k + 1 \in 1 .. n /\ (k + 1) - 1 = k
    OBVIOUS
  <2>2. g[k + 1] = 2 * g[k] + bits[k + 1] /\ bits[k + 1] \in {0, 1}
    BY <2>1 DEF Adds, Bit
  <2>3. g[k] \in 0 .. 2 ^ k - 1
    BY <1>2
  <2>4. 2 ^ (k + 1) = 2 * 2 ^ k /\ 2 ^ k \in Nat
    BY PowerNext
  <2> QED BY <2>2, <2>3, <2>4
<1>3. Nat \subseteq X
  <2> HIDE DEF X
  <2> QED BY <1>1, <1>2, Induction
<1> QED BY <1>3

(* n bits stand for a number below 2 ^ n. *)
LEMMA NumberType ==
  ASSUME NEW bits \in Seq(Bit)
  PROVE  NumberOf(bits) \in 0 .. 2 ^ Len(bits) - 1
<1>1. PICK g : Adds(bits, g) /\ NumberOf(bits) = g[Len(bits)]
  BY NumberDefined
<1>2. Len(bits) \in 0 .. Len(bits)
  OBVIOUS
<1>3. g[Len(bits)] \in 0 .. 2 ^ Len(bits) - 1
  BY <1>1, <1>2, SumBounds
<1> QED BY <1>1, <1>3

(* n bits carry a number modulo 2 ^ n: what WriteBits(v, n) puts on the    *)
(* stream and ReadBits(n) takes from it (bitstream.go:40, 131).            *)
THEOREM NumberOfBits ==
  ASSUME NEW v \in Nat, NEW n \in Nat
  PROVE  NumberOf(BitsOf(v, n)) = v % 2 ^ n
<1> DEFINE bits == BitsOf(v, n)
<1>1. bits \in Seq(Bit) /\ Len(bits) = n
  BY BitsType DEF Field
<1>2. \A k \in 1 .. n : bits[k] = (v \div 2 ^ (n - k)) % 2
  BY DEF BitsOf
<1> HIDE DEF bits
<1>3. PICK g : Adds(bits, g) /\ NumberOf(bits) = g[n]
  BY <1>1, NumberDefined
<1> DEFINE High(k) == v \div 2 ^ (n - k)
           X == {k \in Nat : k <= n => g[k] = High(k) % 2 ^ k}
<1>4. \A k \in 0 .. n : High(k) \in Nat
  <2> SUFFICES ASSUME NEW k \in 0 .. n PROVE High(k) \in Nat
    OBVIOUS
  <2>1. 2 ^ (n - k) \in Nat \ {0} /\ v \in Int /\ v >= 0
    BY PowerType
  <2>2. Divides(v, 2 ^ (n - k))
    BY <2>1, Division
  <2> QED BY <2>1, <2>2 DEF Divides
<1>5. 0 \in X
  <2>1. g[0] = 0
    BY <1>3 DEF Adds
  <2>2. High(0) \in Nat /\ 2 ^ 0 = 1
    BY <1>4, PowerNext
  <2>3. \A x \in Nat : x % 1 = 0
    OBVIOUS
  <2>4. High(0) % 2 ^ 0 = 0
    <3> HIDE DEF High
    <3> QED BY <2>2, <2>3
  <2> QED BY <2>1, <2>4
<1>6. ASSUME NEW k \in Nat, k \in X
      PROVE  k + 1 \in X
  <2> SUFFICES ASSUME k + 1 <= n PROVE g[k + 1] = High(k + 1) % 2 ^ (k + 1)
    OBVIOUS
  <2> DEFINE u == High(k + 1)
             M == 2 ^ k
  <2>1. k + 1 \in 1 .. n /\ (k + 1) - 1 = k /\ k \in 0 .. n /\ k + 1 \in 0 .. n
    OBVIOUS
  <2>2. g[k + 1] = 2 * g[k] + bits[k + 1] /\ bits[k + 1] = u % 2
    BY <1>1, <1>2, <1>3, <2>1 DEF Adds
  <2>3. g[k] = High(k) % M
    BY <1>6
  <2>4. High(k) = u \div 2
    <3>1. n - k = (n - (k + 1)) + 1 /\ n - (k + 1) \in Nat
      BY <2>1
    <3>2. 2 ^ (n - k) = 2 * 2 ^ (n - (k + 1)) /\ 2 ^ (n - (k + 1)) \in Nat \ {0}
      BY <3>1, PowerNext, PowerType
    <3> QED BY <3>2, DivideTwice
  <2>5. u \in Nat /\ M \in Nat \ {0} /\ 2 ^ (k + 1) = 2 * M
    <3>1. u \in Nat
      <4> HIDE DEF High
      <4> QED BY <1>4, <2>1
    <3>2. M \in Nat \ {0} /\ 2 ^ (k + 1) = 2 * M
      BY PowerNext, PowerType
    <3> QED BY <3>1, <3>2
  <2> HIDE DEF u, M, High
  <2>6. u % (2 * M) = 2 * ((u \div 2) % M) + (u % 2)
    BY <2>5, LastBit
  <2>7. g[k + 1] = u % (2 * M)
    BY <2>2, <2>3, <2>4, <2>6
  <2> QED BY <2>5, <2>7 DEF u
<1>7. Nat \subseteq X
  <2> HIDE DEF X
  <2> QED BY <1>5, <1>6, Induction
<1>8. g[n] = High(n) % 2 ^ n
  <2>1. n \in X
    BY <1>7
  <2> HIDE DEF High
  <2> QED BY <2>1
<1>9. High(n) = v
  <2>1. n - n = 0 /\ 2 ^ 0 = 1
    BY PowerNext
  <2>2. \A x \in Nat : x \div 1 = x
    OBVIOUS
  <2> QED BY <2>1, <2>2
<1> HIDE DEF High
<1> QED BY <1>3, <1>8, <1>9 DEF bits

(* n bits are the bits of their number. *)
LEMMA BitsOfNumber ==
  ASSUME NEW bits \in Seq(Bit)
  PROVE  BitsOf(NumberOf(bits), Len(bits)) = bits
<1> DEFINE n == Len(bits)
           v == NumberOf(bits)
<1>0. n \in Nat /\ v \in Nat
  <2>1. 2 ^ n \in Nat /\ v \in 0 .. 2 ^ n - 1
    BY NumberType, PowerType
  <2> HIDE DEF v
  <2> QED BY <2>1
<1>1. PICK g : Adds(bits, g) /\ v = g[n]
  BY NumberDefined
<1>2. \A k \in 0 .. n : g[k] \in Nat
  <2>1. \A k \in 0 .. n : g[k] \in 0 .. 2 ^ k - 1
    BY <1>1, SumBounds
  <2> QED BY <2>1
<1>3. ASSUME NEW k \in 1 .. n
      PROVE  g[k] \div 2 = g[k - 1] /\ g[k] % 2 = bits[k]
  <2>1. g[k] = 2 * g[k - 1] + bits[k] /\ bits[k] \in {0, 1} /\ g[k - 1] \in Nat
    BY <1>1, <1>2 DEF Adds, Bit
  <2>2. \A a \in Nat, b \in {0, 1} : (2 * a + b) \div 2 = a /\ (2 * a + b) % 2 = b
    OBVIOUS
  <2> QED BY <2>1, <2>2
<1> HIDE DEF n, v
<1> DEFINE X == {j \in Nat : j <= n => v \div 2 ^ j = g[n - j]}
<1>4. 0 \in X
  <2>1. 2 ^ 0 = 1 /\ n - 0 = n /\ v \div 1 = v
    BY <1>0, PowerNext
  <2> QED BY <1>1, <2>1
<1>5. ASSUME NEW j \in Nat, j \in X
      PROVE  j + 1 \in X
  <2> SUFFICES ASSUME j + 1 <= n PROVE v \div 2 ^ (j + 1) = g[n - (j + 1)]
    OBVIOUS
  <2>1. v \div 2 ^ j = g[n - j]
    BY <1>0, <1>5
  <2>2. (v \div 2 ^ j) \div 2 = v \div 2 ^ (j + 1)
    <3>1. 2 ^ (j + 1) = 2 * 2 ^ j /\ 2 ^ j \in Nat \ {0}
      BY PowerNext, PowerType
    <3> QED BY <1>0, <3>1, DivideTwice
  <2>3. n - j \in 1 .. n /\ (n - j) - 1 = n - (j + 1)
    BY <1>0
  <2>4. g[n - j] \div 2 = g[n - (j + 1)]
    BY <1>3, <2>3
  <2> QED BY <2>1, <2>2, <2>4
<1>6. Nat \subseteq X
  <2> HIDE DEF X
  <2> QED BY <1>4, <1>5, Induction
<1>7. ASSUME NEW k \in 1 .. n
      PROVE  BitsOf(v, n)[k] = bits[k]
  <2>1. n - k \in Nat /\ n - k <= n /\ n - (n - k) = k
    BY <1>0
  <2>2. v \div 2 ^ (n - k) = g[k]
    <3>1. n - k \in X
      BY <1>6, <2>1
    <3> QED BY <2>1, <3>1
  <2>3. BitsOf(v, n)[k] = (v \div 2 ^ (n - k)) % 2
    BY DEF BitsOf
  <2> QED BY <1>3, <2>2, <2>3
<1>8. BitsOf(v, n) \in Seq(Bit) /\ Len(BitsOf(v, n)) = n
  BY <1>0, BitsType DEF Field
<1>9. BitsOf(v, n) = bits
  BY <1>7, <1>8 DEF n
<1> QED BY <1>9 DEF n, v

(* The number of bits joined: the first are worth a power more. *)
LEMMA NumberOfJoined ==
  ASSUME NEW s \in Seq(Bit), NEW t \in Seq(Bit)
  PROVE  NumberOf(s \o t) = NumberOf(s) * 2 ^ Len(t) + NumberOf(t)
<1> DEFINE st == s \o t
           m == Len(s)
           n == Len(t)
<1>0. m \in Nat /\ n \in Nat /\ st \in Seq(Bit) /\ Len(st) = m + n
  OBVIOUS
<1>1. /\ \A k \in 1 .. m : st[k] = s[k]
      /\ \A k \in 1 .. n : st[m + k] = t[k]
  OBVIOUS
<1> HIDE DEF st
<1>2. PICK g : Adds(st, g) /\ NumberOf(st) = g[m + n]
  BY <1>0, NumberDefined
<1>3. PICK h : Adds(s, h) /\ NumberOf(s) = h[m]
  BY NumberDefined
<1>4. PICK e : Adds(t, e) /\ NumberOf(t) = e[n]
  BY NumberDefined
<1>5. \A k \in 0 .. n : e[k] \in Nat
  <2>1. \A k \in 0 .. n : e[k] \in 0 .. 2 ^ k - 1
    BY <1>4, SumBounds
  <2> QED BY <2>1
<1>6. h[m] \in Nat
  <2>1. \A k \in 0 .. m : h[k] \in 0 .. 2 ^ k - 1
    BY <1>3, SumBounds
  <2> QED BY <1>0, <2>1
<1> HIDE DEF m, n
<1> DEFINE X == {k \in Nat : k <= m => g[k] = h[k]}
<1>7. Nat \subseteq X
  <2>1. 0 \in X
    BY <1>2, <1>3 DEF Adds
  <2>2. ASSUME NEW k \in Nat, k \in X
        PROVE  k + 1 \in X
    <3> SUFFICES ASSUME k + 1 <= m PROVE g[k + 1] = h[k + 1]
      OBVIOUS
    <3>1. k + 1 \in 1 .. m /\ k + 1 \in 1 .. m + n /\ (k + 1) - 1 = k
      BY <1>0
    <3>2. g[k + 1] = 2 * g[k] + st[k + 1] /\ h[k + 1] = 2 * h[k] + s[k + 1]
      BY <1>0, <1>2, <1>3, <3>1 DEF Adds, m
    <3>3. g[k] = h[k]
      BY <1>0, <2>2
    <3> QED BY <1>1, <3>1, <3>2, <3>3
  <2> HIDE DEF X
  <2> QED BY <2>1, <2>2, Induction
<1>8. g[m] = h[m]
  BY <1>0, <1>7
<1> DEFINE R == {k \in Nat : k <= n => g[m + k] = h[m] * 2 ^ k + e[k]}
<1>9. Nat \subseteq R
  <2>1. 0 \in R
    <3>1. 2 ^ 0 = 1 /\ m + 0 = m /\ e[0] = 0 /\ h[m] * 1 + 0 = h[m]
      BY <1>0, <1>4, <1>6, PowerNext DEF Adds
    <3> QED BY <1>8, <3>1
  <2>2. ASSUME NEW k \in Nat, k \in R
        PROVE  k + 1 \in R
    <3> SUFFICES ASSUME k + 1 <= n PROVE g[m + (k + 1)] = h[m] * 2 ^ (k + 1) + e[k + 1]
      OBVIOUS
    <3>1. /\ k + 1 \in 1 .. n /\ m + (k + 1) \in 1 .. m + n /\ (k + 1) - 1 = k
          /\ (m + (k + 1)) - 1 = m + k /\ k \in 0 .. n
      BY <1>0
    <3>2. g[m + (k + 1)] = 2 * g[m + k] + st[m + (k + 1)]
      BY <1>0, <1>2, <3>1 DEF Adds
    <3>3. e[k + 1] = 2 * e[k] + t[k + 1]
      BY <1>4, <3>1 DEF Adds, n
    <3>4. g[m + k] = h[m] * 2 ^ k + e[k]
      BY <1>0, <2>2
    <3>5. st[m + (k + 1)] = t[k + 1] /\ t[k + 1] \in Nat
      BY <1>1, <3>1 DEF Bit, n
    <3>6. 2 ^ (k + 1) = 2 * 2 ^ k /\ 2 ^ k \in Nat /\ e[k] \in Nat
      BY <1>5, <3>1, PowerNext
    <3> DEFINE a == h[m]
               b == 2 ^ k
               c == e[k]
               d == t[k + 1]
    <3>7. 2 * (a * b + c) + d = a * (2 * b) + (2 * c + d)
      <4>1. a \in Nat /\ b \in Nat /\ c \in Nat /\ d \in Nat
        BY <1>6, <3>5, <3>6
      <4> HIDE DEF a, b, c, d
      <4> QED BY <4>1
    <3>8. g[m + (k + 1)] = 2 * (a * b + c) + d
      BY <3>2, <3>4, <3>5
    <3>9. a * 2 ^ (k + 1) + e[k + 1] = a * (2 * b) + (2 * c + d)
      BY <3>3, <3>6
    <3> HIDE DEF a, b, c, d
    <3> QED BY <3>7, <3>8, <3>9 DEF a
  <2> HIDE DEF R
  <2> QED BY <2>1, <2>2, Induction
<1>10. g[m + n] = h[m] * 2 ^ n + e[n]
  BY <1>0, <1>9
<1> QED BY <1>2, <1>3, <1>4, <1>10 DEF st, n

(* Two fields side by side are one. *)
LEMMA BitsJoined ==
  ASSUME NEW m \in Nat, NEW n \in Nat, NEW x \in 0 .. 2 ^ m - 1, NEW y \in 0 .. 2 ^ n - 1
  PROVE  BitsOf(x * 2 ^ n + y, m + n) = BitsOf(x, m) \o BitsOf(y, n)
<1> DEFINE s == BitsOf(x, m)
           t == BitsOf(y, n)
<1>1. x \in Nat /\ y \in Nat
  BY PowerType
<1>2. s \in Seq(Bit) /\ Len(s) = m /\ t \in Seq(Bit) /\ Len(t) = n
  BY <1>1, BitsType DEF Field
<1>3. NumberOf(s) = x /\ NumberOf(t) = y
  BY <1>1, NumberOfBits, Remainder
<1> HIDE DEF s, t
<1>4. s \o t \in Seq(Bit) /\ Len(s \o t) = m + n
  BY <1>2
<1>5. NumberOf(s \o t) = x * 2 ^ n + y
  BY <1>2, <1>3, NumberOfJoined
<1>6. BitsOf(NumberOf(s \o t), Len(s \o t)) = s \o t
  BY <1>4, BitsOfNumber
<1> QED BY <1>4, <1>5, <1>6 DEF s, t

-----------------------------------------------------------------------------
(* Streams.  The bits e were written at a place of w, which may be cut     *)
(* before their end or before the place, or go on after them; a decoder    *)
(* that needs all bits up to a place answers with a value if they are      *)
(* there, and reports the end of the input if not.                         *)
Agrees(w, at, e) == \A k \in 1 .. Len(e) : at + k <= Len(w) => w[at + k] = e[k]
Answer(w, to, v) == IF to <= Len(w) THEN Decoded(v, to) ELSE Failed("eof")

(* Bits followed by bits are bits. *)
LEMMA JoinedBits ==
  ASSUME NEW e \in Seq(Bit), NEW f \in Seq(Bit)
  PROVE  e \o f \in Seq(Bit) /\ Len(e \o f) = Len(e) + Len(f)
OBVIOUS

(* A stream that agrees with two pieces agrees with each where it stands. *)
LEMMA AgreesJoined ==
  ASSUME NEW w, NEW at \in Nat, NEW e \in Seq(Bit), NEW f \in Seq(Bit), Agrees(w, at, e \o f)
  PROVE  Agrees(w, at, e) /\ Agrees(w, at + Len(e), f)
<1>1. /\ Len(e) \in Nat /\ Len(f) \in Nat /\ Len(e \o f) = Len(e) + Len(f)
      /\ \A k \in 1 .. Len(e) : (e \o f)[k] = e[k]
      /\ \A k \in 1 .. Len(f) : (e \o f)[Len(e) + k] = f[k]
  OBVIOUS
<1>2. ASSUME NEW k \in 1 .. Len(e), at + k <= Len(w)
      PROVE  w[at + k] = e[k]
  <2>1. k \in 1 .. Len(e \o f)
    BY <1>1
  <2> QED BY <1>1, <1>2, <2>1 DEF Agrees
<1>3. ASSUME NEW k \in 1 .. Len(f), (at + Len(e)) + k <= Len(w)
      PROVE  w[(at + Len(e)) + k] = f[k]
  <2>1. Len(e) + k \in 1 .. Len(e \o f) /\ at + (Len(e) + k) = (at + Len(e)) + k
    BY <1>1
  <2>2. w[at + (Len(e) + k)] = (e \o f)[Len(e) + k]
    BY <1>3, <2>1 DEF Agrees
  <2> QED BY <1>1, <2>1, <2>2
<1> QED BY <1>2, <1>3 DEF Agrees

(* ReadBits returns the low bits of what was written, or the end of input. *)
LEMMA ReadField ==
  ASSUME NEW w \in Seq(Bit), NEW at \in Nat, NEW v \in Nat, NEW n \in Nat,
         Agrees(w, at, BitsOf(v, n))
  PROVE  ReadBits(w, at, n) = Answer(w, at + n, v % 2 ^ n)
<1>1. CASE Len(w) < at + n
  BY <1>1 DEF ReadBits, Answer
<1>2. CASE at + n <= Len(w)
  <2> DEFINE e == BitsOf(v, n)
             s == SubSeq(w, at + 1, at + n)
  <2>1. e \in Seq(Bit) /\ Len(e) = n
    BY BitsType DEF Field
  <2>2. s \in Seq(Bit) /\ Len(s) = n /\ \A k \in 1 .. n : s[k] = w[at + k]
    <3>1. at + 1 \in 1 .. Len(w) + 1 /\ at + n \in at .. Len(w)
      BY <1>2
    <3> QED BY <1>2, <3>1
  <2>3. \A k \in 1 .. n : w[at + k] = e[k]
    BY <1>2, <2>1 DEF Agrees
  <2> HIDE DEF e, s
  <2>4. s = e
    <3>1. \A k \in 1 .. Len(s) : s[k] = e[k]
      BY <2>2, <2>3
    <3> QED BY <2>1, <2>2, <3>1, SeqEqual
  <2>5. NumberOf(s) = v % 2 ^ n
    BY <2>4, NumberOfBits DEF e
  <2> QED BY <1>2, <2>5 DEF ReadBits, Answer, s
<1> QED BY <1>1, <1>2

(* A number of the width of its field is read whole. *)
LEMMA ReadNumber ==
  ASSUME NEW w \in Seq(Bit), NEW at \in Nat, NEW n \in Nat, NEW v \in 0 .. 2 ^ n - 1,
         Agrees(w, at, BitsOf(v, n))
  PROVE  ReadBits(w, at, n) = Answer(w, at + n, v)
<1>1. v \in Nat /\ v % 2 ^ n = v
  BY PowerType, Remainder
<1>2. ReadBits(w, at, n) = Answer(w, at + n, v % 2 ^ n)
  BY <1>1, ReadField
<1> QED BY <1>1, <1>2

(* Whatever the bits are: they are the bits of the number that is read. *)
ReadsAny(w, at, n) ==
  IF at + n <= Len(w)
    THEN \E v \in 0 .. 2 ^ n - 1 :
           ReadBits(w, at, n) = Decoded(v, at + n) /\ SubSeq(w, at + 1, at + n) = BitsOf(v, n)
    ELSE ReadBits(w, at, n) = Failed("eof")

(* Whatever the bits, those that ReadBits takes are the field of its value. *)
LEMMA ReadAny ==
  ASSUME NEW w \in Seq(Bit), NEW at \in Nat, NEW n \in Nat
  PROVE  ReadsAny(w, at, n)
<1>1. CASE Len(w) < at + n
  BY <1>1 DEF ReadBits, ReadsAny
<1>2. CASE at + n <= Len(w)
  <2> DEFINE s == SubSeq(w, at + 1, at + n)
  <2>1. s \in Seq(Bit) /\ Len(s) = n
    <3>1. at + 1 \in 1 .. Len(w) + 1 /\ at + n \in at .. Len(w)
      BY <1>2
    <3> QED BY <1>2, <3>1
  <2>2. ReadBits(w, at, n) = Decoded(NumberOf(s), at + n)
    BY <1>2 DEF ReadBits
  <2> HIDE DEF s
  <2>3. NumberOf(s) \in 0 .. 2 ^ n - 1 /\ BitsOf(NumberOf(s), n) = s
    BY <2>1, NumberType, BitsOfNumber
  <2> QED BY <1>2, <2>2, <2>3 DEF ReadsAny, s
<1> QED BY <1>1, <1>2

-----------------------------------------------------------------------------
(* The widths: a determinant octet has room for four times a quarter of    *)
(* the lengths, and a word has the octets one determinant can announce.    *)
Quarter == 2 ^ (B - 2)

(* What the widths of WidthAssumption are to one another. *)
LEMMA Widths ==
  /\ B \in Nat /\ B > 2 /\ W \in Nat /\ W >= 2 /\ SmallBits \in 1 .. W - 1
  /\ Quarter \in Nat /\ Quarter >= 2 /\ Half = 2 * Quarter /\ 2 ^ B = 4 * Quarter
  /\ K = Quarter * 2 ^ B /\ K \in Nat /\ K > Half
  /\ 2 ^ (W - 1) \in Nat /\ 2 ^ (W - 1) >= 1 /\ 2 ^ W = 2 * 2 ^ (W - 1)
  /\ W \div B \in 1 .. Half - 1 /\ W = (W \div B) * B
  /\ MaxFactor \in 1 .. Quarter - 1
<1>1. B \in Nat /\ B > 2 /\ W \in Nat /\ W >= 2 /\ SmallBits \in 1 .. W - 1 /\ W % B = 0
  BY WidthAssumption
<1>2. Quarter \in Nat /\ Quarter >= 2
  <2>1. B - 3 \in Nat /\ (B - 3) + 1 = B - 2
    BY <1>1
  <2>2. 2 ^ ((B - 3) + 1) = 2 * 2 ^ (B - 3) /\ 2 ^ (B - 3) \in Nat /\ 2 ^ (B - 3) >= 1
    BY <2>1, PowerNext, PowerType
  <2> QED BY <2>1, <2>2 DEF Quarter
<1>3. Half = 2 * Quarter /\ 2 ^ B = 4 * Quarter
  <2>1. B - 2 \in Nat /\ B - 1 \in Nat /\ (B - 2) + 1 = B - 1 /\ (B - 1) + 1 = B
    BY <1>1
  <2>2. 2 ^ ((B - 2) + 1) = 2 * 2 ^ (B - 2) /\ 2 ^ ((B - 1) + 1) = 2 * 2 ^ (B - 1)
    BY <2>1, PowerNext
  <2> QED BY <1>2, <2>1, <2>2 DEF Quarter, Half
<1>4. K = Quarter * 2 ^ B
  <2>1. B - 2 \in Nat /\ (B - 2) + B = 2 * B - 2
    BY <1>1
  <2>2. 2 ^ ((B - 2) + B) = 2 ^ (B - 2) * 2 ^ B
    BY <1>1, <2>1, PowerSum
  <2> QED BY <2>1, <2>2 DEF Quarter, K
<1>5. K \in Nat /\ K > Half
  <2> DEFINE q == Quarter
  <2>1. K = q * (4 * q) /\ q \in Nat /\ q >= 2
    BY <1>2, <1>3, <1>4
  <2> HIDE DEF q
  <2>2. q * (4 * q) \in Nat /\ q * (4 * q) >= 8 * q
    BY <2>1
  <2> QED BY <1>3, <2>1, <2>2 DEF q
<1>6. 2 ^ (W - 1) \in Nat /\ 2 ^ (W - 1) >= 1 /\ 2 ^ W = 2 * 2 ^ (W - 1)
  <2>1. W - 1 \in Nat /\ (W - 1) + 1 = W
    BY <1>1
  <2>2. 2 ^ ((W - 1) + 1) = 2 * 2 ^ (W - 1) /\ 2 ^ (W - 1) \in Nat /\ 2 ^ (W - 1) >= 1
    BY <2>1, PowerNext, PowerType
  <2> QED BY <2>1, <2>2
<1>7. W \div B \in 1 .. Half - 1 /\ W = (W \div B) * B
  <2> DEFINE q == W \div B
  <2>1. Divides(W, B)
    BY <1>1, Division
  <2>2. q \in Nat /\ W = B * q
    BY <1>1, <2>1 DEF Divides
  <2>3. q < Half
    BY WidthAssumption DEF Half
  <2> HIDE DEF q
  <2>4. q # 0
    BY <1>1, <2>2
  <2>5. B * q = q * B
    BY <1>1, <2>2
  <2>6. Half \in Nat
    BY <1>2, <1>3
  <2> QED BY <2>2, <2>3, <2>4, <2>5, <2>6 DEF q
<1>8. MaxFactor \in 1 .. Quarter - 1
  BY WidthAssumption DEF Quarter
<1> QED BY <1>1, <1>2, <1>3, <1>4, <1>5, <1>6, <1>7, <1>8

(* The length a determinant stands for: of a long one, only the units that *)
(* fit.                                                                    *)
Units(length) == IF length \div K > MaxFactor THEN MaxFactor ELSE length \div K
Announced(length) == IF length < K THEN length ELSE Units(length) * K

(* What WriteLengthDeterminant writes, octet by octet. *)
LEMMA LengthWritten ==
  ASSUME NEW length \in Nat
  PROVE  /\ length < Half => WriteLengthDeterminant(length) = Encoded(BitsOf(length, B))
         /\ length >= Half /\ length < K =>
              WriteLengthDeterminant(length) =
                Encoded(BitsOf(2 * Quarter + length \div 2 ^ B, B) \o BitsOf(length % 2 ^ B, B))
         /\ length >= K =>
              WriteLengthDeterminant(length) = Encoded(BitsOf(3 * Quarter + Units(length), B))
<1>1. Half \in Nat /\ K \in Nat /\ K > Half
  BY Widths
<1>2. ASSUME length >= Half, length < K
      PROVE  BitsOf(2 * K + length, 2 * B) =
               BitsOf(2 * Quarter + length \div 2 ^ B, B) \o BitsOf(length % 2 ^ B, B)
  <2> DEFINE P == 2 ^ B
             h == length \div P
             l == length % P
  <2>1. Divides(length, P) /\ P \in Nat \ {0}
    BY Widths, PowerType, Division
  <2>2. h \in Nat /\ l \in 0 .. P - 1 /\ length = P * h + l
    BY <2>1 DEF Divides
  <2> HIDE DEF h, l
  <2>3. P = 4 * Quarter /\ K = Quarter * P /\ Quarter \in Nat
    BY Widths
  <2> HIDE DEF P
  <2>4. h < Quarter
    <3> SUFFICES ASSUME h >= Quarter PROVE FALSE
      BY <2>2, <2>3
    <3>1. P * h >= P * Quarter
      BY <2>1, <2>2, <2>3
    <3>2. P * Quarter = Quarter * P
      BY <2>1, <2>3
    <3> QED BY <1>2, <2>1, <2>2, <2>3, <3>1, <3>2
  <2>5. 2 * Quarter + h \in 0 .. 2 ^ B - 1 /\ l \in 0 .. 2 ^ B - 1
    BY <2>2, <2>3, <2>4 DEF P
  <2>6. 2 * K + length = (2 * Quarter + h) * 2 ^ B + l
    <3>1. (2 * Quarter + h) * P = 2 * (Quarter * P) + P * h
      BY <2>1, <2>2, <2>3
    <3>2. (2 * Quarter + h) * P + l = 2 * K + length
      BY <2>1, <2>2, <2>3, <3>1
    <3> QED BY <3>2 DEF P
  <2>7. BitsOf((2 * Quarter + h) * 2 ^ B + l, B + B) = BitsOf(2 * Quarter + h, B) \o BitsOf(l, B)
    BY <2>5, Widths, BitsJoined
  <2>8. B + B = 2 * B
    BY Widths
  <2> QED BY <2>6, <2>7, <2>8 DEF h, l, P
<1>3. 3 * 2 ^ (B - 2) + Units(length) = 3 * Quarter + Units(length)
  BY DEF Quarter
<1>4. CASE length < Half
  BY <1>1, <1>4 DEF WriteLengthDeterminant
<1>5. CASE length >= Half /\ length < K
  <2>1. WriteLengthDeterminant(length) = Encoded(BitsOf(2 * K + length, 2 * B))
    BY <1>1, <1>5 DEF WriteLengthDeterminant
  <2>2. BitsOf(2 * K + length, 2 * B) =
          BitsOf(2 * Quarter + length \div 2 ^ B, B) \o BitsOf(length % 2 ^ B, B)
    BY <1>2, <1>5
  <2>3. WriteLengthDeterminant(length) =
          Encoded(BitsOf(2 * Quarter + length \div 2 ^ B, B) \o BitsOf(length % 2 ^ B, B))
    BY <2>1, <2>2, Zenon
  <2>4. ~(length < Half) /\ ~(length >= K)
    BY <1>1, <1>5
  <2> QED BY <2>3, <2>4
<1>6. CASE length >= K
  BY <1>1, <1>3, <1>6 DEF WriteLengthDeterminant, Units
<1> QED BY <1>1, <1>4, <1>5, <1>6

(* ReadLengthDeterminant, by what its first octet is. *)
LEMMA LengthCases ==
  ASSUME NEW w, NEW at, NEW octet, octet = ReadBits(w, at, B)
  PROVE  /\ octet = Failed("eof") => ReadLengthDeterminant(w, at) = Failed("eof")
         /\ \A u : \A v \in Nat : octet = Decoded(v, u) =>
              /\ v < Half => ReadLengthDeterminant(w, at) = octet
              /\ v \in Half .. 3 * Quarter - 1 =>
                   LET next == ReadBits(w, u, B)
                   IN  ReadLengthDeterminant(w, at) =
                         IF next.status = "ok"
                           THEN Decoded((v % Quarter) * 2 ^ B + next.value, next.used) ELSE next
              /\ v >= 3 * Quarter =>
                   ReadLengthDeterminant(w, at) =
                     IF v % Quarter \in 1 .. MaxFactor
                       THEN Decoded((v % Quarter) * K, u) ELSE Failed("invalid")
<1>0. Quarter \in Nat /\ Quarter >= 2 /\ Half = 2 * Quarter
  BY Widths
<1> DEFINE next == ReadBits(w, octet.used, B)
           low  == octet.value % Quarter
<1>1. ReadLengthDeterminant(w, at) =
        CASE octet.status # "ok"                       -> octet
          [] octet.status = "ok" /\ octet.value < Half -> octet
          [] octet.value \in Half .. 3 * Quarter - 1   ->
               IF next.status = "ok" THEN Decoded(low * 2 ^ B + next.value, next.used) ELSE next
          [] octet.value >= 3 * Quarter                ->
               IF low \in 1 .. MaxFactor THEN Decoded(low * K, octet.used) ELSE Failed("invalid")
  BY DEF ReadLengthDeterminant, Quarter
<1> HIDE DEF next, low
<1>2. ASSUME octet = Failed("eof")
      PROVE  ReadLengthDeterminant(w, at) = Failed("eof")
  <2>1. octet.status = "eof" /\ octet.value = 0
    BY <1>2 DEF Failed
  <2>2. ~(octet.value \in Half .. 3 * Quarter - 1) /\ ~(octet.value >= 3 * Quarter)
    BY <1>0, <2>1
  <2> QED BY <1>1, <1>2, <2>1, <2>2
<1>3. ASSUME NEW v \in Nat, NEW u, octet = Decoded(v, u)
      PROVE  /\ v < Half => ReadLengthDeterminant(w, at) = octet
             /\ v \in Half .. 3 * Quarter - 1 =>
                  ReadLengthDeterminant(w, at) =
                    IF next.status = "ok" THEN Decoded(low * 2 ^ B + next.value, next.used) ELSE next
             /\ v >= 3 * Quarter =>
                  ReadLengthDeterminant(w, at) =
                    IF low \in 1 .. MaxFactor THEN Decoded(low * K, octet.used) ELSE Failed("invalid")
  <2>1. octet.status = "ok" /\ octet.value = v
    BY <1>3 DEF Decoded
  <2>2. CASE v < Half
    <3>1. ~(octet.value \in Half .. 3 * Quarter - 1) /\ ~(octet.value >= 3 * Quarter)
      BY <1>0, <2>1, <2>2
    <3> QED BY <1>0, <1>1, <2>1, <2>2, <3>1
  <2>3. CASE v \in Half .. 3 * Quarter - 1
    <3>1. ~(octet.value < Half) /\ ~(octet.value >= 3 * Quarter)
      BY <1>0, <2>1, <2>3
    <3> QED BY <1>0, <1>1, <2>1, <2>3, <3>1
  <2>4. CASE v >= 3 * Quarter
    <3>1. ~(octet.value \in Half .. 3 * Quarter - 1) /\ ~(octet.value < Half)
      BY <1>0, <2>1, <2>4
    <3> QED BY <1>0, <1>1, <2>1, <2>4, <3>1
  <2> QED BY <1>0, <2>2, <2>3, <2>4
<1>4. ASSUME NEW v \in Nat, NEW u, octet = Decoded(v, u)
      PROVE  low = v % Quarter /\ next = ReadBits(w, u, B) /\ octet.used = u
  BY <1>4 DEF low, next, Decoded
<1> QED BY <1>2, <1>3, <1>4

(* What WriteLengthDeterminant writes is the length it announces. *)
LengthRead(w, at, length) ==
  LET e == WriteLengthDeterminant(length).bits
  IN  /\ WriteLengthDeterminant(length) = Encoded(e) /\ e \in Seq(Bit)
      /\ Agrees(w, at, e) =>
           ReadLengthDeterminant(w, at) = Answer(w, at + Len(e), Announced(length))

(* A length determinant is read as the length it announces. *)
LEMMA ReadLength ==
  ASSUME NEW w \in Seq(Bit), NEW at \in Nat, NEW length \in Nat
  PROVE  LengthRead(w, at, length)
<1> DEFINE octet == ReadBits(w, at, B)
           e == WriteLengthDeterminant(length).bits
           Goal == ReadLengthDeterminant(w, at) = Answer(w, at + Len(e), Announced(length))
<1>0. /\ B \in Nat /\ B > 2 /\ Quarter \in Nat /\ Quarter >= 2 /\ Half = 2 * Quarter
      /\ 2 ^ B = 4 * Quarter /\ K \in Nat /\ K > Half /\ MaxFactor \in 1 .. Quarter - 1
      /\ K = Quarter * 2 ^ B
  BY Widths
<1>1. CASE length < Half
  <2>1. WriteLengthDeterminant(length) = Encoded(BitsOf(length, B))
    BY <1>1, LengthWritten
  <2>2. e = BitsOf(length, B) /\ WriteLengthDeterminant(length) = Encoded(e)
    BY <2>1 DEF Encoded
  <2>3. e \in Seq(Bit) /\ Len(e) = B
    BY <1>0, <2>2, BitsType DEF Field
  <2>4. ASSUME Agrees(w, at, e)
        PROVE  Goal
    <3>1. length \in 0 .. 2 ^ B - 1
      BY <1>0, <1>1
    <3>2. octet = Answer(w, at + B, length)
      BY <1>0, <2>2, <2>4, <3>1, ReadNumber
    <3>3. Announced(length) = length
      BY <1>0, <1>1 DEF Announced
    <3> HIDE DEF octet
    <3>4. CASE at + B <= Len(w)
      <4>1. octet = Decoded(length, at + B)
        BY <3>2, <3>4 DEF Answer
      <4>2. ReadLengthDeterminant(w, at) = octet
        BY <1>1, <4>1, LengthCases DEF octet
      <4> QED BY <2>3, <3>2, <3>3, <4>2
    <3>5. CASE ~(at + B <= Len(w))
      <4>1. octet = Failed("eof")
        BY <3>2, <3>5 DEF Answer
      <4>2. ReadLengthDeterminant(w, at) = Failed("eof")
        BY <4>1, LengthCases DEF octet
      <4> QED BY <2>3, <3>5, <4>2 DEF Answer
    <3> QED BY <3>4, <3>5
  <2> HIDE DEF e, Goal
  <2>5. Agrees(w, at, e) => Goal
    BY <2>4
  <2> QED BY <2>2, <2>3, <2>5 DEF LengthRead, e, Goal
<1>2. CASE length >= Half /\ length < K
  <2> DEFINE P == 2 ^ B
             h == length \div P
             l == length % P
             x == 2 * Quarter + h
             next == ReadBits(w, at + B, B)
  <2>1. h \in 0 .. Quarter - 1 /\ l \in 0 .. P - 1 /\ h * P + l = length /\ P \in Nat
    <3>1. Divides(length, P) /\ P \in Nat \ {0}
      BY <1>0, PowerType, Division
    <3>2. h \in Nat /\ l \in 0 .. P - 1 /\ length = P * h + l
      BY <3>1 DEF Divides
    <3> HIDE DEF h, l
    <3>3. K = Quarter * P
      BY <1>0
    <3> HIDE DEF P
    <3>4. h < Quarter
      <4> SUFFICES ASSUME h >= Quarter PROVE FALSE
        BY <1>0, <3>2
      <4>1. P * h >= P * Quarter
        BY <1>0, <3>1, <3>2
      <4>2. P * Quarter = Quarter * P
        BY <1>0, <3>1
      <4> QED BY <1>0, <1>2, <3>1, <3>2, <3>3, <4>1, <4>2
    <3>5. P * h = h * P
      BY <3>1, <3>2
    <3> QED BY <1>0, <3>1, <3>2, <3>4, <3>5
  <2>2. WriteLengthDeterminant(length) = Encoded(BitsOf(x, B) \o BitsOf(l, B))
    BY <1>2, LengthWritten
  <2> HIDE DEF h, l
  <2>3. e = BitsOf(x, B) \o BitsOf(l, B) /\ WriteLengthDeterminant(length) = Encoded(e)
    BY <2>2 DEF Encoded
  <2>4. x \in 0 .. 2 ^ B - 1 /\ x \in Half .. 3 * Quarter - 1 /\ l \in 0 .. 2 ^ B - 1
    BY <1>0, <2>1
  <2>5. x % Quarter = h
    <3>1. x = Quarter * 2 + h /\ Quarter \in Nat \ {0}
      BY <1>0, <2>1
    <3>2. Divided(x, Quarter, 2, h)
      BY <2>1, <3>1, DivisionIs
    <3> QED BY <3>2 DEF Divided
  <2> HIDE DEF x
  <2>6. /\ BitsOf(x, B) \in Seq(Bit) /\ Len(BitsOf(x, B)) = B
        /\ BitsOf(l, B) \in Seq(Bit) /\ Len(BitsOf(l, B)) = B
    <3>1. x \in Nat /\ l \in Nat
      BY <2>4
    <3> QED BY <1>0, <3>1, BitsType DEF Field
  <2>7. e \in Seq(Bit) /\ Len(e) = B + B
    <3> DEFINE s == BitsOf(x, B)
               t == BitsOf(l, B)
    <3>1. e = s \o t /\ s \in Seq(Bit) /\ Len(s) = B /\ t \in Seq(Bit) /\ Len(t) = B
      BY <2>3, <2>6
    <3> HIDE DEF e, s, t
    <3>2. e \in Seq(Bit) /\ Len(e) = Len(s) + Len(t)
      BY <3>1, JoinedBits
    <3> QED BY <3>1, <3>2
  <2>8. ASSUME Agrees(w, at, e)
        PROVE  Goal
    <3>1. Agrees(w, at, BitsOf(x, B)) /\ Agrees(w, at + B, BitsOf(l, B))
      BY <2>3, <2>6, <2>8, AgreesJoined
    <3>2. octet = Answer(w, at + B, x)
      BY <1>0, <2>4, <3>1, ReadNumber
    <3>3. next = Answer(w, (at + B) + B, l)
      <4>1. at + B \in Nat
        BY <1>0
      <4> QED BY <1>0, <2>4, <3>1, <4>1, ReadNumber
    <3>4. Announced(length) = length
      BY <1>0, <1>2 DEF Announced
    <3>5. at + Len(e) = (at + B) + B
      BY <1>0, <2>7
    <3> HIDE DEF octet, next
    <3>6. CASE at + B <= Len(w)
      <4>1. octet = Decoded(x, at + B) /\ x \in Nat
        BY <2>4, <3>2, <3>6 DEF Answer
      <4>2. ReadLengthDeterminant(w, at) =
              IF next.status = "ok" THEN Decoded(h * 2 ^ B + next.value, next.used) ELSE next
        BY <2>4, <2>5, <4>1, LengthCases DEF octet, next
      <4>3. CASE (at + B) + B <= Len(w)
        <5>1. next.status = "ok" /\ next.value = l /\ next.used = (at + B) + B
          BY <3>3, <4>3 DEF Answer, Decoded
        <5>2. h * 2 ^ B + l = length
          BY <2>1
        <5>3. ReadLengthDeterminant(w, at) = Decoded(length, (at + B) + B)
          BY <4>2, <5>1, <5>2
        <5> QED BY <3>4, <3>5, <4>3, <5>3 DEF Answer
      <4>4. CASE ~((at + B) + B <= Len(w))
        <5>1. next = Failed("eof") /\ next.status # "ok"
          BY <3>3, <4>4 DEF Answer, Failed
        <5> QED BY <3>5, <4>2, <4>4, <5>1 DEF Answer
      <4> QED BY <4>3, <4>4
    <3>7. CASE ~(at + B <= Len(w))
      <4>1. octet = Failed("eof")
        BY <3>2, <3>7 DEF Answer
      <4>2. ReadLengthDeterminant(w, at) = Failed("eof")
        BY <4>1, LengthCases DEF octet
      <4>3. ~((at + B) + B <= Len(w))
        BY <1>0, <3>7
      <4> QED BY <3>5, <4>2, <4>3 DEF Answer
    <3> QED BY <3>6, <3>7
  <2> HIDE DEF e, Goal
  <2>9. Agrees(w, at, e) => Goal
    BY <2>8
  <2> QED BY <2>3, <2>7, <2>9 DEF LengthRead, e, Goal
<1>3. CASE length >= K
  <2> DEFINE u == Units(length)
             x == 3 * Quarter + u
  <2>1. u \in 1 .. MaxFactor
    <3>1. Divides(length, K)
      BY <1>0, Division
    <3> DEFINE q == length \div K
    <3>2. q \in Nat /\ length % K \in 0 .. K - 1 /\ length = K * q + (length % K)
      BY <3>1 DEF Divides
    <3> HIDE DEF q
    <3>3. q >= 1
      BY <1>0, <1>3, <3>2
    <3> QED BY <1>0, <3>2, <3>3 DEF Units, q
  <2>2. WriteLengthDeterminant(length) = Encoded(BitsOf(x, B))
    BY <1>3, LengthWritten
  <2> HIDE DEF u
  <2>3. e = BitsOf(x, B) /\ WriteLengthDeterminant(length) = Encoded(e)
    BY <2>2 DEF Encoded
  <2>4. x \in 0 .. 2 ^ B - 1 /\ x >= 3 * Quarter /\ x \in Nat
    BY <1>0, <2>1
  <2>5. x % Quarter = u
    <3>1. x = Quarter * 3 + u /\ u \in 0 .. Quarter - 1 /\ Quarter \in Nat \ {0}
      BY <1>0, <2>1
    <3>2. Divided(x, Quarter, 3, u)
      BY <3>1, DivisionIs
    <3> QED BY <3>2 DEF Divided
  <2> HIDE DEF x
  <2>6. e \in Seq(Bit) /\ Len(e) = B
    BY <1>0, <2>3, <2>4, BitsType DEF Field
  <2>7. ASSUME Agrees(w, at, e)
        PROVE  Goal
    <3>2. octet = Answer(w, at + B, x)
      BY <1>0, <2>3, <2>4, <2>7, ReadNumber
    <3>3. Announced(length) = u * K
      BY <1>0, <1>3 DEF Announced, u
    <3> HIDE DEF octet
    <3>4. CASE at + B <= Len(w)
      <4>1. octet = Decoded(x, at + B)
        BY <3>2, <3>4 DEF Answer
      <4>2. ReadLengthDeterminant(w, at) = Decoded(u * K, at + B)
        BY <2>1, <2>4, <2>5, <4>1, LengthCases DEF octet
      <4> QED BY <2>6, <3>3, <3>4, <4>2 DEF Answer
    <3>5. CASE ~(at + B <= Len(w))
      <4>1. octet = Failed("eof")
        BY <3>2, <3>5 DEF Answer
      <4>2. ReadLengthDeterminant(w, at) = Failed("eof")
        BY <4>1, LengthCases DEF octet
      <4> QED BY <2>6, <3>5, <4>2 DEF Answer
    <3> QED BY <3>4, <3>5
  <2> HIDE DEF e, Goal
  <2>8. Agrees(w, at, e) => Goal
    BY <2>7
  <2> QED BY <2>3, <2>6, <2>8 DEF LengthRead, e, Goal
<1> QED BY <1>0, <1>1, <1>2, <1>3

-----------------------------------------------------------------------------
(* The arithmetic of int64 and uint64. *)
LEMMA Wrap ==
  ASSUME NEW y \in Int
  PROVE  /\ 0 <= y /\ y < 2 ^ W => U(y) = y
         /\ -(2 ^ W) <= y /\ y < 0 => U(y) = y + 2 ^ W
         /\ y = 2 ^ W => U(y) = 0
         /\ U(y) \in 0 .. 2 ^ W - 1
<1> DEFINE M == 2 ^ W
<1>1. M \in Nat \ {0}
  BY Widths, PowerType
<1> HIDE DEF M
<1>2. ASSUME 0 <= y, y < M
      PROVE  U(y) = y
  <2>1. y = M * 0 + y /\ y \in 0 .. M - 1
    BY <1>1, <1>2
  <2>2. Divided(y, M, 0, y)
    BY <1>1, <2>1, DivisionIs
  <2> QED BY <2>2 DEF Divided, U, M
<1>3. ASSUME -M <= y, y < 0
      PROVE  U(y) = y + M
  <2>1. y = M * (-1) + (y + M) /\ y + M \in 0 .. M - 1
    BY <1>1, <1>3
  <2>2. Divided(y, M, -1, y + M)
    BY <1>1, <2>1, DivisionIs
  <2> QED BY <2>2 DEF Divided, U, M
<1>4. ASSUME y = M
      PROVE  U(y) = 0
  <2>1. y = M * 1 + 0 /\ 0 \in 0 .. M - 1
    BY <1>1, <1>4
  <2>2. Divided(y, M, 1, 0)
    BY <1>1, <2>1, DivisionIs
  <2> QED BY <2>2 DEF Divided, U, M
<1>5. U(y) \in 0 .. M - 1
  <2>1. Divides(y, M)
    BY <1>1, Division
  <2> QED BY <2>1 DEF Divides, U, M
<1> QED BY <1>2, <1>3, <1>4, <1>5 DEF M

(* A conversion to a signed number gives one. *)
LEMMA SignedType ==
  ASSUME NEW y \in Int
  PROVE  S(y) \in Signed
<1> DEFINE H == 2 ^ (W - 1)
<1>1. H \in Nat /\ 2 ^ W = 2 * H
  BY Widths
<1>2. U(y) \in 0 .. 2 ^ W - 1
  BY Wrap
<1> HIDE DEF H
<1>3. S(y) \in -H .. H - 1
  BY <1>1, <1>2 DEF S, H
<1> QED BY <1>3 DEF Signed, H

(* A conversion leaves a signed number alone. *)
LEMMA SignedSame ==
  ASSUME NEW y \in Signed
  PROVE  S(y) = y
<1> DEFINE H == 2 ^ (W - 1)
<1>1. H \in Nat /\ H >= 1 /\ 2 ^ W = 2 * H
  BY Widths
<1>2. y \in -H .. H - 1
  BY DEF Signed
<1>3. CASE 0 <= y
  <2>1. U(y) = y
    BY <1>1, <1>2, <1>3, Wrap
  <2> QED BY <1>1, <1>2, <2>1 DEF S
<1>4. CASE y < 0
  <2>1. U(y) = y + 2 ^ W
    BY <1>1, <1>2, <1>4, Wrap
  <2> QED BY <1>1, <1>2, <2>1 DEF S
<1> QED BY <1>2, <1>3, <1>4

(* The offset from a bound, as a uint64, leads back to the number. *)
LEMMA SignedSum ==
  ASSUME NEW x \in 0 .. 2 ^ W - 1, NEW lb \in Signed, x + lb \in Signed
  PROVE  S(S(x) + lb) = x + lb
<1> DEFINE H == 2 ^ (W - 1)
<1>1. H \in Nat /\ H >= 1 /\ 2 ^ W = 2 * H
  BY Widths
<1>2. lb \in -H .. H - 1 /\ x + lb \in -H .. H - 1 /\ x \in 0 .. 2 * H - 1
  BY <1>1 DEF Signed
<1>3. U(x) = x
  BY <1>1, <1>2, Wrap
<1>4. CASE x < H
  <2>1. S(x) = x
    BY <1>3, <1>4 DEF S
  <2> QED BY <2>1, SignedSame
<1>5. CASE x >= H
  <2>1. S(x) = x - 2 * H
    BY <1>1, <1>2, <1>3, <1>5 DEF S
  <2> DEFINE y == S(x) + lb
  <2>2. y \in Int /\ -(2 ^ W) <= y /\ y < 0 /\ y + 2 ^ W = x + lb
    BY <1>1, <1>2, <1>5, <2>1
  <2> HIDE DEF y
  <2>3. U(y) = x + lb
    BY <2>2, Wrap
  <2>4. x + lb < H
    BY <1>1, <1>2
  <2>5. S(y) = x + lb
    BY <2>3, <2>4 DEF S
  <2> QED BY <2>5 DEF y
<1> QED BY <1>1, <1>2, <1>4, <1>5

-----------------------------------------------------------------------------
(* A range has the least width that holds it. *)
Holds(range, n) == range <= 2 ^ n /\ (n > 0 => 2 ^ (n - 1) < range)

(* The width BitsNeeded gives holds the range, and no smaller one does. *)
LEMMA Needed ==
  ASSUME NEW range \in 0 .. 2 ^ W
  PROVE  /\ BitsNeeded(range) \in 0 .. W
         /\ range >= 1 => Holds(range, BitsNeeded(range))
         /\ range <= 1 => BitsNeeded(range) = 0
<1>0. W \in Nat /\ 2 ^ W \in Nat /\ range \in Nat
  BY Widths, PowerType
<1>1. CASE range <= 1
  <2>1. BitsNeeded(range) = 0 /\ 2 ^ 0 = 1
    BY <1>1, PowerNext DEF BitsNeeded
  <2> QED BY <1>0, <1>1, <2>1 DEF Holds
<1>2. CASE range > 1
  <2> DEFINE T == {n \in Nat : range - 1 < 2 ^ n}
             P(n) == 2 ^ (n - 1) <= range - 1 /\ range - 1 < 2 ^ n
  <2>1. W \in T
    BY <1>0
  <2>2. PICK x \in T : \A y \in T : x <= y
    <3> HIDE DEF T
    <3>1. T \subseteq Nat
      BY DEF T
    <3> QED BY <2>1, <3>1, LeastNumber
  <2>3. x \in Nat /\ x <= W /\ range - 1 < 2 ^ x
    BY <2>1, <2>2
  <2>4. x # 0
    <3> SUFFICES ASSUME x = 0 PROVE FALSE
      OBVIOUS
    <3>1. 2 ^ 0 = 1
      BY PowerNext
    <3>2. range - 1 < 2 ^ 0
      BY <2>3
    <3> QED BY <1>0, <1>2, <3>1, <3>2
  <2>5. x - 1 \in Nat /\ x - 1 \notin T
    <3>1. x - 1 \in Nat /\ ~(x <= x - 1)
      BY <2>3, <2>4
    <3> HIDE DEF T
    <3> QED BY <2>2, <3>1
  <2>6. 2 ^ (x - 1) <= range - 1
    <3>1. 2 ^ (x - 1) \in Nat
      BY <2>5, PowerType
    <3> QED BY <1>0, <2>5, <3>1
  <2>7. \E n \in 1 .. W : P(n)
    <3>1. x \in 1 .. W
      BY <1>0, <2>3, <2>4
    <3> QED BY <2>3, <2>6, <3>1
  <2> DEFINE c == CHOOSE n \in 1 .. W : P(n)
  <2>8. c \in 1 .. W /\ P(c)
    <3> HIDE DEF P
    <3> QED BY <2>7
  <2>9. BitsNeeded(range) = c
    <3>1. ~(range <= 1)
      BY <1>0, <1>2
    <3> QED BY <3>1, Zenon DEF BitsNeeded
  <2> HIDE DEF c
  <2>10. 2 ^ c \in Nat /\ 2 ^ (c - 1) \in Nat /\ c > 0
    <3>1. c \in Nat /\ c - 1 \in Nat
      BY <1>0, <2>8
    <3> QED BY <2>8, <3>1, PowerType
  <2>11. Holds(range, c)
    BY <1>0, <2>8, <2>10 DEF Holds
  <2> QED BY <1>0, <1>2, <2>8, <2>9, <2>11
<1> QED BY <1>0, <1>1, <1>2

-----------------------------------------------------------------------------
(* Constrained numbers. *)
LEMMA RangeIs ==
  ASSUME NEW lb \in Signed, NEW ub \in Signed, lb <= ub
  PROVE  /\ ub - lb + 1 \in 1 .. 2 ^ W
         /\ ub - lb + 1 < 2 ^ W => RangeOf(lb, ub) = ub - lb + 1
         /\ ub - lb + 1 = 2 ^ W => RangeOf(lb, ub) = 0
<1> DEFINE H == 2 ^ (W - 1)
<1>1. H \in Nat /\ H >= 1 /\ 2 ^ W = 2 * H
  BY Widths
<1>2. lb \in -H .. H - 1 /\ ub \in -H .. H - 1
  BY DEF Signed
<1>3. ub - lb + 1 \in 1 .. 2 ^ W
  BY <1>1, <1>2
<1>4. ub - lb + 1 \in Int /\ 0 <= ub - lb + 1
  BY <1>3, <1>1
<1>5. /\ ub - lb + 1 < 2 ^ W => U(ub - lb + 1) = ub - lb + 1
      /\ ub - lb + 1 = 2 ^ W => U(ub - lb + 1) = 0
  BY <1>4, Wrap
<1> QED BY <1>3, <1>5 DEF RangeOf

(* The distance of a value from its lower bound does not wrap. *)
LEMMA OffsetIs ==
  ASSUME NEW val \in Signed, NEW lb \in Signed, lb <= val
  PROVE  /\ val - lb \in 0 .. 2 ^ W - 1 /\ U(val - lb) = val - lb
         /\ S(S(val - lb) + lb) = val
<1> DEFINE H == 2 ^ (W - 1)
<1>1. H \in Nat /\ H >= 1 /\ 2 ^ W = 2 * H
  BY Widths
<1>2. lb \in -H .. H - 1 /\ val \in -H .. H - 1
  BY DEF Signed
<1> DEFINE x == val - lb
<1>3. x \in 0 .. 2 ^ W - 1 /\ x + lb = val /\ x \in Int /\ 0 <= x /\ x < 2 ^ W
  BY <1>1, <1>2
<1> HIDE DEF x
<1>4. S(S(x) + lb) = x + lb
  BY <1>3, SignedSum
<1>5. U(x) = x
  BY <1>3, Wrap
<1> QED BY <1>3, <1>4, <1>5 DEF x

(* What WriteConstrainedInt writes is read back, in whatever the stream is *)
(* at its beginning.  Only the full range of int64 is written as no bits.  *)
ConstrainedRead(w, val, lb, ub) ==
  LET e == WriteConstrainedInt(val, lb, ub).bits
  IN  /\ WriteConstrainedInt(val, lb, ub) = Encoded(e) /\ e \in Seq(Bit)
      /\ Len(e) = BitsNeeded(RangeOf(lb, ub))
      /\ ub - lb + 1 < 2 ^ W => Holds(ub - lb + 1, Len(e))
      /\ ub - lb + 1 < 2 ^ W /\ Agrees(w, 0, e) =>
           ReadConstrainedInt(w, lb, ub) = Answer(w, Len(e), val)
      /\ ub - lb + 1 = 2 ^ W => Len(e) = 0

(* For every pair of bounds but those of the full range, a number between  *)
(* them is written in a field of the least width that holds the range, and *)
(* is read back, or the end of the input is noticed (integers.go:25, 50).  *)
THEOREM ReadConstrained ==
  ASSUME NEW w \in Seq(Bit), NEW val \in Signed, NEW lb \in Signed, NEW ub \in Signed,
         lb <= val, val <= ub
  PROVE  ConstrainedRead(w, val, lb, ub)
<1> DEFINE e     == WriteConstrainedInt(val, lb, ub).bits
           range == RangeOf(lb, ub)
           n     == BitsNeeded(range)
           x     == val - lb
           field == ReadBits(w, 0, n)
<1>0. lb \in Int /\ ub \in Int /\ val \in Int /\ lb <= ub /\ 2 ^ W \in Nat /\ 2 ^ W >= 1 /\ W \in Nat
  <2>1. 2 ^ (W - 1) \in Nat /\ 2 ^ (W - 1) >= 1 /\ 2 ^ W = 2 * 2 ^ (W - 1) /\ W \in Nat
    BY Widths
  <2>2. lb \in Int /\ ub \in Int /\ val \in Int
    BY <2>1 DEF Signed
  <2> QED BY <2>1, <2>2
<1>1. /\ ub - lb + 1 \in 1 .. 2 ^ W
      /\ ub - lb + 1 < 2 ^ W => range = ub - lb + 1
      /\ ub - lb + 1 = 2 ^ W => range = 0
  BY <1>0, RangeIs
<1>2. x \in 0 .. 2 ^ W - 1 /\ U(val - lb) = x /\ S(S(x) + lb) = val
  BY OffsetIs
<1>3. range \in 0 .. 2 ^ W
  BY <1>0, <1>1
<1>4. /\ n \in 0 .. W
      /\ range >= 1 => Holds(range, n)
      /\ range <= 1 => n = 0
  <2> HIDE DEF range
  <2> QED BY <1>3, Needed
<1>5. n \in Nat /\ x \in Nat
  BY <1>0, <1>2, <1>4
<1>6. ~(val < lb \/ val > ub \/ ub < lb)
  BY <1>0
<1> HIDE DEF range, n
<1>7. CASE range = 1
  <2>1. WriteConstrainedInt(val, lb, ub) = Encoded(<<>>)
    BY <1>6, <1>7 DEF WriteConstrainedInt, range
  <2>2. e = <<>> /\ WriteConstrainedInt(val, lb, ub) = Encoded(e)
    BY <2>1 DEF Encoded
  <2>3. e \in Seq(Bit) /\ Len(e) = 0
    BY <2>2
  <2>4. n = 0 /\ Holds(range, 0)
    BY <1>4, <1>7
  <2>5. ASSUME ub - lb + 1 < 2 ^ W
        PROVE  ReadConstrainedInt(w, lb, ub) = Answer(w, 0, val) /\ Holds(ub - lb + 1, 0)
    <3>1. ub - lb + 1 = 1 /\ val = lb
      BY <1>0, <1>1, <1>7, <2>5
    <3>2. ReadConstrainedInt(w, lb, ub) = Decoded(lb, 0)
      BY <1>0, <1>7 DEF ReadConstrainedInt, range
    <3> QED BY <1>7, <2>4, <3>1, <3>2 DEF Answer
  <2> HIDE DEF e
  <2> QED BY <2>2, <2>3, <2>4, <2>5 DEF ConstrainedRead, e, n, range
<1>8. CASE range # 1
  <2>1. WriteConstrainedInt(val, lb, ub) = Encoded(BitsOf(x, n))
    <3>1. WriteConstrainedInt(val, lb, ub) = Encoded(BitsOf(U(val - lb), n))
      BY <1>6, <1>8 DEF WriteConstrainedInt, range, n
    <3> QED BY <1>2, <3>1
  <2> HIDE DEF x
  <2>2. e = BitsOf(x, n) /\ WriteConstrainedInt(val, lb, ub) = Encoded(e)
    BY <2>1 DEF Encoded
  <2>3. e \in Seq(Bit) /\ Len(e) = n
    BY <1>5, <2>2, BitsType DEF Field
  <2>4. ASSUME ub - lb + 1 < 2 ^ W
        PROVE  Holds(ub - lb + 1, n)
    BY <1>0, <1>1, <1>4, <2>4
  <2>5. ASSUME ub - lb + 1 < 2 ^ W, Agrees(w, 0, e)
        PROVE  ReadConstrainedInt(w, lb, ub) = Answer(w, n, val)
    <3>1. x \in 0 .. 2 ^ n - 1
      <4>1. ub - lb + 1 <= 2 ^ n /\ 2 ^ n \in Nat
        BY <1>5, <2>4, <2>5, PowerType DEF Holds
      <4> QED BY <1>0, <1>5, <4>1 DEF x
    <3>2. field = Answer(w, 0 + n, x)
      BY <1>5, <2>2, <2>5, <3>1, ReadNumber
    <3>3. ReadConstrainedInt(w, lb, ub) =
            IF field.status = "ok" THEN Decoded(S(S(field.value) + lb), field.used) ELSE field
      <4>1. ub >= lb /\ ~(ub < lb)
        BY <1>0
      <4> QED BY <1>8, <4>1 DEF ReadConstrainedInt, range, n
    <3> HIDE DEF field
    <3>4. CASE n <= Len(w)
      <4>1. field.status = "ok" /\ field.value = x /\ field.used = n
        BY <1>5, <3>2, <3>4 DEF Answer, Decoded
      <4> QED BY <1>2, <3>3, <3>4, <4>1 DEF Answer
    <3>5. CASE ~(n <= Len(w))
      <4>1. field = Failed("eof") /\ field.status # "ok"
        BY <1>5, <3>2, <3>5 DEF Answer, Failed
      <4> QED BY <3>3, <3>5, <4>1 DEF Answer
    <3> QED BY <3>4, <3>5
  <2>6. ub - lb + 1 = 2 ^ W => n = 0
    BY <1>1, <1>4
  <2> HIDE DEF e
  <2> QED BY <2>2, <2>3, <2>4, <2>5, <2>6 DEF ConstrainedRead, e, n, range
<1> QED BY <1>7, <1>8

-----------------------------------------------------------------------------
(* Semi-constrained and normally small numbers. *)
LEMMA Octets ==
  ASSUME NEW offset \in 0 .. 2 ^ W - 1
  PROVE  /\ OctetsFor(offset) \in 1 .. W \div B
         /\ offset < 2 ^ (OctetsFor(offset) * B)
         /\ OctetsFor(offset) > 1 => 2 ^ ((OctetsFor(offset) - 1) * B) <= offset
<1> DEFINE N == W \div B
           Zero(n) == offset \div 2 ^ (n * B) = 0
           T == {n \in Nat : n >= 1 /\ Zero(n)}
           P(n) == Zero(n) /\ \A m \in 1 .. n - 1 : offset \div 2 ^ (m * B) > 0
<1>0. B \in Nat /\ W \in Nat /\ N \in Nat /\ N >= 1 /\ N * B = W /\ 2 ^ W \in Nat /\ offset \in Nat
  <2>1. B \in Nat /\ W \in Nat /\ N \in 1 .. Half - 1 /\ W = N * B /\ Half = 2 * Quarter /\ Quarter \in Nat
    BY Widths
  <2> HIDE DEF N
  <2> QED BY <2>1, PowerType
<1>1. ASSUME NEW n \in Nat
      PROVE  /\ 2 ^ (n * B) \in Nat \ {0} /\ offset \div 2 ^ (n * B) \in Nat
             /\ offset < 2 ^ (n * B) <=> Zero(n)
  <2>1. n * B \in Nat
    BY <1>0
  <2> DEFINE M == 2 ^ (n * B)
  <2>2. M \in Nat \ {0}
    BY <2>1, PowerType
  <2>3. Divides(offset, M)
    BY <1>0, <2>2, Division
  <2>4. offset < M => offset \div M = 0
    BY <1>0, <2>1, <2>2, Remainder
  <2> HIDE DEF M
  <2>5. offset \div M \in Nat
    BY <1>0, <2>3 DEF Divides
  <2>6. offset \div M = 0 => offset < M
    BY <2>2, <2>3 DEF Divides
  <2> QED BY <2>2, <2>4, <2>5, <2>6 DEF M
<1> HIDE DEF Zero
<1>2. Zero(N)
  <2>1. offset < 2 ^ (N * B)
    BY <1>0
  <2> QED BY <1>0, <1>1, <2>1
<1> HIDE DEF N
<1>3. PICK x \in T : \A y \in T : x <= y
  <2>1. N \in T
    BY <1>0, <1>2
  <2>2. T \subseteq Nat
    OBVIOUS
  <2> HIDE DEF T
  <2> QED BY <2>1, <2>2, LeastNumber
<1>4. x \in 1 .. N
  BY <1>0, <1>2, <1>3
<1>5. P(x)
  <2>1. ASSUME NEW m \in 1 .. x - 1
        PROVE  offset \div 2 ^ (m * B) > 0
    <3>1. m \in Nat /\ m >= 1 /\ ~(x <= m)
      OBVIOUS
    <3>2. ~Zero(m)
      BY <1>3, <3>1
    <3>3. offset \div 2 ^ (m * B) \in Nat
      BY <1>1, <3>1
    <3> QED BY <3>2, <3>3 DEF Zero
  <2> QED BY <2>1
<1> DEFINE c == CHOOSE n \in 1 .. N : P(n)
<1>6. c \in 1 .. N /\ P(c)
  <2> HIDE DEF P
  <2> QED BY <1>4, <1>5
<1>7. OctetsFor(offset) = c
  BY DEF OctetsFor, N, Zero
<1> HIDE DEF c
<1>8. offset < 2 ^ (c * B)
  BY <1>0, <1>1, <1>6
<1>9. ASSUME c > 1
      PROVE  2 ^ ((c - 1) * B) <= offset
  <2>1. c - 1 \in Nat /\ c - 1 \in 1 .. c - 1
    BY <1>0, <1>6, <1>9
  <2>2. offset \div 2 ^ ((c - 1) * B) > 0
    BY <1>6, <2>1
  <2>3. ~Zero(c - 1) /\ 2 ^ ((c - 1) * B) \in Nat
    BY <1>1, <2>1, <2>2 DEF Zero
  <2>4. ~(offset < 2 ^ ((c - 1) * B))
    BY <1>1, <2>1, <2>3
  <2> QED BY <1>0, <2>3, <2>4
<1> QED BY <1>6, <1>7, <1>8, <1>9 DEF N

(* The number of octets of an offset is announced as it is. *)
LEMMA AnnouncedOctets ==
  ASSUME NEW n \in 1 .. W \div B
  PROVE  Announced(n) = n /\ WriteLengthDeterminant(n) = Encoded(BitsOf(n, B)) /\ n \in Nat
<1>1. n \in Nat /\ n < Half /\ n < K
  BY Widths
<1> QED BY <1>1, LengthWritten DEF Announced

(* What is written is read back, and its first octet is not zero if it has *)
(* several.                                                                *)
SemiRead(w, at, val, lb) ==
  LET e == WriteSemiConstrainedInt(val, lb).bits
  IN  /\ WriteSemiConstrainedInt(val, lb) = Encoded(e) /\ e \in Seq(Bit)
      /\ Agrees(w, at, e) =>
           ReadSemiConstrainedInt(w, at, lb) = Answer(w, at + Len(e), val)
      /\ Len(e) - B \in Nat /\ val - lb < 2 ^ (Len(e) - B)
      /\ Len(e) > 2 * B => 2 ^ (Len(e) - 2 * B) <= val - lb

(* ReadSemiConstrainedInt without its CASE. *)
LEMMA SemiCases ==
  ASSUME NEW w, NEW at, NEW lb, NEW octets, octets = ReadLengthDeterminant(w, at)
  PROVE  /\ octets.status # "ok" => ReadSemiConstrainedInt(w, at, lb) = octets
         /\ octets.status = "ok" /\ octets.value \notin 1 .. W \div B =>
              ReadSemiConstrainedInt(w, at, lb) = Failed("invalid")
         /\ octets.status = "ok" /\ octets.value \in 1 .. W \div B =>
              LET field == ReadBits(w, octets.used, octets.value * B)
              IN  ReadSemiConstrainedInt(w, at, lb) =
                    IF field.status = "ok" THEN Decoded(S(S(field.value) + lb), field.used) ELSE field
<1> DEFINE field == ReadBits(w, octets.used, octets.value * B)
           result == IF field.status = "ok" THEN Decoded(S(S(field.value) + lb), field.used) ELSE field
<1>1. ReadSemiConstrainedInt(w, at, lb) =
        CASE octets.status # "ok" -> octets
          [] octets.status = "ok" /\ octets.value \notin 1 .. W \div B -> Failed("invalid")
          [] OTHER -> result
  BY DEF ReadSemiConstrainedInt
<1> HIDE DEF result
<1>2. octets.status # "ok" => ReadSemiConstrainedInt(w, at, lb) = octets
  BY <1>1
<1>3. octets.status = "ok" /\ octets.value \notin 1 .. W \div B =>
        ReadSemiConstrainedInt(w, at, lb) = Failed("invalid")
  BY <1>1
<1>4. octets.status = "ok" /\ octets.value \in 1 .. W \div B =>
        ReadSemiConstrainedInt(w, at, lb) = result
  BY <1>1
<1> QED BY <1>2, <1>3, <1>4 DEF result

(* A semi-constrained number is read back, or the end of input is noticed. *)
LEMMA ReadSemi ==
  ASSUME NEW w \in Seq(Bit), NEW at \in Nat, NEW val \in Signed, NEW lb \in Signed, lb <= val
  PROVE  SemiRead(w, at, val, lb)
<1> DEFINE e == WriteSemiConstrainedInt(val, lb).bits
           x == val - lb
           n == OctetsFor(x)
           f == BitsOf(n, B)
           g == BitsOf(x, n * B)
           octets == ReadLengthDeterminant(w, at)
           field == ReadBits(w, at + B, n * B)
<1>1. x \in 0 .. 2 ^ W - 1 /\ U(val - lb) = x /\ S(S(x) + lb) = val /\ ~(val < lb) /\ x \in Nat
  <2>1. lb \in Int /\ val \in Int
    BY Widths DEF Signed
  <2> QED BY <2>1, OffsetIs
<1>2. /\ n \in 1 .. W \div B /\ x < 2 ^ (n * B)
      /\ n > 1 => 2 ^ ((n - 1) * B) <= x
  <2> HIDE DEF x
  <2> QED BY <1>1, Octets
<1>3. WriteSemiConstrainedInt(val, lb) = Encoded(WriteLengthDeterminant(n).bits \o g)
  <2>1. WriteSemiConstrainedInt(val, lb) =
          LET offset == U(val - lb)
          IN  Encoded(WriteLengthDeterminant(OctetsFor(offset)).bits
                        \o BitsOf(offset, OctetsFor(offset) * B))
    BY <1>1 DEF WriteSemiConstrainedInt
  <2> QED BY <1>1, <2>1
<1> HIDE DEF n
<1>4. Announced(n) = n /\ WriteLengthDeterminant(n) = Encoded(f) /\ n \in Nat /\ n >= 1
  BY <1>2, AnnouncedOctets
<1>5. e = f \o g /\ WriteSemiConstrainedInt(val, lb) = Encoded(e)
  BY <1>3, <1>4 DEF Encoded
<1>6. B \in Nat /\ n * B \in Nat
  BY <1>4, Widths
<1>7. f \in Seq(Bit) /\ Len(f) = B /\ g \in Seq(Bit) /\ Len(g) = n * B
  BY <1>1, <1>4, <1>6, BitsType DEF Field
<1>8. e \in Seq(Bit) /\ Len(e) = B + n * B
  <2> HIDE DEF e, f, g
  <2>1. e = f \o g /\ f \in Seq(Bit) /\ g \in Seq(Bit)
    BY <1>5, <1>7
  <2>2. e \in Seq(Bit) /\ Len(e) = Len(f) + Len(g)
    BY <2>1
  <2> QED BY <1>7, <2>2
<1>9. ASSUME Agrees(w, at, e)
      PROVE  ReadSemiConstrainedInt(w, at, lb) = Answer(w, at + Len(e), val)
  <2>1. Agrees(w, at, f) /\ Agrees(w, at + B, g)
    <3> HIDE DEF e, f, g
    <3> QED BY <1>5, <1>7, <1>9, AgreesJoined
  <2>2. octets = Answer(w, at + B, n)
    <3>1. LengthRead(w, at, n)
      BY <1>4, ReadLength
    <3>2. WriteLengthDeterminant(n).bits = f
      BY <1>4 DEF Encoded
    <3> QED BY <1>4, <1>7, <2>1, <3>1, <3>2 DEF LengthRead
  <2>3. field = Answer(w, (at + B) + n * B, x)
    <3>1. at + B \in Nat /\ x \in 0 .. 2 ^ (n * B) - 1
      BY <1>1, <1>2, <1>6, PowerType
    <3> HIDE DEF x
    <3> QED BY <1>6, <2>1, <3>1, ReadNumber
  <2> HIDE DEF octets, field, e, x
  <2>4. CASE at + B <= Len(w)
    <3>1. octets.status = "ok" /\ octets.value = n /\ octets.used = at + B
      BY <2>2, <2>4 DEF Answer, Decoded
    <3>2. ReadSemiConstrainedInt(w, at, lb) =
            IF field.status = "ok" THEN Decoded(S(S(field.value) + lb), field.used) ELSE field
      <4>1. field = ReadBits(w, octets.used, octets.value * B)
        BY <3>1 DEF field
      <4> QED BY <1>2, <3>1, <4>1, SemiCases DEF octets
    <3>3. CASE at + Len(e) <= Len(w)
      <4>1. field.status = "ok" /\ field.value = x /\ field.used = at + Len(e)
        BY <1>6, <1>8, <2>3, <3>3 DEF Answer, Decoded
      <4> QED BY <1>1, <3>2, <3>3, <4>1 DEF Answer
    <3>4. CASE ~(at + Len(e) <= Len(w))
      <4>1. field = Failed("eof") /\ field.status # "ok"
        BY <1>6, <1>8, <2>3, <3>4 DEF Answer, Failed
      <4> QED BY <3>2, <3>4, <4>1 DEF Answer
    <3> QED BY <3>3, <3>4
  <2>5. CASE ~(at + B <= Len(w))
    <3>1. octets = Failed("eof") /\ octets.status # "ok"
      BY <2>2, <2>5 DEF Answer, Failed
    <3>2. ReadSemiConstrainedInt(w, at, lb) = octets
      BY <3>1, SemiCases DEF octets
    <3>3. ~(at + Len(e) <= Len(w))
      BY <1>6, <1>8, <2>5
    <3> QED BY <3>1, <3>2, <3>3 DEF Answer
  <2> QED BY <2>4, <2>5
<1>10. /\ Len(e) - B \in Nat /\ x < 2 ^ (Len(e) - B)
       /\ Len(e) > 2 * B => 2 ^ (Len(e) - 2 * B) <= x
  <2>1. Len(e) - B = n * B
    BY <1>6, <1>8
  <2>2. ASSUME Len(e) > 2 * B
        PROVE  2 ^ (Len(e) - 2 * B) <= x
    <3>1. n > 1
      <4> SUFFICES ASSUME n = 1 PROVE FALSE
        BY <1>4
      <4> QED BY <1>6, <1>8, <2>2
    <3>2. Len(e) - 2 * B = (n - 1) * B
      BY <1>4, <1>6, <1>8
    <3> QED BY <1>2, <3>1, <3>2
  <2> QED BY <1>2, <1>6, <2>1, <2>2
<1> HIDE DEF e
<1> QED BY <1>5, <1>8, <1>9, <1>10 DEF SemiRead, e

(* A uint64 above the largest int64 is refused. *)
SmallRead(w, val) ==
  LET e == WriteNormallySmall(val).bits
  IN  /\ WriteNormallySmall(val).ok <=> val < 2 ^ (W - 1)
      /\ WriteNormallySmall(val).ok =>
           /\ WriteNormallySmall(val) = Encoded(e) /\ e \in Seq(Bit)
           /\ Agrees(w, 0, e) => ReadNormallySmall(w) = Answer(w, Len(e), val)

(* ReadNormallySmall without its CASE. *)
LEMMA SmallCases ==
  ASSUME NEW w, NEW isLarge, isLarge = ReadBits(w, 0, 1),
         NEW large, large = ReadSemiConstrainedInt(w, 1, 0)
  PROVE  /\ isLarge.status # "ok" => ReadNormallySmall(w) = isLarge
         /\ isLarge.status = "ok" /\ isLarge.value = 0 =>
              ReadNormallySmall(w) = ReadBits(w, 1, SmallBits)
         /\ isLarge.status = "ok" /\ isLarge.value # 0 =>
              ReadNormallySmall(w) =
                IF large.status = "ok" /\ large.value < 0 THEN Failed("invalid") ELSE large
<1> DEFINE small  == ReadBits(w, 1, SmallBits)
           result == IF large.status = "ok" /\ large.value < 0 THEN Failed("invalid") ELSE large
<1>1. ReadNormallySmall(w) =
        CASE isLarge.status # "ok" -> isLarge
          [] isLarge.status = "ok" /\ isLarge.value = 0 -> small
          [] OTHER -> result
  BY DEF ReadNormallySmall
<1> HIDE DEF small, result
<1>2. isLarge.status # "ok" => ReadNormallySmall(w) = isLarge
  BY <1>1
<1>3. isLarge.status = "ok" /\ isLarge.value = 0 => ReadNormallySmall(w) = small
  BY <1>1
<1>4. isLarge.status = "ok" /\ isLarge.value # 0 => ReadNormallySmall(w) = result
  BY <1>1
<1> QED BY <1>2, <1>3, <1>4 DEF small, result

(* The field of one bit is that bit. *)
LEMMA OneBit ==
  ASSUME NEW w \in Seq(Bit), NEW b \in Bit, Agrees(w, 0, <<b>>)
  PROVE  ReadBits(w, 0, 1) = Answer(w, 1, b)
<1> DEFINE n == 1
<1>0. n = 1 /\ n \in Nat /\ b \in Nat
  BY DEF Bit
<1> HIDE DEF n
<1>1. BitsOf(b, n) \in Seq(Bit) /\ Len(BitsOf(b, n)) = n
  <2>1. Field(b, n)
    BY <1>0, BitsType
  <2> QED BY <2>1 DEF Field
<1>2. BitsOf(b, n)[1] = b
  <2>1. 1 \in 1 .. n /\ n - 1 = 0
    BY <1>0
  <2>2. BitsOf(b, n)[1] = (b \div 2 ^ (n - 1)) % 2
    BY <2>1 DEF BitsOf
  <2>3. 2 ^ (n - 1) = 1
    BY <2>1, PowerNext
  <2>4. (b \div 1) % 2 = b
    BY DEF Bit
  <2> QED BY <2>2, <2>3, <2>4
<1>3. Agrees(w, 0, BitsOf(b, n))
  BY <1>0, <1>1, <1>2 DEF Agrees
<1>4. b \in 0 .. 2 ^ n - 1
  <2> DEFINE z == 0
  <2>1. z \in Nat /\ z + 1 = n
    BY <1>0
  <2> HIDE DEF z
  <2>2. 2 ^ (z + 1) = 2 * 2 ^ z /\ 2 ^ z \in Nat /\ 2 ^ z >= 1
    BY <2>1, PowerNext, PowerType
  <2>3. 2 ^ n = 2 * 2 ^ z
    BY <2>1, <2>2
  <2> QED BY <2>2, <2>3 DEF Bit
<1>5. ReadBits(w, 0, n) = Answer(w, 0 + n, b)
  <2> DEFINE z == 0
  <2>1. z \in Nat /\ n \in Nat /\ Agrees(w, z, BitsOf(b, n))
    BY <1>0, <1>3
  <2> HIDE DEF z
  <2>2. ReadBits(w, z, n) = Answer(w, z + n, b)
    BY <1>4, <2>1, ReadNumber
  <2> QED BY <2>2 DEF z
<1>6. 0 + n = n
  BY <1>0
<1> QED BY <1>0, <1>5, <1>6

(* A normally small number is refused, or read back, cut or not. *)
LEMMA ReadSmall ==
  ASSUME NEW w \in Seq(Bit), NEW val \in 0 .. 2 ^ W - 1
  PROVE  SmallRead(w, val)
<1> DEFINE e == WriteNormallySmall(val).bits
           H == 2 ^ (W - 1)
           isLarge == ReadBits(w, 0, 1)
           large == ReadSemiConstrainedInt(w, 1, 0)
           written == WriteSemiConstrainedInt(S(val), 0)
<1>0. /\ H \in Nat /\ H >= 1 /\ 2 ^ W = 2 * H /\ SmallBits \in 1 .. W - 1 /\ W \in Nat
      /\ 2 ^ SmallBits \in Nat /\ 2 ^ SmallBits <= H
  <2>1. H \in Nat /\ H >= 1 /\ 2 ^ W = 2 * H /\ SmallBits \in 1 .. W - 1 /\ W \in Nat
    BY Widths
  <2>2. SmallBits \in Nat /\ W - 1 \in Nat /\ SmallBits <= W - 1
    BY <2>1
  <2>3. 2 ^ SmallBits \in Nat /\ 2 ^ SmallBits <= 2 ^ (W - 1)
    BY <2>2, PowerType, PowerAtMost
  <2> QED BY <2>1, <2>3
<1>1. val \in Nat /\ val <= 2 * H - 1
  BY <1>0
<1> HIDE DEF H
<1>2. CASE val < 2 ^ SmallBits
  <2> DEFINE f == <<0>>
             g == BitsOf(val, SmallBits)
             field == ReadBits(w, 1, SmallBits)
  <2>1. WriteNormallySmall(val) = Encoded(f \o g)
    BY <1>2 DEF WriteNormallySmall
  <2>2. e = f \o g /\ WriteNormallySmall(val) = Encoded(e) /\ WriteNormallySmall(val).ok
    BY <2>1 DEF Encoded
  <2>3. f \in Seq(Bit) /\ Len(f) = 1 /\ g \in Seq(Bit) /\ Len(g) = SmallBits
    BY <1>0, <1>1, BitsType DEF Field, Bit
  <2>4. e \in Seq(Bit) /\ Len(e) = 1 + SmallBits
    <3>1. e = f \o g /\ f \in Seq(Bit) /\ g \in Seq(Bit)
      BY <2>2, <2>3
    <3> HIDE DEF e, f, g
    <3>2. e \in Seq(Bit) /\ Len(e) = Len(f) + Len(g)
      BY <3>1
    <3> QED BY <2>3, <3>2
  <2>5. ASSUME Agrees(w, 0, e)
        PROVE  ReadNormallySmall(w) = Answer(w, Len(e), val)
    <3>1. Agrees(w, 0, f) /\ Agrees(w, 1, g)
      <4>1. 0 + 1 = 1 /\ 0 \in Nat
        OBVIOUS
      <4> HIDE DEF e, f, g
      <4>2. Agrees(w, 0, f) /\ Agrees(w, 0 + Len(f), g)
        BY <2>2, <2>3, <2>5, <4>1, AgreesJoined
      <4> QED BY <2>3, <4>1, <4>2
    <3>2. isLarge = Answer(w, 1, 0)
      BY <3>1, OneBit DEF Bit
    <3>3. field = Answer(w, 1 + SmallBits, val)
      <4>1. val \in 0 .. 2 ^ SmallBits - 1 /\ SmallBits \in Nat
        BY <1>0, <1>1, <1>2
      <4> QED BY <3>1, <4>1, ReadNumber
    <3> HIDE DEF isLarge, field, e
    <3>4. CASE 1 <= Len(w)
      <4>1. isLarge.status = "ok" /\ isLarge.value = 0
        BY <3>2, <3>4 DEF Answer, Decoded
      <4>2. ReadNormallySmall(w) = field
        BY <4>1, SmallCases DEF isLarge, field
      <4> QED BY <2>4, <3>3, <4>2
    <3>5. CASE ~(1 <= Len(w))
      <4>1. isLarge = Failed("eof") /\ isLarge.status # "ok"
        BY <3>2, <3>5 DEF Answer, Failed
      <4>2. ReadNormallySmall(w) = isLarge
        BY <4>1, SmallCases DEF isLarge
      <4>3. ~(Len(e) <= Len(w))
        BY <1>0, <2>4, <3>5
      <4> QED BY <4>1, <4>2, <4>3 DEF Answer
    <3> QED BY <3>4, <3>5
  <2>6. val < H
    BY <1>0, <1>1, <1>2
  <2> HIDE DEF e
  <2> QED BY <2>2, <2>4, <2>5, <2>6 DEF SmallRead, e, H
<1>3. CASE val >= 2 ^ SmallBits /\ val < H
  <2> DEFINE f == <<1>>
             g == written.bits
  <2>1. val \in Signed /\ 0 \in Signed /\ S(val) = val /\ 0 <= val
    <3>1. val \in -H .. H - 1 /\ 0 \in -H .. H - 1
      BY <1>0, <1>1, <1>3
    <3>2. val \in Signed /\ 0 \in Signed
      BY <3>1 DEF Signed, H
    <3> QED BY <1>1, <3>2, SignedSame
  <2>2. /\ written = Encoded(g) /\ g \in Seq(Bit)
        /\ Agrees(w, 1, g) => large = Answer(w, 1 + Len(g), val)
    <3>1. SemiRead(w, 1, val, 0)
      BY <2>1, ReadSemi
    <3> QED BY <2>1, <3>1 DEF SemiRead
  <2>3. written.ok
    BY <2>2 DEF Encoded
  <2>4. WriteNormallySmall(val) = Encoded(f \o g)
    <3>1. ~(val < 2 ^ SmallBits)
      BY <1>0, <1>1, <1>3
    <3> QED BY <2>3, <3>1 DEF WriteNormallySmall
  <2> HIDE DEF g
  <2>5. e = f \o g /\ WriteNormallySmall(val) = Encoded(e) /\ WriteNormallySmall(val).ok
    BY <2>4 DEF Encoded
  <2>6. f \in Seq(Bit) /\ Len(f) = 1
    BY DEF Bit
  <2>7. e \in Seq(Bit) /\ Len(e) = 1 + Len(g)
    <3>1. e = f \o g /\ f \in Seq(Bit) /\ g \in Seq(Bit)
      BY <2>2, <2>5, <2>6
    <3> HIDE DEF e, f
    <3>2. e \in Seq(Bit) /\ Len(e) = Len(f) + Len(g)
      BY <3>1
    <3> QED BY <2>6, <3>2
  <2>8. ASSUME Agrees(w, 0, e)
        PROVE  ReadNormallySmall(w) = Answer(w, Len(e), val)
    <3>1. Agrees(w, 0, f) /\ Agrees(w, 1, g)
      <4>1. 0 + 1 = 1 /\ 0 \in Nat
        OBVIOUS
      <4> HIDE DEF e, f
      <4>2. Agrees(w, 0, f) /\ Agrees(w, 0 + Len(f), g)
        BY <2>2, <2>5, <2>6, <2>8, <4>1, AgreesJoined
      <4> QED BY <2>6, <4>1, <4>2
    <3>2. isLarge = Answer(w, 1, 1)
      BY <3>1, OneBit DEF Bit
    <3>3. large = Answer(w, 1 + Len(g), val)
      BY <2>2, <3>1
    <3> HIDE DEF isLarge, large, e
    <3>4. CASE 1 <= Len(w)
      <4>1. isLarge.status = "ok" /\ isLarge.value # 0
        BY <3>2, <3>4 DEF Answer, Decoded
      <4>2. ReadNormallySmall(w) =
              IF large.status = "ok" /\ large.value < 0 THEN Failed("invalid") ELSE large
        BY <4>1, SmallCases DEF isLarge, large
      <4>3. ~(large.status = "ok" /\ large.value < 0)
        BY <1>1, <3>3 DEF Answer, Decoded, Failed
      <4> QED BY <2>7, <3>3, <4>2, <4>3
    <3>5. CASE ~(1 <= Len(w))
      <4>1. isLarge = Failed("eof") /\ isLarge.status # "ok"
        BY <3>2, <3>5 DEF Answer, Failed
      <4>2. ReadNormallySmall(w) = isLarge
        BY <4>1, SmallCases DEF isLarge
      <4>3. ~(Len(e) <= Len(w))
        BY <2>2, <2>7, <3>5
      <4> QED BY <4>1, <4>2, <4>3 DEF Answer
    <3> QED BY <3>4, <3>5
  <2> HIDE DEF e
  <2> QED BY <1>3, <2>5, <2>7, <2>8 DEF SmallRead, e, H
<1>4. CASE val >= H
  <2>1. U(val) = val
    BY <1>0, <1>1, Wrap
  <2>2. S(val) = val - 2 ^ W
    BY <1>0, <1>1, <1>4, <2>1 DEF S, H
  <2>3. S(val) < 0
    BY <1>0, <1>1, <2>2
  <2>4. written = Refused
    BY <2>3 DEF WriteSemiConstrainedInt
  <2>5. ~(val < 2 ^ SmallBits) /\ ~written.ok
    BY <1>0, <1>1, <1>4, <2>4 DEF Refused
  <2>6. WriteNormallySmall(val) = Refused
    BY <2>5 DEF WriteNormallySmall
  <2>7. ~WriteNormallySmall(val).ok /\ ~(val < H)
    BY <1>0, <1>1, <1>4, <2>6 DEF Refused
  <2> QED BY <2>7 DEF SmallRead, H
<1> QED BY <1>0, <1>1, <1>2, <1>3, <1>4

-----------------------------------------------------------------------------
(* Whatever the bits: a decoder fails, or returns one of the values of its *)
(* type and stays inside its input.                                        *)
Sound(got, w, values) ==
  /\ got.status \in {"ok", "eof", "invalid"}
  /\ got.status = "ok" => got.value \in values /\ got.used \in 0 .. Len(w)

(* A failure is sound. *)
LEMMA SoundFailure ==
  ASSUME NEW w, NEW values
  PROVE  Sound(Failed("eof"), w, values) /\ Sound(Failed("invalid"), w, values)
BY DEF Sound, Failed

(* So is a value of the kind, with a count of bits that are there. *)
LEMMA SoundAnswer ==
  ASSUME NEW w, NEW values, NEW v \in values, NEW u \in 0 .. Len(w)
  PROVE  Sound(Decoded(v, u), w, values)
BY DEF Sound, Decoded

(* ReadBits stays inside its input. *)
LEMMA SoundField ==
  ASSUME NEW w \in Seq(Bit), NEW at \in Nat, NEW n \in Nat
  PROVE  Sound(ReadBits(w, at, n), w, 0 .. 2 ^ n - 1)
<1>1. ReadsAny(w, at, n)
  BY ReadAny
<1>2. CASE at + n <= Len(w)
  <2>1. PICK v \in 0 .. 2 ^ n - 1 : ReadBits(w, at, n) = Decoded(v, at + n)
    BY <1>1, <1>2 DEF ReadsAny
  <2>2. at + n \in 0 .. Len(w)
    BY <1>2
  <2> QED BY <2>1, <2>2, SoundAnswer
<1>3. CASE ~(at + n <= Len(w))
  BY <1>1, <1>3, SoundFailure DEF ReadsAny
<1> QED BY <1>2, <1>3

(* ReadLengthDeterminant stays inside its input; a length is natural. *)
LEMMA SoundLength ==
  ASSUME NEW w \in Seq(Bit), NEW at \in Nat
  PROVE  Sound(ReadLengthDeterminant(w, at), w, Nat)
<1> DEFINE octet == ReadBits(w, at, B)
<1>0. /\ B \in Nat /\ Quarter \in Nat /\ Quarter >= 2 /\ Half = 2 * Quarter
      /\ 2 ^ B = 4 * Quarter /\ K \in Nat
  BY Widths
<1>1. ReadsAny(w, at, B)
  BY <1>0, ReadAny
<1>2. CASE ~(at + B <= Len(w))
  <2>1. octet = Failed("eof")
    BY <1>1, <1>2 DEF ReadsAny
  <2>2. ReadLengthDeterminant(w, at) = Failed("eof")
    BY <2>1, LengthCases DEF octet
  <2> QED BY <2>2, SoundFailure
<1>3. CASE at + B <= Len(w)
  <2>1. PICK v \in 0 .. 2 ^ B - 1 : octet = Decoded(v, at + B)
    BY <1>1, <1>3 DEF ReadsAny
  <2> DEFINE next == ReadBits(w, at + B, B)
             low  == v % Quarter
  <2>2. v \in Nat /\ at + B \in 0 .. Len(w) /\ at + B \in Nat
    BY <1>0, <1>3
  <2>3. low \in Nat
    <3>1. Divides(v, Quarter)
      BY <1>0, <2>2, Division
    <3> QED BY <1>0, <3>1 DEF Divides
  <2>4. CASE v < Half
    <3>1. ReadLengthDeterminant(w, at) = octet
      BY <2>1, <2>2, <2>4, LengthCases DEF octet
    <3>2. ReadLengthDeterminant(w, at) = Decoded(v, at + B)
      BY <2>1, <3>1
    <3> QED BY <2>2, <3>2, SoundAnswer
  <2>5. CASE v \in Half .. 3 * Quarter - 1
    <3>1. ReadLengthDeterminant(w, at) =
            IF next.status = "ok" THEN Decoded(low * 2 ^ B + next.value, next.used) ELSE next
      BY <2>1, <2>2, <2>5, LengthCases DEF octet
    <3>2. Sound(next, w, 0 .. 2 ^ B - 1)
      BY <1>0, <2>2, SoundField
    <3> HIDE DEF next, low
    <3>3. CASE next.status = "ok"
      <4>1. next.value \in Nat /\ next.used \in 0 .. Len(w)
        BY <1>0, <3>2, <3>3 DEF Sound
      <4>2. low * 2 ^ B + next.value \in Nat
        <5> DEFINE P == 2 ^ B
        <5>1. P \in Nat
          BY <1>0
        <5> HIDE DEF P
        <5>2. low * P + next.value \in Nat
          BY <2>3, <4>1, <5>1
        <5> QED BY <5>2 DEF P
      <4> QED BY <3>1, <3>3, <4>1, <4>2, SoundAnswer
    <3>4. CASE next.status # "ok"
      BY <3>1, <3>2, <3>4 DEF Sound
    <3> QED BY <3>3, <3>4
  <2>6. CASE v >= 3 * Quarter
    <3>1. ReadLengthDeterminant(w, at) =
            IF low \in 1 .. MaxFactor THEN Decoded(low * K, at + B) ELSE Failed("invalid")
      BY <2>1, <2>2, <2>6, LengthCases DEF octet
    <3> HIDE DEF low
    <3>2. low * K \in Nat
      <4> DEFINE k == K
      <4>1. k \in Nat
        BY <1>0
      <4> HIDE DEF k
      <4>2. low * k \in Nat
        BY <2>3, <4>1
      <4> QED BY <4>2 DEF k
    <3>3. CASE low \in 1 .. MaxFactor
      BY <2>2, <3>1, <3>2, <3>3, SoundAnswer
    <3>4. CASE low \notin 1 .. MaxFactor
      BY <3>1, <3>4, SoundFailure
    <3> QED BY <3>3, <3>4
  <2>7. v < Half \/ v \in Half .. 3 * Quarter - 1 \/ v >= 3 * Quarter
    BY <1>0, <2>2
  <2> QED BY <2>4, <2>5, <2>6, <2>7
<1> QED BY <1>2, <1>3

(* The number at an offset from a bound, as the decoders compute it. *)
LEMMA SoundOffset ==
  ASSUME NEW w \in Seq(Bit), NEW at \in Nat, NEW n \in Nat, NEW lb \in Signed, NEW field,
         field = ReadBits(w, at, n)
  PROVE  Sound(IF field.status = "ok" THEN Decoded(S(S(field.value) + lb), field.used) ELSE field,
               w, Signed)
<1>1. Sound(field, w, 0 .. 2 ^ n - 1)
  BY SoundField
<1>2. CASE field.status = "ok"
  <2> DEFINE v == field.value
             y == S(v) + lb
  <2>1. v \in Int /\ field.used \in 0 .. Len(w)
    <3>1. 2 ^ n \in Nat
      BY PowerType
    <3> QED BY <1>1, <1>2, <3>1 DEF Sound
  <2>2. y \in Int
    <3> HIDE DEF v
    <3>1. S(v) \in Signed
      BY <2>1, SignedType
    <3>2. 2 ^ (W - 1) \in Nat
      BY Widths
    <3> QED BY <3>1, <3>2 DEF Signed
  <2> HIDE DEF y
  <2>3. S(y) \in Signed
    BY <2>2, SignedType
  <2>4. Sound(Decoded(S(y), field.used), w, Signed)
    BY <2>1, <2>3, SoundAnswer
  <2> QED BY <1>2, <2>4 DEF y
<1>3. CASE field.status # "ok"
  BY <1>1, <1>3 DEF Sound
<1> QED BY <1>2, <1>3

(* ReadSemiConstrainedInt stays inside its input and in int64. *)
LEMMA SoundSemi ==
  ASSUME NEW w \in Seq(Bit), NEW at \in Nat, NEW lb \in Signed
  PROVE  Sound(ReadSemiConstrainedInt(w, at, lb), w, Signed)
<1> DEFINE octets == ReadLengthDeterminant(w, at)
           field == ReadBits(w, octets.used, octets.value * B)
<1>1. Sound(octets, w, Nat)
  BY SoundLength
<1>2. B \in Nat
  BY Widths
<1>3. CASE octets.status # "ok"
  <2>1. ReadSemiConstrainedInt(w, at, lb) = octets
    BY <1>3, SemiCases
  <2> HIDE DEF octets
  <2> QED BY <1>1, <1>3, <2>1 DEF Sound
<1>4. CASE octets.status = "ok" /\ octets.value \notin 1 .. W \div B
  <2>1. ReadSemiConstrainedInt(w, at, lb) = Failed("invalid")
    BY <1>4, SemiCases
  <2> QED BY <2>1, SoundFailure
<1>5. CASE octets.status = "ok" /\ octets.value \in 1 .. W \div B
  <2>1. ReadSemiConstrainedInt(w, at, lb) =
          IF field.status = "ok" THEN Decoded(S(S(field.value) + lb), field.used) ELSE field
    BY <1>5, SemiCases
  <2> HIDE DEF octets
  <2>2. octets.used \in Nat /\ octets.value \in Nat
    BY <1>1, <1>5 DEF Sound
  <2>3. octets.value * B \in Nat
    BY <1>2, <2>2
  <2> DEFINE u == octets.used
             n == octets.value * B
  <2>4. u \in Nat /\ n \in Nat /\ field = ReadBits(w, u, n)
    BY <2>2, <2>3
  <2> HIDE DEF u, n, field
  <2>5. Sound(IF field.status = "ok" THEN Decoded(S(S(field.value) + lb), field.used) ELSE field, w, Signed)
    BY <2>4, SoundOffset
  <2> QED BY <2>1, <2>5
<1> QED BY <1>3, <1>4, <1>5

(* ReadConstrainedInt stays inside its input and in int64. *)
LEMMA SoundConstrained ==
  ASSUME NEW w \in Seq(Bit), NEW lb \in Signed, NEW ub \in Signed
  PROVE  Sound(ReadConstrainedInt(w, lb, ub), w, Signed)
<1> DEFINE range == RangeOf(lb, ub)
           n     == BitsNeeded(range)
           field == ReadBits(w, 0, n)
<1>0. lb \in Int /\ ub \in Int /\ W \in Nat
  <2>1. 2 ^ (W - 1) \in Nat /\ W \in Nat
    BY Widths
  <2> QED BY <2>1 DEF Signed
<1>1. n \in Nat
  <2>1. range \in 0 .. 2 ^ W - 1
    <3> DEFINE y == ub - lb + 1
    <3>1. y \in Int
      BY <1>0
    <3> HIDE DEF y
    <3>2. U(y) \in 0 .. 2 ^ W - 1
      BY <3>1, Wrap
    <3> QED BY <3>2 DEF RangeOf, y
  <2> HIDE DEF range
  <2>2. range \in 0 .. 2 ^ W
    <3>1. 2 ^ W \in Nat
      BY <1>0, PowerType
    <3> QED BY <2>1, <3>1
  <2>3. BitsNeeded(range) \in 0 .. W
    BY <2>2, Needed
  <2> QED BY <1>0, <2>3
<1>2. CASE ub < lb
  <2>1. ~(ub >= lb)
    BY <1>0, <1>2
  <2>2. ReadConstrainedInt(w, lb, ub) = Failed("invalid")
    BY <1>2, <2>1 DEF ReadConstrainedInt
  <2> QED BY <2>2, SoundFailure
<1>3. CASE ub >= lb /\ range = 1
  <2>1. ~(ub < lb)
    BY <1>0, <1>3
  <2>2. ReadConstrainedInt(w, lb, ub) = Decoded(lb, 0)
    BY <1>3, <2>1 DEF ReadConstrainedInt
  <2>3. 0 \in 0 .. Len(w)
    OBVIOUS
  <2> QED BY <2>2, <2>3, SoundAnswer
<1>4. CASE ub >= lb /\ range # 1
  <2>1. ~(ub < lb)
    BY <1>0, <1>4
  <2>2. ReadConstrainedInt(w, lb, ub) =
          IF field.status = "ok" THEN Decoded(S(S(field.value) + lb), field.used) ELSE field
    BY <1>4, <2>1 DEF ReadConstrainedInt
  <2> HIDE DEF n
  <2>3. field = ReadBits(w, 0, n)
    OBVIOUS
  <2> HIDE DEF field
  <2>4. Sound(IF field.status = "ok" THEN Decoded(S(S(field.value) + lb), field.used) ELSE field, w, Signed)
    BY <1>1, <2>3, SoundOffset
  <2> QED BY <2>2, <2>4
<1>5. ub < lb \/ ub >= lb
  BY <1>0
<1> QED BY <1>2, <1>3, <1>4, <1>5

(* A normally small number is not negative. *)
LEMMA SoundSmall ==
  ASSUME NEW w \in Seq(Bit)
  PROVE  Sound(ReadNormallySmall(w), w, Signed \cap Nat)
<1> DEFINE isLarge == ReadBits(w, 0, 1)
           small   == ReadBits(w, 1, SmallBits)
           large   == ReadSemiConstrainedInt(w, 1, 0)
<1>0. /\ W \in Nat /\ SmallBits \in 1 .. W - 1 /\ 2 ^ (W - 1) \in Nat /\ 2 ^ (W - 1) >= 1
      /\ SmallBits \in Nat /\ 2 ^ SmallBits \in Nat /\ 2 ^ SmallBits <= 2 ^ (W - 1)
  <2>1. /\ W \in Nat /\ SmallBits \in 1 .. W - 1 /\ 2 ^ (W - 1) \in Nat /\ 2 ^ (W - 1) >= 1
    BY Widths
  <2>2. SmallBits \in Nat /\ W - 1 \in Nat /\ SmallBits <= W - 1
    BY <2>1
  <2> QED BY <2>1, <2>2, PowerType, PowerAtMost
<1>1. CASE isLarge.status # "ok"
  <2>1. ReadNormallySmall(w) = isLarge
    BY <1>1, SmallCases
  <2>2. isLarge.status \in {"ok", "eof", "invalid"}
    <3> DEFINE one == 1
    <3>1. one \in Nat /\ 0 \in Nat
      OBVIOUS
    <3> HIDE DEF one
    <3>2. Sound(ReadBits(w, 0, one), w, 0 .. 2 ^ one - 1)
      BY <3>1, SoundField
    <3>3. ReadBits(w, 0, one).status \in {"ok", "eof", "invalid"}
      BY <3>2 DEF Sound
    <3> QED BY <3>3 DEF one
  <2> HIDE DEF isLarge
  <2> QED BY <1>1, <2>1, <2>2 DEF Sound
<1>2. CASE isLarge.status = "ok" /\ isLarge.value = 0
  <2>1. ReadNormallySmall(w) = small
    BY <1>2, SmallCases
  <2>2. Sound(small, w, 0 .. 2 ^ SmallBits - 1)
    BY <1>0, SoundField
  <2>3. 0 .. 2 ^ SmallBits - 1 \subseteq Signed \cap Nat
    <3> DEFINE P == 2 ^ SmallBits
               H == 2 ^ (W - 1)
    <3>1. P \in Nat /\ H \in Nat /\ P <= H /\ H >= 1
      BY <1>0
    <3> HIDE DEF P, H
    <3>2. 0 .. P - 1 \subseteq (-H .. H - 1) \cap Nat
      BY <3>1
    <3> QED BY <3>2 DEF Signed, P, H
  <2> HIDE DEF small
  <2> QED BY <2>1, <2>2, <2>3 DEF Sound
<1>3. CASE isLarge.status = "ok" /\ isLarge.value # 0
  <2>1. ReadNormallySmall(w) =
          IF large.status = "ok" /\ large.value < 0 THEN Failed("invalid") ELSE large
    BY <1>3, SmallCases
  <2>2. 0 \in Signed /\ 1 \in Nat
    <3> DEFINE H == 2 ^ (W - 1)
    <3>1. H \in Nat /\ H >= 1
      BY <1>0
    <3> HIDE DEF H
    <3>2. 0 \in -H .. H - 1
      BY <3>1
    <3> QED BY <3>2 DEF Signed, H
  <2>3. Sound(large, w, Signed)
    BY <2>2, SoundSemi
  <2> HIDE DEF large
  <2>4. CASE large.status = "ok" /\ large.value < 0
    BY <2>1, <2>4, SoundFailure
  <2>5. CASE ~(large.status = "ok" /\ large.value < 0)
    <3>1. \A y \in Signed : ~(y < 0) => y \in Nat
      BY <1>0 DEF Signed
    <3> QED BY <2>1, <2>3, <2>5, <3>1 DEF Sound
  <2> QED BY <2>4, <2>5
<1> QED BY <1>1, <1>2, <1>3

-----------------------------------------------------------------------------
(* Elements one after the other: element j is the field of j where it      *)
(* stands.                                                                 *)
LEMMA TimesNext ==
  ASSUME NEW a \in Nat, NEW m \in Nat, NEW width \in Nat, a + 1 <= m
  PROVE  a * width \in Nat /\ a * width + width <= m * width
<1>1. a * width \in Nat /\ a * width + width = (a + 1) * width
  OBVIOUS
<1>2. (a + 1) * width <= m * width
  OBVIOUS
<1> QED BY <1>1, <1>2

(* The bit i of element j, and the way back from its place. *)
LEMMA FieldsIndex ==
  ASSUME NEW m \in Nat, NEW width \in Nat, NEW j \in 1 .. m, NEW i \in 1 .. width
  PROVE  /\ (j - 1) * width + i \in 1 .. m * width
         /\ ((((j - 1) * width + i) - 1) \div width) + 1 = j
         /\ ((((j - 1) * width + i) - 1) % width) + 1 = i
<1> DEFINE k == ((j - 1) * width + i) - 1
<1>1. width \in Nat \ {0} /\ j - 1 \in Nat /\ i - 1 \in 0 .. width - 1
  OBVIOUS
<1>2. (j - 1) * width \in Nat /\ (j - 1) * width + width <= m * width
  <2> DEFINE a == j - 1
  <2>1. a \in Nat /\ a + 1 <= m
    OBVIOUS
  <2> HIDE DEF a
  <2>2. a * width \in Nat /\ a * width + width <= m * width
    BY <2>1, TimesNext
  <2> QED BY <2>2 DEF a
<1>3. k = width * (j - 1) + (i - 1)
  <2> DEFINE a == j - 1
  <2>1. a * width = width * a /\ a * width \in Nat
    BY <1>1
  <2> QED BY <2>1
<1> HIDE DEF k
<1>4. Divided(k, width, j - 1, i - 1)
  BY <1>1, <1>3, DivisionIs
<1>5. (k \div width) + 1 = j /\ (k % width) + 1 = i
  BY <1>4 DEF Divided
<1>6. (j - 1) * width + i \in 1 .. m * width
  <2> DEFINE p == (j - 1) * width
             q == m * width
  <2>1. p \in Nat /\ q \in Nat /\ p + width <= q
    BY <1>2
  <2> HIDE DEF p, q
  <2>2. p + i \in 1 .. q
    BY <2>1
  <2> QED BY <2>2 DEF p, q
<1> QED BY <1>5, <1>6 DEF k

(* The other way round: every bit is in the field of some element. *)
Element(k, width) == ((k - 1) \div width) + 1
Within(k, width)  == ((k - 1) % width) + 1

Placed(k, m, width) ==
  /\ Element(k, width) \in 1 .. m /\ Within(k, width) \in 1 .. width
  /\ k = (Element(k, width) - 1) * width + Within(k, width)

(* Each place among the fields is one of an element. *)
LEMMA FieldsPlace ==
  ASSUME NEW m \in Nat, NEW width \in Nat, NEW k \in 1 .. m * width
  PROVE  Placed(k, m, width)
<1> DEFINE q == (k - 1) \div width
           r == (k - 1) % width
<1>1. m * width \in Nat /\ k >= 1
  OBVIOUS
<1>2. width # 0
  <2> SUFFICES ASSUME width = 0 PROVE FALSE
    OBVIOUS
  <2>1. m * width = 0
    OBVIOUS
  <2> QED BY <1>1, <2>1
<1>3. k - 1 \in Int /\ k - 1 >= 0 /\ width \in Nat \ {0}
  BY <1>1, <1>2
<1>4. Divides(k - 1, width)
  BY <1>3, Division
<1>5. q \in Nat /\ r \in 0 .. width - 1 /\ k - 1 = width * q + r
  BY <1>3, <1>4 DEF Divides
<1> HIDE DEF q, r
<1>6. q < m
  <2> SUFFICES ASSUME q >= m PROVE FALSE
    BY <1>5
  <2>1. width * q >= m * width
    BY <1>5
  <2> DEFINE a == width * q
             b == m * width
  <2>2. a \in Nat /\ b \in Nat /\ a >= b /\ k - 1 = a + r /\ k <= b
    BY <1>1, <1>5, <2>1
  <2> HIDE DEF a, b
  <2> QED BY <1>5, <2>2
<1>7. q + 1 \in 1 .. m /\ r + 1 \in 1 .. width
  BY <1>5, <1>6
<1>8. k = ((q + 1) - 1) * width + (r + 1)
  <2>1. (q + 1) - 1 = q /\ width * q = q * width /\ q * width \in Nat
    BY <1>5
  <2> QED BY <1>5, <2>1
<1>9. Element(k, width) = q + 1 /\ Within(k, width) = r + 1
  BY DEF Element, Within, q, r
<1> QED BY <1>7, <1>8, <1>9 DEF Placed

(* Fields are bits, a width for each element. *)
LEMMA FieldsType ==
  ASSUME NEW s \in Seq(Nat), NEW width \in Nat
  PROVE  /\ Fields(s, width) \in Seq(Bit) /\ Len(Fields(s, width)) = Len(s) * width
         /\ Len(s) * width \in Nat
<1> DEFINE f == Fields(s, width)
           m == Len(s)
           n == m * width
<1>1. m \in Nat /\ n \in Nat
  OBVIOUS
<1>2. ASSUME NEW k \in 1 .. n
      PROVE  f[k] \in Bit
  <2> DEFINE j == Element(k, width)
             i == Within(k, width)
  <2>1. j \in 1 .. m /\ i \in 1 .. width
    <3>1. Placed(k, m, width)
      BY <1>1, FieldsPlace
    <3> QED BY <3>1 DEF Placed
  <2>2. f[k] = BitsOf(s[j], width)[i]
    BY DEF Fields, Element, Within
  <2> HIDE DEF j, i
  <2>3. s[j] \in Nat
    BY <2>1
  <2>4. BitsOf(s[j], width) \in Seq(Bit) /\ Len(BitsOf(s[j], width)) = width
    BY <2>3, BitsType DEF Field
  <2> QED BY <2>1, <2>2, <2>4
<1>3. f = [k \in 1 .. n |-> f[k]]
  BY DEF Fields
<1> HIDE DEF f, n
<1>4. f \in Seq(Bit) /\ Len(f) = n
  BY <1>1, <1>2, <1>3
<1> QED BY <1>1, <1>4 DEF f, n

(* The bits of an element stand in its field. *)
LEMMA FieldOf ==
  ASSUME NEW s \in Seq(Nat), NEW width \in Nat, NEW j \in 1 .. Len(s), NEW i \in 1 .. width
  PROVE  /\ (j - 1) * width + i \in 1 .. Len(s) * width
         /\ Fields(s, width)[(j - 1) * width + i] = BitsOf(s[j], width)[i]
<1> DEFINE k == (j - 1) * width + i
<1>1. /\ k \in 1 .. Len(s) * width
      /\ ((k - 1) \div width) + 1 = j /\ ((k - 1) % width) + 1 = i
  BY FieldsIndex
<1> HIDE DEF k
<1>2. Fields(s, width)[k] = BitsOf(s[((k - 1) \div width) + 1], width)[((k - 1) % width) + 1]
  BY <1>1 DEF Fields
<1> QED BY <1>1, <1>2 DEF k

(* A stream that agrees with the fields agrees with each of them. *)
LEMMA FieldsAgree ==
  ASSUME NEW s \in Seq(Nat), NEW width \in Nat, NEW w, NEW at \in Nat,
         Agrees(w, at, Fields(s, width)), NEW j \in 1 .. Len(s)
  PROVE  Agrees(w, at + (j - 1) * width, BitsOf(s[j], width))
<1> DEFINE f == Fields(s, width)
           e == BitsOf(s[j], width)
           p == (j - 1) * width
<1>1. e \in Seq(Bit) /\ Len(e) = width
  <2>1. s[j] \in Nat
    OBVIOUS
  <2> QED BY <2>1, BitsType DEF Field
<1>2. p \in Nat
  <2> DEFINE a == j - 1
  <2>1. a \in Nat
    OBVIOUS
  <2> HIDE DEF a
  <2>2. a * width \in Nat
    BY <2>1
  <2> QED BY <2>2 DEF a
<1>3. ASSUME NEW i \in 1 .. width, (at + p) + i <= Len(w)
      PROVE  w[(at + p) + i] = e[i]
  <2>1. p + i \in 1 .. Len(f) /\ f[p + i] = e[i]
    BY FieldOf, FieldsType
  <2>2. at + (p + i) = (at + p) + i
    BY <1>2
  <2> HIDE DEF f, e, p
  <2>3. w[at + (p + i)] = f[p + i]
    BY <1>3, <2>1, <2>2 DEF Agrees, f
  <2> QED BY <2>1, <2>2, <2>3
<1> HIDE DEF e, p
<1>4. Agrees(w, at + p, e)
  BY <1>1, <1>3 DEF Agrees
<1> QED BY <1>4 DEF e, p

(* Bits that are, one element after the other, those of the elements.      *)
LEMMA FieldsAre ==
  ASSUME NEW s \in Seq(Nat), NEW width \in Nat, NEW f \in Seq(Bit),
         Len(f) = Len(s) * width,
         \A j \in 1 .. Len(s), i \in 1 .. width : f[(j - 1) * width + i] = BitsOf(s[j], width)[i]
  PROVE  f = Fields(s, width)
<1> DEFINE g == Fields(s, width)
<1>1. g \in Seq(Bit) /\ Len(g) = Len(f)
  BY FieldsType
<1>2. ASSUME NEW k \in 1 .. Len(f)
      PROVE  f[k] = g[k]
  <2> DEFINE j == Element(k, width)
             i == Within(k, width)
             m == Len(s)
  <2>1. Placed(k, m, width)
    <3>1. m \in Nat /\ k \in 1 .. m * width
      OBVIOUS
    <3> HIDE DEF m
    <3> QED BY <3>1, FieldsPlace
  <2>2. j \in 1 .. m /\ i \in 1 .. width /\ k = (j - 1) * width + i
    BY <2>1 DEF Placed
  <2> HIDE DEF j, i
  <2>3. f[(j - 1) * width + i] = BitsOf(s[j], width)[i]
    BY <2>2
  <2>4. g[(j - 1) * width + i] = BitsOf(s[j], width)[i]
    BY <2>2, FieldOf
  <2> QED BY <2>2, <2>3, <2>4
<1> HIDE DEF g
<1>3. f = g
  BY <1>1, <1>2, SeqEqual
<1> QED BY <1>3 DEF g

(* A bit is its own field. *)
LEMMA BitField ==
  ASSUME NEW b \in Bit, NEW n, n = 1
  PROVE  BitsOf(b, n) = <<b>> /\ b \in 0 .. 2 ^ n - 1
<1>0. n \in Nat /\ b \in Nat
  BY DEF Bit
<1>1. BitsOf(b, n) \in Seq(Bit) /\ Len(BitsOf(b, n)) = n
  <2>1. Field(b, n)
    BY <1>0, BitsType
  <2> QED BY <2>1 DEF Field
<1>2. BitsOf(b, n)[1] = b
  <2>1. 1 \in 1 .. n /\ n - 1 = 0
    OBVIOUS
  <2>2. BitsOf(b, n)[1] = (b \div 2 ^ (n - 1)) % 2
    BY <2>1 DEF BitsOf
  <2>3. 2 ^ (n - 1) = 1
    BY <2>1, PowerNext
  <2>4. (b \div 1) % 2 = b
    BY DEF Bit
  <2> QED BY <2>2, <2>3, <2>4
<1>3. BitsOf(b, n) = <<b>>
  <2> DEFINE t == BitsOf(b, n)
  <2>1. t \in Seq(Bit) /\ Len(t) = 1 /\ t[1] = b
    BY <1>1, <1>2
  <2> HIDE DEF t
  <2>2. t = <<b>>
    BY <2>1
  <2> QED BY <2>2 DEF t
<1>4. b \in 0 .. 2 ^ n - 1
  <2> DEFINE z == 0
  <2>1. z \in Nat /\ z + 1 = n
    OBVIOUS
  <2> HIDE DEF z
  <2>2. 2 ^ (z + 1) = 2 * 2 ^ z /\ 2 ^ z \in Nat /\ 2 ^ z >= 1
    BY <2>1, PowerNext, PowerType
  <2>3. 2 ^ n = 2 * 2 ^ z
    BY <2>1, <2>2
  <2> QED BY <2>2, <2>3 DEF Bit
<1> QED BY <1>3, <1>4

(* Bits are their own fields of width 1. *)
LEMMA FieldsOfBits ==
  ASSUME NEW p \in Seq(Bit), NEW n, n = 1
  PROVE  Fields(p, n) = p
<1>1. p \in Seq(Nat) /\ n \in Nat /\ Len(p) = Len(p) * n
  BY DEF Bit
<1>2. ASSUME NEW j \in 1 .. Len(p), NEW i \in 1 .. n
      PROVE  p[(j - 1) * n + i] = BitsOf(p[j], n)[i]
  <2>1. i = 1 /\ (j - 1) * n + i = j /\ p[j] \in Bit
    OBVIOUS
  <2>2. BitsOf(p[j], n) = <<p[j]>>
    BY <2>1, BitField
  <2> QED BY <2>1, <2>2
<1> QED BY <1>1, <1>2, FieldsAre

-----------------------------------------------------------------------------
(* ReadAll without its CASE: the first element that fails decides.         *)
ElementAt(w, n, width, k) == ReadBits(w, n.used + (k - 1) * width, width)
Legal(element, legal) == element.status = "ok" /\ element.value \in legal

AllRead(w, n, width) ==
  Decoded([k \in 1 .. n.value |-> ElementAt(w, n, width, k).value], n.used + n.value * width)

StoppedAt(w, n, width, legal, k) ==
  /\ ~Legal(ElementAt(w, n, width, k), legal)
  /\ ReadAll(w, n, width, legal) =
       IF ElementAt(w, n, width, k).status # "ok" THEN ElementAt(w, n, width, k)
       ELSE Failed("invalid")

(* ReadAll fails as the size does, or at an element, or reads all of them. *)
LEMMA ReadAllCases ==
  ASSUME NEW w, NEW n, NEW width, NEW legal, n.status = "ok" => n.value \in Nat
  PROVE  /\ n.status # "ok" => ReadAll(w, n, width, legal) = n
         /\ n.status = "ok" /\ (\A k \in 1 .. n.value : Legal(ElementAt(w, n, width, k), legal)) =>
              ReadAll(w, n, width, legal) = AllRead(w, n, width)
         /\ n.status = "ok" /\ (\E k \in 1 .. n.value : ~Legal(ElementAt(w, n, width, k), legal)) =>
              \E k \in 1 .. n.value : StoppedAt(w, n, width, legal, k)
<1> DEFINE element(k) == ReadBits(w, n.used + (k - 1) * width, width)
           failed == {k \in 1 .. n.value : element(k).status # "ok" \/ element(k).value \notin legal}
           first  == CHOOSE k \in failed : \A j \in failed : k <= j
           bad    == IF element(first).status # "ok" THEN element(first) ELSE Failed("invalid")
           good   == Decoded([k \in 1 .. n.value |-> element(k).value], n.used + n.value * width)
<1>1. ReadAll(w, n, width, legal) =
        CASE n.status # "ok" -> n
          [] n.status = "ok" /\ failed # {} -> bad
          [] OTHER -> good
  BY Zenon DEF ReadAll
<1>2. good = AllRead(w, n, width)
  BY DEF AllRead, ElementAt
<1>3. ASSUME n.status = "ok", failed # {}
      PROVE  first \in failed
  <2>1. failed \subseteq Nat
    BY <1>3
  <2> HIDE DEF failed
  <2>2. \E k \in failed : \A j \in failed : k <= j
    BY <1>3, <2>1, LeastNumber
  <2> QED BY <2>2
<1>4. \A k \in 1 .. n.value : k \in failed <=> ~Legal(ElementAt(w, n, width, k), legal)
  BY DEF ElementAt, Legal
<1>5. \A k \in failed : k \in 1 .. n.value
  OBVIOUS
<1>6. bad = IF ElementAt(w, n, width, first).status # "ok" THEN ElementAt(w, n, width, first)
            ELSE Failed("invalid")
  BY DEF ElementAt
<1> HIDE DEF bad, good, failed, first
<1>7. n.status # "ok" => ReadAll(w, n, width, legal) = n
  BY <1>1
<1>8. n.status = "ok" /\ failed # {} => ReadAll(w, n, width, legal) = bad
  BY <1>1
<1>9. n.status = "ok" /\ failed = {} => ReadAll(w, n, width, legal) = good
  BY <1>1
<1>10. ASSUME n.status = "ok", \A k \in 1 .. n.value : Legal(ElementAt(w, n, width, k), legal)
       PROVE  ReadAll(w, n, width, legal) = AllRead(w, n, width)
  <2>1. failed = {}
    BY <1>4, <1>5, <1>10
  <2> QED BY <1>2, <1>9, <1>10, <2>1
<1>11. ASSUME n.status = "ok", \E k \in 1 .. n.value : ~Legal(ElementAt(w, n, width, k), legal)
       PROVE  \E k \in 1 .. n.value : StoppedAt(w, n, width, legal, k)
  <2>1. failed # {}
    BY <1>4, <1>11
  <2>2. first \in 1 .. n.value /\ ~Legal(ElementAt(w, n, width, first), legal)
    BY <1>3, <1>4, <1>5, <1>11, <2>1
  <2>3. ReadAll(w, n, width, legal) = bad
    BY <1>8, <1>11, <2>1
  <2>4. StoppedAt(w, n, width, legal, first)
    BY <1>6, <2>2, <2>3 DEF StoppedAt
  <2> QED BY <2>2, <2>4
<1> QED BY <1>7, <1>10, <1>11

(* Elements that were written after their number are read, up to the cut.  *)
LEMMA ReadAllWritten ==
  ASSUME NEW w \in Seq(Bit), NEW at \in Nat, NEW s \in Seq(Nat), NEW width \in Nat, NEW legal,
         NEW n, n = Answer(w, at, Len(s)), Agrees(w, at, Fields(s, width)),
         \A k \in 1 .. Len(s) : s[k] \in 0 .. 2 ^ width - 1 /\ s[k] \in legal
  PROVE  ReadAll(w, n, width, legal) = Answer(w, at + Len(s) * width, s)
<1> DEFINE m == Len(s)
           total == m * width
<1>0. m \in Nat /\ total \in Nat
  OBVIOUS
<1>1. CASE ~(at <= Len(w))
  <2>1. n = Failed("eof") /\ n.status # "ok"
    BY <1>1 DEF Answer, Failed
  <2>2. ReadAll(w, n, width, legal) = n
    BY <2>1, ReadAllCases
  <2>3. ~(at + total <= Len(w))
    <3> HIDE DEF total
    <3> QED BY <1>0, <1>1
  <2> QED BY <2>1, <2>2, <2>3 DEF Answer
<1>2. CASE at <= Len(w)
  <2>1. n = Decoded(m, at) /\ n.status = "ok" /\ n.value = m /\ n.used = at
    BY <1>2 DEF Answer, Decoded
  <2> DEFINE p(k) == at + (k - 1) * width
  <2>2. ASSUME NEW k \in 1 .. m
        PROVE  /\ ElementAt(w, n, width, k) = Answer(w, p(k) + width, s[k])
               /\ p(k) \in Nat /\ p(k) + width <= at + total
    <3> DEFINE a == k - 1
               b == a * width
    <3>1. a \in Nat /\ a + 1 <= m /\ b \in Nat
      BY <1>0
    <3>2. b + width <= total
      <4> HIDE DEF a, m
      <4>1. a * width + width <= m * width
        BY <1>0, <3>1, TimesNext
      <4> QED BY <4>1
    <3>3. p(k) \in Nat /\ p(k) + width <= at + total
      <4> HIDE DEF b, total
      <4>1. at + b \in Nat /\ (at + b) + width <= at + total
        BY <1>0, <3>1, <3>2
      <4> QED BY <4>1 DEF b
    <3>4. Agrees(w, p(k), BitsOf(s[k], width))
      BY FieldsAgree
    <3>5. ElementAt(w, n, width, k) = ReadBits(w, p(k), width)
      BY <2>1 DEF ElementAt
    <3>6. s[k] \in 0 .. 2 ^ width - 1
      OBVIOUS
    <3> HIDE DEF p
    <3>7. ReadBits(w, p(k), width) = Answer(w, p(k) + width, s[k])
      BY <3>3, <3>4, <3>6, ReadNumber
    <3> QED BY <3>3, <3>5, <3>7
  <2>3. CASE at + total <= Len(w)
    <3>1. ASSUME NEW k \in 1 .. m
          PROVE  ElementAt(w, n, width, k) = Decoded(s[k], p(k) + width)
      <4> HIDE DEF p, total
      <4>1. p(k) + width <= Len(w)
        BY <1>0, <2>2, <2>3
      <4> QED BY <2>2, <4>1 DEF Answer
    <3> HIDE DEF p
    <3>2. \A k \in 1 .. m : ElementAt(w, n, width, k).status = "ok"
                              /\ ElementAt(w, n, width, k).value = s[k]
      <4> TAKE k \in 1 .. m
      <4>1. ElementAt(w, n, width, k) = Decoded(s[k], p(k) + width)
        BY <3>1
      <4> QED BY <4>1 DEF Decoded
    <3>3. \A k \in 1 .. n.value : Legal(ElementAt(w, n, width, k), legal)
      BY <2>1, <3>2 DEF Legal
    <3>4. ReadAll(w, n, width, legal) = AllRead(w, n, width)
      BY <1>0, <2>1, <3>3, ReadAllCases
    <3>5. [k \in 1 .. n.value |-> ElementAt(w, n, width, k).value] = s
      <4>1. [k \in 1 .. n.value |-> ElementAt(w, n, width, k).value] = [k \in 1 .. m |-> s[k]]
        BY <2>1, <3>2
      <4>2. [k \in 1 .. m |-> s[k]] = s
        OBVIOUS
      <4> QED BY <4>1, <4>2
    <3>6. AllRead(w, n, width) = Decoded(s, at + total)
      BY <2>1, <3>5 DEF AllRead
    <3> QED BY <2>3, <3>4, <3>6 DEF Answer
  <2>4. CASE ~(at + total <= Len(w))
    <3>1. m # 0
      <4> SUFFICES ASSUME m = 0 PROVE FALSE
        OBVIOUS
      <4>1. total = 0
        OBVIOUS
      <4> QED BY <1>2, <2>4, <4>1
    <3>2. m \in 1 .. m /\ p(m) + width = at + total
      <4> DEFINE a == m - 1
      <4>1. a \in Nat /\ m = a + 1
        BY <1>0, <3>1
      <4> HIDE DEF a
      <4>2. a * width + width = (a + 1) * width /\ a * width \in Nat
        BY <4>1
      <4>3. (at + a * width) + width = at + total
        BY <4>1, <4>2
      <4> QED BY <1>0, <3>1, <4>3 DEF a
    <3> HIDE DEF p, total
    <3>3. ~Legal(ElementAt(w, n, width, m), legal)
      BY <2>2, <2>4, <3>2 DEF Legal, Answer, Failed
    <3>4. \E k \in 1 .. n.value : ~Legal(ElementAt(w, n, width, k), legal)
      BY <2>1, <3>2, <3>3
    <3>5. PICK k \in 1 .. n.value : StoppedAt(w, n, width, legal, k)
      BY <1>0, <2>1, <3>4, ReadAllCases
    <3>6. ElementAt(w, n, width, k) = Failed("eof")
      <4>1. ElementAt(w, n, width, k) = Answer(w, p(k) + width, s[k]) /\ s[k] \in legal
        BY <2>1, <2>2
      <4>2. ElementAt(w, n, width, k) # Decoded(s[k], p(k) + width)
        BY <3>5, <4>1 DEF StoppedAt, Legal, Decoded
      <4> QED BY <4>1, <4>2 DEF Answer
    <3>7. ReadAll(w, n, width, legal) = Failed("eof")
      BY <3>5, <3>6 DEF StoppedAt, Failed
    <3> QED BY <2>4, <3>7 DEF Answer, total
  <2> QED BY <2>3, <2>4
<1> QED BY <1>1, <1>2

(* The first b bits are the first a and those after. *)
LEMMA SubSeqSplit ==
  ASSUME NEW w \in Seq(Bit), NEW a \in Nat, NEW b \in Nat, a <= b, b <= Len(w)
  PROVE  /\ SubSeq(w, 1, b) = SubSeq(w, 1, a) \o SubSeq(w, a + 1, b)
         /\ SubSeq(w, a + 1, b) \in Seq(Bit) /\ Len(SubSeq(w, a + 1, b)) = b - a
         /\ \A i \in 1 .. b - a : SubSeq(w, a + 1, b)[i] = w[a + i]
<1> DEFINE s == SubSeq(w, 1, b)
           t == SubSeq(w, 1, a)
           u == SubSeq(w, a + 1, b)
<1>1. s \in Seq(Bit) /\ Len(s) = b /\ \A i \in 1 .. b : s[i] = w[i]
  OBVIOUS
<1>2. t \in Seq(Bit) /\ Len(t) = a /\ \A i \in 1 .. a : t[i] = w[i]
  OBVIOUS
<1>3. u \in Seq(Bit) /\ Len(u) = b - a /\ \A i \in 1 .. b - a : u[i] = w[a + i]
  <2>1. a + 1 \in 1 .. Len(w) + 1 /\ b \in a .. Len(w)
    OBVIOUS
  <2> QED BY <2>1
<1> HIDE DEF s, t, u
<1>4. t \o u \in Seq(Bit) /\ Len(t \o u) = Len(s)
  BY <1>1, <1>2, <1>3
<1>5. ASSUME NEW i \in 1 .. Len(s)
      PROVE  (t \o u)[i] = s[i]
  <2>1. CASE i <= a
    BY <1>1, <1>2, <1>3, <2>1
  <2>2. CASE ~(i <= a)
    <3>1. (t \o u)[i] = u[i - a] /\ i - a \in 1 .. b - a
      BY <1>1, <1>2, <1>3, <2>2
    <3>2. u[i - a] = w[a + (i - a)] /\ a + (i - a) = i
      BY <1>3, <3>1
    <3> QED BY <1>1, <3>1, <3>2
  <2> QED BY <2>1, <2>2
<1>6. t \o u = s
  BY <1>1, <1>4, <1>5, SeqEqual
<1> QED BY <1>3, <1>6 DEF s, t, u

(* Elements that are read, whatever the bits: each is legal, and what was  *)
(* read is the field of each, one after the other.                         *)
ReadElements(w, n, width, legal) ==
  LET r == ReadAll(w, n, width, legal)
  IN  r.status = "ok" =>
        /\ n.status = "ok" /\ r.value \in Seq(Nat) /\ Len(r.value) = n.value
        /\ \A k \in 1 .. n.value : r.value[k] \in legal /\ r.value[k] \in 0 .. 2 ^ width - 1
        /\ SubSeq(w, 1, r.used) = SubSeq(w, 1, n.used) \o Fields(r.value, width)

(* Whatever the bits, ReadAll stays inside them and returns their fields. *)
LEMMA ReadAllAny ==
  ASSUME NEW w \in Seq(Bit), NEW width \in Nat, NEW legal, NEW n, Sound(n, w, Nat)
  PROVE  Sound(ReadAll(w, n, width, legal), w, Seq(Nat)) /\ ReadElements(w, n, width, legal)
<1> DEFINE r == ReadAll(w, n, width, legal)
           m == n.value
           at == n.used
           total == m * width
           el(k) == ElementAt(w, n, width, k)
           p(k) == at + (k - 1) * width
<1>1. CASE n.status # "ok"
  <2>1. r = n
    BY <1>1, ReadAllCases
  <2> HIDE DEF r
  <2>2. r.status # "ok" /\ Sound(r, w, Seq(Nat))
    BY <1>1, <2>1 DEF Sound
  <2> QED BY <2>2 DEF ReadElements, r
<1>2. CASE n.status = "ok"
  <2>1. m \in Nat /\ at \in 0 .. Len(w) /\ at \in Nat
    BY <1>2 DEF Sound
  <2>2. ASSUME NEW k \in 1 .. m
        PROVE  p(k) \in Nat /\ p(k) + width <= at + total /\ ReadsAny(w, p(k), width)
               /\ el(k) = ReadBits(w, p(k), width)
    <3> DEFINE a == k - 1
               b == a * width
    <3> HIDE DEF m
    <3>1. a \in Nat /\ a + 1 <= m
      BY <2>1
    <3>2. b \in Nat /\ b + width <= total
      <4> HIDE DEF a
      <4> QED BY <2>1, <3>1, TimesNext
    <3>3. at + b \in Nat /\ (at + b) + width <= at + total
      <4>1. total \in Nat
        BY <2>1
      <4> HIDE DEF b, total, at
      <4> QED BY <2>1, <3>2, <4>1
    <3>4. p(k) = at + b
      OBVIOUS
    <3> HIDE DEF p
    <3>5. ReadsAny(w, p(k), width)
      BY <3>3, <3>4, ReadAny
    <3>6. el(k) = ReadBits(w, p(k), width)
      BY DEF ElementAt, p
    <3> QED BY <3>3, <3>4, <3>5, <3>6
  <2>3. CASE \E k \in 1 .. m : ~Legal(el(k), legal)
    <3>1. PICK k \in 1 .. m : StoppedAt(w, n, width, legal, k)
      BY <1>2, <2>1, <2>3, ReadAllCases
    <3>2. Sound(el(k), w, 0 .. 2 ^ width - 1)
      <4> HIDE DEF p
      <4> QED BY <2>2, SoundField
    <3>3. r.status \in {"eof", "invalid"}
      BY <3>1, <3>2 DEF StoppedAt, Sound, Failed
    <3> HIDE DEF r
    <3>4. r.status # "ok" /\ Sound(r, w, Seq(Nat))
      BY <3>3 DEF Sound
    <3> QED BY <3>4 DEF ReadElements, r
  <2>4. CASE \A k \in 1 .. m : Legal(el(k), legal)
    <3> DEFINE s == [k \in 1 .. m |-> el(k).value]
    <3>1. r = Decoded(s, at + total)
      <4>1. r = AllRead(w, n, width)
        BY <1>2, <2>1, <2>4, ReadAllCases
      <4> QED BY <4>1 DEF AllRead
    <3>2. ASSUME NEW k \in 1 .. m
          PROVE  /\ p(k) + width <= Len(w)
                 /\ s[k] \in 0 .. 2 ^ width - 1 /\ s[k] \in legal
                 /\ SubSeq(w, p(k) + 1, p(k) + width) = BitsOf(s[k], width)
      <4>1. el(k).status = "ok" /\ el(k).value \in legal
        BY <2>4 DEF Legal
      <4>2. s[k] = el(k).value
        OBVIOUS
      <4> HIDE DEF p, el, s
      <4>3. p(k) + width <= Len(w)
        BY <2>2, <4>1 DEF ReadsAny, Failed
      <4>4. PICK v \in 0 .. 2 ^ width - 1 :
              el(k) = Decoded(v, p(k) + width) /\ SubSeq(w, p(k) + 1, p(k) + width) = BitsOf(v, width)
        BY <2>2, <4>3 DEF ReadsAny
      <4>5. el(k).value = v
        BY <4>4 DEF Decoded
      <4> QED BY <4>1, <4>2, <4>3, <4>4, <4>5
    <3>3. s \in Seq(Nat) /\ Len(s) = m
      <4>1. \A k \in 1 .. m : s[k] \in Nat
        <5>1. 2 ^ width \in Nat
          BY PowerType
        <5> HIDE DEF s
        <5> QED BY <3>2, <5>1
      <4>2. s = [k \in 1 .. m |-> s[k]]
        OBVIOUS
      <4> HIDE DEF s, m
      <4> QED BY <2>1, <4>1, <4>2
    <3>4. total \in Nat /\ at + total <= Len(w)
      <4>1. total \in Nat
        BY <2>1
      <4>2. CASE m = 0
        <5>1. total = 0
          BY <4>2
        <5> QED BY <2>1, <5>1
      <4>3. CASE m # 0
        <5> DEFINE a == m - 1
        <5>1. a \in Nat /\ m = a + 1 /\ m \in 1 .. m
          BY <2>1, <4>3
        <5>2. p(m) + width <= Len(w)
          BY <3>2, <5>1
        <5>3. p(m) + width = at + total
          <6> HIDE DEF a
          <6>1. a * width + width = (a + 1) * width /\ a * width \in Nat
            BY <5>1
          <6>2. (at + a * width) + width = at + total
            BY <2>1, <5>1, <6>1
          <6> QED BY <6>2 DEF a
        <5> HIDE DEF p, total
        <5> QED BY <4>1, <5>2, <5>3
      <4> QED BY <4>2, <4>3
    <3> DEFINE f == SubSeq(w, at + 1, at + total)
    <3>5. /\ SubSeq(w, 1, at + total) = SubSeq(w, 1, at) \o f
          /\ f \in Seq(Bit) /\ Len(f) = total
          /\ \A i \in 1 .. total : f[i] = w[at + i]
      <4> DEFINE to == at + total
      <4> HIDE DEF total, at
      <4>1. to \in Nat /\ at \in Nat /\ at <= to /\ to <= Len(w) /\ to - at = total
        BY <2>1, <3>4
      <4> HIDE DEF to
      <4>2. /\ SubSeq(w, 1, to) = SubSeq(w, 1, at) \o SubSeq(w, at + 1, to)
            /\ SubSeq(w, at + 1, to) \in Seq(Bit) /\ Len(SubSeq(w, at + 1, to)) = to - at
            /\ \A i \in 1 .. to - at : SubSeq(w, at + 1, to)[i] = w[at + i]
        BY <4>1, SubSeqSplit
      <4> QED BY <4>1, <4>2 DEF to
    <3>6. ASSUME NEW j \in 1 .. m, NEW i \in 1 .. width
          PROVE  f[(j - 1) * width + i] = BitsOf(s[j], width)[i]
      <4> DEFINE b == (j - 1) * width
                 q == at + b
      <4>1. q = p(j) /\ q \in Nat /\ q + width <= Len(w)
        BY <2>2, <3>2
      <4>2. b \in Nat
        <5> DEFINE a == j - 1
        <5>1. a \in Nat
          OBVIOUS
        <5> HIDE DEF a
        <5>2. a * width \in Nat
          BY <5>1
        <5> QED BY <5>2 DEF a
      <4>3. b + i \in 1 .. total
        BY <2>1, FieldsIndex
      <4> HIDE DEF f, total, b
      <4>4. f[b + i] = w[at + (b + i)]
        BY <3>5, <4>3
      <4>5. at + (b + i) = q + i
        BY <2>1, <4>2
      <4> HIDE DEF q, s, p
      <4>6. SubSeq(w, q + 1, q + width)[i] = w[q + i]
        <5> DEFINE to == q + width
        <5>1. to \in Nat /\ q <= to /\ to <= Len(w) /\ to - q = width
          BY <4>1
        <5> HIDE DEF to
        <5>2. \A l \in 1 .. to - q : SubSeq(w, q + 1, to)[l] = w[q + l]
          BY <4>1, <5>1, SubSeqSplit
        <5> QED BY <5>1, <5>2 DEF to
      <4>7. SubSeq(w, q + 1, q + width) = BitsOf(s[j], width)
        BY <3>2, <4>1
      <4> QED BY <4>4, <4>5, <4>6, <4>7 DEF b
    <3>7. f = Fields(s, width)
      <4> HIDE DEF f, s
      <4>1. \A j \in 1 .. Len(s), i \in 1 .. width : f[(j - 1) * width + i] = BitsOf(s[j], width)[i]
        BY <3>3, <3>6
      <4> QED BY <3>3, <3>5, <4>1, FieldsAre
    <3> HIDE DEF s, f, total, r
    <3>8. r.status = "ok" /\ r.value = s /\ r.used = at + total
      BY <3>1 DEF Decoded
    <3>9. Sound(r, w, Seq(Nat))
      <4>1. at + total \in 0 .. Len(w)
        BY <2>1, <3>4
      <4> QED BY <3>3, <3>8, <4>1 DEF Sound
    <3>10. SubSeq(w, 1, r.used) = SubSeq(w, 1, n.used) \o Fields(r.value, width)
      BY <3>5, <3>7, <3>8
    <3>11. ReadElements(w, n, width, legal)
      BY <1>2, <3>2, <3>3, <3>8, <3>10 DEF ReadElements, r
    <3> QED BY <3>9, <3>11 DEF r
  <2> QED BY <2>3, <2>4
<1> QED BY <1>1, <1>2

-----------------------------------------------------------------------------
(* The size of a string. *)
IsBound(x) == x \in Nat /\ 2 * x <= 2 ^ (W - 1)

SizeRead(w, n, lb, ub) ==
  LET e == WriteSize(n, lb, ub).bits
  IN  /\ WriteSize(n, lb, ub).ok <=> lb <= n /\ n <= ub
      /\ WriteSize(n, lb, ub).ok =>
           /\ WriteSize(n, lb, ub) = Encoded(e) /\ e \in Seq(Bit)
           /\ Agrees(w, 0, e) => ReadSize(w, lb, ub) = Answer(w, Len(e), n)

(* A number below half the range of words is a signed one. *)
LEMMA SmallSigned ==
  ASSUME NEW x \in Nat, x < 2 ^ (W - 1)
  PROVE  x \in Signed
<1> DEFINE H == 2 ^ (W - 1)
<1>1. H \in Nat
  BY Widths
<1> HIDE DEF H
<1>2. x < H
  BY DEF H
<1>3. x \in -H .. H - 1
  BY <1>1, <1>2
<1> QED BY <1>3 DEF Signed, H

(* A bound of a size is a signed number. *)
LEMMA BoundIs ==
  ASSUME NEW x, IsBound(x)
  PROVE  x \in Nat /\ x \in Signed
<1> DEFINE H == 2 ^ (W - 1)
<1>1. H \in Nat /\ H >= 1
  BY Widths
<1>2. x \in Nat /\ 2 * x <= H
  BY DEF IsBound
<1> HIDE DEF H
<1>3. x < H
  BY <1>1, <1>2
<1> QED BY <1>2, <1>3, SmallSigned DEF H

(* WriteSize refuses the sizes out of bounds; the others are read back. *)
LEMMA SizeWritten ==
  ASSUME NEW w \in Seq(Bit), NEW n \in Nat, NEW lb, NEW ub, IsBound(lb), IsBound(ub)
  PROVE  SizeRead(w, n, lb, ub)
<1> DEFINE e == WriteSize(n, lb, ub).bits
           H == 2 ^ (W - 1)
<1>0. /\ H \in Nat /\ H >= 1 /\ 2 ^ W = 2 * H
      /\ lb \in Nat /\ ub \in Nat /\ lb \in Signed /\ ub \in Signed
      /\ 2 * lb <= H /\ 2 * ub <= H
  BY Widths, BoundIs DEF IsBound
<1> HIDE DEF H
<1>1. CASE n < lb \/ n > ub
  <2>1. WriteSize(n, lb, ub) = Refused
    BY <1>1 DEF WriteSize
  <2>2. ~WriteSize(n, lb, ub).ok /\ ~(lb <= n /\ n <= ub)
    BY <1>0, <1>1, <2>1 DEF Refused
  <2> QED BY <2>2 DEF SizeRead
<1>2. CASE lb <= n /\ n <= ub /\ lb = ub
  <2>1. WriteSize(n, lb, ub) = Encoded(<<>>)
    BY <1>0, <1>2 DEF WriteSize
  <2>2. e = <<>> /\ WriteSize(n, lb, ub) = Encoded(e) /\ WriteSize(n, lb, ub).ok
    BY <2>1 DEF Encoded
  <2>3. ReadSize(w, lb, ub) = Answer(w, 0, n)
    BY <1>0, <1>2 DEF ReadSize, Answer
  <2>4. e \in Seq(Bit) /\ Len(e) = 0
    BY <2>2
  <2> HIDE DEF e
  <2> QED BY <1>2, <2>2, <2>3, <2>4 DEF SizeRead, e
<1>3. CASE lb <= n /\ n <= ub /\ lb # ub
  <2>1. n \in Signed
    <3>1. n < H
      BY <1>0, <1>3
    <3> QED BY <3>1, SmallSigned DEF H
  <2>2. ConstrainedRead(w, n, lb, ub)
    BY <1>0, <1>3, <2>1, ReadConstrained
  <2>3. WriteSize(n, lb, ub) = WriteConstrainedInt(n, lb, ub)
    BY <1>0, <1>3 DEF WriteSize
  <2>4. ReadSize(w, lb, ub) = ReadConstrainedInt(w, lb, ub)
    BY <1>3 DEF ReadSize
  <2>5. ub - lb + 1 < 2 ^ W
    BY <1>0, <1>3
  <2>6. e = WriteConstrainedInt(n, lb, ub).bits
    BY <2>3
  <2> HIDE DEF e
  <2>7. /\ WriteSize(n, lb, ub) = Encoded(e) /\ e \in Seq(Bit)
        /\ Agrees(w, 0, e) => ReadSize(w, lb, ub) = Answer(w, Len(e), n)
    BY <2>2, <2>3, <2>4, <2>5, <2>6 DEF ConstrainedRead
  <2>8. WriteSize(n, lb, ub).ok
    BY <2>7 DEF Encoded
  <2> QED BY <1>3, <2>7, <2>8 DEF SizeRead, e
<1> QED BY <1>0, <1>1, <1>2, <1>3

(* Whatever the bits: the size read, if it is not above the upper bound,   *)
(* is the one that these bits stand for.                                   *)
ReadsSize(w, lb, ub) ==
  LET r == ReadSize(w, lb, ub)
  IN  r.status = "ok" =>
        r.value >= lb /\ (r.value <= ub => WriteSize(r.value, lb, ub) = Encoded(SubSeq(w, 1, r.used)))

(* Whatever the bits, a size at or below its bound was written as they stand. *)
LEMMA SizeAny ==
  ASSUME NEW w \in Seq(Bit), NEW lb, NEW ub, IsBound(lb), IsBound(ub)
  PROVE  Sound(ReadSize(w, lb, ub), w, Nat) /\ ReadsSize(w, lb, ub)
<1> DEFINE r == ReadSize(w, lb, ub)
           H == 2 ^ (W - 1)
<1>0. /\ H \in Nat /\ H >= 1 /\ 2 ^ W = 2 * H
      /\ lb \in Nat /\ ub \in Nat /\ lb \in Signed /\ ub \in Signed
      /\ 2 * lb <= H /\ 2 * ub <= H
  BY Widths, BoundIs DEF IsBound
<1> HIDE DEF H
<1>1. CASE lb = ub
  <2>1. r = Decoded(lb, 0)
    BY <1>1 DEF ReadSize
  <2>2. WriteSize(lb, lb, ub) = Encoded(<<>>)
    BY <1>0, <1>1 DEF WriteSize
  <2>3. SubSeq(w, 1, 0) = <<>> /\ 0 \in 0 .. Len(w)
    OBVIOUS
  <2> HIDE DEF r
  <2>4. r.value = lb /\ r.used = 0
    BY <2>1 DEF Decoded
  <2>5. ReadsSize(w, lb, ub)
    <3>1. WriteSize(r.value, lb, ub) = Encoded(SubSeq(w, 1, r.used))
      BY <2>2, <2>3, <2>4
    <3>2. r.value >= lb
      BY <1>0, <2>4
    <3> QED BY <3>1, <3>2 DEF ReadsSize, r
  <2> QED BY <1>0, <2>1, <2>3, <2>5, SoundAnswer DEF r
<1>2. CASE ub < lb
  <2>1. r = ReadConstrainedInt(w, lb, ub)
    BY <1>0, <1>2 DEF ReadSize
  <2>2. ~(ub >= lb)
    BY <1>0, <1>2
  <2>3. r = Failed("invalid")
    BY <1>2, <2>1, <2>2 DEF ReadConstrainedInt
  <2> HIDE DEF r
  <2>4. r.status # "ok"
    BY <2>3 DEF Failed
  <2> QED BY <2>3, <2>4, SoundFailure DEF ReadsSize, r
<1>3. CASE lb < ub
  <2> DEFINE range == RangeOf(lb, ub)
             n == BitsNeeded(range)
             field == ReadBits(w, 0, n)
  <2>1. range = ub - lb + 1 /\ range \in 0 .. 2 ^ W /\ range >= 2
    <3>1. ub - lb + 1 < 2 ^ W /\ lb <= ub
      BY <1>0, <1>3
    <3>2. range = ub - lb + 1
      BY <1>0, <3>1, RangeIs
    <3> HIDE DEF range
    <3> QED BY <1>0, <1>3, <3>1, <3>2
  <2> HIDE DEF range
  <2>2. n \in Nat /\ Holds(range, n) /\ 2 ^ n \in Nat
    <3>1. W \in Nat
      BY Widths
    <3>2. BitsNeeded(range) \in 0 .. W /\ (range >= 1 => Holds(range, BitsNeeded(range)))
      BY <2>1, Needed
    <3> QED BY <2>1, <3>1, <3>2, PowerType
  <2> HIDE DEF n
  <2>3. 2 ^ n <= 2 * (ub - lb)
    <3>1. n # 0
      <4> SUFFICES ASSUME n = 0 PROVE FALSE
        OBVIOUS
      <4>1. 2 ^ n = 1
        BY PowerNext
      <4>2. range <= 2 ^ n
        BY <2>2 DEF Holds
      <4> QED BY <2>1, <4>1, <4>2
    <3> DEFINE m == n - 1
    <3>2. m \in Nat /\ m + 1 = n
      BY <2>2, <3>1
    <3>3. 2 ^ m < range
      BY <2>2, <3>1 DEF Holds
    <3> HIDE DEF m
    <3>4. 2 ^ (m + 1) = 2 * 2 ^ m /\ 2 ^ m \in Nat
      BY <3>2, PowerNext
    <3>5. 2 ^ n = 2 * 2 ^ m
      BY <3>2, <3>4
    <3> QED BY <1>0, <2>1, <3>3, <3>4, <3>5
  <2>4. r = IF field.status = "ok" THEN Decoded(S(S(field.value) + lb), field.used) ELSE field
    <3>1. range # 1 /\ ~(ub < lb) /\ lb # ub
      BY <1>0, <1>3, <2>1
    <3>2. r = ReadConstrainedInt(w, lb, ub)
      BY <3>1 DEF ReadSize
    <3> QED BY <3>1, <3>2 DEF ReadConstrainedInt, range, n
  <2>5. ReadsAny(w, 0, n)
    BY <2>2, ReadAny
  <2>6. CASE ~(0 + n <= Len(w))
    <3>1. field = Failed("eof")
      BY <2>5, <2>6 DEF ReadsAny
    <3>2. r = Failed("eof") /\ r.status # "ok"
      BY <2>4, <3>1 DEF Failed
    <3> HIDE DEF r
    <3> QED BY <3>2, SoundFailure DEF ReadsSize, r
  <2>7. CASE 0 + n <= Len(w)
    <3>1. PICK v \in 0 .. 2 ^ n - 1 :
            field = Decoded(v, 0 + n) /\ SubSeq(w, 0 + 1, 0 + n) = BitsOf(v, n)
      BY <2>5, <2>7 DEF ReadsAny
    <3>2. v \in Nat /\ v <= 2 * (ub - lb) - 1
      BY <1>0, <2>2, <2>3
    <3>3. v + lb \in Nat /\ v + lb < H /\ v \in 0 .. 2 ^ W - 1
      BY <1>0, <1>3, <3>2
    <3>4. S(S(v) + lb) = v + lb
      <4>1. v + lb \in Signed
        BY <3>3, SmallSigned DEF H
      <4> QED BY <1>0, <3>3, <4>1, SignedSum
    <3>5. r = Decoded(v + lb, n)
      <4>1. field.status = "ok" /\ field.value = v /\ field.used = n
        BY <2>2, <3>1 DEF Decoded
      <4> QED BY <2>4, <3>4, <4>1
    <3>6. ASSUME v + lb <= ub
          PROVE  WriteSize(v + lb, lb, ub) = Encoded(SubSeq(w, 1, n))
      <4> DEFINE x == v + lb
      <4>1. x \in Nat /\ ~(x < lb \/ x > ub) /\ lb # ub /\ ~(ub < lb) /\ x - lb = v
        BY <1>0, <1>3, <3>2, <3>6
      <4>2. U(v) = v
        BY <1>0, <3>3, Wrap
      <4> HIDE DEF x
      <4>3. WriteSize(x, lb, ub) = WriteConstrainedInt(x, lb, ub)
        BY <4>1 DEF WriteSize
      <4>4. WriteConstrainedInt(x, lb, ub) = Encoded(BitsOf(U(x - lb), n))
        BY <2>1, <4>1 DEF WriteConstrainedInt, range, n
      <4>5. SubSeq(w, 1, n) = BitsOf(v, n)
        BY <2>2, <3>1
      <4> QED BY <4>1, <4>2, <4>3, <4>4, <4>5 DEF x
    <3> HIDE DEF r
    <3>7. r.value = v + lb /\ r.used = n
      BY <3>5 DEF Decoded
    <3>8. ReadsSize(w, lb, ub)
      BY <1>0, <3>2, <3>6, <3>7 DEF ReadsSize, r
    <3>9. Sound(r, w, Nat)
      <4>1. n \in 0 .. Len(w)
        BY <2>2, <2>7
      <4> QED BY <3>3, <3>5, <4>1, SoundAnswer
    <3> QED BY <3>8, <3>9 DEF r
  <2> QED BY <2>6, <2>7
<1> QED BY <1>0, <1>1, <1>2, <1>3

-----------------------------------------------------------------------------
(* Alphabets: the places of the characters are 0, 1, 2 and so on, each the *)
(* place of one character.                                                 *)
LEMMA PlaceBelow ==
  ASSUME NEW X, X \subseteq Nat, IsFiniteSet(X), NEW x \in X
  PROVE  PlaceOf(X, x) \in 0 .. Cardinality(X) - 1 /\ Cardinality(X) \in Nat
<1> DEFINE Y == {y \in X : y < x}
<1>1. Y \in SUBSET X /\ x \notin Y
  OBVIOUS
<1> HIDE DEF Y
<1>2. IsFiniteSet(Y) /\ Cardinality(Y) <= Cardinality(X) /\ (Cardinality(X) = Cardinality(Y) => X = Y)
  BY <1>1, FS_Subset
<1>3. Cardinality(Y) \in Nat /\ Cardinality(X) \in Nat
  BY <1>2, FS_CardinalityType
<1>4. Cardinality(X) # Cardinality(Y)
  BY <1>1, <1>2
<1>5. PlaceOf(X, x) = Cardinality(Y)
  BY DEF PlaceOf, Y
<1> QED BY <1>2, <1>3, <1>4, <1>5

(* A larger character has a later place, *)
LEMMA PlaceGrows ==
  ASSUME NEW X, X \subseteq Nat, IsFiniteSet(X), NEW x \in X, NEW z \in X, x < z
  PROVE  PlaceOf(X, x) < PlaceOf(X, z)
<1> DEFINE Y == {y \in X : y < x}
           Z == {y \in X : y < z}
<1>1. Z \in SUBSET X /\ Y \in SUBSET Z /\ x \in Z /\ x \notin Y
  <2>1. Y \subseteq Z
    <3> SUFFICES ASSUME NEW y \in Y PROVE y \in Z
      OBVIOUS
    <3>1. y \in X /\ y < x /\ y \in Nat /\ x \in Nat /\ z \in Nat
      OBVIOUS
    <3>2. y < z
      BY <3>1
    <3> QED BY <3>1, <3>2
  <2>2. Z \subseteq X /\ x \in Z
    OBVIOUS
  <2>3. ~(x < x)
    <3>1. x \in Nat
      OBVIOUS
    <3> QED BY <3>1
  <2>4. x \notin Y
    BY <2>3
  <2> QED BY <2>1, <2>2, <2>4
<1>2. PlaceOf(X, x) = Cardinality(Y) /\ PlaceOf(X, z) = Cardinality(Z)
  BY DEF PlaceOf
<1> HIDE DEF Y, Z
<1>3. IsFiniteSet(Z)
  BY <1>1, FS_Subset
<1>4. IsFiniteSet(Y) /\ Cardinality(Y) <= Cardinality(Z) /\ (Cardinality(Z) = Cardinality(Y) => Z = Y)
  BY <1>1, <1>3, FS_Subset
<1>5. Cardinality(Y) \in Nat /\ Cardinality(Z) \in Nat
  BY <1>3, <1>4, FS_CardinalityType
<1>6. Cardinality(Z) # Cardinality(Y)
  BY <1>1, <1>4
<1> QED BY <1>2, <1>4, <1>5, <1>6

(* so no two have the same, *)
LEMMA PlaceOnce ==
  ASSUME NEW X, X \subseteq Nat, IsFiniteSet(X), NEW x \in X, NEW z \in X,
         PlaceOf(X, x) = PlaceOf(X, z)
  PROVE  x = z
<1>1. PlaceOf(X, x) \in Int /\ PlaceOf(X, z) \in Int
  <2>1. Cardinality(X) \in Nat /\ PlaceOf(X, x) \in 0 .. Cardinality(X) - 1
        /\ PlaceOf(X, z) \in 0 .. Cardinality(X) - 1
    BY PlaceBelow
  <2> QED BY <2>1
<1>2. ~(x < z)
  <2>1. x < z => PlaceOf(X, x) < PlaceOf(X, z)
    BY PlaceGrows
  <2> QED BY <1>1, <2>1
<1>3. ~(z < x)
  <2>1. z < x => PlaceOf(X, z) < PlaceOf(X, x)
    BY PlaceGrows
  <2> QED BY <1>1, <2>1
<1>4. x \in Nat /\ z \in Nat
  OBVIOUS
<1> QED BY <1>2, <1>3, <1>4

(* and no place is free: they are as many as the characters. *)
LEMMA PlaceTaken ==
  ASSUME NEW X, X \subseteq Nat, IsFiniteSet(X), NEW r \in 0 .. Cardinality(X) - 1
  PROVE  \E x \in X : PlaceOf(X, x) = r
<1> DEFINE c == Cardinality(X)
           T == 0 .. c - 1
           f == [x \in X |-> PlaceOf(X, x)]
<1>1. c \in Nat
  BY FS_CardinalityType
<1>2. \A x \in X : PlaceOf(X, x) \in T
  BY PlaceBelow
<1>3. \A x, z \in X : f[x] = f[z] => x = z
  BY PlaceOnce
<1>4. IsFiniteSet(T) /\ Cardinality(T) = c
  <2> HIDE DEF c
  <2>1. c - 1 \in Int
    BY <1>1
  <2>2. IsFiniteSet(T) /\ Cardinality(T) = IF 0 > c - 1 THEN 0 ELSE (c - 1) - 0 + 1
    BY <2>1, FS_Interval
  <2> QED BY <1>1, <2>2
<1>5. f \in [X -> T]
  BY <1>2
<1>6. \A t \in T : \E x \in X : f[x] = t
  <2> HIDE DEF f, T
  <2>1. f \in Injection(X, T)
    BY <1>3, <1>5, Fun_IsInj
  <2>2. Cardinality(X) = Cardinality(T)
    BY <1>4 DEF c
  <2>3. f \in Surjection(X, T)
    BY <1>4, <2>1, <2>2, FS_Injection
  <2> QED BY <2>3 DEF Surjection
<1> QED BY <1>6

IsAlphabet(X, a) ==
  /\ Len(a) = Cardinality(X) /\ Len(a) \in Nat
  /\ \A r \in 0 .. Len(a) - 1 : a[r + 1] \in X /\ PlaceOf(X, a[r + 1]) = r
  /\ \A x \in X : PlaceOf(X, x) \in 0 .. Len(a) - 1 /\ a[PlaceOf(X, x) + 1] = x

(* BuildAlphabet lists the characters, each at its place. *)
LEMMA AlphabetIs ==
  ASSUME NEW X, X \subseteq Nat, IsFiniteSet(X)
  PROVE  IsAlphabet(X, BuildAlphabet(X))
<1> DEFINE a == BuildAlphabet(X)
           c == Cardinality(X)
<1>1. c \in Nat
  BY FS_CardinalityType
<1>2. a = [k \in 1 .. c |-> CHOOSE x \in X : PlaceOf(X, x) = k - 1]
  BY DEF BuildAlphabet, PlaceOf
<1> HIDE DEF a, c
<1>3. Len(a) = c
  BY <1>1, <1>2
<1>4. ASSUME NEW r \in 0 .. c - 1
      PROVE  a[r + 1] \in X /\ PlaceOf(X, a[r + 1]) = r
  <2>1. r + 1 \in 1 .. c /\ (r + 1) - 1 = r
    BY <1>1
  <2>2. a[r + 1] = CHOOSE x \in X : PlaceOf(X, x) = (r + 1) - 1
    BY <1>2, <2>1
  <2>3. \E x \in X : PlaceOf(X, x) = r
    BY PlaceTaken DEF c
  <2> QED BY <2>1, <2>2, <2>3
<1>5. ASSUME NEW x \in X
      PROVE  PlaceOf(X, x) \in 0 .. c - 1 /\ a[PlaceOf(X, x) + 1] = x
  <2> DEFINE r == PlaceOf(X, x)
  <2>1. r \in 0 .. c - 1
    BY PlaceBelow DEF c
  <2>2. a[r + 1] \in X /\ PlaceOf(X, a[r + 1]) = r
    <3> HIDE DEF r
    <3> QED BY <1>4, <2>1
  <2>3. a[r + 1] = x
    BY <2>2, PlaceOnce
  <2> QED BY <2>1, <2>3
<1> QED BY <1>1, <1>3, <1>4, <1>5 DEF IsAlphabet, a, c

(* The permitted characters are so few that the width of a place holds     *)
(* them all.                                                               *)
LEMMA PermittedIs ==
  ASSUME NEW from, from \subseteq Nat, from \subseteq Signed
  PROVE  /\ Permitted(from) \subseteq Nat /\ IsFiniteSet(Permitted(from))
         /\ Cardinality(Permitted(from)) \in Nat
         /\ BitsNeeded(Cardinality(Permitted(from))) \in Nat
         /\ Cardinality(Permitted(from)) <= 2 ^ BitsNeeded(Cardinality(Permitted(from)))
<1> DEFINE X == Permitted(from)
           c == Cardinality(X)
           H == 2 ^ (W - 1)
<1>0. H \in Nat /\ H >= 1 /\ 2 ^ W = 2 * H /\ W \in Nat
  BY Widths
<1>1. X \subseteq 0 .. H - 1
  <2>1. from \subseteq 0 .. H - 1
    BY <1>0 DEF Signed
  <2>2. Default \subseteq 0 .. H - 1
    <3>1. CharBits \in Nat /\ W - 1 \in Nat /\ CharBits <= W - 1 /\ Default \subseteq 0 .. 2 ^ CharBits - 1
      BY <1>0, StringAssumption
    <3>2. 2 ^ CharBits <= H /\ 2 ^ CharBits \in Nat
      BY <3>1, PowerType, PowerAtMost
    <3> QED BY <1>0, <3>1, <3>2
  <2> QED BY <2>1, <2>2 DEF Permitted
<1> HIDE DEF X, H
<1>2. IsFiniteSet(0 .. H - 1) /\ Cardinality(0 .. H - 1) = H
  <2>1. H - 1 \in Int
    BY <1>0
  <2>2. /\ IsFiniteSet(0 .. H - 1)
        /\ Cardinality(0 .. H - 1) = IF 0 > H - 1 THEN 0 ELSE (H - 1) - 0 + 1
    BY <2>1, FS_Interval
  <2> QED BY <1>0, <2>2
<1>3. IsFiniteSet(X) /\ c <= H
  BY <1>1, <1>2, FS_Subset
<1>4. c \in Nat
  BY <1>3, FS_CardinalityType
<1> HIDE DEF c
<1>5. c \in 0 .. 2 ^ W
  BY <1>0, <1>3, <1>4
<1> DEFINE n == BitsNeeded(c)
<1>6. n \in 0 .. W /\ (c >= 1 => Holds(c, n)) /\ (c <= 1 => n = 0)
  BY <1>5, Needed
<1>7. n \in Nat /\ 2 ^ n \in Nat
  BY <1>0, <1>6, PowerType
<1> HIDE DEF n
<1>8. c <= 2 ^ n
  BY <1>4, <1>6, <1>7 DEF Holds
<1>9. X \subseteq Nat
  BY <1>0, <1>1
<1> QED BY <1>3, <1>4, <1>7, <1>8, <1>9 DEF X, c, n

-----------------------------------------------------------------------------
(* One call, and the bits w a decoder is handed.  Carries: what is written *)
(* is read back, or the cut is noticed.                                    *)
IsCall(c) == (IF IsNumber(c) THEN c \in Number ELSE c \in String) /\ InMachine(c)

LeastWidth(c, n) ==
  /\ c.op = "constrained" =>
       /\ c.ub - c.lb + 1 <= 2 ^ n
       /\ n > 0 => 2 ^ (n - 1) < c.ub - c.lb + 1
  /\ c.op = "semi" =>
       /\ c.val - c.lb < 2 ^ (n - B)
       /\ n > 2 * B => 2 ^ (n - 2 * B) <= c.val - c.lb

Carries(c, w) ==
  LET e == Encode(c).bits
  IN  /\ Encode(c).ok <=> InType(c)
      /\ Encode(c).ok => e \in Seq(Bit)
      /\ Encode(c).ok /\ Carried(c) => LeastWidth(c, Len(e))
      /\ Encode(c).ok /\ Carried(c) /\ Agrees(w, 0, e) => Decode(c, w) = Answer(w, Len(e), Meaning(c))
      /\ Encode(c).ok /\ IsNumber(c) /\ Agrees(w, 0, e) /\ Len(w) < Len(e) => Decode(c, w) = Failed("eof")

(* What ends after the stream does is answered with its end. *)
LEMMA AnswerCut ==
  ASSUME NEW w \in Seq(Bit), NEW n \in Nat, NEW v, Len(w) < n
  PROVE  Answer(w, n, v) = Failed("eof")
BY DEF Answer

(* Constrained numbers. *)
LEMMA ConstrainedCarries ==
  ASSUME NEW c, IsCall(c), c.op = "constrained", NEW w \in Seq(Bit)
  PROVE  Carries(c, w)
<1> DEFINE r == WriteConstrainedInt(c.val, c.lb, c.ub)
           e == r.bits
<1>1. /\ IsNumber(c) /\ Encode(c) = r /\ Decode(c, w) = ReadConstrainedInt(w, c.lb, c.ub)
      /\ InType(c) <=> c.lb <= c.val /\ c.val <= c.ub
      /\ Carried(c) <=> c.ub - c.lb + 1 < 2 ^ W
      /\ Meaning(c) = c.val
  BY DEF IsNumber, NumberOps, Encode, Decode, InType, Carried, Meaning
<1>2. c.val \in Signed /\ c.lb \in Signed /\ c.ub \in Signed
  BY DEF IsCall, InMachine
<1>3. c.val \in Int /\ c.lb \in Int /\ c.ub \in Int
  <2>1. 2 ^ (W - 1) \in Nat
    BY Widths
  <2> QED BY <1>2, <2>1 DEF Signed
<1>4. CASE InType(c)
  <2>1. ConstrainedRead(w, c.val, c.lb, c.ub)
    BY <1>1, <1>2, <1>4, ReadConstrained
  <2>2. /\ r = Encoded(e) /\ e \in Seq(Bit)
        /\ Carried(c) => Holds(c.ub - c.lb + 1, Len(e))
        /\ Carried(c) /\ Agrees(w, 0, e) => Decode(c, w) = Answer(w, Len(e), Meaning(c))
        /\ c.ub - c.lb + 1 = 2 ^ W => Len(e) = 0
    BY <1>1, <2>1 DEF ConstrainedRead
  <2>3. r.ok
    BY <2>2 DEF Encoded
  <2>4. Carried(c) \/ Len(e) = 0
    <3>1. c.ub - c.lb + 1 \in 1 .. 2 ^ W
      BY <1>1, <1>2, <1>3, <1>4, RangeIs
    <3>2. 2 ^ W \in Nat
      BY Widths, PowerType
    <3> QED BY <1>1, <1>3, <2>2, <3>1, <3>2
  <2> HIDE DEF r, e
  <2>5. ASSUME Agrees(w, 0, e), Len(w) < Len(e)
        PROVE  Decode(c, w) = Failed("eof")
    <3>1. Len(e) \in Nat /\ Len(e) # 0
      BY <2>2, <2>5
    <3> QED BY <2>2, <2>4, <2>5, <3>1, AnswerCut
  <2>6. Carried(c) => LeastWidth(c, Len(e))
    BY <2>2 DEF LeastWidth, Holds
  <2> QED BY <1>1, <1>4, <2>2, <2>3, <2>5, <2>6 DEF Carries, e
<1>5. CASE ~InType(c)
  <2>1. r = Refused
    BY <1>1, <1>3, <1>5 DEF WriteConstrainedInt
  <2>2. ~r.ok
    BY <2>1 DEF Refused
  <2> QED BY <1>1, <1>5, <2>2 DEF Carries
<1> QED BY <1>4, <1>5

(* Semi-constrained numbers. *)
LEMMA SemiCarries ==
  ASSUME NEW c, IsCall(c), c.op = "semi", NEW w \in Seq(Bit)
  PROVE  Carries(c, w)
<1> DEFINE r == WriteSemiConstrainedInt(c.val, c.lb)
           e == r.bits
<1>1. /\ IsNumber(c) /\ Encode(c) = r /\ Decode(c, w) = ReadSemiConstrainedInt(w, 0, c.lb)
      /\ InType(c) <=> c.lb <= c.val
      /\ Meaning(c) = c.val
  BY DEF IsNumber, NumberOps, Encode, Decode, InType, Meaning
<1>2. c.val \in Signed /\ c.lb \in Signed
  BY DEF IsCall, InMachine
<1>3. c.val \in Int /\ c.lb \in Int
  <2>1. 2 ^ (W - 1) \in Nat
    BY Widths
  <2> QED BY <1>2, <2>1 DEF Signed
<1>4. CASE InType(c)
  <2>1. SemiRead(w, 0, c.val, c.lb)
    BY <1>1, <1>2, <1>4, ReadSemi
  <2>2. /\ r = Encoded(e) /\ e \in Seq(Bit)
        /\ Agrees(w, 0, e) => Decode(c, w) = Answer(w, 0 + Len(e), Meaning(c))
        /\ c.val - c.lb < 2 ^ (Len(e) - B)
        /\ Len(e) > 2 * B => 2 ^ (Len(e) - 2 * B) <= c.val - c.lb
    BY <1>1, <2>1 DEF SemiRead
  <2>3. r.ok
    BY <2>2 DEF Encoded
  <2> HIDE DEF r, e
  <2>4. Len(e) \in Nat /\ 0 + Len(e) = Len(e)
    BY <2>2
  <2>5. ASSUME Agrees(w, 0, e), Len(w) < Len(e)
        PROVE  Decode(c, w) = Failed("eof")
    BY <2>2, <2>4, <2>5, AnswerCut
  <2>6. LeastWidth(c, Len(e))
    BY <2>2 DEF LeastWidth
  <2> QED BY <1>1, <1>4, <2>2, <2>3, <2>4, <2>5, <2>6 DEF Carries, e
<1>5. CASE ~InType(c)
  <2>1. r = Refused
    BY <1>1, <1>3, <1>5 DEF WriteSemiConstrainedInt
  <2>2. ~r.ok
    BY <2>1 DEF Refused
  <2> QED BY <1>1, <1>5, <2>2 DEF Carries
<1> QED BY <1>4, <1>5

(* Normally small numbers. *)
LEMMA SmallCarries ==
  ASSUME NEW c, IsCall(c), c.op = "small", NEW w \in Seq(Bit)
  PROVE  Carries(c, w)
<1> DEFINE r == WriteNormallySmall(c.val)
           e == r.bits
<1>1. /\ IsNumber(c) /\ Encode(c) = r /\ Decode(c, w) = ReadNormallySmall(w)
      /\ InType(c) <=> 0 <= c.val /\ c.val < 2 ^ (W - 1)
      /\ Meaning(c) = c.val
  BY DEF IsNumber, NumberOps, Encode, Decode, InType, Meaning
<1>2. c.val \in 0 .. 2 ^ W - 1 /\ 0 <= c.val
  BY DEF IsCall, InMachine
<1>3. SmallRead(w, c.val)
  BY <1>2, ReadSmall
<1>4. /\ r.ok <=> InType(c)
      /\ r.ok => /\ r = Encoded(e) /\ e \in Seq(Bit)
                 /\ Agrees(w, 0, e) => Decode(c, w) = Answer(w, Len(e), Meaning(c))
  BY <1>1, <1>2, <1>3 DEF SmallRead
<1> HIDE DEF r, e
<1>5. ASSUME r.ok, Agrees(w, 0, e), Len(w) < Len(e)
      PROVE  Decode(c, w) = Failed("eof")
  <2>1. Len(e) \in Nat
    BY <1>4, <1>5
  <2> QED BY <1>4, <1>5, <2>1, AnswerCut
<1>6. LeastWidth(c, Len(e))
  BY DEF LeastWidth
<1> QED BY <1>1, <1>4, <1>5, <1>6 DEF Carries, e

(* A length that one determinant stands for is announced as it is. *)
LEMMA OneDeterminantAnnounced ==
  ASSUME NEW n \in Nat, OneDeterminant(n)
  PROVE  Announced(n) = n
<1>0. K \in Nat \ {0}
  BY Widths
<1>1. CASE n < K
  BY <1>1 DEF Announced
<1>2. CASE ~(n < K)
  <2>1. n % K = 0 /\ n \div K <= MaxFactor
    BY <1>2 DEF OneDeterminant
  <2> DEFINE q == n \div K
             k == K
  <2>2. Divides(n, K)
    BY <1>0, Division
  <2>3. q \in Int /\ n = k * q + 0
    BY <2>1, <2>2 DEF Divides
  <2>4. k * q = q * k
    <3> HIDE DEF q, k
    <3>1. k \in Nat
      BY <1>0 DEF k
    <3> QED BY <2>3, <3>1
  <2>5. k * q \in Int
    <3> HIDE DEF q, k
    <3>1. k \in Nat
      BY <1>0 DEF k
    <3> QED BY <2>3, <3>1
  <2>6. Units(n) = q
    <3>1. MaxFactor \in Int
      BY Widths
    <3>2. ~(q > MaxFactor)
      BY <2>1, <2>3, <3>1
    <3> QED BY <3>2 DEF Units
  <2>7. Announced(n) = q * k
    BY <1>2, <2>6 DEF Announced
  <2> HIDE DEF q, k
  <2> QED BY <2>3, <2>4, <2>5, <2>7
<1> QED BY <1>1, <1>2

(* Length determinants. *)
LEMMA LengthCarries ==
  ASSUME NEW c, IsCall(c), c.op = "length", NEW w \in Seq(Bit)
  PROVE  Carries(c, w)
<1> DEFINE r == WriteLengthDeterminant(c.val)
           e == r.bits
<1>1. /\ IsNumber(c) /\ Encode(c) = r /\ Decode(c, w) = ReadLengthDeterminant(w, 0)
      /\ InType(c) <=> 0 <= c.val
      /\ Carried(c) <=> OneDeterminant(c.val)
      /\ Meaning(c) = c.val
  BY DEF IsNumber, NumberOps, Encode, Decode, InType, Carried, Meaning
<1>2. c.val \in Int
  BY <1>1 DEF IsCall, Number
<1>3. LeastWidth(c, Len(e))
  BY DEF LeastWidth
<1>4. CASE c.val \in Nat
  <2>1. LengthRead(w, 0, c.val)
    BY <1>4, ReadLength
  <2>2. /\ r = Encoded(e) /\ e \in Seq(Bit)
        /\ Agrees(w, 0, e) => Decode(c, w) = Answer(w, 0 + Len(e), Announced(c.val))
    BY <1>1, <2>1 DEF LengthRead
  <2>3. r.ok
    BY <2>2 DEF Encoded
  <2>4. Carried(c) => Announced(c.val) = Meaning(c)
    BY <1>1, <1>4, OneDeterminantAnnounced
  <2>5. InType(c)
    BY <1>1, <1>4
  <2> HIDE DEF r, e
  <2>6. Len(e) \in Nat /\ 0 + Len(e) = Len(e)
    BY <2>2
  <2>7. ASSUME Agrees(w, 0, e), Len(w) < Len(e)
        PROVE  Decode(c, w) = Failed("eof")
    BY <2>2, <2>6, <2>7, AnswerCut
  <2> QED BY <1>1, <1>3, <2>2, <2>3, <2>4, <2>5, <2>6, <2>7 DEF Carries, e
<1>5. CASE ~(c.val \in Nat)
  <2>1. c.val < 0 /\ ~InType(c)
    BY <1>1, <1>2, <1>5
  <2>2. r = Refused
    BY <2>1 DEF WriteLengthDeterminant
  <2>3. ~r.ok
    BY <2>2 DEF Refused
  <2> QED BY <1>1, <2>1, <2>3 DEF Carries
<1> QED BY <1>4, <1>5

-----------------------------------------------------------------------------
(* A size or a length, and then the elements. *)
AllCarried(w, before, s, width, written, n, legal) ==
  LET all == WriteAll(before, s, width, written)
  IN  /\ all.ok <=> before.ok /\ \A k \in 1 .. Len(s) : s[k] \in written
      /\ all.ok => all.bits \in Seq(Bit)
      /\ all.ok /\ Agrees(w, 0, all.bits)
            /\ (\A k \in 1 .. Len(s) : s[k] \in 0 .. 2 ^ width - 1 /\ s[k] \in legal) =>
           ReadAll(w, n, width, legal) = Answer(w, Len(all.bits), s)

(* Elements after their number. *)
LEMMA CarryAll ==
  ASSUME NEW w \in Seq(Bit), NEW before, NEW s \in Seq(Nat), NEW width \in Nat, NEW written,
         NEW n, NEW legal,
         before.ok => /\ before.bits \in Seq(Bit)
                      /\ Agrees(w, 0, before.bits) => n = Answer(w, Len(before.bits), Len(s))
  PROVE  AllCarried(w, before, s, width, written, n, legal)
<1> DEFINE all == WriteAll(before, s, width, written)
           f == Fields(s, width)
           b == before.bits
<1>1. f \in Seq(Bit) /\ Len(f) = Len(s) * width /\ Len(s) * width \in Nat
  BY FieldsType
<1>2. CASE before.ok /\ \A k \in 1 .. Len(s) : s[k] \in written
  <2>1. all = Encoded(b \o f)
    BY <1>2 DEF WriteAll
  <2>2. all.ok /\ all.bits = b \o f
    BY <2>1 DEF Encoded
  <2> HIDE DEF all, f, b
  <2>3. b \in Seq(Bit)
    BY <1>2 DEF b
  <2>4. all.bits \in Seq(Bit) /\ Len(all.bits) = Len(b) + Len(f)
    BY <1>1, <2>2, <2>3
  <2>5. ASSUME Agrees(w, 0, all.bits),
               \A k \in 1 .. Len(s) : s[k] \in 0 .. 2 ^ width - 1 /\ s[k] \in legal
        PROVE  ReadAll(w, n, width, legal) = Answer(w, Len(all.bits), s)
    <3> DEFINE at == Len(b)
    <3>1. at \in Nat /\ 0 + at = at
      BY <2>3
    <3>2. Agrees(w, 0, b) /\ Agrees(w, 0 + Len(b), f)
      BY <1>1, <2>2, <2>3, <2>5, AgreesJoined
    <3>3. n = Answer(w, at, Len(s))
      BY <1>2, <3>2 DEF b
    <3>4. Agrees(w, at, f)
      BY <3>1, <3>2
    <3> HIDE DEF at
    <3>5. ReadAll(w, n, width, legal) = Answer(w, at + Len(s) * width, s)
      BY <2>5, <3>1, <3>3, <3>4, ReadAllWritten DEF f
    <3> QED BY <1>1, <2>4, <3>5 DEF at
  <2> QED BY <1>2, <2>2, <2>4, <2>5 DEF AllCarried, all
<1>3. CASE ~(before.ok /\ \A k \in 1 .. Len(s) : s[k] \in written)
  <2>1. all = Refused
    BY <1>3 DEF WriteAll
  <2>2. ~all.ok
    BY <2>1 DEF Refused
  <2> QED BY <1>3, <2>2 DEF AllCarried
<1> QED BY <1>2, <1>3

(* A call whose elements are s, after its size. *)
LEMMA CarrySized ==
  ASSUME NEW w \in Seq(Bit), NEW s \in Seq(Nat), NEW width \in Nat, NEW written, NEW legal,
         NEW lb, NEW ub, IsBound(lb), IsBound(ub)
  PROVE  AllCarried(w, WriteSize(Len(s), lb, ub), s, width, written, ReadSize(w, lb, ub), legal)
<1> DEFINE m == Len(s)
<1>1. m \in Nat
  OBVIOUS
<1> HIDE DEF m
<1>2. SizeRead(w, m, lb, ub)
  BY <1>1, SizeWritten
<1> DEFINE before == WriteSize(m, lb, ub)
           n == ReadSize(w, lb, ub)
<1>3. before.ok => /\ before.bits \in Seq(Bit)
                   /\ Agrees(w, 0, before.bits) => n = Answer(w, Len(before.bits), m)
  BY <1>2 DEF SizeRead
<1> HIDE DEF before, n
<1>4. AllCarried(w, before, s, width, written, n, legal)
  BY <1>3, CarryAll DEF m
<1> QED BY <1>4 DEF before, n, m

(* Which sizes WriteSize takes. *)
LEMMA SizeOk ==
  ASSUME NEW n \in Nat, NEW lb, NEW ub, IsBound(lb), IsBound(ub)
  PROVE  WriteSize(n, lb, ub).ok <=> lb <= n /\ n <= ub
<1>1. <<>> \in Seq(Bit)
  OBVIOUS
<1>2. SizeRead(<<>>, n, lb, ub)
  BY <1>1, SizeWritten
<1> QED BY <1>2 DEF SizeRead

(* What holds of the parts of a string call. *)
LEMMA StringParts ==
  ASSUME NEW c, IsCall(c), ~IsNumber(c)
  PROVE  /\ c \in String /\ c.held \in Seq(Nat) /\ c.len \in Nat
         /\ c.from \subseteq Nat /\ c.from \subseteq Signed /\ IsBound(c.lb) /\ IsBound(c.ub)
         /\ c.op # "bits" => Len(c.held) = c.len
         /\ c.op = "bits" => /\ Len(c.held) = ((c.len + B - 1) \div B) * B
                             /\ \A k \in 1 .. Len(c.held) : c.held[k] \in {0, 1}
         /\ c.op = "octets" => \A k \in 1 .. Len(c.held) : c.held[k] < 2 ^ B
         /\ c.op = "list"   => \A k \in 1 .. Len(c.held) : c.held[k] \in Ascii
<1>1. c \in String
  BY DEF IsCall
<1>2. /\ c.op \in {"bits", "octets", "ia5", "visible", "list", "unsized"}
      /\ c.held \in Seq(Nat) /\ c.len \in Nat /\ c.from \in SUBSET Nat /\ c.lb \in Nat /\ c.ub \in Nat
  BY <1>1 DEF String
<1>3. InMachine(c)
  BY DEF IsCall
<1>4. /\ 2 * c.lb <= 2 ^ (W - 1) /\ 2 * c.ub <= 2 ^ (W - 1)
      /\ c.from \subseteq Signed
      /\ Len(c.held) = IF c.op = "bits" THEN ((c.len + B - 1) \div B) * B ELSE c.len
      /\ c.op = "bits"   => \A k \in 1 .. Len(c.held) : c.held[k] \in {0, 1}
      /\ c.op = "octets" => \A k \in 1 .. Len(c.held) : c.held[k] < 2 ^ B
      /\ c.op = "list"   => \A k \in 1 .. Len(c.held) : c.held[k] \in Ascii
  BY <1>2, <1>3 DEF InMachine
<1> QED BY <1>1, <1>2, <1>4 DEF IsBound

(* A sequence is the function of its elements. *)
LEMMA SeqIs ==
  ASSUME NEW s \in Seq(Nat)
  PROVE  [k \in 1 .. Len(s) |-> s[k]] = s
OBVIOUS

(* The value of a string whose elements are all held. *)
LEMMA MeaningHeld ==
  ASSUME NEW c, ~IsNumber(c), c.op # "bits", c.held \in Seq(Nat), Len(c.held) = c.len
  PROVE  Meaning(c) = c.held
<1>1. Meaning(c) = [k \in 1 .. c.len |-> IF k <= c.len THEN c.held[k] ELSE 0]
  BY DEF Meaning
<1>2. Meaning(c) = [k \in 1 .. Len(c.held) |-> c.held[k]]
  BY <1>1
<1>3. [k \in 1 .. Len(c.held) |-> c.held[k]] = c.held
  BY SeqIs
<1> QED BY <1>2, <1>3

(* What is to be shown of a string. *)
LEMMA StringCarries ==
  ASSUME NEW c, ~IsNumber(c), NEW w, NEW all, all = Encode(c),
         all.ok <=> InType(c),
         all.ok => all.bits \in Seq(Bit),
         all.ok /\ Carried(c) /\ Agrees(w, 0, all.bits) =>
           Decode(c, w) = Answer(w, Len(all.bits), Meaning(c))
  PROVE  Carries(c, w)
<1>1. c.op # "constrained" /\ c.op # "semi"
  BY DEF IsNumber, NumberOps
<1> QED BY <1>1 DEF Carries, LeastWidth

(* OCTET STRING. *)
LEMMA OctetsCarries ==
  ASSUME NEW c, IsCall(c), c.op = "octets", NEW w \in Seq(Bit)
  PROVE  Carries(c, w)
<1> DEFINE s == c.held
           all == WriteAll(WriteSize(Len(s), c.lb, c.ub), s, B, Nat)
<1>1. ~IsNumber(c)
  BY DEF IsNumber, NumberOps
<1>2. /\ s \in Seq(Nat) /\ c.len \in Nat /\ IsBound(c.lb) /\ IsBound(c.ub) /\ Len(s) = c.len
      /\ \A k \in 1 .. Len(s) : s[k] < 2 ^ B
  BY <1>1, StringParts
<1>3. B \in Nat /\ 2 ^ B \in Nat
  BY Widths, PowerType
<1>4. Encode(c) = all
  BY DEF Encode, WriteOctetString
<1>5. Decode(c, w) = ReadAll(w, ReadSize(w, c.lb, c.ub), B, Nat)
  BY DEF Decode, ReadOctetString
<1>6. InType(c) <=> c.lb <= c.len /\ c.len <= c.ub
  BY DEF InType, Sized
<1>7. Meaning(c) = s
  BY <1>1, <1>2, MeaningHeld
<1>8. AllCarried(w, WriteSize(Len(s), c.lb, c.ub), s, B, Nat, ReadSize(w, c.lb, c.ub), Nat)
  BY <1>2, <1>3, CarrySized
<1>9. \A k \in 1 .. Len(s) : s[k] \in Nat /\ s[k] \in 0 .. 2 ^ B - 1
  BY <1>2, <1>3
<1>10. all.ok <=> InType(c)
  <2>1. WriteSize(Len(s), c.lb, c.ub).ok <=> c.lb <= c.len /\ c.len <= c.ub
    BY <1>2, SizeOk
  <2> QED BY <1>6, <1>8, <1>9, <2>1 DEF AllCarried
<1>11. /\ all.ok => all.bits \in Seq(Bit)
       /\ all.ok /\ Agrees(w, 0, all.bits) => Decode(c, w) = Answer(w, Len(all.bits), Meaning(c))
  BY <1>5, <1>7, <1>8, <1>9 DEF AllCarried
<1> HIDE DEF all
<1> QED BY <1>1, <1>4, <1>10, <1>11, StringCarries

(* IA5String, and SEQUENCE OF with a size. *)
LEMMA CharactersCarry ==
  ASSUME NEW c, IsCall(c), c.op \in {"ia5", "list"}, NEW w \in Seq(Bit)
  PROVE  Carries(c, w)
<1> DEFINE s == c.held
           written == IF c.op = "ia5" THEN Ascii ELSE Nat
           all == WriteAll(WriteSize(Len(s), c.lb, c.ub), s, CharBits, written)
<1>1. ~IsNumber(c)
  BY DEF IsNumber, NumberOps
<1>2. /\ s \in Seq(Nat) /\ c.len \in Nat /\ IsBound(c.lb) /\ IsBound(c.ub) /\ Len(s) = c.len
      /\ c.op = "list" => \A k \in 1 .. Len(s) : s[k] \in Ascii
  BY <1>1, StringParts
<1>3. CharBits \in Nat
  <2>1. W \in Nat /\ CharBits \in 1 .. W - 1
    BY Widths, StringAssumption
  <2> QED BY <2>1
<1>4. Encode(c) = all
  <2>1. CASE c.op = "ia5"
    BY <2>1 DEF Encode, WriteIA5String
  <2>2. CASE c.op = "list"
    BY <1>2, <2>2 DEF Encode
  <2> QED BY <2>1, <2>2
<1>5. Decode(c, w) = ReadAll(w, ReadSize(w, c.lb, c.ub), CharBits, Nat)
  BY DEF Decode, ReadIA5String
<1>6. InType(c) <=> /\ c.lb <= c.len /\ c.len <= c.ub
                    /\ c.op = "ia5" => \A k \in 1 .. c.len : s[k] \in Ascii
  BY DEF InType, Sized
<1>7. Meaning(c) = s
  BY <1>1, <1>2, MeaningHeld
<1>8. AllCarried(w, WriteSize(Len(s), c.lb, c.ub), s, CharBits, written, ReadSize(w, c.lb, c.ub), Nat)
  <2> HIDE DEF written
  <2> QED BY <1>2, <1>3, CarrySized
<1>9. all.ok <=> InType(c)
  <2>1. WriteSize(Len(s), c.lb, c.ub).ok <=> c.lb <= c.len /\ c.len <= c.ub
    BY <1>2, SizeOk
  <2>2. (\A k \in 1 .. Len(s) : s[k] \in written) <=> (c.op = "ia5" => \A k \in 1 .. c.len : s[k] \in Ascii)
    BY <1>2
  <2>3. all.ok <=> WriteSize(Len(s), c.lb, c.ub).ok /\ \A k \in 1 .. Len(s) : s[k] \in written
    BY <1>8 DEF AllCarried
  <2> HIDE DEF all, written
  <2> QED BY <1>6, <2>1, <2>2, <2>3
<1>10. InType(c) => \A k \in 1 .. Len(s) : s[k] \in 0 .. 2 ^ CharBits - 1 /\ s[k] \in Nat
  BY <1>2, <1>6 DEF Ascii
<1>11. /\ all.ok => all.bits \in Seq(Bit)
       /\ all.ok /\ Agrees(w, 0, all.bits) => Decode(c, w) = Answer(w, Len(all.bits), Meaning(c))
  <2> HIDE DEF written
  <2> QED BY <1>5, <1>7, <1>8, <1>9, <1>10 DEF AllCarried
<1> HIDE DEF all
<1> QED BY <1>1, <1>4, <1>9, <1>11, StringCarries

(* UTCTime and SEQUENCE OF: a length one determinant stands for. *)
LEMMA UnsizedCarries ==
  ASSUME NEW c, IsCall(c), c.op = "unsized", NEW w \in Seq(Bit)
  PROVE  Carries(c, w)
<1> DEFINE s == c.held
           before == WriteLengthDeterminant(Len(s))
           all == WriteAll(before, s, CharBits, Nat)
           n == Answer(w, Len(before.bits), Len(s))
<1>1. ~IsNumber(c)
  BY DEF IsNumber, NumberOps
<1>2. s \in Seq(Nat) /\ c.len \in Nat /\ Len(s) = c.len
  BY <1>1, StringParts
<1>3. CharBits \in Nat
  <2>1. W \in Nat /\ CharBits \in 1 .. W - 1
    BY Widths, StringAssumption
  <2> QED BY <2>1
<1>4. Encode(c) = all
  BY DEF Encode, WriteUnsized
<1>5. Decode(c, w) = ReadAll(w, ReadLengthDeterminant(w, 0), CharBits, Nat)
  BY DEF Decode, ReadUnsized
<1>6. InType(c)
  BY DEF InType, Sized
<1>7. Meaning(c) = s
  BY <1>1, <1>2, MeaningHeld
<1>8. Carried(c) => OneDeterminant(c.len) /\ \A k \in 1 .. c.len : s[k] \in Ascii
  BY DEF Carried
<1>9. /\ before.ok /\ before.bits \in Seq(Bit)
      /\ Agrees(w, 0, before.bits) =>
           ReadLengthDeterminant(w, 0) = Answer(w, Len(before.bits), Announced(Len(s)))
  <2>1. LengthRead(w, 0, Len(s))
    BY <1>2, ReadLength
  <2>2. /\ before = Encoded(before.bits) /\ before.bits \in Seq(Bit)
        /\ Agrees(w, 0, before.bits) =>
             ReadLengthDeterminant(w, 0) = Answer(w, 0 + Len(before.bits), Announced(Len(s)))
    BY <2>1 DEF LengthRead
  <2> HIDE DEF before
  <2>3. before.ok
    BY <2>2 DEF Encoded
  <2>4. 0 + Len(before.bits) = Len(before.bits)
    BY <2>2
  <2> QED BY <2>2, <2>3, <2>4
<1>10. AllCarried(w, before, s, CharBits, Nat, n, Nat)
  <2> HIDE DEF before
  <2> QED BY <1>2, <1>3, <1>9, CarryAll
<1>11. \A k \in 1 .. Len(s) : s[k] \in Nat
  BY <1>2
<1> HIDE DEF before, n
<1>12. all.ok /\ all.bits \in Seq(Bit)
  BY <1>9, <1>10, <1>11 DEF AllCarried
<1>13. ASSUME Carried(c), Agrees(w, 0, all.bits)
       PROVE  Decode(c, w) = Answer(w, Len(all.bits), Meaning(c))
  <2>1. \A k \in 1 .. Len(s) : s[k] \in 0 .. 2 ^ CharBits - 1
    BY <1>2, <1>8, <1>13 DEF Ascii
  <2>2. ReadAll(w, n, CharBits, Nat) = Answer(w, Len(all.bits), s)
    BY <1>10, <1>11, <1>12, <1>13, <2>1 DEF AllCarried
  <2>3. Agrees(w, 0, before.bits)
    <3> DEFINE f == Fields(s, CharBits)
               b == before.bits
    <3>1. f \in Seq(Bit) /\ b \in Seq(Bit)
      BY <1>2, <1>3, <1>9, FieldsType
    <3>2. all.bits = b \o f
      BY <1>9, <1>11 DEF WriteAll, Encoded
    <3> HIDE DEF f, b, all
    <3>3. 0 \in Nat /\ Agrees(w, 0, b \o f)
      BY <1>13, <3>2
    <3>4. Agrees(w, 0, b)
      BY <3>1, <3>3, AgreesJoined
    <3> QED BY <3>4 DEF b
  <2>4. ReadLengthDeterminant(w, 0) = n
    <3>1. Announced(Len(s)) = Len(s)
      BY <1>2, <1>8, <1>13, OneDeterminantAnnounced
    <3> QED BY <1>9, <2>3, <3>1 DEF n
  <2> QED BY <1>5, <1>7, <2>2, <2>4
<1> HIDE DEF all
<1> QED BY <1>1, <1>4, <1>6, <1>12, <1>13, StringCarries

(* A VisibleString: what is written of a character is its place. *)
LEMMA VisibleCarries ==
  ASSUME NEW c, IsCall(c), c.op = "visible", NEW w \in Seq(Bit)
  PROVE  Carries(c, w)
<1> DEFINE s == c.held
           X == Permitted(c.from)
           a == BuildAlphabet(X)
           width == BitsNeeded(Cardinality(X))
           places == [k \in 1 .. Len(s) |-> PlaceOf(X, s[k])]
           all == WriteAll(WriteSize(Len(s), c.lb, c.ub), places, width, Nat)
           n == ReadSize(w, c.lb, c.ub)
           found == ReadAll(w, n, width, 0 .. Len(a) - 1)
           Inside == \A k \in 1 .. Len(s) : s[k] \in X
<1>1. ~IsNumber(c)
  BY DEF IsNumber, NumberOps
<1>2. /\ s \in Seq(Nat) /\ c.len \in Nat /\ IsBound(c.lb) /\ IsBound(c.ub) /\ Len(s) = c.len
      /\ c.from \subseteq Nat /\ c.from \subseteq Signed
  BY <1>1, StringParts
<1>3. /\ X \subseteq Nat /\ IsFiniteSet(X) /\ Cardinality(X) \in Nat /\ width \in Nat
      /\ Cardinality(X) <= 2 ^ width
  BY <1>2, PermittedIs
<1> HIDE DEF X
<1>4. IsAlphabet(X, a)
  BY <1>3, AlphabetIs
<1>5. 2 ^ width \in Nat /\ Len(a) = Cardinality(X) /\ Len(a) \in Nat
  BY <1>3, <1>4, PowerType DEF IsAlphabet
<1> HIDE DEF width, a
<1>6. Encode(c) = IF Inside THEN all ELSE Refused
  <2>1. Encode(c) = WriteVisibleString(c.held, c.from, c.lb, c.ub)
    BY DEF Encode
  <2> QED BY <2>1, Zenon DEF WriteVisibleString, X, width
<1>7. Decode(c, w) =
        IF found.status # "ok" THEN found
        ELSE [found EXCEPT !.value = [k \in 1 .. Len(found.value) |-> a[found.value[k] + 1]]]
  <2>1. Decode(c, w) = ReadVisibleString(w, c.from, c.lb, c.ub)
    BY DEF Decode
  <2>2. BitsNeeded(Len(BuildAlphabet(X))) = width
    BY <1>5 DEF width, a
  <2> QED BY <2>1, <2>2 DEF ReadVisibleString, X, a
<1>8. InType(c) <=> /\ c.lb <= c.len /\ c.len <= c.ub
                    /\ \A k \in 1 .. c.len : s[k] \in X
  BY DEF InType, Sized, Allowed, Permitted, X
<1>9. Meaning(c) = s
  BY <1>1, <1>2, MeaningHeld
<1>10. CASE ~Inside
  <2>1. Encode(c) = Refused /\ ~InType(c)
    BY <1>2, <1>6, <1>8, <1>10
  <2>2. ~Encode(c).ok
    BY <2>1 DEF Refused
  <2> QED BY <1>1, <2>1, <2>2, StringCarries
<1>11. CASE Inside
  <2>1. /\ places \in Seq(Nat) /\ Len(places) = Len(s)
        /\ \A k \in 1 .. Len(s) : /\ places[k] \in 0 .. Len(a) - 1 /\ places[k] \in 0 .. 2 ^ width - 1
                                  /\ places[k] \in Nat /\ a[places[k] + 1] = s[k]
    <3>1. ASSUME NEW k \in 1 .. Len(s)
          PROVE  /\ places[k] \in 0 .. Len(a) - 1 /\ places[k] \in 0 .. 2 ^ width - 1
                 /\ places[k] \in Nat /\ a[places[k] + 1] = s[k]
      <4>1. places[k] = PlaceOf(X, s[k]) /\ s[k] \in X
        BY <1>11
      <4>2. PlaceOf(X, s[k]) \in 0 .. Len(a) - 1 /\ a[PlaceOf(X, s[k]) + 1] = s[k]
        BY <1>4, <4>1 DEF IsAlphabet
      <4> HIDE DEF places
      <4> QED BY <1>3, <1>5, <4>1, <4>2
    <3>2. Len(s) \in Nat /\ places = [k \in 1 .. Len(s) |-> places[k]]
      BY <1>2
    <3> HIDE DEF places
    <3>3. \A k \in 1 .. Len(s) : places[k] \in Nat
      BY <3>1
    <3>4. places \in Seq(Nat) /\ Len(places) = Len(s)
      BY <3>2, <3>3
    <3> QED BY <3>1, <3>4
  <2> HIDE DEF places
  <2>2. AllCarried(w, WriteSize(Len(s), c.lb, c.ub), places, width, Nat, n, 0 .. Len(a) - 1)
    <3>1. AllCarried(w, WriteSize(Len(places), c.lb, c.ub), places, width, Nat,
                     ReadSize(w, c.lb, c.ub), 0 .. Len(a) - 1)
      BY <1>2, <1>3, <2>1, CarrySized
    <3> QED BY <2>1, <3>1
  <2>3. Encode(c) = all
    BY <1>6, <1>11
  <2>4. WriteSize(Len(s), c.lb, c.ub).ok <=> c.lb <= c.len /\ c.len <= c.ub
    BY <1>2, SizeOk
  <2> HIDE DEF n
  <2>5. all.ok <=> InType(c)
    BY <1>2, <1>8, <1>11, <2>1, <2>2, <2>4 DEF AllCarried
  <2>6. /\ all.ok => all.bits \in Seq(Bit)
        /\ all.ok /\ Agrees(w, 0, all.bits) => found = Answer(w, Len(all.bits), places)
    BY <2>1, <2>2 DEF AllCarried
  <2> HIDE DEF all, found
  <2>7. ASSUME all.ok, Agrees(w, 0, all.bits)
        PROVE  Decode(c, w) = Answer(w, Len(all.bits), s)
    <3> DEFINE to == Len(all.bits)
    <3>1. CASE to <= Len(w)
      <4>1. found = Decoded(places, to)
        BY <2>6, <2>7, <3>1 DEF Answer
      <4>2. found.status = "ok" /\ found.value = places
        BY <4>1 DEF Decoded
      <4>3. [k \in 1 .. Len(found.value) |-> a[found.value[k] + 1]] = s
        <5>1. [k \in 1 .. Len(found.value) |-> a[found.value[k] + 1]] = [k \in 1 .. Len(s) |-> s[k]]
          BY <2>1, <4>2
        <5>2. [k \in 1 .. Len(s) |-> s[k]] = s
          BY <1>2, SeqIs
        <5> QED BY <5>1, <5>2
      <4>4. Decode(c, w) = [found EXCEPT !.value = s]
        BY <1>7, <4>2, <4>3
      <4>5. [Decoded(places, to) EXCEPT !.value = s] = Decoded(s, to)
        BY DEF Decoded
      <4> QED BY <3>1, <4>1, <4>4, <4>5 DEF Answer
    <3>2. CASE ~(to <= Len(w))
      <4>1. found = Failed("eof") /\ found.status # "ok"
        BY <2>6, <2>7, <3>2 DEF Answer, Failed
      <4> QED BY <1>7, <3>2, <4>1 DEF Answer
    <3> QED BY <3>1, <3>2
  <2> QED BY <1>1, <1>9, <2>3, <2>5, <2>6, <2>7, StringCarries
<1> QED BY <1>10, <1>11

-----------------------------------------------------------------------------
(* BIT STRINGs: of variable size, and of a fixed one, made longer or cut.  *)
LEMMA WholeOctets ==
  ASSUME NEW n \in Nat
  PROVE  ((n + B - 1) \div B) * B \in Nat /\ n <= ((n + B - 1) \div B) * B
<1> DEFINE v == n + B - 1
           q == v \div B
<1>1. B \in Nat \ {0} /\ v \in Int /\ v >= 0
  BY Widths
<1>2. Divides(v, B)
  BY <1>1, Division
<1>3. q \in Nat /\ v % B \in 0 .. B - 1 /\ v = B * q + (v % B)
  BY <1>1, <1>2 DEF Divides
<1> HIDE DEF q
<1>4. B * q = q * B /\ q * B \in Nat
  BY <1>1, <1>3
<1> DEFINE p == q * B
           r == v % B
<1>5. p \in Nat /\ n + B - 1 = p + r /\ r <= B - 1 /\ r \in Nat
  BY <1>1, <1>3, <1>4
<1> HIDE DEF p, r
<1>6. n <= p
  BY <1>1, <1>5
<1> QED BY <1>5, <1>6 DEF p, q

(* A function on 1 .. n with bits as values is a sequence of n bits. *)
LEMMA FunctionIsSeq ==
  ASSUME NEW n \in Nat, NEW p, p = [k \in 1 .. n |-> p[k]], \A k \in 1 .. n : p[k] \in Bit
  PROVE  p \in Seq(Bit) /\ Len(p) = n
OBVIOUS

(* BIT STRING of a size between bounds, *)
LEMMA BitsVary ==
  ASSUME NEW c, IsCall(c), c.op = "bits", c.lb # c.ub, NEW w \in Seq(Bit)
  PROVE  Carries(c, w)
<1> DEFINE one == 1
           p == [k \in 1 .. c.len |-> GetBit(c.held, c.len, k - 1)]
           all == WriteAll(WriteSize(c.len, c.lb, c.ub), p, one, Nat)
           n == ReadSize(w, c.lb, c.ub)
<1>1. ~IsNumber(c)
  BY DEF IsNumber, NumberOps
<1>2. /\ c.held \in Seq(Nat) /\ c.len \in Nat /\ IsBound(c.lb) /\ IsBound(c.ub)
      /\ Len(c.held) = ((c.len + B - 1) \div B) * B
      /\ \A k \in 1 .. Len(c.held) : c.held[k] \in {0, 1}
  BY <1>1, StringParts
<1>3. c.len <= Len(c.held)
  BY <1>2, WholeOctets
<1>4. \A k \in 1 .. c.len : p[k] = c.held[k] /\ p[k] \in Bit
  <2> TAKE k \in 1 .. c.len
  <2>1. ~(k - 1 >= c.len) /\ (k - 1) + 1 = k /\ k \in 1 .. Len(c.held)
    BY <1>2, <1>3
  <2>2. p[k] = GetBit(c.held, c.len, k - 1)
    OBVIOUS
  <2>3. GetBit(c.held, c.len, k - 1) = c.held[k]
    BY <2>1 DEF GetBit
  <2> QED BY <1>2, <2>1, <2>2, <2>3 DEF Bit
<1>5. Encode(c) = all
  <2>1. Encode(c) = WriteBitString(c.held, c.len, c.lb, c.ub)
    BY DEF Encode
  <2> QED BY <2>1 DEF WriteBitString
<1>6. Decode(c, w) = ReadAll(w, n, one, Nat)
  <2>1. Decode(c, w) = ReadBitString(w, c.lb, c.ub)
    BY DEF Decode
  <2> QED BY <2>1 DEF ReadBitString
<1>7. one \in Nat /\ one = 1
  OBVIOUS
<1>8. InType(c) <=> c.lb <= c.len /\ c.len <= c.ub
  BY DEF InType, Sized
<1>9. Meaning(c) = p
  <2>1. Meaning(c) = [k \in 1 .. c.len |-> IF k <= c.len THEN c.held[k] ELSE 0]
    BY <1>1 DEF Meaning
  <2>2. [k \in 1 .. c.len |-> IF k <= c.len THEN c.held[k] ELSE 0] = [k \in 1 .. c.len |-> c.held[k]]
    BY <1>2
  <2>3. p = [k \in 1 .. c.len |-> c.held[k]]
    BY <1>4
  <2> QED BY <2>1, <2>2, <2>3
<1>10. p \in Seq(Bit) /\ Len(p) = c.len
  <2>1. p = [k \in 1 .. c.len |-> p[k]]
    OBVIOUS
  <2>2. \A k \in 1 .. c.len : p[k] \in Bit
    BY <1>4
  <2>3. c.len \in Nat
    BY <1>2
  <2> HIDE DEF p
  <2> QED BY <2>1, <2>2, <2>3, FunctionIsSeq
<1> HIDE DEF p, one
<1>11. /\ p \in Seq(Nat)
       /\ \A k \in 1 .. Len(p) : p[k] \in Nat /\ p[k] \in 0 .. 2 ^ one - 1
  <2>1. p \in Seq(Nat)
    BY <1>10 DEF Bit
  <2>2. \A b \in Bit : b \in 0 .. 2 ^ one - 1 /\ b \in Nat
    BY <1>7, BitField DEF Bit
  <2> QED BY <1>4, <1>10, <2>1, <2>2
<1>12. AllCarried(w, WriteSize(c.len, c.lb, c.ub), p, one, Nat, n, Nat)
  <2>1. AllCarried(w, WriteSize(Len(p), c.lb, c.ub), p, one, Nat, ReadSize(w, c.lb, c.ub), Nat)
    BY <1>2, <1>7, <1>11, CarrySized
  <2> QED BY <1>10, <2>1
<1> HIDE DEF n
<1>13. all.ok <=> InType(c)
  <2>1. WriteSize(c.len, c.lb, c.ub).ok <=> c.lb <= c.len /\ c.len <= c.ub
    BY <1>2, SizeOk
  <2> QED BY <1>8, <1>11, <1>12, <2>1 DEF AllCarried
<1>14. /\ all.ok => all.bits \in Seq(Bit)
       /\ all.ok /\ Agrees(w, 0, all.bits) => Decode(c, w) = Answer(w, Len(all.bits), Meaning(c))
  BY <1>6, <1>9, <1>11, <1>12 DEF AllCarried
<1> HIDE DEF all
<1> QED BY <1>1, <1>5, <1>13, <1>14, StringCarries

(* The bits of a fixed number that are read are those that stand there. *)
LEMMA ReadBitsThere ==
  ASSUME NEW w \in Seq(Bit), NEW p \in Seq(Bit), NEW n, n = Decoded(Len(p), 0),
         Agrees(w, 0, p), NEW one, one = 1
  PROVE  ReadAll(w, n, one, Nat) = Answer(w, Len(p), p)
<1> DEFINE m == Len(p)
           at == 0
           any == Nat
<1>1. m \in Nat /\ m * one = m /\ at \in Nat /\ at + m * one = m /\ one \in Nat
  OBVIOUS
<1>2. Fields(p, one) = p
  BY FieldsOfBits
<1>3. n = Answer(w, at, m)
  BY DEF Answer
<1>4. p \in Seq(Nat) /\ \A k \in 1 .. Len(p) : p[k] \in 0 .. 2 ^ one - 1 /\ p[k] \in Nat
  <2>1. \A b \in Bit : b \in 0 .. 2 ^ one - 1 /\ b \in Nat
    BY BitField DEF Bit
  <2>2. p \in Seq(Nat) /\ \A k \in 1 .. Len(p) : p[k] \in Bit
    BY DEF Bit
  <2> QED BY <2>1, <2>2
<1>5. Agrees(w, at, Fields(p, one))
  BY <1>2
<1>6. at \in Nat /\ one \in Nat /\ Len(p) = m
  BY <1>1
<1>7. n = Answer(w, at, Len(p))
  BY <1>3
<1> HIDE DEF at, any
<1>8. ReadAll(w, n, one, any) = Answer(w, at + Len(p) * one, p)
  <2>1. p \in Seq(Nat)
    BY <1>4
  <2>2. \A k \in 1 .. Len(p) : p[k] \in 0 .. 2 ^ one - 1 /\ p[k] \in any
    BY <1>4 DEF any
  <2>3. SUFFICES ASSUME NEW q, q = at, NEW l, l = any, NEW r, r = one
                 PROVE  ReadAll(w, n, r, l) = Answer(w, q + Len(p) * r, p)
    OBVIOUS
  <2>4. /\ q \in Nat /\ r \in Nat
        /\ Agrees(w, q, Fields(p, r)) /\ n = Answer(w, q, Len(p))
        /\ \A k \in 1 .. Len(p) : p[k] \in 0 .. 2 ^ r - 1 /\ p[k] \in l
    BY <1>5, <1>6, <1>7, <2>2, <2>3
  <2> QED BY ONLY w \in Seq(Bit), <2>1, <2>4, ReadAllWritten
<1>9. at + Len(p) * one = Len(p)
  BY <1>1, <1>6
<1> QED BY <1>8, <1>9 DEF any

(* and of a fixed one: made longer or cut. *)
LEMMA BitsFixed ==
  ASSUME NEW c, IsCall(c), c.op = "bits", c.lb = c.ub, NEW w \in Seq(Bit)
  PROVE  Carries(c, w)
<1> DEFINE one == 1
           long == IF c.len < c.lb THEN NewBitString(c.held, c.lb) ELSE c.held
           m == IF c.len < c.lb THEN c.lb ELSE c.len
           p == [k \in 1 .. c.lb |-> GetBit(long, m, k - 1)]
           all == Encoded(p)
<1>1. ~IsNumber(c)
  BY DEF IsNumber, NumberOps
<1>2. /\ c.held \in Seq(Nat) /\ c.len \in Nat /\ IsBound(c.lb) /\ c.lb \in Nat
      /\ Len(c.held) = ((c.len + B - 1) \div B) * B
      /\ \A k \in 1 .. Len(c.held) : c.held[k] \in {0, 1}
  BY <1>1, StringParts, BoundIs
<1>3. c.len <= Len(c.held) /\ Len(c.held) \in Nat
  BY <1>2, WholeOctets
<1>4. \A k \in 1 .. c.lb : p[k] = IF k <= Len(c.held) THEN c.held[k] ELSE 0
  <2> TAKE k \in 1 .. c.lb
  <2>1. p[k] = long[k]
    <3>1. ~(k - 1 >= m) /\ (k - 1) + 1 = k
      BY <1>2
    <3>2. p[k] = GetBit(long, m, k - 1)
      OBVIOUS
    <3> HIDE DEF long, m, p
    <3> QED BY <3>1, <3>2 DEF GetBit
  <2>2. CASE c.len < c.lb
    <3> DEFINE t == ((c.lb + B - 1) \div B) * B
    <3>1. t \in Nat /\ c.lb <= t
      BY <1>2, WholeOctets
    <3>2. long = [j \in 1 .. t |-> IF j <= Len(c.held) THEN c.held[j] ELSE 0]
      BY <2>2 DEF NewBitString
    <3> HIDE DEF t, long, p
    <3>3. k \in 1 .. t
      BY <1>2, <3>1
    <3> QED BY <2>1, <3>2, <3>3
  <2>3. CASE ~(c.len < c.lb)
    <3>1. long = c.held /\ k <= Len(c.held)
      BY <1>2, <1>3, <2>3
    <3> HIDE DEF long, p
    <3> QED BY <2>1, <3>1
  <2> QED BY <2>2, <2>3
<1>5. Encode(c) = all
  <2>1. Encode(c) = WriteBitString(c.held, c.len, c.lb, c.ub)
    BY DEF Encode
  <2> QED BY <2>1 DEF WriteBitString
<1>6. p \in Seq(Bit) /\ Len(p) = c.lb
  <2>1. p = [k \in 1 .. c.lb |-> p[k]]
    OBVIOUS
  <2> HIDE DEF p
  <2>2. \A k \in 1 .. c.lb : p[k] \in Bit
    BY <1>2, <1>3, <1>4 DEF Bit
  <2>3. c.lb \in Nat
    BY <1>2
  <2> QED BY <2>1, <2>2, <2>3, FunctionIsSeq
<1>7. Carried(c) => p = Meaning(c)
  <2> SUFFICES ASSUME Carried(c) PROVE p = Meaning(c)
    OBVIOUS
  <2>1. \A k \in c.len + 1 .. Len(c.held) : c.held[k] = 0
    BY DEF Carried
  <2>2. Meaning(c) = [k \in 1 .. c.lb |-> IF k <= c.len THEN c.held[k] ELSE 0]
    BY <1>1 DEF Meaning
  <2>3. p = [k \in 1 .. c.lb |-> p[k]]
    OBVIOUS
  <2>4. \A k \in 1 .. c.lb : p[k] = IF k <= c.len THEN c.held[k] ELSE 0
    <3> HIDE DEF p
    <3> QED BY <1>2, <1>3, <1>4, <2>1
  <2> HIDE DEF p
  <2> QED BY <2>2, <2>3, <2>4
<1>8. Decode(c, w) = ReadAll(w, ReadSize(w, c.lb, c.ub), one, Nat)
  <2>1. Decode(c, w) = ReadBitString(w, c.lb, c.ub)
    BY DEF Decode
  <2> QED BY <2>1 DEF ReadBitString
<1>9. ReadSize(w, c.lb, c.ub) = Decoded(c.lb, 0)
  BY DEF ReadSize
<1>10. InType(c)
  BY DEF InType, Sized
<1>11. one = 1
  OBVIOUS
<1> HIDE DEF one, p
<1>12. all.ok /\ all.bits = p
  BY DEF Encoded
<1>13. Agrees(w, 0, p) => Decode(c, w) = Answer(w, Len(p), p)
  BY <1>6, <1>8, <1>9, <1>11, ReadBitsThere
<1> HIDE DEF all
<1>14. Carried(c) /\ Agrees(w, 0, all.bits) => Decode(c, w) = Answer(w, Len(all.bits), Meaning(c))
  BY <1>7, <1>12, <1>13
<1> QED BY <1>1, <1>5, <1>6, <1>10, <1>12, <1>14, StringCarries

(* Every call. *)
LEMMA CallCarries ==
  ASSUME NEW c, IsCall(c), NEW w \in Seq(Bit)
  PROVE  Carries(c, w)
<1>1. c.op \in NumberOps \/ c.op \in {"bits", "octets", "ia5", "visible", "list", "unsized"}
  BY DEF IsCall, IsNumber, String
<1>2. CASE c.op = "constrained"
  BY <1>2, ConstrainedCarries
<1>3. CASE c.op = "semi"
  BY <1>3, SemiCarries
<1>4. CASE c.op = "small"
  BY <1>4, SmallCarries
<1>5. CASE c.op = "length"
  BY <1>5, LengthCarries
<1>6. CASE c.op = "bits"
  BY <1>6, BitsVary, BitsFixed
<1>7. CASE c.op = "octets"
  BY <1>7, OctetsCarries
<1>8. CASE c.op \in {"ia5", "list"}
  BY <1>8, CharactersCarry
<1>9. CASE c.op = "visible"
  BY <1>9, VisibleCarries
<1>10. CASE c.op = "unsized"
  BY <1>10, UnsizedCarries
<1> QED BY <1>1, <1>2, <1>3, <1>4, <1>5, <1>6, <1>7, <1>8, <1>9, <1>10 DEF NumberOps

(***************************************************************************)
(* Whatever the bits: what a decoder accepts is of the kind its type says, *)
(* and the encoder writes it as the bits it was read from.                 *)
(***************************************************************************)
Kind(c) ==
  CASE c.op \in {"constrained", "semi"} -> Signed
    [] c.op = "small"                   -> Signed \cap Nat
    [] c.op = "length"                  -> Nat
    [] OTHER                            -> Seq(Nat)

(* The call that writes a string that was read. *)
Held(c, value)  == IF c.op = "bits" THEN NewBitString(value, Len(value)) ELSE value
Again(c, value) == [c EXCEPT !.held = Held(c, value), !.len = Len(value)]

Proper(c, w) ==
  LET r == Decode(c, w)
  IN  /\ Sound(r, w, Kind(c))
      /\ r.status = "ok" /\ c.op = "visible" =>
           \A k \in 1 .. Len(r.value) : r.value[k] \in Allowed(c)
      /\ r.status = "ok" /\ ~IsNumber(c) /\ c.op # "unsized" /\ Len(r.value) <= c.ub =>
           Encode(Again(c, r.value)) = Encoded(SubSeq(w, 1, r.used))

(* A number that is read is in the range of its kind. *)
LEMMA NumberProper ==
  ASSUME NEW c, IsCall(c), IsNumber(c), NEW w \in Seq(Bit)
  PROVE  Proper(c, w)
<1>1. c.op # "visible" /\ c.op \in NumberOps
  BY DEF IsNumber, NumberOps
<1>2. InMachine(c)
  BY DEF IsCall
<1>3. Sound(Decode(c, w), w, Kind(c))
  <2>1. CASE c.op = "constrained"
    <3>1. c.lb \in Signed /\ c.ub \in Signed
      BY <1>2, <2>1 DEF InMachine
    <3>2. Decode(c, w) = ReadConstrainedInt(w, c.lb, c.ub) /\ Kind(c) = Signed
      BY <2>1 DEF Decode, Kind
    <3> QED BY <3>1, <3>2, SoundConstrained
  <2>2. CASE c.op = "semi"
    <3> DEFINE z == 0
    <3>1. c.lb \in Signed /\ z \in Nat
      BY <1>2, <2>2 DEF InMachine
    <3>2. Decode(c, w) = ReadSemiConstrainedInt(w, z, c.lb) /\ Kind(c) = Signed
      BY <2>2 DEF Decode, Kind
    <3> HIDE DEF z
    <3> QED BY <3>1, <3>2, SoundSemi
  <2>3. CASE c.op = "small"
    <3>1. Decode(c, w) = ReadNormallySmall(w) /\ Kind(c) = Signed \cap Nat
      BY <2>3 DEF Decode, Kind
    <3> QED BY <3>1, SoundSmall
  <2>4. CASE c.op = "length"
    <3> DEFINE z == 0
    <3>1. z \in Nat
      OBVIOUS
    <3>2. Decode(c, w) = ReadLengthDeterminant(w, z) /\ Kind(c) = Nat
      BY <2>4 DEF Decode, Kind
    <3> HIDE DEF z
    <3> QED BY <3>1, <3>2, SoundLength
  <2> QED BY <1>1, <2>1, <2>2, <2>3, <2>4 DEF NumberOps
<1> QED BY <1>1, <1>3 DEF Proper

(* An answer with elements is a record of a decoder. *)
LEMMA ReadAllShape ==
  ASSUME NEW w, NEW n, NEW width, NEW legal, NEW r, r = ReadAll(w, n, width, legal),
         n.status = "ok" => n.value \in Nat, r.status = "ok"
  PROVE  n.status = "ok" /\ r = Decoded(r.value, r.used)
<1>1. n.status = "ok"
  BY ReadAllCases
<1>2. CASE \A k \in 1 .. n.value : Legal(ElementAt(w, n, width, k), legal)
  <2>1. r = AllRead(w, n, width)
    BY <1>1, <1>2, ReadAllCases
  <2>2. PICK v, u : AllRead(w, n, width) = Decoded(v, u)
    BY DEF AllRead
  <2> QED BY <1>1, <2>1, <2>2 DEF Decoded
<1>3. CASE \E k \in 1 .. n.value : ~Legal(ElementAt(w, n, width, k), legal)
  <2>1. PICK k \in 1 .. n.value : StoppedAt(w, n, width, legal, k)
    BY <1>1, <1>3, ReadAllCases
  <2> QED BY <2>1 DEF StoppedAt, Failed
<1> QED BY <1>2, <1>3

(* The elements that were read after a size are written as they stood.     *)
Rewrites(w, lb, ub, width, legal, written) ==
  LET r == ReadAll(w, ReadSize(w, lb, ub), width, legal)
  IN  r.status = "ok" /\ Len(r.value) <= ub /\ (\A k \in 1 .. Len(r.value) : r.value[k] \in written) =>
        WriteAll(WriteSize(Len(r.value), lb, ub), r.value, width, written)
          = Encoded(SubSeq(w, 1, r.used))

(* Every element ReadAll accepts is written again as the bits it came from. *)
LEMMA WrittenAgain ==
  ASSUME NEW w \in Seq(Bit), NEW lb, NEW ub, IsBound(lb), IsBound(ub), NEW width \in Nat,
         NEW legal, NEW written
  PROVE  Rewrites(w, lb, ub, width, legal, written)
<1> DEFINE r == ReadAll(w, ReadSize(w, lb, ub), width, legal)
<1> SUFFICES ASSUME r.status = "ok", Len(r.value) <= ub,
                    \A k \in 1 .. Len(r.value) : r.value[k] \in written
             PROVE  WriteAll(WriteSize(Len(r.value), lb, ub), r.value, width, written)
                      = Encoded(SubSeq(w, 1, r.used))
  BY DEF Rewrites
<1> DEFINE n == ReadSize(w, lb, ub)
           before == WriteSize(Len(r.value), lb, ub)
           first  == SubSeq(w, 1, n.used)
<1>1. Sound(n, w, Nat) /\ ReadsSize(w, lb, ub)
  BY SizeAny
<1>2. ReadElements(w, n, width, legal)
  BY <1>1, ReadAllAny
<1>3. /\ n.status = "ok" /\ Len(r.value) = n.value
      /\ SubSeq(w, 1, r.used) = first \o Fields(r.value, width)
  BY <1>2 DEF ReadElements
<1>4. before = Encoded(first)
  BY <1>1, <1>3 DEF ReadsSize
<1> HIDE DEF n, before, first, r
<1>5. before.ok /\ before.bits = first
  BY <1>4 DEF Encoded
<1>6. WriteAll(before, r.value, width, written) = Encoded(SubSeq(w, 1, r.used))
  BY <1>3, <1>5, Zenon DEF WriteAll
<1> QED BY <1>6 DEF before

(* OCTET STRING, IA5String and SEQUENCE OF with a size. *)
LEMMA SizedProper ==
  ASSUME NEW c, IsCall(c), c.op \in {"octets", "ia5", "list"}, NEW w \in Seq(Bit)
  PROVE  Proper(c, w)
<1> DEFINE width == IF c.op = "octets" THEN B ELSE CharBits
           written == IF c.op = "ia5" THEN Ascii ELSE Nat
           any == Nat
           n == ReadSize(w, c.lb, c.ub)
           r == Decode(c, w)
           again == Again(c, r.value)
<1>1. ~IsNumber(c) /\ c.op # "visible" /\ c.op # "bits" /\ Kind(c) = Seq(Nat)
  BY DEF IsNumber, NumberOps, Kind
<1>2. IsBound(c.lb) /\ IsBound(c.ub) /\ c \in String
  BY <1>1, StringParts
<1>3. width \in Nat
  BY WidthAssumption, StringAssumption
<1>4. r = ReadAll(w, n, width, any)
  BY DEF Decode, ReadOctetString, ReadIA5String
<1>5. Encode(again) = WriteAll(WriteSize(Len(r.value), c.lb, c.ub), r.value, width, written)
  <2> HIDE DEF r
  <2>1. /\ again.op = c.op /\ again.held = r.value /\ again.len = Len(r.value)
        /\ again.lb = c.lb /\ again.ub = c.ub
    BY <1>1, <1>2 DEF Again, Held, String
  <2> HIDE DEF again
  <2> QED BY <2>1 DEF Encode, WriteOctetString, WriteIA5String
<1>6. Sound(n, w, Nat)
  BY <1>2, SizeAny
<1>7. c.op = "ia5" => 2 ^ width - 1 = 2 ^ CharBits - 1
  OBVIOUS
<1> HIDE DEF n, r, width, written, any
<1>8. Sound(r, w, Seq(Nat)) /\ ReadElements(w, n, width, any)
  BY <1>3, <1>4, <1>6, ReadAllAny
<1>9. ASSUME r.status = "ok", Len(r.value) <= c.ub
      PROVE  Encode(again) = Encoded(SubSeq(w, 1, r.used))
  <2>1. /\ Len(r.value) = n.value
        /\ \A k \in 1 .. n.value : r.value[k] \in any /\ r.value[k] \in 0 .. 2 ^ width - 1
    BY <1>4, <1>8, <1>9 DEF ReadElements
  <2>2. \A k \in 1 .. Len(r.value) : r.value[k] \in written
    BY <1>7, <2>1 DEF written, any, Ascii
  <2>3. r = ReadAll(w, ReadSize(w, c.lb, c.ub), width, any)
    BY <1>4 DEF n
  <2>4. WriteAll(WriteSize(Len(r.value), c.lb, c.ub), r.value, width, written)
          = Encoded(SubSeq(w, 1, r.used))
    <3>1. Rewrites(w, c.lb, c.ub, width, any, written)
      BY <1>2, <1>3, WrittenAgain
    <3> QED BY <1>9, <2>2, <2>3, <3>1 DEF Rewrites
  <2> QED BY <1>5, <2>4
<1> QED BY <1>1, <1>8, <1>9 DEF Proper, r

(* UTCTime and SEQUENCE OF without a size. *)
LEMMA UnsizedProper ==
  ASSUME NEW c, IsCall(c), c.op = "unsized", NEW w \in Seq(Bit)
  PROVE  Proper(c, w)
<1> DEFINE any == Nat
           z == 0
           n == ReadLengthDeterminant(w, z)
<1>1. c.op # "visible" /\ Kind(c) = Seq(Nat)
  BY DEF Kind
<1>2. Decode(c, w) = ReadAll(w, n, CharBits, any)
  BY DEF Decode, ReadUnsized
<1>3. CharBits \in Nat /\ z \in Nat
  BY WidthAssumption, StringAssumption
<1> HIDE DEF any, z
<1>4. Sound(n, w, Nat)
  BY <1>3, SoundLength
<1> HIDE DEF n
<1>5. Sound(Decode(c, w), w, Seq(Nat))
  BY <1>2, <1>3, <1>4, ReadAllAny
<1> QED BY <1>1, <1>5 DEF Proper

(* NewBitString of bits that were read holds them. *)
LEMMA HeldBits ==
  ASSUME NEW v \in Seq(Nat), NEW n, n = Len(v)
  PROVE  [k \in 1 .. n |-> GetBit(NewBitString(v, n), n, k - 1)] = v
<1> DEFINE t == ((n + B - 1) \div B) * B
           held == NewBitString(v, n)
<1>1. n \in Nat /\ t \in Nat /\ n <= t
  BY WholeOctets
<1>2. held = [k \in 1 .. t |-> IF k <= Len(v) THEN v[k] ELSE 0]
  BY DEF NewBitString
<1> HIDE DEF held, t
<1>3. ASSUME NEW k \in 1 .. n
      PROVE  GetBit(held, n, k - 1) = v[k]
  <2>1. k \in 1 .. t /\ ~(k - 1 >= n) /\ (k - 1) + 1 = k /\ k <= Len(v)
    BY <1>1
  <2>2. held[k] = v[k]
    BY <1>2, <2>1
  <2> QED BY <2>1, <2>2 DEF GetBit
<1>4. [k \in 1 .. n |-> GetBit(held, n, k - 1)] = [k \in 1 .. Len(v) |-> v[k]]
  BY <1>3
<1> QED BY <1>4, SeqIs DEF held

(* BIT STRING. *)
LEMMA BitsProper ==
  ASSUME NEW c, IsCall(c), c.op = "bits", NEW w \in Seq(Bit)
  PROVE  Proper(c, w)
<1> DEFINE one == 1
           any == Nat
           n == ReadSize(w, c.lb, c.ub)
           r == Decode(c, w)
           v == r.value
           held == NewBitString(v, Len(v))
           bits == [k \in 1 .. Len(v) |-> GetBit(held, Len(v), k - 1)]
           again == Again(c, v)
<1>1. ~IsNumber(c) /\ c.op # "visible" /\ Kind(c) = Seq(Nat)
  BY DEF IsNumber, NumberOps, Kind
<1>2. IsBound(c.lb) /\ IsBound(c.ub) /\ c \in String
  BY <1>1, StringParts
<1>3. r = ReadAll(w, n, one, any)
  BY DEF Decode, ReadBitString
<1>4. one \in Nat /\ one = 1 /\ \A x : x \in any <=> x \in Nat
  OBVIOUS
<1>5. Encode(again) = WriteBitString(held, Len(v), c.lb, c.ub)
  <2> HIDE DEF r, held
  <2>1. /\ again.op = "bits" /\ again.held = held /\ again.len = Len(v)
        /\ again.lb = c.lb /\ again.ub = c.ub
    BY <1>1, <1>2 DEF Again, Held, String, held
  <2> HIDE DEF again
  <2> QED BY <2>1 DEF Encode
<1>6. Sound(n, w, Nat)
  BY <1>2, SizeAny
<1>7. c.lb = c.ub => n = Decoded(c.lb, 0)
  BY DEF ReadSize
<1>8. c.lb # c.ub => WriteBitString(held, Len(v), c.lb, c.ub)
                       = WriteAll(WriteSize(Len(v), c.lb, c.ub), bits, one, any)
  BY DEF WriteBitString
<1>9. c.lb = c.ub /\ Len(v) = c.lb => WriteBitString(held, Len(v), c.lb, c.ub) = Encoded(bits)
  <2> SUFFICES ASSUME c.lb = c.ub, Len(v) = c.lb
               PROVE  WriteBitString(held, Len(v), c.lb, c.ub) = Encoded(bits)
    OBVIOUS
  <2> HIDE DEF r, held
  <2>1. ~(Len(v) < c.lb)
    BY <1>2 DEF IsBound
  <2> QED BY <2>1 DEF WriteBitString
<1>10. v \in Seq(Nat) => bits = v
  <2> HIDE DEF r
  <2> QED BY HeldBits
<1> HIDE DEF r, one, any, n, bits, again
<1>11. Sound(r, w, Seq(Nat)) /\ ReadElements(w, n, one, any)
  BY <1>3, <1>4, <1>6, ReadAllAny
<1>12. ASSUME r.status = "ok", Len(v) <= c.ub
       PROVE  Encode(again) = Encoded(SubSeq(w, 1, r.used))
  <2>1. v \in Seq(Nat) /\ bits = v
    BY <1>10, <1>11, <1>12 DEF Sound
  <2>2. CASE c.lb # c.ub
    <3>1. Rewrites(w, c.lb, c.ub, one, any, any)
      BY <1>2, <1>4, WrittenAgain
    <3>2. \A k \in 1 .. Len(v) : v[k] \in any
      BY <1>4, <2>1
    <3>3. r = ReadAll(w, ReadSize(w, c.lb, c.ub), one, any)
      BY <1>3 DEF n
    <3>4. WriteAll(WriteSize(Len(v), c.lb, c.ub), v, one, any) = Encoded(SubSeq(w, 1, r.used))
      BY <1>12, <3>1, <3>2, <3>3 DEF Rewrites
    <3> QED BY <1>5, <1>8, <2>1, <2>2, <3>4
  <2>3. CASE c.lb = c.ub
    <3>1. n.value = c.lb /\ n.used = 0
      BY <1>7, <2>3 DEF Decoded
    <3>2. /\ Len(v) = n.value
          /\ \A k \in 1 .. n.value : v[k] \in any /\ v[k] \in 0 .. 2 ^ one - 1
          /\ SubSeq(w, 1, r.used) = SubSeq(w, 1, n.used) \o Fields(v, one)
      BY <1>3, <1>11, <1>12 DEF ReadElements
    <3>3. v \in Seq(Bit)
      <4>1. 2 ^ one - 1 = 1
        BY <1>4
      <4>2. \A k \in 1 .. Len(v) : v[k] \in 0 .. 2 ^ one - 1
        BY <3>2, Zenon
      <4> HIDE DEF v
      <4>3. \A k \in 1 .. Len(v) : v[k] \in Bit
        <5> DEFINE high == 2 ^ one - 1
        <5>1. high = 1 /\ \A k \in 1 .. Len(v) : v[k] \in 0 .. high
          BY <4>1, <4>2
        <5> HIDE DEF high
        <5> QED BY <5>1 DEF Bit
      <4> QED BY <2>1, <4>3
    <3>4. Fields(v, one) = v
      BY <1>4, <3>3, FieldsOfBits
    <3>5. SubSeq(w, 1, n.used) = <<>>
      BY <3>1
    <3>6. <<>> \o v = v
      <4> HIDE DEF v
      <4> QED BY <2>1
    <3>7. SubSeq(w, 1, r.used) = v
      BY <3>2, <3>4, <3>5, <3>6, Zenon
    <3> QED BY <1>5, <1>9, <2>1, <2>3, <3>1, <3>2, <3>7
  <2> QED BY <2>2, <2>3
<1>13. Proper(c, w) <=> /\ Sound(r, w, Seq(Nat))
                        /\ r.status = "ok" /\ Len(v) <= c.ub => Encode(again) = Encoded(SubSeq(w, 1, r.used))
  BY <1>1 DEF Proper, r, again
<1> QED BY <1>11, <1>12, <1>13

(* VisibleString: the places that are read are those of the characters. *)
LEMMA VisibleProper ==
  ASSUME NEW c, IsCall(c), c.op = "visible", NEW w \in Seq(Bit)
  PROVE  Proper(c, w)
<1> DEFINE X == Permitted(c.from)
           alphabet == BuildAlphabet(X)
           legal == 0 .. Len(alphabet) - 1
           width == BitsNeeded(Len(alphabet))
           n == ReadSize(w, c.lb, c.ub)
           places == ReadAll(w, n, width, legal)
           r == Decode(c, w)
           v == [k \in 1 .. Len(places.value) |-> alphabet[places.value[k] + 1]]
           again == Again(c, v)
<1>1. ~IsNumber(c) /\ c.op # "unsized" /\ Kind(c) = Seq(Nat)
  BY DEF IsNumber, NumberOps, Kind
<1>2. IsBound(c.lb) /\ IsBound(c.ub) /\ c \in String /\ c.from \subseteq Nat /\ c.from \subseteq Signed
  BY <1>1, StringParts
<1>3. /\ X \subseteq Nat /\ IsFiniteSet(X) /\ Cardinality(X) \in Nat
      /\ BitsNeeded(Cardinality(X)) \in Nat
  BY <1>2, PermittedIs
<1>4. X = Allowed(c)
  BY DEF Allowed, Permitted
<1>5. IsAlphabet(X, alphabet)
  <2> HIDE DEF X
  <2> QED BY <1>3, AlphabetIs
<1>6. Len(alphabet) = Cardinality(X) /\ width \in Nat
  BY <1>3, <1>5 DEF IsAlphabet
<1>7. r = IF places.status # "ok" THEN places ELSE [places EXCEPT !.value = v]
  BY DEF Decode, ReadVisibleString
<1>8. Sound(n, w, Nat)
  BY <1>2, SizeAny
<1>9. Encode(again) = WriteVisibleString(v, c.from, c.lb, c.ub)
  <2> HIDE DEF v
  <2>1. /\ again.op = "visible" /\ again.held = v /\ again.from = c.from
        /\ again.lb = c.lb /\ again.ub = c.ub
    BY <1>1, <1>2 DEF Again, Held, String
  <2> HIDE DEF again
  <2> QED BY <2>1 DEF Encode
<1> HIDE DEF r, width, n, legal
<1>10. Sound(places, w, Seq(Nat)) /\ ReadElements(w, n, width, legal)
  BY <1>6, <1>8, ReadAllAny
<1>11. CASE places.status # "ok"
  BY <1>1, <1>7, <1>10, <1>11 DEF Proper, Sound, r
<1>12. CASE places.status = "ok"
  <2> DEFINE q == places.value
  <2>1. /\ n.status = "ok" /\ q \in Seq(Nat) /\ Len(q) = n.value
        /\ \A k \in 1 .. n.value : q[k] \in legal
    BY <1>10, <1>12 DEF ReadElements
  <2>2. places = Decoded(q, places.used)
    BY <1>8, <1>12, ReadAllShape DEF Sound
  <2>3. Len(q) \in Nat
    BY <2>1
  <2> HIDE DEF places, q
  <2>4. r = Decoded(v, places.used) /\ r.status = "ok" /\ r.value = v /\ r.used = places.used
    <3> HIDE DEF v
    <3> QED BY <1>7, <1>12, <2>2 DEF Decoded
  <2>5. ASSUME NEW k \in 1 .. Len(q)
        PROVE  v[k] \in X /\ PlaceOf(X, v[k]) = q[k]
    <3>1. q[k] \in 0 .. Len(alphabet) - 1
      BY <2>1 DEF legal
    <3>2. v[k] = alphabet[q[k] + 1]
      BY DEF q
    <3> HIDE DEF v, X, alphabet
    <3> QED BY <1>5, <3>1, <3>2 DEF IsAlphabet
  <2>6. v \in Seq(Nat) /\ Len(v) = Len(q)
    <3>1. v = [k \in 1 .. Len(q) |-> v[k]]
      BY DEF q
    <3>2. \A k \in 1 .. Len(q) : v[k] \in Nat
      <4> HIDE DEF v, X
      <4> QED BY <1>3, <2>5
    <3> HIDE DEF v
    <3> QED BY <2>3, <3>1, <3>2
  <2>7. Sound(r, w, Seq(Nat))
    <3>1. places.used \in 0 .. Len(w)
      BY <1>10, <1>12 DEF Sound
    <3> HIDE DEF v
    <3> QED BY <2>4, <2>6, <3>1 DEF Sound
  <2>8. ASSUME Len(v) <= c.ub
        PROVE  Encode(again) = Encoded(SubSeq(w, 1, places.used))
    <3> DEFINE back == [k \in 1 .. Len(v) |-> PlaceOf(X, v[k])]
    <3>1. back = q
      <4>1. back = [k \in 1 .. Len(q) |-> q[k]]
        <5> HIDE DEF v, X
        <5> QED BY <2>5, <2>6
      <4> HIDE DEF back
      <4> QED BY <2>1, <4>1, SeqIs
    <3>2. \A k \in 1 .. Len(v) : v[k] \in X
      <4> HIDE DEF v, X
      <4> QED BY <2>5, <2>6
    <3>3. WriteVisibleString(v, c.from, c.lb, c.ub)
            = WriteAll(WriteSize(Len(v), c.lb, c.ub), back, width, Nat)
      <4>1. width = BitsNeeded(Cardinality(X))
        BY <1>6 DEF width
      <4> HIDE DEF v
      <4> QED BY <3>2, <4>1 DEF WriteVisibleString
    <3> DEFINE any == Nat
    <3>4. \A k \in 1 .. Len(q) : q[k] \in any
      BY <2>1
    <3> HIDE DEF any, v, back
    <3>5. Rewrites(w, c.lb, c.ub, width, legal, any)
      BY <1>2, <1>6, WrittenAgain
    <3>6. WriteAll(WriteSize(Len(q), c.lb, c.ub), q, width, any) = Encoded(SubSeq(w, 1, places.used))
      <4>1. places = ReadAll(w, ReadSize(w, c.lb, c.ub), width, legal) /\ Len(q) <= c.ub
        BY <2>6, <2>8 DEF places, n
      <4> QED BY <1>12, <3>4, <3>5, <4>1 DEF Rewrites, q
    <3> QED BY <1>9, <2>6, <3>1, <3>3, <3>6 DEF any
  <2>9. \A k \in 1 .. Len(v) : v[k] \in Allowed(c)
    <3> HIDE DEF v, X
    <3> QED BY <1>4, <2>5, <2>6
  <2>10. r = Decode(c, w)
    BY DEF r
  <2> HIDE DEF v
  <2> QED BY <1>1, <2>4, <2>7, <2>8, <2>9, <2>10 DEF Proper
<1> QED BY <1>11, <1>12

(* Every call. *)
LEMMA CallProper ==
  ASSUME NEW c, IsCall(c), NEW w \in Seq(Bit)
  PROVE  Proper(c, w)
<1>1. IsNumber(c) \/ c.op \in {"bits", "octets", "ia5", "visible", "list", "unsized"}
  BY DEF IsCall, String
<1>2. CASE IsNumber(c)
  BY <1>2, NumberProper
<1>3. CASE c.op \in {"octets", "ia5", "list"}
  BY <1>3, SizedProper
<1>4. CASE c.op = "bits"
  BY <1>4, BitsProper
<1>5. CASE c.op = "visible"
  BY <1>5, VisibleProper
<1>6. CASE c.op = "unsized"
  BY <1>6, UnsizedProper
<1> QED BY <1>1, <1>2, <1>3, <1>4, <1>5, <1>6

(***************************************************************************)
(* The exchange.                                                           *)
(***************************************************************************)
(* What was handed over, and how it relates to what the encoder makes of   *)
(* the call: the whole encoding and more, or a proper part of it.          *)
Handed ==
  /\ call \in Calls /\ wire \in Seq(Bit) /\ size \in Nat
  /\ stage \in Stages /\ sort \in Stages \union {"none"}
  /\ stage = "start" => sort = "none"
  /\ stage \in {"refused", "whole", "cut", "noise"} => sort = stage
  /\ stage = "end" => sort \in {"whole", "cut", "noise"}
  /\ sort \in {"whole", "cut"} =>
       /\ Encode(call).ok /\ size = Len(Encode(call).bits)
       /\ Agrees(wire, 0, Encode(call).bits)
  /\ sort = "whole" => size <= Len(wire)
  /\ sort = "cut" => Len(wire) < size

(* The answer is the decoder's, and a refusal the encoder's. *)
Answered ==
  /\ stage = "refused" => ~Encode(call).ok
  /\ stage = "end" => answer = Decode(call, wire)
  /\ stage # "end" => answer.status = "none"

IInv == Handed /\ Answered

(* Bits followed by others agree with themselves, *)
LEMMA AgreesHead ==
  ASSUME NEW e \in Seq(Bit), NEW t \in Seq(Bit)
  PROVE  Agrees(e \o t, 0, e) /\ e \o t \in Seq(Bit) /\ Len(e) <= Len(e \o t)
BY DEF Agrees

(* and so does a part of them. *)
LEMMA AgreesCut ==
  ASSUME NEW e \in Seq(Bit), NEW n \in 0 .. Len(e) - 1
  PROVE  /\ Agrees(SubSeq(e, 1, n), 0, e)
         /\ SubSeq(e, 1, n) \in Seq(Bit) /\ Len(SubSeq(e, 1, n)) < Len(e)
<1>1. Len(SubSeq(e, 1, n)) = n /\ SubSeq(e, 1, n) \in Seq(Bit)
  OBVIOUS
<1>2. \A k \in 1 .. n : SubSeq(e, 1, n)[k] = e[k]
  OBVIOUS
<1> DEFINE s == SubSeq(e, 1, n)
<1> HIDE DEF s
<1>3. s \in Seq(Bit) /\ Len(s) = n /\ \A k \in 1 .. n : s[k] = e[k]
  BY <1>1, <1>2 DEF s
<1>4. Agrees(s, 0, e)
  BY <1>3 DEF Agrees
<1> QED BY <1>3, <1>4 DEF s

(* What an encoder writes are bits. *)
LEMMA Encodes ==
  ASSUME NEW c \in Calls, Encode(c).ok
  PROVE  Encode(c).bits \in Seq(Bit) /\ Len(Encode(c).bits) \in Nat
<1>1. Carries(c, <<>>)
  <2>1. IsCall(c)
    BY CallAssumption DEF IsCall
  <2>2. <<>> \in Seq(Bit)
    OBVIOUS
  <2> QED BY <2>1, <2>2, CallCarries
<1> QED BY <1>1 DEF Carries

(* The invariant holds at the start, *)
LEMMA InitIInv == Init => IInv
BY DEF Init, IInv, Handed, Answered, Stages

(* when the bits are handed over whole, with others after them, *)
LEMMA WriteIInv ==
  ASSUME IInv, Write(Encode(call))
  PROVE  IInv'
<1> DEFINE e == Encode(call).bits
<1>1. PICK tail \in Tails : /\ stage' = "whole" /\ sort' = "whole" /\ wire' = e \o tail
                            /\ size' = Len(e) /\ call' = call /\ answer' = answer
  BY DEF Write, Hand
<1>2. /\ call \in Calls /\ Encode(call).ok /\ stage = "start" /\ answer.status = "none"
  BY DEF Write, IInv, Handed, Answered
<1>3. e \in Seq(Bit) /\ Len(e) \in Nat
  BY <1>2, Encodes
<1>4. tail \in Seq(Bit)
  BY StreamAssumption DEF Bit
<1>5. e = Encode(call').bits /\ Encode(call').ok /\ call' \in Calls
  BY <1>1, <1>2
<1> HIDE DEF e
<1>6. Agrees(wire', 0, e) /\ wire' \in Seq(Bit) /\ size' <= Len(wire')
  BY <1>1, <1>3, <1>4, AgreesHead
<1>7. Handed'
  BY <1>1, <1>3, <1>5, <1>6 DEF Handed, Stages
<1>8. Answered'
  BY <1>1, <1>2 DEF Answered
<1> QED BY <1>7, <1>8 DEF IInv

(* when a part of them is, *)
LEMMA WriteCutIInv ==
  ASSUME IInv, WriteCut(Encode(call))
  PROVE  IInv'
<1> DEFINE e == Encode(call).bits
<1>1. PICK n \in 0 .. Len(e) - 1 :
        /\ stage' = "cut" /\ sort' = "cut" /\ wire' = SubSeq(e, 1, n)
        /\ size' = Len(e) /\ call' = call /\ answer' = answer
  BY DEF WriteCut, Hand
<1>2. /\ call \in Calls /\ Encode(call).ok /\ stage = "start" /\ answer.status = "none"
  BY DEF WriteCut, IInv, Handed, Answered
<1>3. e \in Seq(Bit) /\ Len(e) \in Nat
  BY <1>2, Encodes
<1>4. e = Encode(call').bits /\ Encode(call').ok /\ call' \in Calls
  BY <1>1, <1>2
<1> HIDE DEF e
<1>5. Agrees(wire', 0, e) /\ wire' \in Seq(Bit) /\ Len(wire') < size'
  BY <1>1, <1>3, AgreesCut
<1>6. Handed'
  BY <1>1, <1>3, <1>4, <1>5 DEF Handed, Stages
<1>7. Answered'
  BY <1>1, <1>2 DEF Answered
<1> QED BY <1>6, <1>7 DEF IInv

(* when the encoder refuses, *)
LEMMA RefuseIInv ==
  ASSUME IInv, Refuse(Encode(call))
  PROVE  IInv'
<1>1. /\ stage' = "refused" /\ sort' = "refused" /\ wire' = <<>> /\ size' = 0
      /\ call' = call /\ answer' = answer
  BY DEF Refuse, Hand
<1>2. call \in Calls /\ ~Encode(call).ok /\ answer.status = "none"
  BY DEF Refuse, IInv, Handed, Answered
<1>3. call' \in Calls /\ ~Encode(call').ok
  BY <1>1, <1>2
<1>4. Handed'
  BY <1>1, <1>3 DEF Handed, Stages
<1>5. Answered'
  BY <1>1, <1>2, <1>3 DEF Answered
<1> QED BY <1>4, <1>5 DEF IInv

(* when any bits come in, *)
LEMMA ReceiveNoiseIInv ==
  ASSUME IInv, ReceiveNoise
  PROVE  IInv'
<1>1. PICK bits \in Noise : /\ stage' = "noise" /\ sort' = "noise" /\ wire' = bits /\ size' = 0
                            /\ call' = call /\ answer' = answer
  BY DEF ReceiveNoise, Hand
<1>2. call \in Calls /\ answer.status = "none"
  BY DEF ReceiveNoise, IInv, Handed, Answered
<1>3. wire' \in Seq(Bit)
  BY <1>1, StreamAssumption DEF Bit
<1>4. Handed'
  BY <1>1, <1>2, <1>3 DEF Handed, Stages
<1>5. Answered'
  BY <1>1, <1>2 DEF Answered
<1> QED BY <1>4, <1>5 DEF IInv

(* and when the decoder answers; *)
LEMMA ReadIInv ==
  ASSUME IInv, Read(Decode(call, wire))
  PROVE  IInv'
<1>1. /\ stage \in {"whole", "cut", "noise"} /\ stage' = "end" /\ answer' = Decode(call, wire)
      /\ call' = call /\ wire' = wire /\ size' = size /\ sort' = sort
  BY DEF Read
<1>2. Handed
  BY DEF IInv
<1>3. Encode(call') = Encode(call) /\ Decode(call', wire') = Decode(call, wire)
  BY <1>1
<1>4. Handed'
  BY <1>1, <1>2, <1>3 DEF Handed, Stages
<1>5. Answered'
  BY <1>1, <1>3 DEF Answered
<1> QED BY <1>4, <1>5 DEF IInv

(* so every step preserves it, *)
LEMMA NextIInv == IInv /\ [Next]_vars => IInv'
<1> SUFFICES ASSUME IInv, [Next]_vars PROVE IInv'
  OBVIOUS
<1>1. CASE Write(Encode(call))
  BY <1>1, WriteIInv
<1>2. CASE WriteCut(Encode(call))
  BY <1>2, WriteCutIInv
<1>3. CASE Refuse(Encode(call))
  BY <1>3, RefuseIInv
<1>4. CASE ReceiveNoise
  BY <1>4, ReceiveNoiseIInv
<1>5. CASE Read(Decode(call, wire))
  BY <1>5, ReadIInv
<1>6. CASE UNCHANGED vars
  <2>1. /\ call' = call /\ wire' = wire /\ size' = size /\ sort' = sort
        /\ stage' = stage /\ answer' = answer
    BY <1>6 DEF vars
  <2>2. Encode(call') = Encode(call) /\ Decode(call', wire') = Decode(call, wire)
    BY <2>1
  <2> QED BY <2>1, <2>2 DEF IInv, Handed, Answered
<1> QED BY <1>1, <1>2, <1>3, <1>4, <1>5, <1>6 DEF Next

(* and it holds throughout. *)
LEMMA SpecIInv == Spec => []IInv
BY InitIInv, NextIInv, PTL DEF Spec

(* What the invariant says of the answers, by the lemmas on the operators. *)
LEMMA IInvCall ==
  ASSUME IInv
  PROVE  Carries(call, wire) /\ Proper(call, wire)
<1>1. call \in Calls /\ wire \in Seq(Bit)
  BY DEF IInv, Handed
<1>2. IsCall(call)
  BY <1>1, CallAssumption DEF IsCall
<1> QED BY <1>1, <1>2, CallCarries, CallProper

(* A value that was returned is the decoder's, of the kind of its call. *)
LEMMA IInvAnswered ==
  ASSUME IInv, answer.status = "ok"
  PROVE  stage = "end" /\ answer = Decode(call, wire) /\ Sound(answer, wire, Kind(call))
<1>1. stage = "end" /\ answer = Decode(call, wire)
  BY DEF IInv, Answered
<1> QED BY <1>1, IInvCall DEF Proper

(* What the kinds of values have in common. *)
LEMMA KindNumber ==
  ASSUME NEW c
  PROVE  /\ IsNumber(c) => Kind(c) \subseteq Int
         /\ IsNumber(c) /\ c.op # "length" => Kind(c) \subseteq Signed
         /\ c.op \in {"small", "length"} => Kind(c) \subseteq Nat
         /\ ~IsNumber(c) => Kind(c) = Seq(Nat)
<1>1. Signed \subseteq Int
  BY DEF Signed
<1> QED BY <1>1 DEF IsNumber, NumberOps, Kind

(* The bits handed over are bits, and an answer is of the kind its call    *)
(* asks for (integers.go, lengths.go, strings.go).                         *)
THEOREM ValuesTypeOK == Spec => []TypeOK
<1>1. IInv => TypeOK
  <2> SUFFICES ASSUME IInv PROVE TypeOK
    OBVIOUS
  <2>1. size \in Nat /\ stage \in Stages /\ sort \in Stages \union {"none"} /\ wire \in Seq({0, 1})
    BY DEF IInv, Handed, Bit
  <2>2. answer.status \in {"none", "ok", "eof", "invalid"}
    <3>1. CASE stage = "end"
      <4>1. answer = Decode(call, wire)
        BY <3>1 DEF IInv, Answered
      <4> QED BY <4>1, IInvCall DEF Proper, Sound
    <3>2. CASE stage # "end"
      BY <3>2 DEF IInv, Answered
    <3> QED BY <3>1, <3>2
  <2>3. ASSUME answer.status = "ok"
        PROVE  IF IsNumber(call) THEN answer.value \in Int ELSE answer.value \in Seq(Nat)
    <3>1. answer.value \in Kind(call)
      BY <2>3, IInvAnswered DEF Sound
    <3> QED BY <3>1, KindNumber
  <2> QED BY <2>1, <2>2, <2>3 DEF TypeOK
<1> QED BY <1>1, SpecIInv, PTL

(* For every width of the machine, every value and every bound: an encoder *)
(* of pkg/uper refuses exactly the values outside the type, and what it    *)
(* writes is read back, up to its last bit and no further, whatever comes  *)
(* after it.                                                               *)
THEOREM ValuesRoundTrip == Spec => []RoundTrip
<1>1. IInv => RoundTrip
  <2> SUFFICES ASSUME IInv PROVE RoundTrip
    OBVIOUS
  <2>1. stage = "refused" => ~InType(call)
    BY IInvCall DEF IInv, Answered, Carries
  <2>2. sort = "whole" => InType(call)
    BY IInvCall DEF IInv, Handed, Carries
  <2>3. ASSUME stage = "end", sort = "whole", Carried(call)
        PROVE  answer = Decoded(Meaning(call), size)
    <3>1. /\ Encode(call).ok /\ size = Len(Encode(call).bits) /\ size <= Len(wire)
          /\ Agrees(wire, 0, Encode(call).bits)
      BY <2>3 DEF IInv, Handed
    <3>2. answer = Decode(call, wire)
      BY <2>3 DEF IInv, Answered
    <3>3. Decode(call, wire) = Answer(wire, size, Meaning(call))
      BY <2>3, <3>1, IInvCall DEF Carries
    <3> QED BY <3>1, <3>2, <3>3 DEF Answer
  <2> QED BY <2>1, <2>2, <2>3 DEF RoundTrip
<1> QED BY <1>1, SpecIInv, PTL

(* A decoder that is handed only the first bits of an encoding fails with  *)
(* the end of its input (bitstream.go:138), wherever the cut is.               *)
THEOREM ValuesCutIsNoticed == Spec => []CutIsNoticed
<1>1. IInv => CutIsNoticed
  <2> SUFFICES ASSUME IInv, stage = "end", sort = "cut", Carried(call) \/ IsNumber(call)
               PROVE  answer.status = "eof"
    BY DEF CutIsNoticed
  <2>1. /\ Encode(call).ok /\ size = Len(Encode(call).bits) /\ Len(wire) < size
        /\ Agrees(wire, 0, Encode(call).bits)
    BY DEF IInv, Handed
  <2>2. answer = Decode(call, wire)
    BY DEF IInv, Answered
  <2>3. wire \in Seq(Bit) /\ size \in Nat
    BY DEF IInv, Handed
  <2>4. CASE Carried(call)
    <3>1. answer = Answer(wire, size, Meaning(call))
      BY <2>1, <2>2, <2>4, IInvCall DEF Carries
    <3>2. ~(size <= Len(wire))
      BY <2>1, <2>3
    <3> QED BY <3>1, <3>2 DEF Answer, Failed
  <2>5. CASE IsNumber(call)
    <3>1. answer = Failed("eof")
      BY <2>1, <2>2, <2>5, IInvCall DEF Carries
    <3> QED BY <3>1 DEF Failed
  <2> QED BY <2>4, <2>5
<1> QED BY <1>1, SpecIInv, PTL

(* The field of a constrained number is as wide as its range needs, and    *)
(* that of a semi-constrained one as many octets as its offset needs: for  *)
(* every pair of bounds and every value.                                   *)
THEOREM ValuesShortest == Spec => []Shortest
<1>1. IInv => Shortest
  <2> SUFFICES ASSUME IInv, sort = "whole", Carried(call) PROVE LeastWidth(call, size)
    BY DEF Shortest, LeastWidth
  <2>1. Encode(call).ok /\ size = Len(Encode(call).bits)
    BY DEF IInv, Handed
  <2> QED BY <2>1, IInvCall DEF Carries
<1> QED BY <1>1, SpecIInv, PTL

(* Whatever bits a decoder is handed, it stays inside them, its numbers    *)
(* are int64, and the counts its callers add to and allocate by are never  *)
(* negative (integers.go:92).                                             *)
THEOREM ValuesDefensive == Spec => []Defensive
<1>1. IInv => Defensive
  <2> SUFFICES ASSUME IInv, answer.status = "ok"
               PROVE  /\ answer.used <= Len(wire)
                      /\ IsNumber(call) => answer.value \in Signed \/ call.op = "length"
                      /\ call.op \in {"small", "length"} => answer.value >= 0
    BY DEF Defensive
  <2>1. answer.value \in Kind(call) /\ answer.used \in 0 .. Len(wire)
    BY IInvAnswered DEF Sound
  <2>2. Len(wire) \in Nat
    BY DEF IInv, Handed
  <2>3. call.op \in {"small", "length"} => answer.value \in Nat
    BY <2>1, KindNumber
  <2> QED BY <2>1, <2>2, <2>3, KindNumber
<1> QED BY <1>1, SpecIInv, PTL

(* Whatever bits ReadVisibleString is handed, with any FROM constraint, a  *)
(* string it accepts has no character outside the permitted alphabet.      *)
THEOREM ValuesStaysInAlphabet == Spec => []StaysInAlphabet
<1>1. IInv => StaysInAlphabet
  BY IInvCall, IInvAnswered DEF StaysInAlphabet, Proper
<1> QED BY <1>1, SpecIInv, PTL

(* Whatever bits a decoder of a string with a size constraint accepts, the *)
(* encoder writes those bits for the string that was returned: no two      *)
(* encodings stand for one string.                                         *)
THEOREM ValuesCanonical == Spec => []Canonical
<1>1. IInv => Canonical
  <2> SUFFICES ASSUME IInv, answer.status = "ok", ~IsNumber(call), call.op # "unsized",
                      Len(answer.value) <= call.ub
               PROVE  Encode(Again(call, answer.value)) = Encoded(SubSeq(wire, 1, answer.used))
    BY DEF Canonical, Again, Held
  <2>1. answer = Decode(call, wire)
    BY IInvAnswered
  <2> QED BY <2>1, IInvCall DEF Proper
<1> QED BY <1>1, SpecIInv, PTL
=============================================================================
