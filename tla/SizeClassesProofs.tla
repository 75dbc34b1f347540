-------------------------- MODULE SizeClassesProofs --------------------------
(***************************************************************************)
(* Proofs about the arithmetic of module SizeClasses, for every width of   *)
(* std::size_t and of unsigned int, every page size and every              *)
(* configuration: log2_c and round_to_pow_of_2 compute what their names    *)
(* say, and the vectors of fixed_size_heaps have the sizes that the        *)
(* indices of allocate are about.                                          *)
(*                                                                         *)
(* Induction is by the smallest counterexample: the well-founded ordering  *)
(* of the natural numbers gives every non-empty set of them a least        *)
(* element.  What 2^k is comes from counting: there are 2^k subsets of     *)
(* 1..k.                                                                   *)
(***************************************************************************)
EXTENDS SizeClasses, FiniteSetTheorems, FunctionTheorems, SequenceTheorems,
        WellFoundedInduction, TLAPS

-----------------------------------------------------------------------------
(* Natural numbers                                                         *)

(* Every non-empty set of natural numbers has a least element.             *)
LEMMA LeastNatural ==
  ASSUME NEW T, T \subseteq Nat, T # {}
  PROVE  \E x \in T : \A y \in T : x <= y
<1> DEFINE R == {ss \in Nat \X Nat : ss[1] < ss[2]}
<1>1. IsWellFoundedOn(R, Nat)
  BY NatLessThanWellFounded DEF OpToRel
<1>2. \A x, y \in Nat : <<y, x>> \in R <=> y < x
  OBVIOUS
<1> HIDE DEF R
<1>3. PICK x \in T : \A y \in T : ~ (<<y, x>> \in R)
  BY <1>1, WFMin
<1>4. ASSUME NEW y \in T PROVE x <= y
  <2>1. x \in Nat /\ y \in Nat /\ ~ (y < x)
    BY <1>2, <1>3
  <2> QED BY <2>1
<1> QED BY <1>4

(* There are 2^k subsets of 1..k.                                          *)
LEMMA CountSubsets ==
  ASSUME NEW k \in Nat
  PROVE  /\ IsFiniteSet(SUBSET (1..k))
         /\ Cardinality(SUBSET (1..k)) = 2^k
         /\ 2^k \in Nat
<1>1. IsFiniteSet(1..k) /\ Cardinality(1..k) = k
  BY FS_Interval
<1>2. IsFiniteSet(SUBSET (1..k)) /\ Cardinality(SUBSET (1..k)) = 2^k
  BY <1>1, FS_SUBSET
<1> QED BY <1>2, FS_CardinalityType

(* Half of the subsets of 1..(k + 1) have k + 1 in them.                   *)
LEMMA PowerDoubles ==
  ASSUME NEW k \in Nat
  PROVE  2^(k + 1) = 2 * 2^k
<1> DEFINE A == SUBSET (1..k)
           B == {T \cup {k + 1} : T \in A}
           f == [T \in A |-> T \cup {k + 1}]
<1>1. \A T \in A : k + 1 \notin T
  OBVIOUS
<1>2. f \in Bijection(A, B)
  <2>1. f \in [A -> B]
    OBVIOUS
  <2>2. \A S, T \in A : f[S] = f[T] => S = T
    BY <1>1
  <2>3. \A t \in B : \E T \in A : f[T] = t
    OBVIOUS
  <2> HIDE DEF f, A, B
  <2> QED BY <2>1, <2>2, <2>3, Fun_IsBij
<1>3. A \cap B = {}
  BY <1>1
<1>4. SUBSET (1..(k + 1)) = A \cup B
  <2>1. ASSUME NEW T \in SUBSET (1..(k + 1)), k + 1 \in T
        PROVE  T \in B
    <3>1. T \ {k + 1} \in A /\ T = (T \ {k + 1}) \cup {k + 1}
      BY <2>1
    <3> QED BY <3>1
  <2>2. ASSUME NEW T \in SUBSET (1..(k + 1)), k + 1 \notin T
        PROVE  T \in A
    BY <2>2
  <2>3. 1..k \subseteq 1..(k + 1) /\ k + 1 \in 1..(k + 1)
    OBVIOUS
  <2>4. A \cup B \subseteq SUBSET (1..(k + 1))
    BY <2>3
  <2> QED BY <2>1, <2>2, <2>4
<1>5. IsFiniteSet(A) /\ Cardinality(A) = 2^k /\ 2^k \in Nat
  BY CountSubsets
<1>6. Cardinality(SUBSET (1..(k + 1))) = 2^(k + 1)
  <2>1. k + 1 \in Nat
    OBVIOUS
  <2> QED BY <2>1, CountSubsets
<1> HIDE DEF A, B, f
<1>7. IsFiniteSet(B) /\ Cardinality(B) = 2^k
  BY <1>2, <1>5, FS_Bijection DEF ExistsBijection
<1>8. Cardinality(A \cup B) = 2^k + 2^k - Cardinality(A \cap B)
  BY <1>5, <1>7, FS_Union
<1>9. Cardinality(A \cap B) = 0
  BY <1>3, FS_EmptySet
<1>10. 2^(k + 1) = Cardinality(A \cup B)
  BY <1>4, <1>6
<1> QED BY <1>5, <1>8, <1>9, <1>10

(* 2^k is a positive number.                                               *)
LEMMA PowerIsPositive ==
  ASSUME NEW k \in Nat
  PROVE  2^k \in Nat /\ 2^k >= 1
<1> DEFINE T == {n \in Nat : ~ (2^n >= 1)}
<1>1. SUFFICES ASSUME T # {} PROVE FALSE
  BY CountSubsets
<1>2. PICK n \in T : \A m \in T : n <= m
  BY <1>1, LeastNatural
<1>3. n # 0
  <2>1. 2^0 = 1
    OBVIOUS
  <2>2. 0 \notin T
    BY <2>1
  <2> QED BY <1>2, <2>2
<1>4. n - 1 \in Nat /\ n - 1 \notin T
  BY <1>2, <1>3
<1>5. 2^(n - 1) \in Nat /\ 2^(n - 1) >= 1
  BY <1>4, CountSubsets
<1>6. 2^n = 2 * 2^(n - 1)
  <2>1. (n - 1) + 1 = n
    BY <1>4
  <2> QED BY <1>4, <2>1, PowerDoubles
<1> QED BY <1>2, <1>5, <1>6

(* 2^(i + j) is the product of 2^i and 2^j.                                *)
LEMMA PowerOfSum ==
  ASSUME NEW i \in Nat, NEW j \in Nat
  PROVE  2^(i + j) = 2^i * 2^j
<1> DEFINE T == {n \in Nat : 2^(i + n) # 2^i * 2^n}
<1>1. SUFFICES ASSUME T # {} PROVE FALSE
  OBVIOUS
<1>2. PICK n \in T : \A m \in T : n <= m
  BY <1>1, LeastNatural
<1>3. n # 0
  <2>1. 2^0 = 1 /\ i + 0 = i /\ 2^i \in Nat
    BY PowerIsPositive
  <2>2. 0 \notin T
    BY <2>1
  <2> QED BY <1>2, <2>2
<1>4. PICK m \in Nat : n = m + 1
  <2>1. n - 1 \in Nat /\ n = (n - 1) + 1
    BY <1>2, <1>3
  <2> QED BY <2>1
<1>5. 2^(i + m) = 2^i * 2^m
  <2>1. m \notin T
    BY <1>2, <1>4
  <2> QED BY <2>1
<1>6. 2^n = 2 * 2^m /\ 2^(i + n) = 2 * 2^(i + m)
  <2>1. i + n = (i + m) + 1 /\ i + m \in Nat
    BY <1>4
  <2> QED BY <1>4, <2>1, PowerDoubles
<1>7. 2^i \in Nat /\ 2^m \in Nat
  BY PowerIsPositive
<1>8. 2^(i + n) = 2^i * 2^n
  BY <1>5, <1>6, <1>7
<1> QED BY <1>2, <1>8

(* Powers grow with their exponents.                                       *)
LEMMA PowerIsMonotonic ==
  ASSUME NEW i \in Nat, NEW j \in Nat
  PROVE  /\ i <= j => 2^i <= 2^j
         /\ i < j => 2 * 2^i <= 2^j
         /\ 2^i < 2^j => i < j
         /\ 2^i <= 2^j => i <= j
<1>1. ASSUME NEW a \in Nat, NEW b \in Nat, a <= b
      PROVE  2^a <= 2^b
  <2>1. b - a \in Nat /\ b = a + (b - a)
    BY <1>1
  <2>2. 2^b = 2^a * 2^(b - a)
    BY <2>1, PowerOfSum
  <2>3. 2^a \in Nat /\ 2^(b - a) \in Nat /\ 2^(b - a) >= 1
    BY <2>1, PowerIsPositive
  <2>4. \A x, y \in Nat : y >= 1 => x <= x * y
    OBVIOUS
  <2> QED BY <2>2, <2>3, <2>4
<1>2. ASSUME NEW a \in Nat, NEW b \in Nat, a < b
      PROVE  2 * 2^a <= 2^b
  <2>1. a + 1 \in Nat /\ a + 1 <= b
    BY <1>2
  <2>2. 2^(a + 1) <= 2^b
    BY <2>1, <1>1
  <2> QED BY <2>2, PowerDoubles
<1>3. 2^i \in Nat /\ 2^i >= 1 /\ 2^j \in Nat /\ 2^j >= 1
  BY PowerIsPositive
<1>4. i <= j => 2^i <= 2^j
  BY <1>1
<1>5. i < j => 2 * 2^i <= 2^j
  BY <1>2
<1>6. j <= i => 2^j <= 2^i
  BY <1>1
<1>7. j < i => 2 * 2^j <= 2^i
  BY <1>2
<1> QED BY <1>3, <1>4, <1>5, <1>6, <1>7

(* Every number is less than the power of two it is the exponent of.       *)
LEMMA PowerIsLarge ==
  ASSUME NEW k \in Nat
  PROVE  k < 2^k
<1> DEFINE T == {n \in Nat : ~ (n < 2^n)}
<1>1. SUFFICES ASSUME T # {} PROVE FALSE
  OBVIOUS
<1>2. PICK n \in T : \A m \in T : n <= m
  BY <1>1, LeastNatural
<1>3. n # 0
  <2>1. 2^0 = 1
    OBVIOUS
  <2>2. 0 \notin T
    BY <2>1
  <2> QED BY <1>2, <2>2
<1>4. PICK m \in Nat : n = m + 1
  <2>1. n - 1 \in Nat /\ n = (n - 1) + 1
    BY <1>2, <1>3
  <2> QED BY <2>1
<1>5. m < 2^m
  <2>1. m \notin T
    BY <1>2, <1>4
  <2> QED BY <2>1
<1>6. 2^n = 2 * 2^m /\ 2^m \in Nat
  BY <1>4, PowerDoubles, PowerIsPositive
<1> QED BY <1>2, <1>4, <1>5, <1>6

-----------------------------------------------------------------------------
(* log2_c and round_to_pow_of_2                                            *)

(* Every positive number is between a power of two and the next one.       *)
LEMMA HasHighestBit ==
  ASSUME NEW n \in Nat, n >= 1
  PROVE  \E k \in Nat : 2^k <= n /\ n < 2 * 2^k
<1> DEFINE T == {m \in Nat : n < 2^m}
<1>1. n \in T
  BY PowerIsLarge
<1>2. PICK m \in T : \A l \in T : m <= l
  BY <1>1, LeastNatural
<1>3. m # 0
  <2>1. 2^0 = 1
    OBVIOUS
  <2>2. 0 \notin T
    BY <2>1
  <2> QED BY <1>2, <2>2
<1>4. PICK k \in Nat : m = k + 1
  <2>1. m - 1 \in Nat /\ m = (m - 1) + 1
    BY <1>2, <1>3
  <2> QED BY <2>1
<1>5. k \notin T /\ n < 2^(k + 1)
  BY <1>2, <1>4
<1>6. 2^k \in Nat /\ 2^(k + 1) = 2 * 2^k
  BY PowerIsPositive, PowerDoubles
<1> QED BY <1>5, <1>6

(* It is between two of them only.                                         *)
LEMMA HighestBitIsUnique ==
  ASSUME NEW n \in Nat, NEW k \in Nat, NEW l \in Nat,
         2^k <= n, n < 2 * 2^k, 2^l <= n, n < 2 * 2^l
  PROVE  k = l
<1>1. 2^k \in Nat /\ 2^l \in Nat
  BY PowerIsPositive
<1>2. ~ (k < l)
  BY <1>1, PowerIsMonotonic
<1>3. ~ (l < k)
  BY <1>1, PowerIsMonotonic
<1> QED BY <1>2, <1>3

(* Halving a number takes its lowest bit away.                             *)
LEMMA HalfOfBits ==
  ASSUME NEW n \in Nat, NEW k \in Nat, 2^(k + 1) <= n, n < 2 * 2^(k + 1)
  PROVE  n \div 2 \in Nat /\ 2^k <= n \div 2 /\ n \div 2 < 2 * 2^k
<1>1. 2^k \in Nat /\ 2^(k + 1) = 2 * 2^k
  BY PowerIsPositive, PowerDoubles
<1>2. n \div 2 \in Nat /\ 2 * (n \div 2) <= n /\ n < 2 * (n \div 2) + 2
  OBVIOUS
<1> QED BY <1>1, <1>2

(* The position of the highest bit of a number.                            *)
HighestBit(n) == CHOOSE k \in Nat : 2^k <= n /\ n < 2 * 2^k

(* The recursion of log2_c has a solution, so log2_c is one.               *)
LEMMA Log2Recursion ==
  log2_c = [n \in Nat |-> IF n < 2 THEN 1 ELSE 1 + log2_c[n \div 2]]
<1> DEFINE g == [n \in Nat |-> IF n < 2 THEN 1 ELSE HighestBit(n) + 1]
<1>1. ASSUME NEW n \in Nat, n >= 2
      PROVE  g[n] = 1 + g[n \div 2]
  <2>1. PICK k \in Nat : 2^k <= n /\ n < 2 * 2^k
    BY <1>1, HasHighestBit
  <2>2. HighestBit(n) = k
    BY <2>1, HighestBitIsUnique DEF HighestBit
  <2>3. k # 0
    <3>1. ASSUME k = 0 PROVE FALSE
      <4>1. 2^0 = 1
        OBVIOUS
      <4> QED BY <1>1, <2>1, <3>1, <4>1
    <3> QED BY <3>1
  <2>4. PICK l \in Nat : k = l + 1
    <3>1. k - 1 \in Nat /\ k = (k - 1) + 1
      BY <2>3
    <3> QED BY <3>1
  <2>5. n \div 2 \in Nat /\ 2^l <= n \div 2 /\ n \div 2 < 2 * 2^l
    BY <2>1, <2>4, HalfOfBits
  <2>6. CASE n \div 2 < 2
    <3>1. 2^l < 2^1
      <4>1. 2^1 = 2 /\ 2^l \in Nat
        BY PowerIsPositive
      <4> QED BY <2>5, <2>6, <4>1
    <3>2. 1 \in Nat
      OBVIOUS
    <3>3. l < 1
      BY <3>1, <3>2, PowerIsMonotonic
    <3>4. l = 0
      BY <3>3
    <3> QED BY <1>1, <2>2, <2>4, <2>5, <2>6, <3>4
  <2>7. CASE ~ (n \div 2 < 2)
    <3>1. HighestBit(n \div 2) = l
      BY <2>5, HighestBitIsUnique DEF HighestBit
    <3> QED BY <1>1, <2>2, <2>4, <2>5, <2>7, <3>1
  <2> QED BY <2>6, <2>7
<1>2. ASSUME NEW n \in Nat, n < 2
      PROVE  g[n] = 1
  BY <1>2
<1>3. g = [n \in Nat |-> g[n]]
  OBVIOUS
<1> HIDE DEF g
<1>4. \A n \in Nat : g[n] = IF n < 2 THEN 1 ELSE 1 + g[n \div 2]
  BY <1>1, <1>2
<1>5. g = [n \in Nat |-> IF n < 2 THEN 1 ELSE 1 + g[n \div 2]]
  BY <1>3, <1>4
<1> QED BY <1>5 DEF log2_c

(* log2_c counts the bits of a number, and says that 0 has one.            *)
LEMMA Log2CountsBits ==
  /\ log2_c[0] = 1
  /\ \A k \in Nat : \A n \in Nat : 2^k <= n /\ n < 2 * 2^k => log2_c[n] = k + 1
<1>1. \A n \in Nat : log2_c[n] = IF n < 2 THEN 1 ELSE 1 + log2_c[n \div 2]
  BY Log2Recursion
<1> DEFINE T == {k \in Nat : \E n \in Nat : 2^k <= n /\ n < 2 * 2^k /\ log2_c[n] # k + 1}
<1>2. T = {}
  <2>1. SUFFICES ASSUME T # {} PROVE FALSE
    OBVIOUS
  <2>2. PICK k \in T : \A l \in T : k <= l
    BY <2>1, LeastNatural
  <2>3. PICK n \in Nat : 2^k <= n /\ n < 2 * 2^k /\ log2_c[n] # k + 1
    BY <2>2
  <2>4. k # 0
    <3>1. ASSUME k = 0 PROVE FALSE
      <4>1. 2^0 = 1
        OBVIOUS
      <4>2. n = 1
        BY <2>3, <3>1, <4>1
      <4> QED BY <1>1, <2>3, <3>1, <4>2
    <3> QED BY <3>1
  <2>5. PICK l \in Nat : k = l + 1
    <3>1. k - 1 \in Nat /\ k = (k - 1) + 1
      BY <2>2, <2>4
    <3> QED BY <3>1
  <2>6. n \div 2 \in Nat /\ 2^l <= n \div 2 /\ n \div 2 < 2 * 2^l
    BY <2>3, <2>5, HalfOfBits
  <2>7. log2_c[n \div 2] = l + 1
    <3>1. l \notin T
      BY <2>2, <2>5
    <3> QED BY <2>6, <3>1
  <2>8. n >= 2
    <3>1. 2^l >= 1 /\ 2^l \in Nat
      BY PowerIsPositive
    <3> QED BY <2>6, <3>1
  <2>9. log2_c[n] = 1 + (l + 1)
    BY <1>1, <2>7, <2>8
  <2> QED BY <2>3, <2>5, <2>9
<1>3. log2_c[0] = 1
  BY <1>1
<1> QED BY <1>2, <1>3

(* The widths.                                                             *)
LEMMA Widths ==
  /\ SizeBits \in Nat /\ UIntBits \in Nat /\ UIntBits - 1 \in Nat
  /\ PageSize \in Nat /\ PageSize >= 1 /\ PageSize <= 2^(SizeBits - 1)
  /\ UIntBits <= SizeBits
  /\ 2^SizeBits \in Nat /\ 2^UIntBits \in Nat /\ 2^(UIntBits - 1) \in Nat
  /\ 2^(UIntBits - 1) >= 1
  /\ 2^UIntBits = 2 * 2^(UIntBits - 1) /\ 2^UIntBits <= 2^SizeBits
<1>1. /\ SizeBits \in Nat /\ UIntBits \in Nat /\ UIntBits - 1 \in Nat
      /\ PageSize \in Nat /\ PageSize >= 1 /\ PageSize <= 2^(SizeBits - 1)
      /\ UIntBits <= SizeBits
      /\ (UIntBits - 1) + 1 = UIntBits
  BY SizeClassesAssumption
<1>2. 2^UIntBits = 2 * 2^(UIntBits - 1)
  BY <1>1, PowerDoubles
<1>3. 2^UIntBits <= 2^SizeBits
  BY <1>1, PowerIsMonotonic
<1> QED BY <1>1, <1>2, <1>3, PowerIsPositive

(* A number below 2^SizeBits is a std::size_t.                             *)
LEMMA SizeTOfSmall ==
  ASSUME NEW n \in Nat, n < 2^SizeBits
  PROVE  SizeT(n) = n
<1>1. 2^SizeBits \in Nat /\ 2^SizeBits > 0
  BY Widths
<1> QED BY <1>1 DEF SizeT

(* What round_to_pow_of_2 makes of the sizes an unsigned int can be the    *)
(* power of two for: there is no undefined shift, and the result is the    *)
(* least power of two, beyond 1, that is not below the size.               *)
LEMMA Rounding ==
  ASSUME NEW n \in Nat, 1 <= n, n <= 2^(UIntBits - 1), UIntBits >= 2
  PROVE  \E k \in 1..(UIntBits - 1) :
           /\ round_to_pow_of_2(n) = {2^k}
           /\ n <= 2^k
           /\ k = 1 \/ 2^k < 2 * n
<1>1. SizeT(n - 1) = n - 1 /\ n - 1 \in Nat
  <2>1. n - 1 \in Nat /\ n - 1 < 2^SizeBits
    BY Widths
  <2> QED BY <2>1, SizeTOfSmall
<1>2. CASE n = 1
  <2>1. PICK k \in Nat : k = 1
    OBVIOUS
  <2>2. k \in 1..(UIntBits - 1) /\ k < UIntBits
    BY <2>1, Widths
  <2>3. log2_c[n - 1] = k
    <3>1. n - 1 = 0
      BY <1>2
    <3> QED BY <2>1, <3>1, Log2CountsBits
  <2>4. round_to_pow_of_2(n) = {2^k}
    BY <1>1, <2>2, <2>3 DEF round_to_pow_of_2, ShiftedOne
  <2>5. n <= 2^k
    BY <1>2, PowerIsPositive
  <2> QED BY <2>1, <2>2, <2>4, <2>5
<1>3. CASE n >= 2
  <2>1. PICK k \in Nat : 2^k <= n - 1 /\ n - 1 < 2 * 2^k
    BY <1>1, <1>3, HasHighestBit
  <2>2. log2_c[n - 1] = k + 1
    BY <1>1, <2>1, Log2CountsBits
  <2>3. 2^k \in Nat /\ 2^(k + 1) = 2 * 2^k
    BY PowerDoubles, PowerIsPositive
  <2>4. k < UIntBits - 1
    <3>1. 2^k < 2^(UIntBits - 1)
      BY <2>1, <2>3, Widths
    <3> QED BY <3>1, Widths, PowerIsMonotonic
  <2>5. k + 1 \in 1..(UIntBits - 1) /\ k + 1 < UIntBits
    BY <2>4, Widths
  <2>6. round_to_pow_of_2(n) = {2^(k + 1)}
    BY <1>1, <2>2, <2>5 DEF round_to_pow_of_2, ShiftedOne
  <2>7. n <= 2^(k + 1) /\ 2^(k + 1) < 2 * n
    BY <2>1, <2>3
  <2> QED BY <2>5, <2>6, <2>7
<1> QED BY <1>2, <1>3

(* The powers of two have one bit, and twice one is the next one.          *)
LEMMA Log2OfPower ==
  ASSUME NEW k \in Nat
  PROVE  log2_c[2^k] = k + 1
<1>1. 2^k \in Nat /\ 2^k >= 1
  BY PowerIsPositive
<1>2. 2^k <= 2^k /\ 2^k < 2 * 2^k
  BY <1>1
<1> QED BY <1>1, <1>2, Log2CountsBits

(* A number divided by 2^i has i bits less.                                *)
LEMMA Log2OfQuotient ==
  ASSUME NEW n \in Nat, NEW i \in Nat, NEW k \in Nat,
         i <= k, 2^k <= n, n < 2 * 2^k
  PROVE  log2_c[n \div 2^i] = k - i + 1
<1> DEFINE d == 2^i
           r == 2^(k - i)
           q == n \div d
<1>1. k - i \in Nat /\ k = i + (k - i)
  OBVIOUS
<1>2. 2^k = d * r
  BY <1>1, PowerOfSum
<1>3. d \in Nat /\ d >= 1 /\ r \in Nat /\ r >= 1
  BY <1>1, PowerIsPositive
<1> HIDE DEF d, r
<1>4. q \in Nat /\ d * q <= n /\ n < d * q + d
  BY <1>3
<1> HIDE DEF q
<1>5. d * r < d * (q + 1)
  BY <1>2, <1>3, <1>4
<1>6. d * q < d * (2 * r)
  BY <1>2, <1>3, <1>4
<1>7. \A x, y \in Nat : d * x < d * y => x < y
  BY <1>3
<1>8. r < q + 1 /\ q < 2 * r
  BY <1>3, <1>4, <1>5, <1>6, <1>7
<1>9. r <= q
  BY <1>3, <1>4, <1>8
<1> QED BY <1>1, <1>4, <1>8, <1>9, Log2CountsBits DEF r, q, d

-----------------------------------------------------------------------------
(* heap_config and the constructor of heap                                 *)

(* Rounding keeps the order: a limit that is at most the size of a segment *)
(* is so when both have been rounded.                                      *)
LEMMA RoundingKeepsOrder ==
  ASSUME NEW m \in Nat, NEW n \in Nat, 1 <= m, m <= n, n <= 2^(UIntBits - 1),
         UIntBits >= 2, NEW p \in round_to_pow_of_2(m), NEW q \in round_to_pow_of_2(n)
  PROVE  /\ p \in PowersOf2 /\ q \in PowersOf2
         /\ m <= p /\ p <= q
<1>1. m <= 2^(UIntBits - 1) /\ 1 <= n
  BY Widths
<1>2. PICK i \in 1..(UIntBits - 1) :
        round_to_pow_of_2(m) = {2^i} /\ m <= 2^i /\ (i = 1 \/ 2^i < 2 * m)
  BY <1>1, Rounding
<1>3. PICK j \in 1..(UIntBits - 1) : round_to_pow_of_2(n) = {2^j} /\ n <= 2^j
  BY <1>1, Rounding
<1>4. /\ i \in Nat /\ j \in Nat /\ 1 <= j /\ j + 1 \in Nat
      /\ 2^i \in Nat /\ 2^j \in Nat /\ 2^(j + 1) = 2 * 2^j
  BY PowerIsPositive, PowerDoubles, Widths
<1>5. i <= j
  <2>1. CASE i = 1
    BY <1>4, <2>1
  <2>2. CASE 2^i < 2 * m
    <3>1. 2^i < 2^(j + 1)
      BY <1>3, <1>4, <2>2
    <3>2. i < j + 1
      BY <1>4, <3>1, PowerIsMonotonic
    <3> QED BY <1>4, <3>2
  <2> QED BY <1>2, <2>1, <2>2
<1>6. 2^i <= 2^j
  BY <1>4, <1>5, PowerIsMonotonic
<1>7. 2^i \in PowersOf2 /\ 2^j \in PowersOf2
  BY DEF PowersOf2
<1> QED BY <1>2, <1>3, <1>6, <1>7

(* A configuration that heap_config accepts, for arguments it is meant     *)
(* for, has powers of two only, in the right order, and every limit fits   *)
(* into a segment after rounding as it did before.                         *)
THEOREM AcceptedIsSound ==
  ASSUME NEW a, UsualArguments(a), NEW c \in heap_configs(a), Accepts(a, c)
  PROVE  SoundConfig(c)
<1>1. /\ a.tiny_limit \in Nat /\ 5 <= a.tiny_limit
      /\ a.small_limit \in Nat /\ 1 <= a.small_limit
      /\ a.large_limit \in Nat /\ 1 <= a.large_limit
      /\ a.tiny_segment_size \in Nat /\ a.tiny_segment_size <= 2^(UIntBits - 1)
      /\ a.small_segment_size \in Nat /\ a.small_segment_size <= 2^(UIntBits - 1)
      /\ a.large_segment_size \in Nat /\ a.large_segment_size <= 2^(UIntBits - 1)
  BY Widths DEF UsualArguments, m_tiny_increment
<1>2. /\ a.tiny_limit <= a.tiny_segment_size
      /\ a.small_limit <= a.small_segment_size
      /\ a.large_limit <= a.large_segment_size
      /\ c.tiny_limit < c.small_limit /\ c.small_limit < c.large_limit
  BY DEF Accepts
<1>3. UIntBits >= 2
  <2>1. ASSUME UIntBits - 1 = 0 PROVE FALSE
    <3>1. 2^0 = 1
      OBVIOUS
    <3> QED BY <1>1, <1>2, <2>1, <3>1
  <2> QED BY <2>1, Widths
<1>4. /\ c.tiny_limit \in round_to_pow_of_2(a.tiny_limit)
      /\ c.small_limit \in round_to_pow_of_2(a.small_limit)
      /\ c.large_limit \in round_to_pow_of_2(a.large_limit)
      /\ c.tiny_segment_size \in round_to_pow_of_2(a.tiny_segment_size)
      /\ c.small_segment_size \in round_to_pow_of_2(a.small_segment_size)
      /\ c.large_segment_size \in round_to_pow_of_2(a.large_segment_size)
  BY DEF heap_configs
<1>5. /\ c.tiny_limit \in PowersOf2 /\ c.tiny_segment_size \in PowersOf2
      /\ a.tiny_limit <= c.tiny_limit /\ c.tiny_limit <= c.tiny_segment_size
  <2>1. 1 <= a.tiny_limit
    BY <1>1
  <2> QED BY <1>1, <1>2, <1>3, <1>4, <2>1, RoundingKeepsOrder
<1>6. /\ c.small_limit \in PowersOf2 /\ c.small_segment_size \in PowersOf2
      /\ c.small_limit <= c.small_segment_size
  BY <1>1, <1>2, <1>3, <1>4, RoundingKeepsOrder
<1>7. /\ c.large_limit \in PowersOf2 /\ c.large_segment_size \in PowersOf2
      /\ c.large_limit <= c.large_segment_size
  BY <1>1, <1>2, <1>3, <1>4, RoundingKeepsOrder
<1>8. m_tiny_increment <= c.tiny_limit
  <2>1. PICK k \in 1..(UIntBits - 1) : c.tiny_limit = 2^k
    BY <1>5 DEF PowersOf2
  <2>2. k \in Nat /\ 2^k \in Nat /\ 5 <= 2^k
    BY <1>1, <1>5, <2>1, Widths, PowerIsPositive
  <2>3. PICK i \in Nat : i = 3
    OBVIOUS
  <2>4. 2^i = 8
    BY <2>3
  <2>5. k < i => 2 * 2^k <= 2^i
    BY <2>2, PowerIsMonotonic
  <2>6. i <= k
    BY <2>2, <2>4, <2>5
  <2>7. 2^i <= 2^k
    BY <2>2, <2>6, PowerIsMonotonic
  <2> QED BY <2>1, <2>4, <2>7 DEF m_tiny_increment
<1> QED BY <1>2, <1>5, <1>6, <1>7, <1>8 DEF SoundConfig

(* The exponents of the limits of a configuration, and what is derived     *)
(* from them.                                                              *)
LEMMA Exponents ==
  ASSUME NEW c, SoundConfig(c)
  PROVE  \E i, j, k \in Nat :
           /\ 3 <= i /\ i < j /\ j < k /\ k <= UIntBits - 1
           /\ c.tiny_limit = 2^i /\ c.small_limit = 2^j /\ c.large_limit = 2^k
           /\ m_bucket_shift(c) = i
           /\ m_num_small_heaps(c) = j - i
           /\ m_num_large_heaps(c) = k - j
<1>1. PICK i, j, k \in 1..(UIntBits - 1) :
        c.tiny_limit = 2^i /\ c.small_limit = 2^j /\ c.large_limit = 2^k
  BY DEF SoundConfig, PowersOf2
<1>2. i \in Nat /\ j \in Nat /\ k \in Nat /\ k <= UIntBits - 1
  BY Widths
<1>3. 8 <= 2^i /\ 2^i < 2^j /\ 2^j < 2^k
  BY <1>1 DEF SoundConfig, m_tiny_increment
<1>4. i < j /\ j < k
  BY <1>2, <1>3, PowerIsMonotonic
<1>5. 3 <= i
  <2>1. PICK l \in Nat : l = 3
    OBVIOUS
  <2>2. 2^l = 8
    BY <2>1
  <2>3. l <= i
    BY <1>2, <1>3, <2>2, PowerIsMonotonic
  <2> QED BY <2>1, <2>3
<1>6. log2_c[2^i] = i + 1 /\ log2_c[2^j] = j + 1 /\ log2_c[2^k] = k + 1
  BY <1>2, Log2OfPower
<1>7. /\ m_bucket_shift(c) = i
      /\ m_num_small_heaps(c) = j - i
      /\ m_num_large_heaps(c) = k - j
  BY <1>1, <1>2, <1>6 DEF m_bucket_shift, m_num_small_heaps, m_num_large_heaps
<1> QED BY <1>1, <1>2, <1>4, <1>5, <1>7

(* The power of two that does not fit into an unsigned int any more: the   *)
(* shift is undefined, and gives 0 or 1.                                   *)
LEMMA RoundingOfTooLarge ==
  ASSUME NEW n, SizeT(n - 1) = 2^UIntBits - 1
  PROVE  round_to_pow_of_2(n) = {0, 1}
<1> DEFINE k == UIntBits - 1
<1>1. /\ 2^k \in Nat /\ 2^k >= 1 /\ 2^UIntBits = 2 * 2^k /\ k \in Nat
      /\ UIntBits = k + 1 /\ UIntBits \in Nat
  BY Widths
<1> HIDE DEF k
<1>2. 2^k <= 2^UIntBits - 1 /\ 2^UIntBits - 1 < 2 * 2^k /\ 2^UIntBits - 1 \in Nat
  BY <1>1
<1>3. log2_c[2^UIntBits - 1] = UIntBits
  BY <1>1, <1>2, Log2CountsBits
<1>4. UIntBits % UIntBits = 0
  BY <1>1
<1>5. ShiftedOne(UIntBits) = {0, 1}
  <2>1. 2^0 = 1
    OBVIOUS
  <2>2. ShiftedOne(UIntBits) = {0, 2^(UIntBits % UIntBits)}
    BY <1>1 DEF ShiftedOne
  <2>3. 2^(UIntBits % UIntBits) = 1
    BY <1>4, <2>1
  <2> QED BY <2>2, <2>3
<1> QED BY <1>3, <1>5 DEF round_to_pow_of_2

(* m_max_size is twice the large_limit, or the large_limit itself when     *)
(* twice that is too much for round_to_pow_of_2.                           *)
LEMMA MaxSize ==
  ASSUME NEW c, SoundConfig(c), NEW m \in max_sizes(c)
  PROVE  /\ m \in PowersOf2
         /\ m \in {c.large_limit, 2 * c.large_limit}
<1>1. PICK k \in 1..(UIntBits - 1) : c.large_limit = 2^k
  BY DEF SoundConfig, PowersOf2
<1>2. /\ k \in Nat /\ k + 1 \in Nat /\ k >= 1 /\ 2^k \in Nat /\ 2^k >= 1
      /\ 2^(k + 1) = 2 * 2^k
  BY Widths, PowerIsPositive, PowerDoubles
<1>3. PICK r \in round_to_pow_of_2(SizeT(c.large_limit * 2)) :
        m = IF r > c.large_limit THEN r ELSE c.large_limit
  BY DEF max_sizes
<1>4. c.large_limit * 2 = 2^(k + 1)
  BY <1>1, <1>2
<1>5. CASE k + 1 <= UIntBits - 1
  <2>1. 2^(k + 1) <= 2^(UIntBits - 1)
    BY <1>2, <1>5, Widths, PowerIsMonotonic
  <2>2. 2^(k + 1) \in Nat /\ 2^(k + 1) < 2^SizeBits /\ 1 <= 2^(k + 1)
    BY <1>2, <2>1, Widths
  <2>3. SizeT(c.large_limit * 2) = 2^(k + 1)
    BY <1>4, <2>2, SizeTOfSmall
  <2>4. UIntBits >= 2
    BY <1>2, <1>5, Widths
  <2>5. PICK l \in 1..(UIntBits - 1) :
          /\ round_to_pow_of_2(2^(k + 1)) = {2^l}
          /\ 2^(k + 1) <= 2^l
          /\ l = 1 \/ 2^l < 2 * 2^(k + 1)
    BY <2>1, <2>2, <2>4, Rounding
  <2>6. l \in Nat /\ 2^l \in Nat
    BY Widths, PowerIsPositive
  <2>7. k + 1 <= l
    BY <1>2, <2>5, <2>6, PowerIsMonotonic
  <2>8. ~ (k + 1 < l)
    <3>1. l # 1
      BY <1>2, <2>7
    <3>2. k + 1 < l => 2 * 2^(k + 1) <= 2^l
      BY <1>2, <2>6, PowerIsMonotonic
    <3> QED BY <2>2, <2>5, <2>6, <3>1, <3>2
  <2>9. l = k + 1
    BY <1>2, <2>6, <2>7, <2>8
  <2>10. r = 2^(k + 1)
    BY <2>3, <2>5, <2>9
  <2>11. m = 2^(k + 1)
    BY <1>1, <1>2, <1>3, <2>10
  <2>12. k + 1 \in 1..(UIntBits - 1)
    BY <1>2, <1>5, Widths
  <2> QED BY <1>1, <1>2, <2>11, <2>12 DEF PowersOf2
<1>6. CASE ~ (k + 1 <= UIntBits - 1)
  <2>1. k + 1 = UIntBits
    BY <1>2, <1>6, Widths
  <2>2. SizeT(SizeT(c.large_limit * 2) - 1) = 2^UIntBits - 1
    <3>1. CASE UIntBits = SizeBits
      <4>1. PICK w \in Nat : w = 2^SizeBits /\ w >= 2
        BY Widths
      <4>2. w % w = 0 /\ (0 - 1) % w = w - 1
        BY <4>1
      <4>3. SizeT(c.large_limit * 2) = 0
        BY <1>4, <2>1, <3>1, <4>1, <4>2 DEF SizeT
      <4>4. SizeT(0 - 1) = w - 1
        BY <4>1, <4>2 DEF SizeT
      <4> QED BY <3>1, <4>1, <4>3, <4>4
    <3>2. CASE UIntBits < SizeBits
      <4>1. 2 * 2^UIntBits <= 2^SizeBits
        BY <3>2, Widths, PowerIsMonotonic
      <4>2. /\ 2^UIntBits \in Nat /\ 2^UIntBits < 2^SizeBits
            /\ 2^UIntBits - 1 \in Nat /\ 2^UIntBits - 1 < 2^SizeBits
        BY <4>1, Widths
      <4> QED BY <1>4, <2>1, <4>2, SizeTOfSmall
    <3> QED BY <3>1, <3>2, Widths
  <2>3. r \in {0, 1}
    BY <1>3, <2>2, RoundingOfTooLarge
  <2>4. m = c.large_limit
    BY <1>1, <1>2, <1>3, <2>3
  <2> QED BY <2>4 DEF SoundConfig
<1> QED BY <1>5, <1>6

-----------------------------------------------------------------------------
(* The vectors of fixed_size_heaps and the indices of allocate             *)

(* The index of a size beyond the tiny_limit 2^i is the number of          *)
(* doublings of that limit, less one, that the size needs.                 *)
LEMMA BucketIndex ==
  ASSUME NEW i \in Nat, NEW n \in Nat, 2^i < n, n <= 2^(UIntBits - 1)
  PROVE  \E l \in Nat : /\ i <= l /\ l < UIntBits - 1
                        /\ 2^l < n /\ n <= 2^(l + 1)
                        /\ bucket_index(n, i) = l - i
<1>1. 2^i \in Nat /\ 2^i >= 1
  BY PowerIsPositive
<1>2. n - 1 \in Nat /\ n - 1 >= 1 /\ n - 1 < 2^SizeBits
  BY <1>1, Widths
<1>3. SizeT(n - 1) = n - 1
  BY <1>2, SizeTOfSmall
<1>4. PICK l \in Nat : 2^l <= n - 1 /\ n - 1 < 2 * 2^l
  BY <1>2, HasHighestBit
<1>5. 2^l \in Nat /\ 2^(l + 1) = 2 * 2^l /\ l + 1 \in Nat
  BY PowerIsPositive, PowerDoubles
<1>6. 2^l < n /\ n <= 2^(l + 1)
  BY <1>2, <1>4, <1>5
<1>7. i <= l
  <2>1. 2^i < 2^(l + 1)
    BY <1>1, <1>5, <1>6
  <2>2. i < l + 1
    BY <1>5, <2>1, PowerIsMonotonic
  <2> QED BY <2>2
<1>8. l < UIntBits - 1
  <2>1. 2^l < 2^(UIntBits - 1)
    BY <1>5, <1>6, Widths
  <2> QED BY <2>1, Widths, PowerIsMonotonic
<1>9. log2_c[(n - 1) \div 2^i] = l - i + 1
  BY <1>2, <1>4, <1>7, Log2OfQuotient
<1>10. SizeT(l - i) = l - i
  <2>1. l - i \in Nat /\ l - i < SizeBits
    BY <1>7, <1>8, Widths
  <2>2. SizeBits < 2^SizeBits
    BY Widths, PowerIsLarge
  <2>3. l - i < 2^SizeBits
    BY <2>1, <2>2, Widths
  <2> QED BY <2>1, <2>3, SizeTOfSmall
<1>11. bucket_index(n, i) = l - i
  <2>1. bucket_index(n, i) = SizeT((l - i + 1) - 1)
    BY <1>3, <1>9 DEF bucket_index
  <2>2. (l - i + 1) - 1 = l - i
    OBVIOUS
  <2> QED BY <1>10, <2>1, <2>2
<1> QED BY <1>6, <1>7, <1>8, <1>11

(* A heap of a vector.                                                     *)
HeapRecord == [block_size : Nat, segment_size : Nat]

(* A vector that is filled by a loop.                                      *)
LEMMA FilledVector ==
  ASSUME NEW n \in Nat, NEW s, s \in [1..n -> HeapRecord]
  PROVE  s \in Seq(HeapRecord) /\ Len(s) = n
<1>1. s \in Seq(HeapRecord)
  BY SeqDef
<1>2. DOMAIN s = 1..n /\ DOMAIN s = 1..Len(s) /\ Len(s) \in Nat
  BY <1>1, LenProperties
<1> QED BY <1>1, <1>2

(* The heaps made by doubling 2^i.                                         *)
LEMMA DoublingVector ==
  ASSUME NEW i \in Nat, NEW n \in Nat, i + n <= UIntBits - 1, NEW s \in Nat
  PROVE  /\ Doubling(2^i, n, s) \in Seq(HeapRecord)
         /\ Len(Doubling(2^i, n, s)) = n
         /\ \A l \in 1..n : Doubling(2^i, n, s)[l] = FixedSizeHeap(2^(i + l), s)
<1> DEFINE D == Doubling(2^i, n, s)
<1>1. ASSUME NEW l \in 1..n
      PROVE  SizeT(2^i * 2^l) = 2^(i + l) /\ 2^(i + l) \in Nat
  <2>1. l \in Nat /\ i + l \in Nat /\ i + l <= UIntBits - 1
    BY Widths
  <2>2. 2^i * 2^l = 2^(i + l)
    BY <2>1, PowerOfSum
  <2>3. 2^(i + l) <= 2^(UIntBits - 1)
    BY <2>1, Widths, PowerIsMonotonic
  <2>4. 2^(i + l) \in Nat /\ 2^(i + l) < 2^SizeBits
    BY <2>1, <2>3, Widths, PowerIsPositive
  <2> QED BY <2>2, <2>4, SizeTOfSmall
<1>2. D = [l \in 1..n |-> FixedSizeHeap(SizeT(2^i * 2^l), s)]
  BY DEF Doubling
<1>3. \A l \in 1..n : D[l] = FixedSizeHeap(2^(i + l), s)
  BY <1>1, <1>2
<1>4. \A l \in 1..n : FixedSizeHeap(2^(i + l), s) \in HeapRecord
  BY <1>1 DEF FixedSizeHeap, HeapRecord
<1>5. D \in [1..n -> HeapRecord]
  BY <1>2, <1>3, <1>4
<1> QED BY <1>3, <1>5, FilledVector

(* The tiny_limit is a multiple of the increment.                          *)
LEMMA TinyLimit ==
  ASSUME NEW c, SoundConfig(c)
  PROVE  /\ c.tiny_limit \in Nat
         /\ c.tiny_limit = m_tiny_increment * (c.tiny_limit \div m_tiny_increment)
         /\ c.tiny_limit + m_tiny_increment - 1 < 2^SizeBits
         /\ c.tiny_segment_size \in Nat
<1>1. PICK i, j, k \in Nat :
        3 <= i /\ i < j /\ j < k /\ k <= UIntBits - 1 /\ c.tiny_limit = 2^i
  BY Exponents
<1>2. PICK l \in Nat : l = 3
  OBVIOUS
<1>3. i - l \in Nat /\ i = l + (i - l)
  BY <1>1, <1>2
<1>4. 2^i = 8 * 2^(i - l)
  <2>1. 2^i = 2^l * 2^(i - l)
    BY <1>3, PowerOfSum
  <2>2. 2^l = 8
    BY <1>2
  <2> QED BY <2>1, <2>2
<1>5. 2^i \in Nat /\ 2^(i - l) \in Nat /\ 2^(i - l) >= 1
  BY <1>3, PowerIsPositive
<1>6. 2 * 2^i <= 2^j
  BY <1>1, PowerIsMonotonic
<1>7. 2^j <= 2^(UIntBits - 1)
  <2>1. j <= UIntBits - 1
    BY <1>1, Widths
  <2> QED BY <2>1, Widths, PowerIsMonotonic
<1>8. c.tiny_limit + 8 - 1 < 2^SizeBits
  BY <1>1, <1>4, <1>5, <1>6, <1>7, Widths, PowerIsPositive
<1>9. c.tiny_segment_size \in Nat
  BY Widths, PowerIsPositive DEF SoundConfig, PowersOf2
<1> QED BY <1>1, <1>4, <1>5, <1>8, <1>9 DEF m_tiny_increment

(* m_tiny_heaps has a heap for every multiple of the increment up to the   *)
(* tiny_limit.                                                             *)
LEMMA TinyVector ==
  ASSUME NEW c, SoundConfig(c)
  PROVE  /\ c.tiny_limit \div m_tiny_increment \in Nat
         /\ Len(TinyHeaps(c)) = c.tiny_limit \div m_tiny_increment
         /\ DOMAIN TinyHeaps(c) = 1..(c.tiny_limit \div m_tiny_increment)
         /\ \A l \in 1..(c.tiny_limit \div m_tiny_increment) :
              TinyHeaps(c)[l] = FixedSizeHeap(m_tiny_increment * l, c.tiny_segment_size)
<1> DEFINE n == c.tiny_limit \div m_tiny_increment
<1>1. n \in Nat /\ c.tiny_segment_size \in Nat
  BY TinyLimit DEF m_tiny_increment
<1>2. TinyHeaps(c) =
        [l \in 1..n |-> FixedSizeHeap(m_tiny_increment * l, c.tiny_segment_size)]
  BY DEF TinyHeaps
<1> HIDE DEF n
<1>3. \A l \in 1..n : m_tiny_increment * l \in Nat
  BY <1>1 DEF m_tiny_increment
<1>4. \A l \in 1..n :
        FixedSizeHeap(m_tiny_increment * l, c.tiny_segment_size) \in HeapRecord
  BY <1>1, <1>3 DEF FixedSizeHeap, HeapRecord
<1>5. TinyHeaps(c) \in [1..n -> HeapRecord]
  BY <1>2, <1>4
<1>6. Len(TinyHeaps(c)) = n /\ DOMAIN TinyHeaps(c) = 1..n
  BY <1>1, <1>5, FilledVector
<1> QED BY <1>1, <1>2, <1>6 DEF n

(* m_heaps has a heap for every power of two beyond the tiny_limit 2^i, up *)
(* to m_max_size 2^e, and its segments are as large as its blocks at       *)
(* least.                                                                  *)
IsDoubled(c, m, i, e) ==
  /\ i < e /\ e <= UIntBits - 1
  /\ c.tiny_limit = 2^i /\ m = 2^e
  /\ m_bucket_shift(c) = i
  /\ Len(Heaps(c, m)) = e - i
  /\ DOMAIN Heaps(c, m) = 1..(e - i)
  /\ \A l \in 1..(e - i) :
       /\ Heaps(c, m)[l] \in HeapRecord
       /\ Heaps(c, m)[l].block_size = 2^(i + l)
       /\ Heaps(c, m)[l].segment_size \in PowersOf2
       /\ 2^(i + l) <= Heaps(c, m)[l].segment_size

(* The constructor of heap fills m_heaps in this way.                      *)
LEMMA HeapsVector ==
  ASSUME NEW c, SoundConfig(c), NEW m \in max_sizes(c)
  PROVE  \E i, e \in Nat : IsDoubled(c, m, i, e)
<1>1. PICK i, j, k \in Nat :
        /\ 3 <= i /\ i < j /\ j < k /\ k <= UIntBits - 1
        /\ c.tiny_limit = 2^i /\ c.small_limit = 2^j /\ c.large_limit = 2^k
        /\ m_bucket_shift(c) = i
        /\ m_num_small_heaps(c) = j - i
        /\ m_num_large_heaps(c) = k - j
  BY Exponents
<1>2. PICK e \in Nat : m = 2^e /\ k <= e /\ e <= k + 1 /\ e <= UIntBits - 1
  <2>1. PICK e \in 1..(UIntBits - 1) : m = 2^e
    BY MaxSize DEF PowersOf2
  <2>2. e \in Nat /\ e <= UIntBits - 1
    BY Widths
  <2>3. 2^(k + 1) = 2 * 2^k /\ 2^k \in Nat /\ k + 1 \in Nat
    BY PowerDoubles, PowerIsPositive
  <2>4. 2^k <= 2^e /\ 2^e <= 2^(k + 1)
    <3>1. 2^e = 2^k \/ 2^e = 2 * 2^k
      BY <1>1, <2>1, MaxSize
    <3> QED BY <2>3, <3>1
  <2>5. k <= e /\ e <= k + 1
    BY <2>2, <2>3, <2>4, PowerIsMonotonic
  <2> QED BY <2>1, <2>2, <2>5
<1>3. bucket_index(m, m_bucket_shift(c)) = e - 1 - i
  <2>1. 2^i < 2^e /\ 2^e \in Nat
    BY <1>1, <1>2, PowerIsMonotonic, PowerIsPositive
  <2>2. 2^e <= 2^(UIntBits - 1)
    BY <1>2, Widths, PowerIsMonotonic
  <2>3. PICK l \in Nat : 2^l < 2^e /\ 2^e <= 2^(l + 1) /\ bucket_index(2^e, i) = l - i
    BY <2>1, <2>2, BucketIndex
  <2>4. l < e /\ e <= l + 1
    <3>1. l + 1 \in Nat
      OBVIOUS
    <3> QED BY <2>3, <3>1, PowerIsMonotonic
  <2>5. l = e - 1
    BY <2>4
  <2> QED BY <1>1, <1>2, <2>3, <2>5
<1>4. /\ {c.small_segment_size, c.large_segment_size} \subseteq PowersOf2
      /\ {c.small_segment_size, c.large_segment_size} \subseteq Nat
  BY Widths, PowerIsPositive DEF SoundConfig, PowersOf2
<1> DEFINE S == SmallHeaps(c)
           L == LargeHeaps(c)
           H == HugeHeaps(c, m)
<1>5. /\ S \in Seq(HeapRecord) /\ Len(S) = j - i
      /\ \A l \in 1..(j - i) : S[l] = FixedSizeHeap(2^(i + l), c.small_segment_size)
  <2>1. j - i \in Nat /\ i + (j - i) <= UIntBits - 1
    BY <1>1, Widths
  <2>2. PICK n \in Nat, s \in Nat : n = j - i /\ s = c.small_segment_size
    BY <1>4, <2>1
  <2>3. S = Doubling(2^i, n, s)
    BY <1>1, <2>2 DEF SmallHeaps
  <2>4. i + n <= UIntBits - 1
    BY <2>1, <2>2
  <2>5. /\ S \in Seq(HeapRecord) /\ Len(S) = n
        /\ \A l \in 1..n : S[l] = FixedSizeHeap(2^(i + l), s)
    <3> HIDE DEF S
    <3> QED BY <2>3, <2>4, DoublingVector
  <2> QED BY <2>2, <2>5
<1>6. /\ L \in Seq(HeapRecord) /\ Len(L) = k - j
      /\ \A l \in 1..(k - j) : L[l] = FixedSizeHeap(2^(j + l), c.large_segment_size)
  <2>1. k - j \in Nat /\ j + (k - j) <= UIntBits - 1
    BY <1>1, Widths
  <2>2. PICK n \in Nat, s \in Nat : n = k - j /\ s = c.large_segment_size
    BY <1>4, <2>1
  <2>3. L = Doubling(2^j, n, s)
    BY <1>1, <2>2 DEF LargeHeaps
  <2>4. j + n <= UIntBits - 1
    BY <2>1, <2>2
  <2>5. /\ L \in Seq(HeapRecord) /\ Len(L) = n
        /\ \A l \in 1..n : L[l] = FixedSizeHeap(2^(j + l), s)
    <3> HIDE DEF L
    <3> QED BY <2>3, <2>4, DoublingVector
  <2> QED BY <2>2, <2>5
<1>7. /\ H \in Seq(HeapRecord) /\ Len(H) = e - k
      /\ \A l \in 1..(e - k) : H[l] = FixedSizeHeap(2^(k + l), 2^(k + l))
  <2>1. ASSUME NEW l \in 1..(e - k)
        PROVE  SizeT(2^k * 2^l) = 2^(k + l) /\ 2^(k + l) \in Nat
    <3>1. l \in Nat /\ k + l \in Nat /\ k + l <= UIntBits - 1
      BY <1>2, Widths
    <3>2. 2^k * 2^l = 2^(k + l)
      BY <3>1, PowerOfSum
    <3>3. 2^(k + l) <= 2^(UIntBits - 1)
      BY <3>1, Widths, PowerIsMonotonic
    <3>4. 2^(k + l) \in Nat /\ 2^(k + l) < 2^SizeBits
      BY <3>1, <3>3, Widths, PowerIsPositive
    <3> QED BY <3>2, <3>4, SizeTOfSmall
  <2>2. e - 1 - i + 1 - (j - i) - (k - j) = e - k /\ e - k \in Nat
    BY <1>2
  <2>3. H = [l \in 1..(e - k) |-> FixedSizeHeap(SizeT(2^k * 2^l), SizeT(2^k * 2^l))]
    BY <1>1, <1>3, <2>2 DEF HugeHeaps
  <2>4. \A l \in 1..(e - k) : H[l] = FixedSizeHeap(2^(k + l), 2^(k + l))
    BY <2>1, <2>3
  <2>5. \A l \in 1..(e - k) : FixedSizeHeap(2^(k + l), 2^(k + l)) \in HeapRecord
    BY <2>1 DEF FixedSizeHeap, HeapRecord
  <2>6. H \in [1..(e - k) -> HeapRecord]
    BY <2>3, <2>4, <2>5
  <2> QED BY <2>2, <2>4, <2>6, FilledVector
<1>8. Heaps(c, m) = S \o L \o H
  BY DEF Heaps
<1> HIDE DEF S, L, H
<1>9. /\ S \o L \in Seq(HeapRecord) /\ Len(S \o L) = k - i
      /\ \A l \in 1..(k - i) :
           (S \o L)[l] = IF l <= j - i THEN S[l] ELSE L[l - (j - i)]
  <2>1. Len(S) + Len(L) = k - i
    BY <1>5, <1>6
  <2>2. /\ S \o L \in Seq(HeapRecord) /\ Len(S \o L) = Len(S) + Len(L)
        /\ \A l \in 1..(Len(S) + Len(L)) :
             (S \o L)[l] = IF l <= Len(S) THEN S[l] ELSE L[l - Len(S)]
    BY <1>5, <1>6, ConcatProperties
  <2>3. Len(S) = j - i
    BY <1>5
  <2> QED BY <2>1, <2>2, <2>3
<1>10. /\ Heaps(c, m) \in Seq(HeapRecord) /\ Len(Heaps(c, m)) = e - i
       /\ \A l \in 1..(e - i) :
            Heaps(c, m)[l] = IF l <= k - i THEN (S \o L)[l] ELSE H[l - (k - i)]
  <2>1. Len(S \o L) + Len(H) = e - i
    BY <1>7, <1>9
  <2> DEFINE Q == S \o L
  <2>2. Q \in Seq(HeapRecord) /\ Len(Q) = k - i
    BY <1>9
  <2> HIDE DEF Q
  <2>3. /\ Q \o H \in Seq(HeapRecord) /\ Len(Q \o H) = Len(Q) + Len(H)
        /\ \A l \in 1..(Len(Q) + Len(H)) :
             (Q \o H)[l] = IF l <= Len(Q) THEN Q[l] ELSE H[l - Len(Q)]
    BY <1>7, <2>2, ConcatProperties
  <2>4. /\ Q \o H \in Seq(HeapRecord) /\ Len(Q \o H) = e - i
        /\ \A l \in 1..(e - i) :
             (Q \o H)[l] = IF l <= k - i THEN Q[l] ELSE H[l - (k - i)]
    BY <2>1, <2>2, <2>3 DEF Q
  <2> QED BY <1>8, <2>4 DEF Q
<1>11. DOMAIN Heaps(c, m) = 1..(e - i)
  BY <1>10, LenProperties
<1>12. ASSUME NEW l \in 1..(e - i)
       PROVE  /\ Heaps(c, m)[l].block_size = 2^(i + l)
              /\ Heaps(c, m)[l].segment_size \in PowersOf2
              /\ 2^(i + l) <= Heaps(c, m)[l].segment_size
  <2>0. l \in Nat /\ i + l \in Nat /\ 1 <= l /\ l <= e - i
    BY <1>1, <1>2
  <2>1. CASE l <= j - i
    <3>1. l \in 1..(j - i) /\ l \in 1..(k - i) /\ l <= k - i
      BY <1>1, <2>0, <2>1
    <3>2. Heaps(c, m)[l] = FixedSizeHeap(2^(i + l), c.small_segment_size)
      BY <1>5, <1>9, <1>10, <2>1, <3>1
    <3>3. 2^(i + l) <= 2^j /\ 2^(i + l) \in Nat /\ 2^j \in Nat
      BY <1>1, <2>0, <3>1, PowerIsMonotonic, PowerIsPositive
    <3>4. 2^j <= c.small_segment_size
      BY <1>1 DEF SoundConfig
    <3>5. 2^(i + l) <= c.small_segment_size
      BY <1>4, <3>3, <3>4
    <3> QED BY <1>4, <3>2, <3>5 DEF FixedSizeHeap
  <2>2. CASE ~ (l <= j - i) /\ l <= k - i
    <3>1. l - (j - i) \in 1..(k - j) /\ l \in 1..(k - i) /\ j + (l - (j - i)) = i + l
      BY <1>1, <2>0, <2>2
    <3>2. Heaps(c, m)[l] = L[l - (j - i)]
      BY <1>9, <1>10, <2>2, <3>1
    <3>3. L[l - (j - i)] = FixedSizeHeap(2^(i + l), c.large_segment_size)
      BY <1>6, <3>1
    <3>4. 2^(i + l) <= 2^k /\ 2^(i + l) \in Nat /\ 2^k \in Nat
      BY <1>1, <2>0, <2>2, PowerIsMonotonic, PowerIsPositive
    <3>5. 2^k <= c.large_segment_size
      BY <1>1 DEF SoundConfig
    <3>6. 2^(i + l) <= c.large_segment_size
      BY <1>4, <3>4, <3>5
    <3> QED BY <1>4, <3>2, <3>3, <3>6 DEF FixedSizeHeap
  <2>3. CASE ~ (l <= k - i)
    <3>1. l - (k - i) \in 1..(e - k) /\ k + (l - (k - i)) = i + l
      BY <1>1, <1>2, <2>0, <2>3
    <3>2. Heaps(c, m)[l] = H[l - (k - i)]
      BY <1>10, <2>3
    <3>3. H[l - (k - i)] = FixedSizeHeap(2^(i + l), 2^(i + l))
      BY <1>7, <3>1
    <3>4. 2^(i + l) \in PowersOf2 /\ 2^(i + l) \in Nat
      <4>1. i + l \in 1..(UIntBits - 1)
        BY <1>2, <2>0, Widths
      <4> QED BY <2>0, <4>1, PowerIsPositive DEF PowersOf2
    <3> QED BY <3>2, <3>3, <3>4 DEF FixedSizeHeap
  <2> QED BY <2>1, <2>2, <2>3
<1>13. i < e
  BY <1>1, <1>2
<1>14. \A l \in 1..(e - i) : Heaps(c, m)[l] \in HeapRecord
  BY <1>10, <1>11, LenProperties
<1>15. IsDoubled(c, m, i, e)
  BY <1>1, <1>2, <1>10, <1>11, <1>12, <1>13, <1>14 DEF IsDoubled
<1> QED BY <1>15

(* The heap of a tiny size exists, it has the least multiple of the        *)
(* increment that is not below the size, and no heap of either vector with *)
(* smaller blocks would do.                                                *)
THEOREM TinyIndexTheorem ==
  ASSUME NEW c, SoundConfig(c), NEW m \in max_sizes(c),
         NEW n \in Nat, 1 <= n, n <= c.tiny_limit
  PROVE  /\ tiny_bucket_index(n) \in Nat
         /\ tiny_bucket_index(n) < Len(TinyHeaps(c))
         /\ tiny_bucket_index(n) + 1 \in DOMAIN TinyHeaps(c)
         /\ LET f == TinyHeaps(c)[tiny_bucket_index(n) + 1]
            IN  /\ f.block_size \in Nat
                /\ n <= f.block_size
                /\ \A l \in DOMAIN TinyHeaps(c) :
                     n <= TinyHeaps(c)[l].block_size =>
                       f.block_size <= TinyHeaps(c)[l].block_size
                /\ \A l \in DOMAIN Heaps(c, m) :
                     f.block_size <= Heaps(c, m)[l].block_size
<1> DEFINE d == c.tiny_limit \div 8
           q == (n + 7) \div 8
<1>1. /\ c.tiny_limit \in Nat /\ c.tiny_limit = 8 * d
      /\ n + 7 \in Nat /\ n + 7 < 2^SizeBits
  BY TinyLimit, Widths DEF m_tiny_increment
<1>2. SizeT(n + 8 - 1) = n + 7
  <2>1. n + 8 - 1 = n + 7
    OBVIOUS
  <2> QED BY <1>1, <2>1, SizeTOfSmall
<1>3. q \in Nat /\ 8 * q <= n + 7 /\ n + 7 < 8 * q + 8 /\ d \in Nat
  BY <1>1
<1> HIDE DEF d, q
<1>4. q >= 1 /\ q <= d /\ n <= 8 * q /\ q - 1 \in Nat
  BY <1>1, <1>3
<1>5. tiny_bucket_index(n) = q - 1
  <2>1. q - 1 < 2^SizeBits
    BY <1>1, <1>3, Widths
  <2>2. SizeT(q - 1) = q - 1
    BY <1>4, <2>1, SizeTOfSmall
  <2> QED BY <1>2, <2>2 DEF tiny_bucket_index, m_tiny_increment, q
<1>6. /\ Len(TinyHeaps(c)) = d /\ DOMAIN TinyHeaps(c) = 1..d
      /\ \A l \in 1..d : TinyHeaps(c)[l].block_size = 8 * l
  <2>1. /\ Len(TinyHeaps(c)) = d /\ DOMAIN TinyHeaps(c) = 1..d
        /\ \A l \in 1..d :
             TinyHeaps(c)[l] = FixedSizeHeap(8 * l, c.tiny_segment_size)
    BY TinyVector DEF d, m_tiny_increment
  <2> QED BY <2>1 DEF FixedSizeHeap
<1>7. q \in 1..d /\ q - 1 + 1 = q
  BY <1>3, <1>4
<1>8. TinyHeaps(c)[q].block_size = 8 * q
  BY <1>6, <1>7
<1>9. ASSUME NEW l \in 1..d, n <= TinyHeaps(c)[l].block_size
      PROVE  8 * q <= TinyHeaps(c)[l].block_size
  <2>1. n <= 8 * l
    BY <1>6, <1>9
  <2>2. q <= l
    BY <1>3, <2>1
  <2> QED BY <1>3, <1>6, <2>2
<1>10. ASSUME NEW l \in DOMAIN Heaps(c, m)
       PROVE  8 * q <= Heaps(c, m)[l].block_size
  <2>0. PICK i, e \in Nat : IsDoubled(c, m, i, e)
    BY HeapsVector
  <2>1. /\ i < e /\ e <= UIntBits - 1
        /\ c.tiny_limit = 2^i /\ m = 2^e
        /\ m_bucket_shift(c) = i
        /\ Len(Heaps(c, m)) = e - i
        /\ DOMAIN Heaps(c, m) = 1..(e - i)
        /\ \A g \in 1..(e - i) :
             /\ Heaps(c, m)[g].block_size = 2^(i + g)
             /\ Heaps(c, m)[g].segment_size \in PowersOf2
             /\ 2^(i + g) <= Heaps(c, m)[g].segment_size
    BY <2>0 DEF IsDoubled
  <2>2. l \in 1..(e - i) /\ l \in Nat /\ i + l \in Nat /\ i <= i + l
    BY <2>1
  <2>3. Heaps(c, m)[l].block_size = 2^(i + l)
    BY <2>1, <2>2
  <2>4. 2^i <= 2^(i + l) /\ 2^(i + l) \in Nat
    BY <2>2, PowerIsMonotonic, PowerIsPositive
  <2> QED BY <1>1, <1>3, <1>4, <2>1, <2>3, <2>4
<1>11. /\ tiny_bucket_index(n) \in Nat
       /\ tiny_bucket_index(n) < Len(TinyHeaps(c))
       /\ tiny_bucket_index(n) + 1 = q
  BY <1>3, <1>4, <1>5, <1>6
<1>12. 8 * q \in Nat
  BY <1>3
<1> QED BY <1>4, <1>6, <1>7, <1>8, <1>9, <1>10, <1>11, <1>12

(* The heap of a size beyond the tiny_limit, up to m_max_size, exists, it  *)
(* has the least power of two that is not below the size, and no heap of   *)
(* either vector with smaller blocks would do.                             *)
THEOREM IndexTheorem ==
  ASSUME NEW c, SoundConfig(c), NEW m \in max_sizes(c),
         NEW n \in Nat, c.tiny_limit < n, n <= m
  PROVE  LET x == bucket_index(n, m_bucket_shift(c))
             f == Heaps(c, m)[x + 1]
         IN  /\ x \in Nat
             /\ x < Len(Heaps(c, m))
             /\ x + 1 \in DOMAIN Heaps(c, m)
             /\ f.block_size \in Nat
             /\ n <= f.block_size /\ f.block_size < 2 * n
             /\ \A l \in DOMAIN TinyHeaps(c) : TinyHeaps(c)[l].block_size < n
             /\ \A l \in DOMAIN Heaps(c, m) :
                  n <= Heaps(c, m)[l].block_size =>
                    f.block_size <= Heaps(c, m)[l].block_size
<1>0. PICK i, e \in Nat : IsDoubled(c, m, i, e)
  BY HeapsVector
<1>1. /\ i < e /\ e <= UIntBits - 1
      /\ c.tiny_limit = 2^i /\ m = 2^e
      /\ m_bucket_shift(c) = i
      /\ Len(Heaps(c, m)) = e - i
      /\ DOMAIN Heaps(c, m) = 1..(e - i)
      /\ \A l \in 1..(e - i) :
           /\ Heaps(c, m)[l].block_size = 2^(i + l)
           /\ Heaps(c, m)[l].segment_size \in PowersOf2
           /\ 2^(i + l) <= Heaps(c, m)[l].segment_size
  BY <1>0 DEF IsDoubled
<1>2. n <= 2^(UIntBits - 1)
  <2>1. 2^e <= 2^(UIntBits - 1) /\ 2^e \in Nat
    BY <1>1, Widths, PowerIsMonotonic, PowerIsPositive
  <2> QED BY <1>1, <2>1, Widths
<1>3. PICK l \in Nat :
        i <= l /\ 2^l < n /\ n <= 2^(l + 1) /\ bucket_index(n, i) = l - i
  BY <1>1, <1>2, BucketIndex
<1>4. 2^l \in Nat /\ 2^(l + 1) = 2 * 2^l /\ l + 1 \in Nat /\ 2^e \in Nat
  BY PowerIsPositive, PowerDoubles
<1>5. l < e
  <2>1. 2^l < 2^e
    BY <1>1, <1>3, <1>4
  <2> QED BY <2>1, PowerIsMonotonic
<1> DEFINE x == bucket_index(n, m_bucket_shift(c))
<1>6. x = l - i
  BY <1>1, <1>3
<1> HIDE DEF x
<1>7. x \in Nat /\ x < Len(Heaps(c, m)) /\ x + 1 \in 1..(e - i) /\ i + (x + 1) = l + 1
  BY <1>1, <1>3, <1>5, <1>6
<1>8. Heaps(c, m)[x + 1].block_size = 2^(l + 1)
  BY <1>1, <1>7
<1>9. n <= 2^(l + 1) /\ 2^(l + 1) < 2 * n /\ 2^(l + 1) \in Nat
  BY <1>3, <1>4
<1>10. ASSUME NEW g \in DOMAIN TinyHeaps(c)
       PROVE  TinyHeaps(c)[g].block_size < n
  <2> DEFINE d == c.tiny_limit \div 8
  <2>1. g \in 1..d /\ TinyHeaps(c)[g] = FixedSizeHeap(8 * g, c.tiny_segment_size)
    BY TinyVector DEF m_tiny_increment
  <2>2. TinyHeaps(c)[g].block_size = 8 * g
    BY <2>1 DEF FixedSizeHeap
  <2>3. c.tiny_limit \in Nat /\ c.tiny_limit = 8 * d
    BY TinyLimit DEF m_tiny_increment
  <2>4. d \in Nat
    BY <2>3
  <2> HIDE DEF d
  <2> QED BY <2>1, <2>2, <2>3, <2>4
<1>11. ASSUME NEW g \in 1..(e - i), n <= Heaps(c, m)[g].block_size
       PROVE  2^(l + 1) <= Heaps(c, m)[g].block_size
  <2>1. g \in Nat /\ i + g \in Nat /\ Heaps(c, m)[g].block_size = 2^(i + g)
    BY <1>1
  <2>2. 2^(i + g) \in Nat
    BY <2>1, PowerIsPositive
  <2>3. 2^l < 2^(i + g)
    BY <1>3, <1>4, <1>11, <2>1, <2>2
  <2>4. l < i + g
    BY <2>1, <2>3, PowerIsMonotonic
  <2>5. l + 1 <= i + g
    BY <2>1, <2>4
  <2>6. 2^(l + 1) <= 2^(i + g)
    BY <1>4, <2>1, <2>5, PowerIsMonotonic
  <2> QED BY <2>1, <2>6
<1> QED BY <1>1, <1>7, <1>8, <1>9, <1>10, <1>11 DEF x

(* No heap of the vectors has blocks larger than m_max_size.               *)
LEMMA VectorsEndAtMaxSize ==
  ASSUME NEW c, SoundConfig(c), NEW m \in max_sizes(c)
  PROVE  /\ \A l \in DOMAIN TinyHeaps(c) : TinyHeaps(c)[l].block_size <= m
         /\ \A l \in DOMAIN Heaps(c, m) : Heaps(c, m)[l].block_size <= m
         /\ c.tiny_limit < m /\ m \in Nat /\ c.tiny_limit >= 8
<1>0. PICK i, e \in Nat : IsDoubled(c, m, i, e)
  BY HeapsVector
<1>1. /\ i < e /\ c.tiny_limit = 2^i /\ m = 2^e
      /\ DOMAIN Heaps(c, m) = 1..(e - i)
      /\ \A g \in 1..(e - i) : Heaps(c, m)[g].block_size = 2^(i + g)
  BY <1>0 DEF IsDoubled
<1>2. 2^i \in Nat /\ 2^i >= 1 /\ 2^e \in Nat /\ 2 * 2^i <= 2^e
  BY <1>1, PowerIsMonotonic, PowerIsPositive
<1>3. c.tiny_limit < m /\ m \in Nat
  BY <1>1, <1>2
<1>4. c.tiny_limit >= 8
  <2>1. 8 <= c.tiny_limit /\ c.tiny_limit \in Nat
    BY <1>1, <1>2 DEF SoundConfig, m_tiny_increment
  <2> QED BY <2>1
<1>5. ASSUME NEW g \in 1..(e - i) PROVE 2^(i + g) <= 2^e
  <2>1. i + g \in Nat /\ i + g <= e
    BY <1>1
  <2> QED BY <2>1, PowerIsMonotonic
<1>6. ASSUME NEW l \in DOMAIN TinyHeaps(c) PROVE TinyHeaps(c)[l].block_size <= m
  <2>1. m <= m
    BY <1>3
  <2>2. TinyHeaps(c)[l].block_size < m
    BY <1>3, <2>1, IndexTheorem
  <2>3. TinyHeaps(c)[l].block_size \in Nat
    <3>1. /\ TinyHeaps(c)[l] = FixedSizeHeap(8 * l, c.tiny_segment_size)
          /\ l \in 1..(c.tiny_limit \div 8) /\ c.tiny_limit \div 8 \in Nat
      BY TinyVector DEF m_tiny_increment
    <3> QED BY <3>1 DEF FixedSizeHeap
  <2> QED BY <1>3, <2>2, <2>3
<1> QED BY <1>1, <1>3, <1>4, <1>5, <1>6

(* A segment is rounded up to pages, and holds a block if its size does.   *)
LEMMA BlockInSegment ==
  ASSUME NEW f,
         f.block_size \in Nat, f.block_size >= 1,
         f.segment_size \in PowersOf2, f.block_size <= f.segment_size
  PROVE  m_num_blocks(f) > 0
<1> DEFINE P == PageSize
           W == 2^SizeBits
           b == f.block_size
           s == f.segment_size
           q == (s + P - 1) \div P
<1>1. P \in Nat /\ P >= 1 /\ P <= 2^(SizeBits - 1) /\ W \in Nat /\ b \in Nat /\ b >= 1 /\ b <= s
  BY Widths
<1>2. s \in Nat /\ s + P <= W
  <2>1. PICK k \in 1..(UIntBits - 1) : s = 2^k
    BY DEF PowersOf2
  <2>2. /\ k \in Nat /\ SizeBits - 1 \in Nat /\ k <= SizeBits - 1
        /\ (SizeBits - 1) + 1 = SizeBits
    BY Widths
  <2>3. 2^k <= 2^(SizeBits - 1) /\ 2^k \in Nat /\ 2^(SizeBits - 1) \in Nat
    BY <2>2, PowerIsMonotonic, PowerIsPositive
  <2>4. W = 2 * 2^(SizeBits - 1)
    BY <2>2, PowerDoubles
  <2> QED BY <1>1, <2>1, <2>3, <2>4
<1>3. SizeT(s + P - 1) = s + P - 1 /\ s + P - 1 \in Nat
  BY <1>1, <1>2, SizeTOfSmall
<1>4. num_pages(s) = q
  BY <1>3 DEF num_pages
<1> HIDE DEF P, W, b, s
<1>5. q \in Nat /\ P * q <= s + P - 1 /\ s + P - 1 < P * q + P
  BY <1>1, <1>3
<1> HIDE DEF q
<1>6. q * P = P * q /\ q * P \in Nat
  BY <1>1, <1>5
<1>7. s <= q * P /\ q * P < W
  BY <1>1, <1>2, <1>5, <1>6
<1>8. SizeT(q * P) = q * P
  BY <1>6, <1>7, SizeTOfSmall DEF W
<1>9. m_num_blocks(f) = (q * P) \div b
  BY <1>4, <1>8 DEF m_num_blocks, b, s, P
<1>10. ASSUME NEW x \in Nat, b <= x PROVE x \div b >= 1
  <2>1. x \div b \in Nat /\ x < b * (x \div b) + b
    BY <1>1
  <2>2. ASSUME x \div b = 0 PROVE FALSE
    BY <1>1, <1>10, <2>1, <2>2
  <2> QED BY <2>1, <2>2
<1>11. b <= q * P
  BY <1>1, <1>2, <1>6, <1>7
<1>12. (q * P) \div b >= 1 /\ (q * P) \div b \in Nat
  BY <1>1, <1>6, <1>10, <1>11
<1> QED BY <1>9, <1>12

(* Every heap of the vectors gets at least one block out of a segment.     *)
THEOREM VectorSegmentsTheorem ==
  ASSUME NEW c, SoundConfig(c), NEW m \in max_sizes(c)
  PROVE  /\ \A l \in DOMAIN TinyHeaps(c) :
              TinyHeaps(c)[l].block_size > 0 /\ m_num_blocks(TinyHeaps(c)[l]) > 0
         /\ \A l \in DOMAIN Heaps(c, m) :
              Heaps(c, m)[l].block_size > 0 /\ m_num_blocks(Heaps(c, m)[l]) > 0
<1>1. ASSUME NEW l \in DOMAIN TinyHeaps(c)
      PROVE  TinyHeaps(c)[l].block_size > 0 /\ m_num_blocks(TinyHeaps(c)[l]) > 0
  <2> DEFINE d == c.tiny_limit \div 8
             f == TinyHeaps(c)[l]
  <2>1. l \in 1..d /\ f = FixedSizeHeap(8 * l, c.tiny_segment_size)
    BY TinyVector DEF m_tiny_increment
  <2>2. f.block_size = 8 * l /\ f.segment_size = c.tiny_segment_size
    BY <2>1 DEF FixedSizeHeap
  <2>3. c.tiny_limit \in Nat /\ c.tiny_limit = 8 * d /\ c.tiny_segment_size \in Nat
    BY TinyLimit DEF m_tiny_increment
  <2>4. d \in Nat
    BY <2>3
  <2>5. c.tiny_limit <= c.tiny_segment_size /\ c.tiny_segment_size \in PowersOf2
    BY DEF SoundConfig
  <2> HIDE DEF d, f
  <2>6. /\ f.block_size \in Nat /\ f.block_size >= 1
        /\ f.block_size <= f.segment_size
    BY <2>1, <2>2, <2>3, <2>4, <2>5
  <2>7. m_num_blocks(f) > 0
    BY <2>2, <2>5, <2>6, BlockInSegment
  <2> QED BY <2>6, <2>7 DEF f
<1>2. ASSUME NEW l \in DOMAIN Heaps(c, m)
      PROVE  Heaps(c, m)[l].block_size > 0 /\ m_num_blocks(Heaps(c, m)[l]) > 0
  <2>0. PICK i, e \in Nat : IsDoubled(c, m, i, e)
    BY HeapsVector
  <2>1. /\ i < e /\ e <= UIntBits - 1
        /\ c.tiny_limit = 2^i /\ m = 2^e
        /\ m_bucket_shift(c) = i
        /\ Len(Heaps(c, m)) = e - i
        /\ DOMAIN Heaps(c, m) = 1..(e - i)
        /\ \A g \in 1..(e - i) :
             /\ Heaps(c, m)[g].block_size = 2^(i + g)
             /\ Heaps(c, m)[g].segment_size \in PowersOf2
             /\ 2^(i + g) <= Heaps(c, m)[g].segment_size
    BY <2>0 DEF IsDoubled
  <2> DEFINE f == Heaps(c, m)[l]
  <2>2. l \in 1..(e - i) /\ i + l \in Nat
    BY <2>1
  <2>3. /\ f.block_size = 2^(i + l) /\ f.segment_size \in PowersOf2
        /\ f.block_size <= f.segment_size
    BY <2>1, <2>2
  <2> HIDE DEF f
  <2>4. f.block_size \in Nat /\ f.block_size >= 1
    BY <2>2, <2>3, PowerIsPositive
  <2>5. m_num_blocks(f) > 0
    BY <2>3, <2>4, BlockInSegment
  <2> QED BY <2>4, <2>5 DEF f
<1> QED BY <1>1, <1>2

(* The elements of the vectors.                                            *)
LEMMA VectorsAreRecords ==
  ASSUME NEW c, SoundConfig(c), NEW m \in max_sizes(c)
  PROVE  /\ \A l \in DOMAIN TinyHeaps(c) : TinyHeaps(c)[l] \in HeapRecord
         /\ \A l \in DOMAIN Heaps(c, m) : Heaps(c, m)[l] \in HeapRecord
<1>1. ASSUME NEW l \in DOMAIN TinyHeaps(c) PROVE TinyHeaps(c)[l] \in HeapRecord
  <2>1. /\ l \in 1..(c.tiny_limit \div 8) /\ c.tiny_limit \div 8 \in Nat
        /\ TinyHeaps(c)[l] = FixedSizeHeap(8 * l, c.tiny_segment_size)
    BY TinyVector DEF m_tiny_increment
  <2>2. 8 * l \in Nat /\ c.tiny_segment_size \in Nat
    BY <2>1, TinyLimit
  <2> QED BY <2>1, <2>2 DEF FixedSizeHeap, HeapRecord
<1>2. PICK i, e \in Nat : IsDoubled(c, m, i, e)
  BY HeapsVector
<1>3. ASSUME NEW l \in DOMAIN Heaps(c, m) PROVE Heaps(c, m)[l] \in HeapRecord
  BY <1>2 DEF IsDoubled
<1> QED BY <1>1, <1>3

=============================================================================
