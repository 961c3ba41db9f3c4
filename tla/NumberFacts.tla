---------------------------- MODULE NumberFacts ----------------------------
(***************************************************************************)
(* Facts that the theorems rest on and the prover's library does not have: *)
(* the least-number principle for a set and steps up to a number,          *)
(* remainders, powers of two, ranks in a finite order and what Ordering    *)
(* makes of them.                                                          *)
(***************************************************************************)
EXTENDS Integers, FiniteSets, Ordering, Sequences, FunctionTheorems, FiniteSetTheorems,
        WellFoundedInduction, TLAPS

(* A non-empty set of natural numbers has a least element: what a CHOOSE   *)
(* of a minimum rests on.                                                  *)
LEMMA LeastExists ==
    ASSUME NEW S, S \subseteq Nat, S # {}
    PROVE  \E x \in S : \A y \in S : x <= y
<1>. DEFINE R == OpToRel(<, Nat)
<1>1. IsWellFoundedOn(R, Nat)
  BY NatLessThanWellFounded
<1>2. \A i, j \in Nat : i < j => <<i, j>> \in R
  BY DEF OpToRel
<1>. HIDE DEF R
<1>3. PICK x \in S : \A y \in S : <<y, x>> \notin R
  BY <1>1, WFMin
<1>4. \A y \in S : x <= y
  <2>. SUFFICES ASSUME NEW y \in S, ~(x <= y) PROVE FALSE
    OBVIOUS
  <2>1. x \in Nat /\ y \in Nat
    OBVIOUS
  <2>2. y < x
    BY <2>1
  <2>3. <<y, x>> \in R
    BY <1>2, <2>1, <2>2, Zenon
  <2>. QED
    BY <1>3, <2>3, Zenon
<1>. QED
  BY <1>4

-----------------------------------------------------------------------------
(* Quotient and remainder                                                  *)
LEMMA Division ==
    ASSUME NEW a \in Int, NEW q \in Nat \ {0}
    PROVE  /\ a \div q \in Int /\ a % q \in 0..(q - 1)
           /\ a = q * (a \div q) + (a % q)
OBVIOUS

(* A factor cancels.                                                       *)
LEMMA FactorCancels ==
    ASSUME NEW q \in Nat \ {0}, NEW a \in Int, NEW b \in Int, q * a = q * b
    PROVE  a = b
OBVIOUS

(* There is one remainder only.                                            *)
LEMMA RemainderUnique ==
    ASSUME NEW a \in Int, NEW q \in Nat \ {0}, NEW k \in Int, NEW r \in 0..(q - 1),
           a = q * k + r
    PROVE  a % q = r
OBVIOUS

(* Numbers a multiple of q apart have the same remainder.                  *)
LEMMA RemainderPeriodic ==
    ASSUME NEW a \in Int, NEW q \in Nat \ {0}, NEW k \in Int
    PROVE  (a + q * k) % q = a % q
<1>. DEFINE d == a \div q
            r == a % q
<1>1. d \in Int /\ r \in 0..(q - 1) /\ a = q * d + r
  BY Division
<1>. HIDE DEF d, r
<1>2. q * (d + k) = q * d + q * k
  BY <1>1
<1>3. a + q * k = q * (d + k) + r /\ a + q * k \in Int /\ d + k \in Int
  BY <1>1, <1>2
<1>4. (a + q * k) % q = r
  BY <1>1, <1>3, RemainderUnique
<1>. QED
  BY <1>4 DEF r

(* A remainder may be taken of a remainder at any time.                    *)
LEMMA RemainderInside ==
    ASSUME NEW a \in Int, NEW b \in Int, NEW q \in Nat \ {0}
    PROVE  /\ ((a % q) + b) % q = (a + b) % q
           /\ (b - (a % q)) % q = (b - a) % q
<1>. DEFINE d == a \div q
            r == a % q
<1>1. d \in Int /\ r \in 0..(q - 1) /\ a = q * d + r
  BY Division
<1>. HIDE DEF d, r
<1>2. q * (-d) = -(q * d) /\ q * d \in Int
  BY <1>1
<1>3. r + b = (a + b) + q * (-d) /\ b - r = (b - a) + q * d
  BY <1>1, <1>2
<1>4. a + b \in Int /\ b - a \in Int /\ -d \in Int
  BY <1>1
<1>5. ((a + b) + q * (-d)) % q = (a + b) % q
  BY <1>4, RemainderPeriodic
<1>6. ((b - a) + q * d) % q = (b - a) % q
  BY <1>1, <1>4, RemainderPeriodic
<1>. QED
  BY <1>3, <1>5, <1>6 DEF r

(* The next number's remainder is the next, but for the last one's.        *)
LEMMA RemainderSteps ==
    ASSUME NEW a \in Int, NEW q \in Nat \ {0}
    PROVE  /\ a % q < q - 1 => (a + 1) % q = (a % q) + 1
           /\ a % q > 0 => (a - 1) % q = (a % q) - 1
<1>. DEFINE d == a \div q
            r == a % q
<1>1. d \in Int /\ r \in 0..(q - 1) /\ a = q * d + r
  BY Division
<1>. HIDE DEF d, r
<1>2. a + 1 = q * d + (r + 1) /\ a - 1 = q * d + (r - 1) /\ q * d \in Int
  BY <1>1
<1>3. ASSUME r < q - 1 PROVE (a + 1) % q = r + 1
  BY <1>1, <1>2, <1>3, RemainderUnique
<1>4. ASSUME r > 0 PROVE (a - 1) % q = r - 1
  BY <1>1, <1>2, <1>4, RemainderUnique
<1>. QED
  BY <1>3, <1>4 DEF r

(* A remainder of a multiple's remainder is the remainder.                 *)
LEMMA RemainderOfMultiple ==
    ASSUME NEW a \in Int, NEW b \in Int, NEW q \in Nat \ {0}, NEW k \in Nat \ {0}
    PROVE  ((a % (q * k)) + b) % q = (a + b) % q
<1>. DEFINE p == q * k
            d == a \div p
            r == a % p
<1>1. p \in Nat \ {0}
  OBVIOUS
<1>2. d \in Int /\ r \in 0..(p - 1) /\ a = p * d + r
  BY <1>1, Division
<1>. HIDE DEF d, r
<1>3. p * d = q * (k * d) /\ k * d \in Int
  BY <1>2
<1>. HIDE DEF p
<1>4. q * (k * d) \in Int /\ r \in Int /\ r + b \in Int
  BY <1>1, <1>2, <1>3
<1>5. a + b = (r + b) + q * (k * d)
  BY <1>2, <1>3, <1>4
<1>6. ((r + b) + q * (k * d)) % q = (r + b) % q
  BY <1>3, <1>4, RemainderPeriodic
<1>. QED
  BY <1>5, <1>6 DEF r, p

(* Numbers less than q apart have different ones.                          *)
LEMMA RemaindersDiffer ==
    ASSUME NEW a \in Int, NEW q \in Nat \ {0}, NEW j \in 1..(q - 1)
    PROVE  (a + j) % q # a % q
<1>. SUFFICES ASSUME (a + j) % q = a % q PROVE FALSE
  OBVIOUS
<1>. DEFINE d == a \div q
            e == (a + j) \div q
            r == a % q
<1>1. a + j \in Int
  OBVIOUS
<1>2. d \in Int /\ r \in 0..(q - 1) /\ a = q * d + r
  BY Division
<1>3. e \in Int /\ a + j = q * e + r
  BY <1>1, Division
<1>. HIDE DEF d, e, r
<1>4. j = q * (e - d)
  BY <1>2, <1>3
<1>5. CASE e - d <= 0
  <2>1. q * (e - d) <= 0
    BY <1>2, <1>3, <1>5
  <2>. QED
    BY <1>4, <2>1
<1>6. CASE e - d >= 1
  <2>1. q * (e - d) >= q
    BY <1>2, <1>3, <1>6
  <2>. QED
    BY <1>4, <2>1
<1>. QED
  BY <1>2, <1>3, <1>5, <1>6

-----------------------------------------------------------------------------
(* A power of two is a positive number, ...                                *)
LEMMA PowerPositive == \A n \in Nat : 2^n \in Nat \ {0}
<1>. SUFFICES ASSUME NEW n \in Nat PROVE 2^n \in Nat \ {0}
  OBVIOUS
<1>1. IsFiniteSet(1..n) /\ Cardinality(1..n) = n
  BY FS_Interval
<1>2. IsFiniteSet(SUBSET (1..n)) /\ Cardinality(SUBSET (1..n)) = 2^n
  BY <1>1, FS_SUBSET
<1>3. Cardinality(SUBSET (1..n)) \in Nat
  BY <1>2, FS_CardinalityType
<1>4. SUBSET (1..n) # {}
  OBVIOUS
<1>5. Cardinality(SUBSET (1..n)) # 0
  BY <1>2, <1>4, FS_EmptySet
<1>. QED
  BY <1>2, <1>3, <1>5

(* ... and the next one is twice as much: the sets with n + 1 are as many  *)
(* as the sets without it.                                                 *)
LEMMA PowerDoubles ==
    ASSUME NEW n \in Nat
    PROVE  2^(n + 1) = 2 * 2^n
<1>. DEFINE S == SUBSET (1..n)
            T == (SUBSET (1..(n + 1))) \ S
            With == [x \in S |-> x \cup {n + 1}]
<1>1. /\ IsFiniteSet(1..n) /\ Cardinality(1..n) = n
      /\ IsFiniteSet(1..(n + 1)) /\ Cardinality(1..(n + 1)) = n + 1
  BY FS_Interval
<1>2. IsFiniteSet(S) /\ Cardinality(S) = 2^n
  BY <1>1, FS_SUBSET
<1>3. IsFiniteSet(SUBSET (1..(n + 1))) /\ Cardinality(SUBSET (1..(n + 1))) = 2^(n + 1)
  BY <1>1, FS_SUBSET
<1>4. 1..(n + 1) = (1..n) \cup {n + 1} /\ n + 1 \notin 1..n
  OBVIOUS
<1>5. With \in Bijection(S, T)
  <2>1. \A x \in S : x \cup {n + 1} \in T
    BY <1>4
  <2>2. \A x, y \in S : x \cup {n + 1} = y \cup {n + 1} => x = y
    BY <1>4
  <2>3. \A t \in T : t \ {n + 1} \in S /\ (t \ {n + 1}) \cup {n + 1} = t
    BY <1>4
  <2>. HIDE DEF S, T
  <2>4. With \in Injection(S, T)
    BY <2>1, <2>2, Fun_IsInj
  <2>5. With \in Surjection(S, T)
    BY <2>1, <2>3, Fun_IsSurj
  <2>. QED
    BY <2>4, <2>5 DEF Bijection
<1>6. S \cup T = SUBSET (1..(n + 1)) /\ S \cap T = {}
  BY <1>4
<1>. HIDE DEF S, T, With
<1>7. IsFiniteSet(T) /\ Cardinality(T) = Cardinality(S)
  BY <1>2, <1>5, FS_Bijection DEF ExistsBijection
<1>8. Cardinality(S \cup T) = Cardinality(S) + Cardinality(T) - Cardinality(S \cap T)
  BY <1>2, <1>7, FS_Union
<1>9. 2^(n + 1) = 2^n + 2^n - 0
  BY <1>2, <1>3, <1>6, <1>7, <1>8, FS_EmptySet
<1>. QED
  BY <1>9, PowerPositive

(* A power of two divides every higher one.                                *)
LEMMA PowersDivide ==
    ASSUME NEW i \in Nat, NEW n \in Nat
    PROVE  \E k \in Nat \ {0} : 2^(i + n) = 2^i * k
<1>. DEFINE Bad == {m \in Nat : ~\E k \in Nat \ {0} : 2^(i + m) = 2^i * k}
<1>. SUFFICES ASSUME Bad # {} PROVE FALSE
  OBVIOUS
<1>1. Bad \subseteq Nat
  OBVIOUS
<1>2. PICK m \in Bad : \A l \in Bad : m <= l
  BY <1>1, LeastExists
<1>3. m \in Nat /\ ~\E k \in Nat \ {0} : 2^(i + m) = 2^i * k
  OBVIOUS
<1>4. CASE m = 0
  <2>1. i + m = i
    BY <1>4
  <2>2. 2^(i + m) = 2^i * 1
    BY <2>1, PowerPositive
  <2>. QED
    BY <1>3, <2>2
<1>5. CASE m # 0
  <2>1. m - 1 \in Nat /\ ~(m <= m - 1)
    BY <1>3, <1>5
  <2>2. m - 1 \notin Bad
    BY <1>2, <2>1
  <2>3. PICK k \in Nat \ {0} : 2^(i + (m - 1)) = 2^i * k
    BY <2>1, <2>2
  <2>4. i + (m - 1) \in Nat /\ (i + (m - 1)) + 1 = i + m
    BY <1>3, <2>1
  <2>5. 2^(i + m) = 2 * (2^i * k)
    BY <2>3, <2>4, PowerDoubles
  <2>6. 2 * (2^i * k) = 2^i * (2 * k)
    BY PowerPositive
  <2>7. 2 * k \in Nat \ {0}
    OBVIOUS
  <2>. QED
    BY <1>3, <2>5, <2>6, <2>7, Zenon
<1>. QED
  BY <1>4, <1>5

-----------------------------------------------------------------------------
(* In a finite set of numbers there is one at every place.                 *)
LEMMA EveryPlaceIsTaken ==
    ASSUME NEW S, S \subseteq Nat, IsFiniteSet(S), NEW i \in 1..Cardinality(S)
    PROVE  \E l \in S : Cardinality({k \in S : k <= l}) = i
<1>. DEFINE upTo(l) == {k \in S : k <= l}
            missing == {j \in 1..Cardinality(S) : ~\E l \in S : Cardinality(upTo(l)) = j}
<1>1. Cardinality(S) \in Nat /\ \A l \in S : IsFiniteSet(upTo(l))
  BY FS_CardinalityType, FS_Subset
<1>2. missing \subseteq Nat
  OBVIOUS
<1>3. ASSUME missing # {} PROVE FALSE
  <2>1. PICK j \in missing : \A e \in missing : j <= e
    BY <1>2, <1>3, LeastExists
  <2>2. j \in 1..Cardinality(S) /\ ~\E l \in S : Cardinality(upTo(l)) = j
    OBVIOUS
  <2>3. CASE j = 1
    <3>1. S # {}
      BY <1>1, <2>2, FS_EmptySet
    <3>2. PICK l \in S : \A k \in S : l <= k
      BY <3>1, LeastExists
    <3>3. upTo(l) = {l}
      <4>1. \A k \in S : k <= l <=> k = l
        BY <3>2
      <4>. QED
        BY <4>1
    <3>4. Cardinality({l}) = 1
      BY FS_Singleton
    <3>. QED
      BY <2>2, <2>3, <3>3, <3>4
  <2>4. CASE j # 1
    <3>1. j - 1 \in 1..Cardinality(S) /\ j - 1 < j
      BY <1>1, <2>2, <2>4
    <3>2. j - 1 \notin missing
      BY <2>1, <3>1
    <3>3. PICK l \in S : Cardinality(upTo(l)) = j - 1
      BY <3>1, <3>2
    <3>. DEFINE above == {k \in S : k > l}
    <3>4. above # {}
      <4>1. SUFFICES ASSUME above = {} PROVE FALSE
        OBVIOUS
      <4>2. \A k \in S : k <= l
        BY <4>1
      <4>3. upTo(l) = S
        BY <4>2
      <4>. HIDE DEF upTo
      <4>. QED
        BY <1>1, <2>2, <3>3, <4>3
    <3>5. above \subseteq Nat
      OBVIOUS
    <3>6. PICK x \in above : \A k \in above : x <= k
      BY <3>4, <3>5, LeastExists
    <3>7. upTo(x) = upTo(l) \cup {x} /\ x \notin upTo(l) /\ x \in S
      <4>1. x \in S /\ x \in Nat /\ l \in Nat /\ x > l
        BY <3>6
      <4>2. \A k \in S : k <= x <=> k <= l \/ k = x
        <5>1. ASSUME NEW k \in S PROVE k <= x <=> k <= l \/ k = x
          <6>1. k > l => x <= k
            BY <3>6
          <6>. QED
            BY <4>1, <6>1
        <5>. QED
          BY <5>1
      <4>3. ~(x <= l)
        BY <4>1
      <4>. QED
        BY <4>1, <4>2, <4>3
    <3>8. Cardinality(upTo(l) \cup {x}) = (j - 1) + 1
      BY <1>1, <3>3, <3>7, FS_AddElement
    <3>9. Cardinality(upTo(x)) = j
      BY <1>1, <2>2, <3>7, <3>8
    <3>. QED
      BY <2>2, <3>7, <3>9
  <2>. QED
    BY <2>3, <2>4
<1>. QED
  BY <1>3

(* What a function makes of a finite set is finite.                        *)
LEMMA FiniteImage ==
    ASSUME NEW S, IsFiniteSet(S), NEW f, DOMAIN f = S
    PROVE  IsFiniteSet({f[x] : x \in S})
<1>. DEFINE g == [x \in S |-> f[x]]
            T == {f[x] : x \in S}
<1>1. g \in Surjection(S, T)
  BY Fun_IsSurj
<1>. QED
  BY <1>1, FS_Surjection

(* What holds at first, and after each number if it held after the one     *)
(* before, holds throughout.                                               *)
LEMMA StepByStep ==
    ASSUME NEW N \in Nat, NEW Good, 0 \in Good,
           \A n \in 1..N : n - 1 \in Good => n \in Good
    PROVE  0..N \subseteq Good
<1>. DEFINE bad == {n \in 0..N : n \notin Good}
<1>. SUFFICES ASSUME bad # {} PROVE FALSE
  OBVIOUS
<1>1. bad \subseteq Nat
  OBVIOUS
<1>2. PICK n \in bad : \A k \in bad : n <= k
  BY <1>1, LeastExists
<1>3. n \in 1..N /\ n - 1 \in 0..N /\ ~(n <= n - 1)
  OBVIOUS
<1>. QED
  BY <1>2, <1>3

(* R orders C, without equals.                                             *)
Ordered(C, R) ==
    /\ \A x \in C : <<x, x>> \notin R
    /\ \A x, y, z \in C : <<x, y>> \in R /\ <<y, z>> \in R => <<x, z>> \in R
    /\ \A x, y \in C : x = y \/ <<x, y>> \in R \/ <<y, x>> \in R

(* In a finite set with an order every member has a rank, and every rank   *)
(* up to the last a member.                                                *)
Preceding(x, C, R) == {y \in C : <<y, x>> \in R}
Ranked(C, R) ==
    /\ Cardinality(C) \in Nat
    /\ \A x \in C : /\ IsFiniteSet(Preceding(x, C, R))
                    /\ Cardinality(Preceding(x, C, R)) \in 0..(Cardinality(C) - 1)
    /\ \A x, y \in C :
          <<x, y>> \in R <=> Cardinality(Preceding(x, C, R)) < Cardinality(Preceding(y, C, R))
    /\ \A k \in 0..(Cardinality(C) - 1) : \E x \in C : Cardinality(Preceding(x, C, R)) = k

LEMMA RanksAreTaken ==
    ASSUME NEW C, IsFiniteSet(C), NEW R, Ordered(C, R) PROVE Ranked(C, R)
<1>. USE DEF Ordered
<1>. DEFINE before(x) == {y \in C : <<y, x>> \in R}
            n == Cardinality(C)
            rank == [x \in C |-> Cardinality(before(x))]
<1>1. n \in Nat
  BY FS_CardinalityType
<1>2. ASSUME NEW x \in C
      PROVE  /\ IsFiniteSet(before(x)) /\ Cardinality(before(x)) \in 0..(n - 1)
             /\ IsFiniteSet(before(x) \cup {x})
             /\ Cardinality(before(x) \cup {x}) = Cardinality(before(x)) + 1
             /\ Cardinality(before(x)) \in Nat
  <2>1. /\ IsFiniteSet(before(x)) /\ x \notin before(x)
        /\ before(x) \cup {x} \subseteq C
    BY FS_Subset
  <2>2. /\ IsFiniteSet(before(x) \cup {x})
        /\ Cardinality(before(x) \cup {x}) = Cardinality(before(x)) + 1
    BY <2>1, FS_AddElement
  <2>3. Cardinality(before(x) \cup {x}) <= n /\ Cardinality(before(x)) \in Nat
    BY <2>1, FS_Subset, FS_CardinalityType
  <2>. HIDE DEF before
  <2>. QED
    BY <1>1, <2>1, <2>2, <2>3
<1>3. ASSUME NEW x \in C, NEW y \in C, <<x, y>> \in R
      PROVE  Cardinality(before(x)) < Cardinality(before(y))
  <2>1. before(x) \cup {x} \subseteq before(y)
    BY <1>3
  <2>2. Cardinality(before(x) \cup {x}) <= Cardinality(before(y))
    BY <1>2, <2>1, FS_Subset
  <2>3. /\ Cardinality(before(x) \cup {x}) = Cardinality(before(x)) + 1
        /\ Cardinality(before(x)) \in Nat /\ Cardinality(before(y)) \in Nat
    BY <1>2
  <2>. HIDE DEF before
  <2>. QED
    BY <2>2, <2>3
<1>4. ASSUME NEW x \in C, NEW y \in C, Cardinality(before(x)) < Cardinality(before(y))
      PROVE  <<x, y>> \in R
  <2>1. Cardinality(before(x)) \in Nat /\ Cardinality(before(y)) \in Nat
    BY <1>2
  <2>. HIDE DEF before
  <2>2. x # y /\ ~(Cardinality(before(y)) < Cardinality(before(x)))
    BY <1>4, <2>1
  <2>. QED
    BY <1>3, <2>2
<1>. HIDE DEF before
<1>5. ASSUME NEW k \in 0..(n - 1), \A x \in C : Cardinality(before(x)) # k PROVE FALSE
  <2>. DEFINE others == (0..(n - 1)) \ {k}
  <2>1. IsFiniteSet(0..(n - 1)) /\ Cardinality(0..(n - 1)) = n
    BY <1>1, FS_Interval
  <2>2. IsFiniteSet(others) /\ Cardinality(others) = n - 1
    <3>. HIDE DEF n
    <3>. QED
      BY <2>1, FS_RemoveElement
  <2>3. rank \in [C -> others]
    BY <1>2, <1>5
  <2>. HIDE DEF others
  <2>4. Cardinality(others) < n
    BY <1>1, <2>2
  <2>5. PICK x, y \in C : x # y /\ rank[x] = rank[y]
    <3>. HIDE DEF rank
    <3>. QED
      BY <2>2, <2>3, <2>4, FS_PigeonHole
  <2>6. Cardinality(before(x)) = Cardinality(before(y)) /\ Cardinality(before(x)) \in Nat
    BY <1>2, <2>5
  <2>7. ~(Cardinality(before(x)) < Cardinality(before(y)))
        /\ ~(Cardinality(before(y)) < Cardinality(before(x)))
    BY <2>6
  <2>. QED
    BY <1>3, <2>5, <2>7
<1>6. \A x \in C : IsFiniteSet(before(x)) /\ Cardinality(before(x)) \in 0..(n - 1)
  BY <1>2
<1>7. \A x, y \in C : <<x, y>> \in R <=> Cardinality(before(x)) < Cardinality(before(y))
  BY <1>3, <1>4
<1>8. \A k \in 0..(n - 1) : \E x \in C : Cardinality(before(x)) = k
  BY <1>5
<1>. QED
  BY <1>1, <1>6, <1>7, <1>8, Zenon DEF Ranked, Preceding, before

(* As many as asked for, or all, are of the first ranks.                   *)
LEMMA FirstRanks ==
    ASSUME NEW C, IsFiniteSet(C), NEW R,
           \A x \in C : <<x, x>> \notin R,
           \A x, y, z \in C : <<x, y>> \in R /\ <<y, z>> \in R => <<x, z>> \in R,
           \A x, y \in C : x = y \/ <<x, y>> \in R \/ <<y, x>> \in R,
           NEW n \in Nat, NEW first \in SUBSET C,
           \A x \in C : x \in first <=> Cardinality({y \in C : <<y, x>> \in R}) < n
    PROVE  /\ IsFiniteSet(first)
           /\ Cardinality(first) = IF Cardinality(C) < n THEN Cardinality(C) ELSE n
           /\ \A x \in first, y \in C \ first : <<x, y>> \in R
<1>. DEFINE before(x) == {y \in C : <<y, x>> \in R}
            m == IF Cardinality(C) < n THEN Cardinality(C) ELSE n
            rank == [x \in first |-> Cardinality(before(x))]
<1>1. /\ Cardinality(C) \in Nat
      /\ \A x \in C : Cardinality(before(x)) \in 0..(Cardinality(C) - 1)
      /\ \A x, y \in C : <<x, y>> \in R <=> Cardinality(before(x)) < Cardinality(before(y))
      /\ \A k \in 0..(Cardinality(C) - 1) : \E x \in C : Cardinality(before(x)) = k
  <2>1. Ranked(C, R)
    <3>1. Ordered(C, R)
      BY Zenon DEF Ordered
    <3>. QED
      BY <3>1, RanksAreTaken
  <2>. QED
    BY <2>1, Zenon DEF Ranked, Preceding
<1>0. \A x \in C : x \in first <=> Cardinality(before(x)) < n
  OBVIOUS
<1>. HIDE DEF before
<1>2. m \in Nat /\ IsFiniteSet(0..(m - 1)) /\ Cardinality(0..(m - 1)) = m
  <2>1. m \in Nat
    BY <1>1
  <2>. HIDE DEF m
  <2>. QED
    BY <2>1, FS_Interval
<1>3. rank \in Bijection(first, 0..(m - 1))
  <2>1. \A x \in first : rank[x] \in 0..(m - 1)
    BY <1>0, <1>1
  <2>2. ASSUME NEW x \in first, NEW y \in first, rank[x] = rank[y] PROVE x = y
    <3>1. ~(Cardinality(before(x)) < Cardinality(before(y)))
          /\ ~(Cardinality(before(y)) < Cardinality(before(x)))
      BY <1>1, <2>2
    <3>. QED
      BY <1>1, <3>1
  <2>3. \A k \in 0..(m - 1) : \E x \in first : rank[x] = k
    BY <1>0, <1>1
  <2>. HIDE DEF rank, m
  <2>4. DOMAIN rank = first
    BY DEF rank
  <2>5. rank \in [first -> 0..(m - 1)]
    <3>1. rank = [x \in first |-> rank[x]]
      BY DEF rank
    <3>. QED
      BY <2>1, <3>1
  <2>6. rank \in Injection(first, 0..(m - 1))
    BY <2>2, <2>5 DEF Injection, IsInjective
  <2>7. rank \in Surjection(first, 0..(m - 1))
    BY <2>3, <2>5 DEF Surjection
  <2>. QED
    BY <2>6, <2>7 DEF Bijection
<1>4. IsFiniteSet(first) /\ Cardinality(first) = m
  <2>1. IsFiniteSet(first)
    BY FS_Subset
  <2>. HIDE DEF m, rank
  <2>. QED
    <3>1. ExistsBijection(first, 0..(m - 1))
      BY <1>3 DEF ExistsBijection
    <3>2. Cardinality(0..(m - 1)) = Cardinality(first)
      BY <2>1, <3>1, FS_Bijection
    <3>. QED
      BY <1>2, <2>1, <3>2
<1>5. ASSUME NEW x \in first, NEW y \in C \ first PROVE <<x, y>> \in R
  <2>1. /\ x \in C /\ y \in C /\ Cardinality(before(x)) < n /\ ~(Cardinality(before(y)) < n)
        /\ Cardinality(before(x)) \in Int /\ Cardinality(before(y)) \in Int
    BY <1>0, <1>1
  <2>2. Cardinality(before(x)) < Cardinality(before(y))
    BY <2>1
  <2>. QED
    BY <1>1, <2>1, <2>2
<1>. QED
  BY <1>4, <1>5 DEF before

(* The sequence holds each member once, by key and by number.              *)
LEMMA SortedIs ==
    ASSUME NEW I, I \subseteq Int, IsFiniteSet(I), NEW key, \A i \in I : key[i] \in Int
    PROVE  /\ Sorted(I, key) \in Seq(I) /\ Len(Sorted(I, key)) = Cardinality(I)
           /\ \A i \in I : \E k \in 1..Cardinality(I) : Sorted(I, key)[k] = i
           /\ \A k, l \in 1..Cardinality(I) : k < l =>
                \/ key[Sorted(I, key)[k]] < key[Sorted(I, key)[l]]
                \/ /\ key[Sorted(I, key)[k]] = key[Sorted(I, key)[l]]
                   /\ Sorted(I, key)[k] < Sorted(I, key)[l]
<1>. DEFINE comes(j, i) == key[j] < key[i] \/ (key[j] = key[i] /\ j < i)
            R == {p \in I \X I : comes(p[1], p[2])}
            before(x) == {y \in I : <<y, x>> \in R}
            n == Cardinality(I)
            s == Sorted(I, key)
<1>1. \A i, j \in I : <<j, i>> \in R <=> comes(j, i)
  OBVIOUS
<1>2. /\ \A x \in I : <<x, x>> \notin R
      /\ \A x, y, z \in I : <<x, y>> \in R /\ <<y, z>> \in R => <<x, z>> \in R
      /\ \A x, y \in I : x = y \/ <<x, y>> \in R \/ <<y, x>> \in R
  <2>. HIDE DEF R
  <2>. QED
    BY <1>1
<1>. HIDE DEF R
<1>3. /\ n \in Nat
      /\ \A x \in I : Cardinality(before(x)) \in 0..(n - 1)
      /\ \A x, y \in I : <<x, y>> \in R <=> Cardinality(before(x)) < Cardinality(before(y))
      /\ \A k \in 0..(n - 1) : \E x \in I : Cardinality(before(x)) = k
  <2>1. Ranked(I, R)
    BY <1>2, RanksAreTaken DEF Ordered
  <2>. QED
    BY <2>1, Zenon DEF Ranked, Preceding
<1>4. \A i \in I : {j \in I : comes(j, i)} = before(i)
  BY <1>1
<1>. DEFINE at(k) == CHOOSE i \in I : Cardinality({j \in I : comes(j, i)}) = k - 1
<1>5. s = [k \in 1..n |-> at(k)]
  BY DEF Sorted
<1>. HIDE DEF before, s, comes
<1>6. ASSUME NEW k \in 1..n PROVE s[k] \in I /\ Cardinality(before(s[k])) = k - 1
  <2>1. k - 1 \in 0..(n - 1)
    BY <1>3
  <2>2. \E i \in I : Cardinality({j \in I : comes(j, i)}) = k - 1
    BY <1>3, <1>4, <2>1
  <2>3. at(k) \in I /\ Cardinality({j \in I : comes(j, at(k))}) = k - 1
    BY <2>2
  <2>. HIDE DEF at
  <2>. QED
    BY <1>4, <1>5, <2>3
<1>7. s \in Seq(I) /\ Len(s) = n
  <2>1. \A k \in 1..n : s[k] \in I
    BY <1>6
  <2>2. s \in [1..n -> I]
    BY <1>5, <2>1
  <2>. QED
    BY <1>3, <2>2
<1>8. ASSUME NEW i \in I PROVE \E k \in 1..n : s[k] = i
  <2>. DEFINE k == Cardinality(before(i)) + 1
  <2>1. k \in 1..n /\ Cardinality(before(i)) = k - 1
    BY <1>3
  <2>2. s[k] \in I /\ Cardinality(before(s[k])) = Cardinality(before(i)) /\ Cardinality(before(i)) \in Int
    BY <1>3, <1>6, <2>1
  <2>3. ~(Cardinality(before(s[k])) < Cardinality(before(i)))
        /\ ~(Cardinality(before(i)) < Cardinality(before(s[k])))
    BY <2>2
  <2>4. <<s[k], i>> \notin R /\ <<i, s[k]>> \notin R
    <3>. HIDE DEF k
    <3>. QED
      BY <1>3, <2>2, <2>3
  <2>5. s[k] = i
    <3>. HIDE DEF k
    <3>. QED
      BY <1>2, <2>2, <2>4
  <2>. QED
    BY <2>1, <2>5
<1>9. ASSUME NEW k \in 1..n, NEW l \in 1..n, k < l PROVE comes(s[k], s[l])
  <2>1. s[k] \in I /\ s[l] \in I /\ Cardinality(before(s[k])) < Cardinality(before(s[l]))
    BY <1>6, <1>9
  <2>. QED
    BY <1>1, <1>3, <2>1
<1>. QED
  BY <1>7, <1>8, <1>9 DEF comes, s
=============================================================================
