---------------------------- MODULE NumberFacts ----------------------------
(***************************************************************************)
(* Facts about whole numbers that the proofs of several modules need:      *)
(* least elements and induction, quotients and remainders, and why a prime *)
(* factor permutes the residues of a number it does not divide.            *)
(*                                                                         *)
(* Induction is stated for sets: a predicate is turned into the set of the *)
(* numbers of which it holds.                                              *)
(***************************************************************************)
EXTENDS Integers, WellFoundedInduction, TLAPS

(* A set of natural numbers that is not empty has a least element.         *)
LEMMA LeastNatural ==
  ASSUME NEW T, T \subseteq Nat, T # {}
  PROVE  \E x \in T : \A y \in T : x <= y
<1>1. PICK x \in T : \A y \in T : ~(<<y, x>> \in OpToRel(<, Nat))
  BY NatLessThanWellFounded, WFMin, Zenon
<1>2. \A y \in T : <<y, x>> \in Nat \X Nat
  BY <1>1, Zenon
<1>3. \A y \in T : ~(<<y, x>>[1] < <<y, x>>[2])
  BY <1>1, <1>2, Zenon DEF OpToRel
<1>4. \A y \in T : ~(y < x)
  BY <1>3
<1>5. x \in T
  BY <1>1, Zenon
<1> QED  BY <1>4, <1>5

(* A set that holds 0, and with a number the next one, holds all of them.  *)
LEMMA SetInduction ==
  ASSUME NEW S, 0 \in S, \A n \in Nat : n \in S => n + 1 \in S
  PROVE  Nat \subseteq S
<1> SUFFICES ASSUME Nat \ S # {} PROVE FALSE
  OBVIOUS
<1>1. PICK x \in Nat \ S : \A y \in Nat \ S : x <= y
  BY LeastNatural
<1>2. x # 0 /\ x - 1 \in Nat
  BY <1>1
<1>3. x - 1 \in S
  BY <1>1, <1>2
<1>4. (x - 1) + 1 = x
  BY <1>1
<1> QED  BY <1>1, <1>2, <1>3, <1>4

(* Quotient and remainder are determined by what they make up.             *)
LEMMA QuotientRemainder ==
  ASSUME NEW n \in Nat \ {0}, NEW q \in Int, NEW r \in 0 .. n - 1
  PROVE  (n * q + r) \div n = q /\ (n * q + r) % n = r
<1> DEFINE y == n * q + r
           a == y \div n
           b == y % n
<1>1. y \in Int
  OBVIOUS
<1> HIDE DEF y
<1>2. a \in Int /\ b \in 0 .. n - 1 /\ y = n * a + b
  BY <1>1
<1> HIDE DEF a, b
<1>3. n * (q - a) = b - r
  BY <1>2 DEF y
<1>4. q - a \in Int /\ (q - a >= 1 => n * (q - a) >= n)
      /\ (q - a <= -1 => n * (q - a) <= -n)
  BY <1>2
<1>5. q - a = 0
  BY <1>2, <1>3, <1>4
<1>6. a = q /\ b = r
  BY <1>2, <1>3, <1>5
<1> QED  BY <1>6 DEF a, b, y

(* A number has one quotient and remainder, here of its predecessor.       *)
LEMMA SameQuotient ==
  ASSUME NEW n \in Nat \ {0}, NEW a \in Int, NEW c \in Int,
         NEW b \in Int, b + 1 \in 0 .. n - 1, NEW d \in 0 .. n - 1,
         a * n + b + 1 + 1 = c * n + d + 1
  PROVE  c = a
<1>1. n * a + (b + 1) = n * c + d
  OBVIOUS
<1>2. (n * a + (b + 1)) \div n = a
  BY QuotientRemainder
<1>3. (n * c + d) \div n = c
  BY QuotientRemainder
<1> QED  BY <1>1, <1>2, <1>3, Zenon

Divides(d, x) == \E k \in Int : x = d * k

(* No remainder is left exactly if there is a quotient.                    *)
LEMMA DividesRemainder ==
  ASSUME NEW d \in Nat \ {0}, NEW x \in Int
  PROVE  Divides(d, x) <=> x % d = 0
<1>1. ASSUME NEW k \in Int, x = d * k PROVE x % d = 0
  <2>1. d * k = d * k + 0 /\ 0 \in 0 .. d - 1
    OBVIOUS
  <2>2. (d * k + 0) % d = 0
    BY <2>1, QuotientRemainder
  <2> QED  BY <1>1, <2>1, <2>2
<1>2. ASSUME x % d = 0 PROVE x = d * (x \div d) /\ x \div d \in Int
  BY <1>2
<1> QED  BY <1>1, <1>2 DEF Divides

LEMMA DividesDifference ==
  ASSUME NEW d \in Int, NEW x \in Int, NEW y \in Int, NEW c \in Int,
         Divides(d, x), Divides(d, y)
  PROVE  Divides(d, x - c * y)
<1>1. PICK k \in Int : x = d * k
  BY DEF Divides
<1>2. PICK m \in Int : y = d * m
  BY DEF Divides
<1>3. x - c * y = d * (k - c * m) /\ k - c * m \in Int
  BY <1>1, <1>2
<1> QED  BY <1>3 DEF Divides

Prime(p) == p > 1 /\ \A d \in 2 .. p - 1 : p % d # 0

(* Euclid's lemma, by the least number whose product with m the prime      *)
(* divides: it divides every such number, hence the prime and n.           *)
LEMMA EuclidsLemma ==
  ASSUME NEW p \in Nat, Prime(p), NEW n \in Nat \ {0}, NEW m \in Int,
         Divides(p, n * m), ~Divides(p, n)
  PROVE  Divides(p, m)
<1> DEFINE T == {x \in Nat \ {0} : Divides(p, x * m)}
<1>0. p \in Nat \ {0} /\ p > 1
  BY DEF Prime
<1>1. n \in T
  OBVIOUS
<1>2. p \in T
  BY <1>0 DEF Divides
<1>3. PICK x \in T : \A y \in T : x <= y
  <2>1. T \subseteq Nat /\ T # {}
    BY <1>1
  <2> HIDE DEF T
  <2> QED  BY <2>1, LeastNatural
<1>4. ASSUME NEW y \in T PROVE y % x = 0
  <2> DEFINE q == y \div x
             r == y % x
  <2>1. x \in Nat \ {0} /\ y \in Nat
    BY <1>4
  <2>2. q \in Int /\ r \in 0 .. x - 1 /\ y = x * q + r
    BY <2>1
  <2> HIDE DEF q, r
  <2>3. Divides(p, y * m) /\ Divides(p, x * m)
    BY <1>4
  <2>4. y * m \in Int /\ x * m \in Int
    BY <2>1
  <2>5. Divides(p, y * m - q * (x * m))
    <3>1. ASSUME NEW v \in Int, NEW w \in Int, Divides(p, v), Divides(p, w)
          PROVE  Divides(p, v - q * w)
      <4>1. p \in Int /\ q \in Int
        BY <2>2
      <4> QED  BY <3>1, <4>1, DividesDifference, Zenon
    <3> QED  BY <2>3, <2>4, <3>1
  <2>6. y * m - q * (x * m) = r * m
    BY <2>1, <2>2
  <2>7. Divides(p, r * m)
    BY <2>5, <2>6
  <2>8. r = 0
    <3> SUFFICES ASSUME r # 0 PROVE FALSE
      OBVIOUS
    <3>1. r \in T /\ r < x
      BY <2>1, <2>2, <2>7
    <3> QED  BY <1>3, <2>1, <2>2, <3>1
  <2> QED  BY <2>8 DEF r
<1>5. x \in Nat \ {0} /\ x <= p /\ p % x = 0 /\ n % x = 0 /\ Divides(p, x * m)
  BY <1>1, <1>2, <1>3, <1>4
<1> HIDE DEF T
<1>6. x # p
  BY <1>0, <1>5, DividesRemainder
<1>7. x = 1
  BY <1>0, <1>5, <1>6 DEF Prime
<1>8. x * m = m
  BY <1>7
<1> QED  BY <1>5, <1>8

(* Multiples of a prime that does not divide n have the same remainder     *)
(* only if the multipliers have.                                           *)
LEMMA CancelPrime ==
  ASSUME NEW p \in Nat, Prime(p), NEW n \in Nat \ {0}, n % p # 0,
         NEW d \in Int, Divides(n, p * d)
  PROVE  Divides(n, d)
<1>0. p \in Nat \ {0}
  BY DEF Prime
<1>1. PICK m \in Int : p * d = n * m
  BY DEF Divides
<1>2. Divides(p, n * m)
  BY <1>1 DEF Divides
<1>3. ~Divides(p, n)
  BY <1>0, DividesRemainder
<1>4. PICK k \in Int : m = p * k
  BY <1>2, <1>3, EuclidsLemma DEF Divides
<1>5. p * d = p * (n * k)
  BY <1>1, <1>4
<1>6. d = n * k
  <2>1. p * (d - n * k) = 0
    BY <1>5
  <2>2. d - n * k \in Int
    OBVIOUS
  <2>3. \A z \in Int : z # 0 => p * z # 0
    BY <1>0
  <2>4. d - n * k = 0
    BY <2>1, <2>2, <2>3
  <2> QED  BY <2>4
<1> QED  BY <1>6 DEF Divides

(* The order p * a + o modulo n in which pages and lines are chosen meets  *)
(* no page and no line twice.                                              *)
LEMMA FactorPermutes ==
  ASSUME NEW p \in Nat, Prime(p), NEW n \in Nat \ {0}, n % p # 0, NEW o \in Nat,
         NEW a \in 0 .. n - 1, NEW b \in 0 .. n - 1,
         (p * a + o) % n = (p * b + o) % n
  PROVE  a = b
<1> DEFINE x == p * a + o
           y == p * b + o
<1>1. x \in Int /\ y \in Int
  OBVIOUS
<1>2. x - y = p * (a - b)
  OBVIOUS
<1> HIDE DEF x, y
<1>3. x = n * (x \div n) + (x % n) /\ y = n * (y \div n) + (y % n)
      /\ x \div n \in Int /\ y \div n \in Int
  BY <1>1
<1>4. x % n = y % n /\ x % n \in Int
  BY <1>1 DEF x, y
<1>5. x - y = n * (x \div n - y \div n)
  BY <1>3, <1>4
<1>6. Divides(n, p * (a - b))
  <2>1. p * (a - b) = n * (x \div n - y \div n) /\ x \div n - y \div n \in Int
    BY <1>2, <1>3, <1>5
  <2> QED  BY <2>1, Zenon DEF Divides
<1>7. PICK k \in Int : a - b = n * k
  <2>1. a - b \in Int
    OBVIOUS
  <2> QED  BY <1>6, <2>1, CancelPrime, Zenon DEF Divides
<1>8. (k >= 1 => n * k >= n) /\ (k <= -1 => n * k <= -n)
  OBVIOUS
<1>9. k = 0
  BY <1>7, <1>8
<1> QED  BY <1>7, <1>9

-----------------------------------------------------------------------------
(* Running sums, which the models write as recursive functions: there is   *)
(* such a function, and its values are numbers.                            *)

RunningSum(s, m, term) ==
  s = [k \in 0 .. m |-> IF k = 0 THEN 0 ELSE s[k - 1] + term[k]]

LEMMA SumExists ==
  ASSUME NEW m \in Nat, NEW term \in [1 .. m -> Int]
  PROVE  \E s : RunningSum(s, m, term)
<1> DEFINE Up(s, n) ==
      \A k \in 0 .. n : s[k] = IF k = 0 THEN 0 ELSE s[k - 1] + term[k]
           S == {n \in Nat : n <= m => \E s \in [0 .. n -> Int] : Up(s, n)}
<1>1. 0 \in S
  <2>1. [k \in 0 .. 0 |-> 0] \in [0 .. 0 -> Int] /\ Up([k \in 0 .. 0 |-> 0], 0)
    OBVIOUS
  <2> QED  BY <2>1
<1>2. ASSUME NEW n \in Nat, n \in S PROVE n + 1 \in S
  <2>0. SUFFICES ASSUME n + 1 <= m
                 PROVE  \E s \in [0 .. n + 1 -> Int] : Up(s, n + 1)
    <3> HIDE DEF Up
    <3> QED  OBVIOUS
  <2>1. PICK s \in [0 .. n -> Int] : Up(s, n)
    <3> HIDE DEF Up
    <3> QED  BY <1>2, <2>0
  <2> DEFINE z == [k \in 0 .. n + 1 |-> IF k = n + 1 THEN s[n] + term[k] ELSE s[k]]
  <2>2. z \in [0 .. n + 1 -> Int]
    <3>1. n + 1 \in 1 .. m /\ n \in 0 .. n
      BY <2>0
    <3>2. term[n + 1] \in Int /\ s[n] \in Int
      BY <2>1, <3>1
    <3> QED  BY <2>1, <3>2
  <2>3. ASSUME NEW k \in 0 .. n + 1
        PROVE  z[k] = IF k = 0 THEN 0 ELSE z[k - 1] + term[k]
    <3>1. CASE k = n + 1
      <4>1. k # 0 /\ k - 1 = n /\ n \in 0 .. n + 1 /\ n # n + 1
        BY <3>1
      <4>2. z[k] = s[n] + term[k] /\ z[n] = s[n]
        BY <3>1, <4>1
      <4> QED  BY <4>1, <4>2
    <3>2. CASE k \in 0 .. n
      <4>1. z[k] = s[k] /\ k # n + 1
        BY <3>2
      <4>2. k # 0 => z[k - 1] = s[k - 1]
        BY <3>2
      <4> QED  BY <2>1, <3>2, <4>1, <4>2
    <3> QED  BY <2>3, <3>1, <3>2
  <2> HIDE DEF z
  <2> QED  BY <2>2, <2>3
<1> HIDE DEF S
<1>3. m \in S
  BY <1>1, <1>2, SetInduction
<1>4. PICK s \in [0 .. m -> Int] : Up(s, m)
  BY <1>3 DEF S
<1> QED  BY <1>4 DEF RunningSum

LEMMA SumTyped ==
  ASSUME NEW m \in Nat, NEW term \in [1 .. m -> Int], NEW s, RunningSum(s, m, term)
  PROVE  /\ s[0] = 0
         /\ \A k \in 0 .. m : s[k] \in Int
         /\ \A k \in 1 .. m : s[k] = s[k - 1] + term[k]
<1> DEFINE S == {n \in Nat : n <= m => s[n] \in Int}
<1>1. s[0] = 0
  BY DEF RunningSum
<1>2. \A k \in 1 .. m : s[k] = s[k - 1] + term[k]
  BY DEF RunningSum
<1>3. 0 \in S
  BY <1>1
<1>4. ASSUME NEW n \in Nat, n \in S PROVE n + 1 \in S
  <2> SUFFICES ASSUME n + 1 <= m PROVE s[n + 1] \in Int
    OBVIOUS
  <2>1. n + 1 \in 1 .. m /\ (n + 1) - 1 = n /\ s[n] \in Int
    BY <1>4
  <2>2. s[n + 1] = s[n] + term[n + 1] /\ term[n + 1] \in Int
    BY <1>2, <2>1
  <2> QED  BY <2>1, <2>2
<1> HIDE DEF S
<1>5. Nat \subseteq S
  BY <1>3, <1>4, SetInduction
<1>6. \A k \in 0 .. m : s[k] \in Int
  BY <1>5 DEF S
<1> QED  BY <1>1, <1>2, <1>6

(* Some term is not above the average of all: were every one of them       *)
(* above, the sums would outgrow their own total.                          *)
LEMMA SomeNotAbove ==
  ASSUME NEW m \in Nat \ {0}, NEW term \in [1 .. m -> Int], NEW s, RunningSum(s, m, term)
  PROVE  \E i \in 1 .. m : term[i] * m <= s[m]
<1> SUFFICES ASSUME \A i \in 1 .. m : ~(term[i] * m <= s[m]) PROVE FALSE
  OBVIOUS
<1>1. /\ s[0] = 0 /\ \A k \in 0 .. m : s[k] \in Int
      /\ \A k \in 1 .. m : s[k] = s[k - 1] + term[k]
  BY SumTyped
<1> DEFINE T == s[m]
<1>2. T \in Int
  BY <1>1
<1>3. \A i \in 1 .. m : term[i] * m >= T + 1
  BY <1>2
<1> HIDE DEF T
<1> DEFINE S == {n \in Nat : n <= m => s[n] * m >= n * (T + 1)}
<1>4. 0 \in S
  BY <1>1, <1>2
<1>5. ASSUME NEW n \in Nat, n \in S PROVE n + 1 \in S
  <2> SUFFICES ASSUME n + 1 <= m PROVE s[n + 1] * m >= (n + 1) * (T + 1)
    OBVIOUS
  <2>1. n + 1 \in 1 .. m /\ n \in 0 .. m /\ (n + 1) - 1 = n
    OBVIOUS
  <2>2. /\ s[n + 1] = s[n] + term[n + 1] /\ s[n] \in Int /\ term[n + 1] \in Int
        /\ term[n + 1] * m >= T + 1 /\ s[n] * m >= n * (T + 1)
    BY <1>1, <1>3, <1>5, <2>1
  <2>3. \A a, b \in Int : (a + b) * m = a * m + b * m
    OBVIOUS
  <2>4. (s[n] + term[n + 1]) * m = s[n] * m + term[n + 1] * m
    BY <2>2, <2>3
  <2>5. (n + 1) * (T + 1) = n * (T + 1) + (T + 1)
    BY <1>2
  <2>6. s[n] * m \in Int /\ term[n + 1] * m \in Int /\ n * (T + 1) \in Int
    BY <1>2, <2>2
  <2>7. \A x, y, u, v \in Int : x >= u /\ y >= v => x + y >= u + v
    OBVIOUS
  <2>8. s[n] * m + term[n + 1] * m >= n * (T + 1) + (T + 1)
    <3>1. T + 1 \in Int
      BY <1>2
    <3> QED  BY <2>2, <2>6, <2>7, <3>1, Zenon
  <2>9. s[n + 1] * m >= n * (T + 1) + (T + 1)
    BY <2>2, <2>4, <2>8, Zenon
  <2> QED  BY <2>5, <2>9, Zenon
<1> HIDE DEF S
<1>6. Nat \subseteq S
  BY <1>4, <1>5, SetInduction
<1>7. T * m >= m * (T + 1)
  BY <1>6 DEF S, T
<1>8. m * (T + 1) = T * m + m
  BY <1>2
<1>9. T * m \in Int
  BY <1>2
<1> QED  BY <1>7, <1>8, <1>9

(* Nor is every term below the average: the same of the negated terms.     *)
LEMMA SomeNotBelow ==
  ASSUME NEW m \in Nat \ {0}, NEW term \in [1 .. m -> Int], NEW s, RunningSum(s, m, term)
  PROVE  \E i \in 1 .. m : term[i] * m >= s[m]
<1>1. /\ s[0] = 0 /\ \A k \in 0 .. m : s[k] \in Int
      /\ \A k \in 1 .. m : s[k] = s[k - 1] + term[k]
  BY SumTyped
<1> DEFINE neg == [i \in 1 .. m |-> -term[i]]
           z == [k \in 0 .. m |-> -s[k]]
<1>2. neg \in [1 .. m -> Int]
  OBVIOUS
<1>3. RunningSum(z, m, neg)
  <2>1. ASSUME NEW k \in 0 .. m
        PROVE  z[k] = IF k = 0 THEN 0 ELSE z[k - 1] + neg[k]
    <3>1. CASE k = 0
      BY <1>1, <3>1
    <3>2. CASE k # 0
      <4>1. k \in 1 .. m /\ k - 1 \in 0 .. m
        BY <3>2
      <4>2. /\ s[k] = s[k - 1] + term[k] /\ s[k - 1] \in Int /\ s[k] \in Int /\ term[k] \in Int
        BY <1>1, <4>1
      <4>3. z[k] = -s[k] /\ z[k - 1] = -s[k - 1] /\ neg[k] = -term[k]
        BY <4>1
      <4> QED  BY <3>2, <4>2, <4>3
    <3> QED  BY <3>1, <3>2
  <2>2. DOMAIN z = 0 .. m /\ z = [k \in 0 .. m |-> z[k]]
    OBVIOUS
  <2> HIDE DEF z, neg
  <2> QED  BY <2>1, <2>2 DEF RunningSum
<1>4. z[m] = -s[m]
  OBVIOUS
<1> HIDE DEF neg, z
<1>5. PICK i \in 1 .. m : neg[i] * m <= z[m]
  BY <1>2, <1>3, SomeNotAbove
<1>6. neg[i] = -term[i] /\ term[i] \in Int /\ s[m] \in Int
  BY <1>1 DEF neg
<1>7. neg[i] * m = -(term[i] * m) /\ term[i] * m \in Int
  BY <1>6
<1> QED  BY <1>4, <1>5, <1>6, <1>7
=============================================================================
