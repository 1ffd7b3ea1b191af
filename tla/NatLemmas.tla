----------------------------- MODULE NatLemmas -----------------------------
(***************************************************************************)
(* Facts about natural numbers that the proofs of several components need: *)
(* induction as the existence of a least element, multiples and rounding,  *)
(* remainders, powers of two.                                              *)
(***************************************************************************)
EXTENDS PowersOfTwo, Integers, WellFoundedInduction, TLAPS

\* A non-empty set of naturals has a least element.  Applied to the set of the
\* numbers for which a claim fails, it is induction.
LEMMA LeastOf ==
    ASSUME NEW S \in SUBSET Nat, S # {}
    PROVE  \E k \in S : \A j \in S : k <= j
<1>1. PICK k \in S : \A j \in S : ~(<<j, k>> \in OpToRel(<, Nat))
  BY WFMin, NatLessThanWellFounded, Zenon
<1>2. \A j \in S : ~(j < k)
  BY <1>1, Zenon DEF OpToRel
<1>3. QED
  BY <1>2

\* Induction: a set that holds 0 and, with a number, the next one.
LEMMA Inductive ==
    ASSUME NEW S, 0 \in S, \A n \in Nat : n \in S => n + 1 \in S
    PROVE  Nat \subseteq S
<1> DEFINE Missing == Nat \ S
<1>1. SUFFICES ASSUME Missing # {}
               PROVE  FALSE
  OBVIOUS
<1>2. PICK k \in Missing : \A j \in Missing : k <= j
  BY <1>1, LeastOf, Zenon
<1>3. k # 0 /\ k - 1 \in Nat /\ ~(k <= k - 1) /\ k = (k - 1) + 1
  BY <1>2
<1>4. k - 1 \in S
  BY <1>2, <1>3
<1>5. QED
  BY <1>2, <1>3, <1>4

-----------------------------------------------------------------------------
(* Multiples and rounding *)

\* A number without remainder is a multiple.
LEMMA MultipleOf ==
    ASSUME NEW P \in Nat \ {0}, NEW x \in Nat, x % P = 0
    PROVE  \E q \in Nat : x = P * q
<1>1. x \div P \in Nat /\ (x \div P) * P <= x /\ x < (x \div P) * P + P
  OBVIOUS
<1>2. x = P * (x \div P)
  OBVIOUS
<1> QED
  BY <1>1, <1>2

\* Conversely, a multiple leaves no remainder.
LEMMA NoRemainder ==
    ASSUME NEW P \in Nat \ {0}, NEW q \in Nat
    PROVE  (P * q) % P = 0
  OBVIOUS

\* The sum of multiples is one.
LEMMA SumOfMultiples ==
    ASSUME NEW P \in Nat \ {0}, NEW a \in Nat, NEW b \in Nat, a % P = 0, b % P = 0
    PROVE  (a + b) % P = 0
<1>1. PICK q \in Nat : a = P * q
  BY MultipleOf
<1>2. PICK s \in Nat : b = P * s
  BY MultipleOf
<1>3. a + b = P * (q + s) /\ q + s \in Nat
  BY <1>1, <1>2
<1>4. (P * (q + s)) % P = 0
  BY <1>3, NoRemainder
<1> QED
  BY <1>3, <1>4

\* The page after a page.
LEMMA NextPage ==
    ASSUME NEW P \in Nat \ {0}, NEW a \in Nat, a % P = 0
    PROVE  (a + P) % P = 0
<1>1. PICK q \in Nat : a = P * q
  BY MultipleOf
<1>2. a + P = P * (q + 1) /\ q + 1 \in Nat
  BY <1>1
<1>3. (P * (q + 1)) % P = 0
  BY <1>2, NoRemainder
<1> QED
  BY <1>2, <1>3

\* The distance of two pages is a number of pages.
LEMMA PageDistance ==
    ASSUME NEW P \in Nat \ {0}, NEW a \in Nat, NEW b \in Nat,
           a % P = 0, b % P = 0, a <= b
    PROVE  (b - a) % P = 0
<1>1. PICK q \in Nat : a = P * q
  BY MultipleOf
<1>2. PICK s \in Nat : b = P * s
  BY MultipleOf
<1>3. q <= s
  BY <1>1, <1>2
<1>4. s - q \in Nat
  BY <1>3
<1>5. b - a = P * (s - q)
  BY <1>1, <1>2
<1>6. (P * (s - q)) % P = 0
  BY <1>4, NoRemainder
<1> QED
  BY <1>5, <1>6

\* align_down_to_page() gives the start of the page that holds the number.
LEMMA RoundedDown ==
    ASSUME NEW P \in Nat \ {0}, NEW x \in Nat
    PROVE  /\ (x \div P) * P \in Nat
           /\ ((x \div P) * P) % P = 0
           /\ (x \div P) * P <= x /\ x < (x \div P) * P + P
<1>1. (x \div P) * P \in Nat /\ (x \div P) * P <= x /\ x < (x \div P) * P + P
  OBVIOUS
<1>2. ((x \div P) * P) % P = 0
  OBVIOUS
<1> QED
  BY <1>1, <1>2

\* It stays above any page boundary that the number is above.
LEMMA RoundedDownLeast ==
    ASSUME NEW P \in Nat \ {0}, NEW x \in Nat, NEW a \in Nat, a % P = 0, a <= x
    PROVE  a <= (x \div P) * P
  OBVIOUS

\* It stays below any page boundary less than a page below the number, which is
\* why align_up_to_page() stays within an aligned region.
LEMMA RoundedDownMost ==
    ASSUME NEW P \in Nat \ {0}, NEW x \in Nat, NEW a \in Nat, a % P = 0, x < a + P
    PROVE  (x \div P) * P <= a
<1>1. PICK q \in Nat : a = P * q
  BY MultipleOf
<1>2. x < P * (q + 1)
  BY <1>1
<1>3. x \div P \in Nat /\ (x \div P) * P <= x
  OBVIOUS
<1>4. PICK d \in Nat : d = x \div P
  BY <1>3
<1>5. d * P < P * (q + 1)
  BY <1>2, <1>3, <1>4
<1>6. d < q + 1
  BY <1>5
<1>7. d <= q
  BY <1>6
<1>8. d * P <= P * q
  BY <1>7
<1> QED
  BY <1>1, <1>4, <1>8

\* A number between another one and the start of its page is on that page.
LEMMA SamePage ==
    ASSUME NEW P \in Nat \ {0}, NEW x \in Nat, NEW y \in Nat, (y \div P) * P <= x, x <= y
    PROVE  x \div P = y \div P
<1>1. PICK q \in Nat : q = y \div P
  OBVIOUS
<1>2. q * P <= x /\ y < q * P + P
  BY <1>1
<1>3. PICK d \in Nat : d = x \div P
  OBVIOUS
<1>4. d * P <= x /\ x < d * P + P
  BY <1>3
<1>5. d * P < (q + 1) * P /\ q * P < (d + 1) * P
  BY <1>2, <1>4
<1>6. d < q + 1 /\ q < d + 1
  BY <1>5
<1> QED
  BY <1>1, <1>3, <1>6

\* So is one between the other and the end of its page.
LEMMA SamePageBelow ==
    ASSUME NEW P \in Nat \ {0}, NEW x \in Nat, NEW y \in Nat,
           x <= y, y < ((x + P) \div P) * P
    PROVE  x \div P = y \div P
<1>1. PICK q \in Nat : q = x \div P
  OBVIOUS
<1>2. q * P <= x /\ x < q * P + P
  BY <1>1
<1>3. (x + P) \div P = q + 1
  BY <1>1
<1>4. (q + 1) * P = q * P + P
  OBVIOUS
<1>5. y < q * P + P /\ q * P <= y
  BY <1>2, <1>3, <1>4
<1>6. PICK d \in Nat : d = y \div P
  OBVIOUS
<1>7. d * P <= y /\ y < d * P + P
  BY <1>6
<1>8. d * P < (q + 1) * P /\ q * P < (d + 1) * P
  BY <1>4, <1>5, <1>7
<1>9. d < q + 1 /\ q < d + 1
  BY <1>8
<1> QED
  BY <1>1, <1>6, <1>9

-----------------------------------------------------------------------------
(* Remainders *)

\* What is left of a multiple of a mask and a number below it.
LEMMA Remainder ==
    ASSUME NEW M \in Nat \ {0}, NEW k \in Int, NEW r \in 0..M - 1
    PROVE  (k * M + r) % M = r /\ (k * M + r) \div M = k
<1> DEFINE x == k * M + r
           q == x \div M
           s == x % M
<1>1. x \in Int /\ q \in Int /\ s \in 0..M - 1 /\ x = M * q + s
  OBVIOUS
<1>2. k * M - q * M = s - r
  BY <1>1
<1> HIDE DEF q, s, x
<1>3. ASSUME NEW d \in Nat \ {0}
      PROVE  d * M >= M
  OBVIOUS
<1>4. CASE q < k
  <2>1. k - q \in Nat \ {0} /\ (k - q) * M = s - r
    BY <1>1, <1>2, <1>4
  <2> QED
    BY <1>1, <1>3, <2>1
<1>5. CASE k < q
  <2>1. q - k \in Nat \ {0} /\ (q - k) * M = r - s
    BY <1>1, <1>2, <1>5
  <2> QED
    BY <1>1, <1>3, <2>1
<1>6. CASE q = k
  BY <1>1, <1>2, <1>6 DEF q, s, x
<1> QED
  BY <1>1, <1>4, <1>5, <1>6

\* Reduced once: a number below the mask, one that is negative, and one that is
\* negative in the upper half of a square.
LEMMA ReducedOnce ==
    ASSUME NEW M \in Nat \ {0}, NEW x \in Int
    PROVE  /\ x \in 0..M - 1 => x % M = x
           /\ x + M \in 0..M - 1 => x % M = x + M
           /\ x + M \in 0..M - 1 => (x + M * M) % M = x + M
<1>1. ASSUME x \in 0..M - 1
      PROVE  x % M = x
  <2>1. 0 \in Int /\ 0 * M + x = x
    OBVIOUS
  <2> QED
    BY <1>1, <2>1, Remainder
<1>2. ASSUME x + M \in 0..M - 1
      PROVE  x % M = x + M
  <2>1. -1 \in Int /\ (-1) * M + (x + M) = x
    OBVIOUS
  <2>2. ((-1) * M + (x + M)) % M = x + M
    BY <1>2, Remainder
  <2> QED
    BY <2>1, <2>2
<1>3. ASSUME x + M \in 0..M - 1
      PROVE  (x + M * M) % M = x + M
  <2>1. M - 1 \in Int /\ (M - 1) * M + (x + M) = x + M * M
    OBVIOUS
  <2>2. ((M - 1) * M + (x + M)) % M = x + M
    BY <1>3, <2>1, Remainder
  <2> QED
    BY <2>1, <2>2
<1> QED
  BY <1>1, <1>2, <1>3

\* Shifting a value up to the top of the register and arithmetically down
\* again copies its sign bit.
LEMMA SignCopied ==
    ASSUME NEW B \in Nat \ {0}, NEW S \in Nat \ {0}, NEW half \in Nat, B = 2 * half,
           NEW low \in 0..B - 1
    PROVE  /\ (low * S) % (B * S) = low * S
           /\ low * S < half * S <=> low < half
           /\ (low * S) \div S = low
           /\ (low * S - B * S) \div S = low - B
<1>1. low * S \in Nat /\ B * S \in Nat \ {0} /\ half * S \in Nat
  OBVIOUS
<1>2. ASSUME NEW a \in Nat, NEW b \in Nat, a < b
      PROVE  a * S < b * S
  <2>1. ASSUME NEW d \in Nat \ {0}
        PROVE  d * S >= S
    OBVIOUS
  <2>2. b - a \in Nat \ {0} /\ b * S = a * S + (b - a) * S /\ a * S \in Nat /\ b * S \in Nat
    BY <1>2
  <2> QED
    BY <2>1, <2>2
<1>3. low * S < B * S
  BY <1>2
<1>4. (low * S) % (B * S) = low * S
  <2>1. low * S \in 0..(B * S) - 1 /\ 0 * (B * S) + low * S = low * S
    BY <1>1, <1>3
  <2> QED
    BY <1>1, <2>1, Remainder
<1>5. low * S < half * S <=> low < half
  <2>1. low < half => low * S < half * S
    BY <1>2
  <2>2. half < low => half * S < low * S
    BY <1>2
  <2> QED
    BY <1>1, <2>1, <2>2
<1>6. (low * S) \div S = low
  <2>1. 0 \in 0..S - 1 /\ low * S + 0 = low * S /\ low \in Int
    BY <1>1
  <2> QED
    BY <2>1, Remainder
<1>7. (low * S - B * S) \div S = low - B
  <2>1. 0 \in 0..S - 1 /\ low - B \in Int /\ (low - B) * S + 0 = low * S - B * S
    OBVIOUS
  <2> QED
    BY <2>1, Remainder
<1> QED
  BY <1>4, <1>5, <1>6, <1>7

-----------------------------------------------------------------------------
(* Powers of two *)

\* f computes powers of two up to k.
DoublesTo(f, k) == f = [n \in 0..k |-> IF n = 0 THEN 1 ELSE 2 * f[n - 1]]

\* There is such a function for every bound,
LEMMA DoublesExists == \A k \in Nat : \E f : DoublesTo(f, k)
<1> DEFINE S == {k \in Nat : \E f : DoublesTo(f, k)}
<1>1. 0 \in S
  <2> DEFINE f == [n \in 0..0 |-> 1]
  <2>1. f = [n \in 0..0 |-> IF n = 0 THEN 1 ELSE 2 * f[n - 1]]
    OBVIOUS
  <2> HIDE DEF f
  <2>2. QED
    BY <2>1 DEF DoublesTo
<1>2. ASSUME NEW k \in Nat, k \in S
      PROVE  k + 1 \in S
  <2>1. PICK f : DoublesTo(f, k)
    BY <1>2
  <2>2. \A n \in 0..k : f[n] = IF n = 0 THEN 1 ELSE 2 * f[n - 1]
    BY <2>1 DEF DoublesTo
  <2> DEFINE g == [n \in 0..k + 1 |-> IF n = 0 THEN 1 ELSE 2 * f[n - 1]]
  <2>3. \A n \in 0..k : g[n] = f[n]
    BY <2>2
  <2>4. ASSUME NEW n \in 0..k + 1
        PROVE  g[n] = IF n = 0 THEN 1 ELSE 2 * g[n - 1]
    <3>1. CASE n = 0
      BY <3>1
    <3>2. CASE n # 0
      <4>1. n - 1 \in 0..k
        BY <3>2
      <4>2. g[n - 1] = f[n - 1] /\ g[n] = 2 * f[n - 1]
        BY <2>3, <3>2, <4>1
      <4>3. QED
        BY <3>2, <4>2
    <3>3. QED
      BY <3>1, <3>2
  <2>5. g = [n \in 0..k + 1 |-> g[n]]
    OBVIOUS
  <2> HIDE DEF g
  <2>6. DoublesTo(g, k + 1)
    BY <2>4, <2>5, Zenon DEF DoublesTo
  <2>7. QED
    BY <2>6
<1>3. Nat \subseteq S
  <2> HIDE DEF S
  <2>1. QED
    BY <1>1, <1>2, Inductive
<1>4. QED
  BY <1>3

\* and two of them agree where both are defined.
LEMMA DoublesAgree ==
    ASSUME NEW j \in Nat, NEW k \in Nat, NEW f, NEW g, DoublesTo(f, j), DoublesTo(g, k)
    PROVE  \A n \in Nat : n <= j /\ n <= k => f[n] = g[n]
<1>1. /\ \A n \in 0..j : f[n] = IF n = 0 THEN 1 ELSE 2 * f[n - 1]
      /\ \A n \in 0..k : g[n] = IF n = 0 THEN 1 ELSE 2 * g[n - 1]
  BY DEF DoublesTo
<1> DEFINE S == {n \in Nat : n <= j /\ n <= k => f[n] = g[n]}
<1>2. 0 \in S
  BY <1>1
<1>3. ASSUME NEW n \in Nat, n \in S
      PROVE  n + 1 \in S
  <2>1. SUFFICES ASSUME n + 1 <= j, n + 1 <= k
                 PROVE  f[n + 1] = g[n + 1]
    OBVIOUS
  <2>2. f[n] = g[n]
    BY <1>3, <2>1
  <2>3. n + 1 \in 0..j /\ n + 1 \in 0..k /\ n + 1 # 0 /\ (n + 1) - 1 = n
    BY <2>1
  <2>4. f[n + 1] = 2 * f[n] /\ g[n + 1] = 2 * g[n]
    BY <1>1, <2>3
  <2>5. QED
    BY <2>2, <2>4
<1>4. Nat \subseteq S
  <2> HIDE DEF S
  <2>1. QED
    BY <1>2, <1>3, Inductive
<1>5. QED
  BY <1>4

\* So the recursive definition determines Pow2.
LEMMA Pow2Defined == Pow2 = [n \in Nat |-> IF n = 0 THEN 1 ELSE 2 * Pow2[n - 1]]
<1> DEFINE upto(k) == CHOOSE f : DoublesTo(f, k)
           p == [n \in Nat |-> upto(n)[n]]
<1>1. \A k \in Nat : DoublesTo(upto(k), k)
  BY DoublesExists
<1> HIDE DEF upto
<1>2. ASSUME NEW n \in Nat
      PROVE  p[n] = IF n = 0 THEN 1 ELSE 2 * p[n - 1]
  <2>1. DoublesTo(upto(n), n) /\ n \in 0..n
    BY <1>1
  <2>2. upto(n)[n] = IF n = 0 THEN 1 ELSE 2 * upto(n)[n - 1]
    BY <2>1 DEF DoublesTo
  <2>3. CASE n = 0
    BY <2>2, <2>3
  <2>4. CASE n # 0
    <3>1. n - 1 \in Nat /\ n - 1 <= n /\ n - 1 <= n - 1
      BY <2>4
    <3>2. upto(n)[n - 1] = upto(n - 1)[n - 1]
      BY <1>1, <3>1, DoublesAgree
    <3>3. QED
      BY <2>2, <2>4, <3>1, <3>2
  <2>5. QED
    BY <2>3, <2>4
<1>3. p = [n \in Nat |-> p[n]]
  OBVIOUS
<1> HIDE DEF p
<1>4. p = [n \in Nat |-> IF n = 0 THEN 1 ELSE 2 * p[n - 1]]
  BY <1>2, <1>3, Zenon
<1>5. QED
  BY <1>4 DEF Pow2

\* Its recursion.
LEMMA Pow2Steps ==
    /\ Pow2[0] = 1
    /\ \A n \in Nat : Pow2[n + 1] = 2 * Pow2[n]
<1>1. \A n \in Nat : Pow2[n] = IF n = 0 THEN 1 ELSE 2 * Pow2[n - 1]
  BY Pow2Defined, Zenon
<1>2. ASSUME NEW n \in Nat
      PROVE  Pow2[n + 1] = 2 * Pow2[n]
  <2>1. n + 1 \in Nat /\ n + 1 # 0 /\ (n + 1) - 1 = n
    OBVIOUS
  <2>2. QED
    BY <1>1, <2>1
<1>3. QED
  BY <1>1, <1>2

\* A power of two is above its exponent; in particular it is not zero.
LEMMA Pow2Above == \A n \in Nat : Pow2[n] \in Nat /\ n < Pow2[n]
<1> DEFINE S == {n \in Nat : Pow2[n] \in Nat /\ n < Pow2[n]}
<1>1. 0 \in S
  BY Pow2Steps
<1>2. \A n \in Nat : n \in S => n + 1 \in S
  BY Pow2Steps
<1>3. Nat \subseteq S
  <2> HIDE DEF S
  <2>1. QED
    BY <1>1, <1>2, Inductive
<1>4. QED
  BY <1>3

\* Shifting twice is shifting by the sum.
LEMMA Pow2Sum == \A m, n \in Nat : Pow2[m + n] = Pow2[m] * Pow2[n]
<1> SUFFICES ASSUME NEW m \in Nat
             PROVE  \A n \in Nat : Pow2[m + n] = Pow2[m] * Pow2[n]
  OBVIOUS
<1> DEFINE S == {n \in Nat : Pow2[m + n] = Pow2[m] * Pow2[n]}
<1>1. 0 \in S
  BY Pow2Steps, Pow2Above
<1>2. ASSUME NEW n \in Nat, n \in S
      PROVE  n + 1 \in S
  <2>1. Pow2[m] \in Nat /\ Pow2[n] \in Nat
    BY Pow2Above
  <2>2. m + n \in Nat /\ m + (n + 1) = (m + n) + 1
    OBVIOUS
  <2>3. Pow2[m + (n + 1)] = 2 * Pow2[m + n] /\ Pow2[n + 1] = 2 * Pow2[n]
    BY <2>2, Pow2Steps
  <2>4. Pow2[m + n] = Pow2[m] * Pow2[n]
    BY <1>2
  <2>5. 2 * (Pow2[m] * Pow2[n]) = Pow2[m] * (2 * Pow2[n])
    BY <2>1
  <2>6. QED
    BY <2>3, <2>4, <2>5
<1>3. Nat \subseteq S
  <2> HIDE DEF S
  <2>1. QED
    BY <1>1, <1>2, Inductive
<1>4. QED
  BY <1>3

\* A smaller power of two divides a larger one.
LEMMA Pow2Divides ==
    ASSUME NEW m \in Nat, NEW n \in Nat, Pow2[m] <= Pow2[n]
    PROVE  \E q \in Nat \ {0} : Pow2[n] = Pow2[m] * q
<1>1. Pow2[m] \in Nat \ {0} /\ Pow2[n] \in Nat \ {0}
  BY Pow2Above
<1>2. CASE m <= n
  <2>1. n - m \in Nat /\ n = m + (n - m)
    BY <1>2
  <2>2. Pow2[n] = Pow2[m] * Pow2[n - m]
    BY <2>1, Pow2Sum
  <2>3. Pow2[n - m] \in Nat \ {0}
    BY <2>1, Pow2Above
  <2> QED
    BY <2>2, <2>3
<1>3. CASE n < m
  <2>1. m - n - 1 \in Nat /\ m = n + ((m - n - 1) + 1) /\ (m - n - 1) + 1 \in Nat
    BY <1>3
  <2>2. PICK k \in Nat : k = m - n - 1
    BY <2>1
  <2>3. Pow2[m] = Pow2[n] * Pow2[k + 1] /\ Pow2[k + 1] = 2 * Pow2[k]
    BY <2>1, <2>2, Pow2Sum, Pow2Steps
  <2>4. Pow2[k] \in Nat \ {0}
    BY <2>2, Pow2Above
  <2>5. ASSUME NEW a \in Nat \ {0}, NEW b \in Nat \ {0}
        PROVE  a < a * (2 * b)
    OBVIOUS
  <2>6. Pow2[n] < Pow2[m]
    BY <1>1, <2>3, <2>4, <2>5
  <2> QED
    BY <1>1, <2>6
<1> QED
  BY <1>2, <1>3

\* What is a multiple of a larger power of two is one of a smaller.
LEMMA Pow2Aligned ==
    ASSUME NEW m \in Nat, NEW n \in Nat, Pow2[m] <= Pow2[n], NEW x \in Nat, x % Pow2[n] = 0
    PROVE  x % Pow2[m] = 0
<1>1. Pow2[m] \in Nat \ {0} /\ Pow2[n] \in Nat \ {0}
  BY Pow2Above
<1>2. PICK q \in Nat \ {0} : Pow2[n] = Pow2[m] * q
  BY Pow2Divides
<1>3. PICK s \in Nat : x = Pow2[n] * s
  BY <1>1, MultipleOf
<1>4. PICK w \in Nat \ {0} : w = Pow2[m]
  BY <1>1
<1>5. x = w * (q * s) /\ q * s \in Nat
  BY <1>2, <1>3, <1>4
<1>6. (w * (q * s)) % w = 0
  BY <1>5, NoRemainder
<1> QED
  BY <1>4, <1>5, <1>6

=============================================================================
