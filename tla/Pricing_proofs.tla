---------------------------- MODULE Pricing_proofs ----------------------------
(***************************************************************************)
(* Proofs about Pricing, for any tariffs, packages, day length and stay:   *)
(* the fee is what the price list read minute by minute gives, and it      *)
(* never falls while a vehicle stays.                                      *)
(***************************************************************************)
EXTENDS Pricing, FiniteSetTheorems, WellFoundedInduction, TLAPS

-----------------------------------------------------------------------------
(* Sums over sets of numbers.                                              *)

\* Every set of natural numbers that is not empty has a least element.
LEMMA LeastNat ==
  ASSUME NEW T \in SUBSET Nat, T # {}
  PROVE  \E x \in T : \A y \in T : x <= y
<1>1. PICK x \in T : \A y \in T : ~ (<<y, x>> \in OpToRel(<, Nat))
  BY NatLessThanWellFounded, WFMin
<1>2. ASSUME NEW y \in T PROVE x <= y
  <2>1. x \in Nat /\ y \in Nat
    OBVIOUS
  <2>2. ~ (<<y, x>> \in OpToRel(<, Nat))
    BY <1>1
  <2>3. ~ (y < x)
    BY <2>1, <2>2 DEF OpToRel
  <2> QED
    BY <2>1, <2>3
<1> QED
  BY <1>2

\* What MapThenSumSet picks next, and what it computes: g[s] is the sum of f over s.
Picked(s) == CHOOSE x \in s : TRUE

Sums(f, S, g) ==
  g = [s \in SUBSET S |-> IF s = {} THEN 0 ELSE f[Picked(s)] + g[s \ {Picked(s)}]]

\* The sum in order: p[k] is the sum of f over the numbers of s below k.
InOrder(f, s, n, p) ==
  /\ p \in [0 .. n -> Nat]
  /\ p[0] = 0
  /\ \A k \in 0 .. n - 1 : p[k + 1] = p[k] + (IF k \in s THEN f[k] ELSE 0)

LEMMA OrderedSumExists ==
  ASSUME NEW f \in [Nat -> Nat], NEW s, NEW n \in Nat
  PROVE  \E p : InOrder(f, s, n, p)
<1> DEFINE Exists(m) == \E p : InOrder(f, s, m, p)
           bad == {m \in 0 .. n : ~ Exists(m)}
<1> SUFFICES ASSUME bad # {} PROVE FALSE
  OBVIOUS
<1>1. bad \in SUBSET Nat
  OBVIOUS
<1>2. PICK m \in bad : \A k \in bad : m <= k
  <2> HIDE DEF bad
  <2> QED
    BY <1>1, LeastNat
<1>3. m \in 0 .. n /\ m \in Nat /\ ~ Exists(m)
  <2> HIDE DEF Exists
  <2> QED
    OBVIOUS
<1>4. m # 0
  <2>1. InOrder(f, s, 0, [i \in 0 .. 0 |-> 0])
    BY DEF InOrder
  <2> QED
    BY <1>3, <2>1
<1>5. PICK p : InOrder(f, s, m - 1, p)
  <2>1. m - 1 \in 0 .. n /\ ~ (m <= m - 1)
    BY <1>3, <1>4
  <2>2. Exists(m - 1)
    <3> HIDE DEF Exists
    <3> QED
      BY <1>2, <2>1
  <2> QED
    BY <2>2
<1> DEFINE last == IF m - 1 \in s THEN f[m - 1] ELSE 0
           h == [i \in 0 .. m |-> IF i = m THEN p[m - 1] + last ELSE p[i]]
<1>6. /\ m - 1 \in 0 .. m - 1 /\ m - 1 \in Nat
      /\ p \in [0 .. m - 1 -> Nat] /\ p[0] = 0
  <2>1. m - 1 \in 0 .. m - 1 /\ m - 1 \in Nat
    BY <1>3, <1>4
  <2>2. p \in [0 .. m - 1 -> Nat] /\ p[0] = 0
    BY <1>5 DEF InOrder
  <2> QED
    BY <2>1, <2>2
<1>7. h \in [0 .. m -> Nat] /\ h[0] = 0
  <2>1. last \in Nat /\ p[m - 1] \in Nat
    BY <1>6
  <2> HIDE DEF last
  <2>2. p[m - 1] + last \in Nat
    BY <2>1
  <2>3. \A i \in 0 .. m : i # m => i \in 0 .. m - 1
    BY <1>3
  <2>4. \A i \in 0 .. m : (IF i = m THEN p[m - 1] + last ELSE p[i]) \in Nat
    BY <1>6, <2>2, <2>3
  <2> QED
    <3>1. 0 \in 0 .. m /\ 0 # m
      BY <1>3, <1>4
    <3> QED
      BY <1>6, <2>4, <3>1
<1>8. ASSUME NEW k \in 0 .. m - 1
      PROVE  h[k + 1] = h[k] + (IF k \in s THEN f[k] ELSE 0)
  <2>1. CASE k = m - 1
    BY <1>3, <1>4, <1>6, <2>1
  <2>2. CASE k # m - 1
    <3>1. k \in 0 .. m - 1 - 1 /\ k + 1 \in 0 .. m - 1 /\ k + 1 # m /\ k # m
      BY <1>3, <1>4, <2>2
    <3>2. h[k] = p[k] /\ h[k + 1] = p[k + 1]
      BY <1>3, <3>1
    <3> QED
      BY <1>5, <3>1, <3>2 DEF InOrder
  <2> QED
    BY <2>1, <2>2
<1>9. InOrder(f, s, m, h)
  <2> HIDE DEF h
  <2> QED
    BY <1>7, <1>8 DEF InOrder
<1> QED
  BY <1>3, <1>9

\* Taking one number out of the set takes its term out of the sums beyond it.
LEMMA OneLess ==
  ASSUME NEW f \in [Nat -> Nat], NEW s, NEW n \in Nat, NEW x \in 0 .. n - 1, x \in s,
         NEW p, NEW q, InOrder(f, s, n, p), InOrder(f, s \ {x}, n, q)
  PROVE  p[n] = f[x] + q[n]
<1> DEFINE Right(k) == p[k] = q[k] + (IF x < k THEN f[x] ELSE 0)
           bad == {k \in 0 .. n : ~ Right(k)}
<1>1. p \in [0 .. n -> Nat] /\ q \in [0 .. n -> Nat] /\ p[0] = 0 /\ q[0] = 0
  BY DEF InOrder
<1>2. f[x] \in Nat /\ x \in Nat /\ n \in 0 .. n
  OBVIOUS
<1>3. bad = {}
  <2> SUFFICES ASSUME bad # {} PROVE FALSE
    OBVIOUS
  <2>1. bad \in SUBSET Nat
    OBVIOUS
  <2>2. PICK m \in bad : \A k \in bad : m <= k
    <3> HIDE DEF bad
    <3> QED
      BY <2>1, LeastNat
  <2>3. m \in 0 .. n /\ m \in Nat /\ ~ Right(m)
    OBVIOUS
  <2>4. m # 0
    BY <1>1, <1>2, <2>3
  <2>5. PICK j \in 0 .. n - 1 : m = j + 1
    <3>1. m - 1 \in 0 .. n - 1 /\ m = (m - 1) + 1
      BY <2>3, <2>4
    <3> QED
      BY <3>1
  <2>6. j \in 0 .. n /\ j \in Nat /\ ~ (m <= j) /\ f[j] \in Nat
    BY <2>5
  <2>7. Right(j)
    <3> HIDE DEF Right
    <3> QED
      BY <2>2, <2>6
  <2>8. /\ p[m] = p[j] + (IF j \in s THEN f[j] ELSE 0)
        /\ q[m] = q[j] + (IF j \in s \ {x} THEN f[j] ELSE 0)
    BY <2>5 DEF InOrder
  <2>9. p[j] \in Nat /\ q[j] \in Nat
    BY <1>1, <2>6
  <2>10. CASE j = x
    <3>1. p[m] = p[j] + f[x] /\ q[m] = q[j] /\ p[j] = q[j] /\ x < m
      BY <1>2, <2>5, <2>7, <2>8, <2>9, <2>10
    <3> QED
      BY <2>3, <3>1
  <2>11. CASE j # x
    <3>1. (x < m) = (x < j)
      BY <1>2, <2>5, <2>6, <2>11
    <3> DEFINE v == IF j \in s THEN f[j] ELSE 0
               w == IF x < j THEN f[x] ELSE 0
    <3>2. p[m] = p[j] + v /\ q[m] = q[j] + v /\ p[j] = q[j] + w /\ v \in Nat /\ w \in Nat
      BY <1>2, <2>6, <2>7, <2>8, <2>11
    <3>3. p[m] # q[m] + w
      BY <2>3, <3>1
    <3> HIDE DEF v, w
    <3> QED
      BY <2>9, <3>2, <3>3
  <2> QED
    BY <2>10, <2>11
<1>4. Right(n)
  BY <1>2, <1>3
<1> QED
  BY <1>1, <1>2, <1>4

\* Two sums in order are one.
LEMMA OrderedSumUnique ==
  ASSUME NEW f \in [Nat -> Nat], NEW s, NEW n \in Nat,
         NEW p, NEW q, InOrder(f, s, n, p), InOrder(f, s, n, q)
  PROVE  p[n] = q[n]
<1> DEFINE bad == {k \in 0 .. n : p[k] # q[k]}
<1>1. bad = {}
  <2> SUFFICES ASSUME bad # {} PROVE FALSE
    OBVIOUS
  <2>1. bad \in SUBSET Nat
    OBVIOUS
  <2>2. PICK m \in bad : \A k \in bad : m <= k
    <3> HIDE DEF bad
    <3> QED
      BY <2>1, LeastNat
  <2>3. m \in 0 .. n /\ m \in Nat /\ p[m] # q[m]
    OBVIOUS
  <2>4. m # 0
    BY <2>3 DEF InOrder
  <2>5. PICK j \in 0 .. n - 1 : m = j + 1
    <3>1. m - 1 \in 0 .. n - 1 /\ m = (m - 1) + 1
      BY <2>3, <2>4
    <3> QED
      BY <3>1
  <2>6. j \in 0 .. n /\ ~ (m <= j)
    BY <2>5
  <2>7. p[j] = q[j]
    BY <2>2, <2>6
  <2> QED
    BY <2>3, <2>5, <2>7 DEF InOrder
<1> QED
  BY <1>1

\* The sum in order as a number.
Ordered(f, s, n) == (CHOOSE p : InOrder(f, s, n, p))[n]

LEMMA OrderedIs ==
  ASSUME NEW f \in [Nat -> Nat], NEW s, NEW n \in Nat, NEW p, InOrder(f, s, n, p)
  PROVE  Ordered(f, s, n) = p[n] /\ p[n] \in Nat
<1> DEFINE q == CHOOSE q : InOrder(f, s, n, q)
<1>1. InOrder(f, s, n, q)
  OBVIOUS
<1> HIDE DEF q
<1>2. p[n] = q[n]
  BY <1>1, OrderedSumUnique
<1>3. p[n] \in Nat
  BY DEF InOrder
<1> QED
  BY <1>2, <1>3 DEF Ordered, q

\* The sum in order does what MapThenSumSet does, whatever number it picks first.
LEMMA OrderedPicks ==
  ASSUME NEW f \in [Nat -> Nat], NEW n \in Nat, NEW s \in SUBSET (0 .. n - 1)
  PROVE  Ordered(f, s, n) = IF s = {} THEN 0 ELSE f[Picked(s)] + Ordered(f, s \ {Picked(s)}, n)
<1>1. CASE s = {}
  <2>1. InOrder(f, {}, n, [i \in 0 .. n |-> 0])
    BY DEF InOrder
  <2>2. Ordered(f, {}, n) = [i \in 0 .. n |-> 0][n]
    BY <2>1, OrderedIs
  <2> QED
    BY <1>1, <2>2
<1>2. CASE s # {}
  <2>1. Picked(s) \in s
    BY <1>2 DEF Picked
  <2>2. PICK x : x = Picked(s)
    OBVIOUS
  <2>3. x \in s /\ x \in 0 .. n - 1
    BY <2>1, <2>2
  <2>4. PICK p : InOrder(f, s, n, p)
    BY OrderedSumExists
  <2>5. PICK q : InOrder(f, s \ {x}, n, q)
    BY OrderedSumExists
  <2>6. Ordered(f, s, n) = p[n]
    BY <2>4, OrderedIs
  <2>7. Ordered(f, s \ {x}, n) = q[n]
    BY <2>5, OrderedIs
  <2>8. p[n] = f[x] + q[n]
    BY <2>3, <2>4, <2>5, OneLess
  <2> QED
    BY <1>2, <2>2, <2>6, <2>7, <2>8
<1> QED
  BY <1>1, <1>2

LEMMA SumsExist ==
  ASSUME NEW f \in [Nat -> Nat], NEW n \in Nat, NEW S \in SUBSET (0 .. n - 1)
  PROVE  \E g : Sums(f, S, g)
<1> DEFINE g == [s \in SUBSET S |-> Ordered(f, s, n)]
<1>1. ASSUME NEW s \in SUBSET S
      PROVE  g[s] = IF s = {} THEN 0 ELSE f[Picked(s)] + g[s \ {Picked(s)}]
  <2>1. s \in SUBSET (0 .. n - 1) /\ s \ {Picked(s)} \in SUBSET S
    OBVIOUS
  <2>2. g[s] = Ordered(f, s, n) /\ g[s \ {Picked(s)}] = Ordered(f, s \ {Picked(s)}, n)
    BY <2>1
  <2> HIDE DEF g
  <2> QED
    BY <2>1, <2>2, OrderedPicks
<1>2. g = [s \in SUBSET S |-> g[s]]
  OBVIOUS
<1> HIDE DEF g
<1>3. Sums(f, S, g)
  BY <1>1, <1>2 DEF Sums
<1> QED
  BY <1>3

\* Whatever order a sum is taken in, it is the one in order.
LEMMA SumsAre ==
  ASSUME NEW f \in [Nat -> Nat], NEW n \in Nat, NEW S \in SUBSET (0 .. n - 1),
         NEW g, Sums(f, S, g)
  PROVE  g[S] = Ordered(f, S, n)
<1> DEFINE wrong == {s \in SUBSET S : g[s] # Ordered(f, s, n)}
           sizes == {Cardinality(s) : s \in wrong}
<1>1. IsFiniteSet(S) /\ \A s \in SUBSET S : IsFiniteSet(s) /\ Cardinality(s) \in Nat
  <2>1. IsFiniteSet(0 .. n - 1)
    BY FS_Interval
  <2> QED
    BY <2>1, FS_Subset, FS_CardinalityType
<1>2. ASSUME wrong # {} PROVE FALSE
  <2>1. sizes \in SUBSET Nat /\ sizes # {}
    BY <1>1, <1>2
  <2>2. PICK size \in sizes : \A k \in sizes : size <= k
    <3> HIDE DEF sizes
    <3> QED
      BY <2>1, LeastNat
  <2>3. PICK s \in wrong : size = Cardinality(s)
    BY <2>2
  <2>4. s \in SUBSET S /\ s \in SUBSET (0 .. n - 1) /\ g[s] # Ordered(f, s, n)
    BY <2>3
  <2>5. g[s] = IF s = {} THEN 0 ELSE f[Picked(s)] + g[s \ {Picked(s)}]
    <3>1. g = [t \in SUBSET S |-> IF t = {} THEN 0 ELSE f[Picked(t)] + g[t \ {Picked(t)}]]
      BY DEF Sums
    <3> QED
      BY <2>4, <3>1
  <2>6. s # {} /\ Picked(s) \in s
    <3>1. s # {}
      BY <2>4, <2>5, OrderedPicks
    <3> QED
      BY <3>1 DEF Picked
  <2>7. s \ {Picked(s)} \notin wrong
    <3>1. Cardinality(s \ {Picked(s)}) = Cardinality(s) - 1 /\ Cardinality(s) \in Nat
      BY <1>1, <2>4, <2>6, FS_RemoveElement
    <3>2. ~ (size <= Cardinality(s \ {Picked(s)}))
      BY <2>3, <3>1
    <3> HIDE DEF wrong
    <3> QED
      BY <2>2, <3>2
  <2>8. g[s \ {Picked(s)}] = Ordered(f, s \ {Picked(s)}, n)
    BY <2>4, <2>7
  <2> QED
    BY <2>4, <2>5, <2>6, <2>8, OrderedPicks
<1> QED
  BY <1>2
-----------------------------------------------------------------------------
(* Division, and what it keeps in order.                                   *)

LEMMA ProductMonotone ==
  ASSUME NEW x \in Int, NEW y \in Int, x <= y, NEW z \in Nat
  PROVE  x * z \in Int /\ y * z \in Int /\ x * z <= y * z
<1>1. PICK k \in Nat : y = x + k
  <2>1. y - x \in Nat /\ y = x + (y - x)
    OBVIOUS
  <2> QED
    BY <2>1
<1>2. y * z = x * z + k * z /\ x * z \in Int /\ y * z \in Int
  BY <1>1
<1>3. k * z \in Nat
  OBVIOUS
<1> QED
  BY <1>2, <1>3

LEMMA DivMod ==
  ASSUME NEW a \in Int, NEW b \in Nat \ {0}
  PROVE  a \div b \in Int /\ a % b \in 0 .. b - 1 /\ a = (a \div b) * b + (a % b)
OBVIOUS

LEMMA DivMonotone ==
  ASSUME NEW a \in Int, NEW c \in Int, a <= c, NEW b \in Nat \ {0}
  PROVE  a \div b \in Int /\ c \div b \in Int /\ a \div b <= c \div b
<1> DEFINE q == a \div b
           r == a % b
           p == c \div b
           s == c % b
<1>1. q \in Int /\ r \in 0 .. b - 1 /\ a = q * b + r
  BY DivMod
<1>2. p \in Int /\ s \in 0 .. b - 1 /\ c = p * b + s
  BY DivMod
<1> HIDE DEF q, r, p, s
<1>3. ASSUME q > p PROVE FALSE
  <2>1. (p + 1) * b <= q * b /\ (p + 1) * b \in Int /\ q * b \in Int /\ p * b \in Int
    BY <1>1, <1>2, <1>3, ProductMonotone
  <2>2. (p + 1) * b = p * b + b
    BY <1>2
  <2> QED
    BY <1>1, <1>2, <2>1, <2>2
<1> QED
  BY <1>1, <1>2, <1>3 DEF q, p

LEMMA DivNat ==
  ASSUME NEW a \in Nat, NEW b \in Nat \ {0}
  PROVE  a \div b \in Nat
<1>1. 0 \div b <= a \div b /\ a \div b \in Int
  BY DivMonotone
<1>2. 0 \div b = 0
  OBVIOUS
<1> QED
  BY <1>1, <1>2

LEMMA CeilDivMonotone ==
  ASSUME NEW a \in Int, NEW c \in Int, a <= c, NEW b \in Nat \ {0}
  PROVE  CeilDiv(a, b) \in Int /\ CeilDiv(c, b) \in Int /\ CeilDiv(a, b) <= CeilDiv(c, b)
<1>1. -c \in Int /\ -a \in Int /\ -c <= -a
  OBVIOUS
<1>2. (-c) \div b \in Int /\ (-a) \div b \in Int /\ (-c) \div b <= (-a) \div b
  BY <1>1, DivMonotone
<1> QED
  BY <1>2 DEF CeilDiv

LEMMA CeilDivNat ==
  ASSUME NEW a \in Nat, NEW b \in Nat \ {0}
  PROVE  CeilDiv(a, b) \in Nat
<1>1. CeilDiv(0, b) <= CeilDiv(a, b) /\ CeilDiv(a, b) \in Int
  BY CeilDivMonotone
<1>2. CeilDiv(0, b) = 0
  BY DEF CeilDiv
<1> QED
  BY <1>1, <1>2

\* A discount of 100 percent or less never takes more than what it is taken from.
LEMMA DiscountedMonotone ==
  ASSUME NEW e \in Nat, NEW f \in Nat, e <= f, NEW d \in 0 .. 100
  PROVE  /\ (e * d) \div 100 \in Int /\ (f * d) \div 100 \in Int
         /\ e - (e * d) \div 100 <= f - (f * d) \div 100
<1>1. e * d \in Int /\ f * d \in Int /\ (f - e) * d \in Int
  OBVIOUS
<1>2. f * d = e * d + (f - e) * d
  OBVIOUS
<1>3. (f - e) * d <= (f - e) * 100
  OBVIOUS
<1> DEFINE x == e * d
           y == f * d
           k == f - e
<1>4. x \in Int /\ y \in Int /\ k \in Nat /\ y <= x + 100 * k
  BY <1>1, <1>2, <1>3
<1> HIDE DEF x, y, k
<1>5. y \div 100 <= x \div 100 + k /\ x \div 100 \in Int /\ y \div 100 \in Int
  BY <1>4
<1> QED
  BY <1>5 DEF x, y, k

\* The multiples below a number are those below its quotient, rounded up.
LEMMA BelowCeil ==
  ASSUME NEW a \in Int, NEW b \in Nat \ {0}, NEW k \in Int
  PROVE  CeilDiv(a, b) \in Int /\ k * b \in Int /\ (k * b < a <=> k < CeilDiv(a, b))
<1> DEFINE q == (-a) \div b
           r == (-a) % b
<1>1. q \in Int /\ r \in 0 .. b - 1 /\ -a = q * b + r
  <2>1. -a \in Int
    OBVIOUS
  <2> QED
    BY <2>1, DivMod
<1>2. CeilDiv(a, b) = -q
  BY DEF CeilDiv
<1> HIDE DEF q, r
<1>3. CASE k <= -q - 1
  <2>1. /\ k * b <= (-q - 1) * b /\ k * b \in Int /\ (-q - 1) * b \in Int
        /\ (-q - 1) * b = -(q * b) - b /\ q * b \in Int
    BY <1>1, <1>3, ProductMonotone
  <2> DEFINE x == k * b
             y == q * b
             z == (-q - 1) * b
  <2>2. x <= z /\ x \in Int /\ z = -y - b /\ y \in Int /\ -a = y + r
    BY <1>1, <2>1
  <2> HIDE DEF x, y, z
  <2>3. x < a
    BY <1>1, <2>2
  <2> QED
    BY <1>1, <1>2, <1>3, <2>1, <2>3 DEF x
<1>4. CASE -q <= k
  <2>1. /\ (-q) * b <= k * b /\ k * b \in Int /\ (-q) * b \in Int
        /\ (-q) * b = -(q * b) /\ q * b \in Int
    BY <1>1, <1>4, ProductMonotone
  <2> DEFINE x == k * b
             y == q * b
             z == (-q) * b
  <2>2. z <= x /\ x \in Int /\ z = -y /\ y \in Int /\ -a = y + r
    BY <1>1, <2>1
  <2> HIDE DEF x, y, z
  <2>3. ~(x < a)
    BY <1>1, <2>2
  <2> QED
    BY <1>1, <1>2, <1>4, <2>1, <2>3 DEF x
<1> QED
  BY <1>1, <1>3, <1>4

LEMMA CeilIs ==
  ASSUME NEW a \in Int, NEW b \in Nat \ {0}, NEW q \in Int, q * b < a, a <= (q + 1) * b
  PROVE  CeilDiv(a, b) = q + 1
<1>1. q < CeilDiv(a, b) /\ CeilDiv(a, b) \in Int
  BY BelowCeil
<1>2. ~(q + 1 < CeilDiv(a, b))
  <2>1. (q + 1) * b \in Int /\ ~((q + 1) * b < a)
    OBVIOUS
  <2> QED
    BY <2>1, BelowCeil
<1> QED
  BY <1>1, <1>2

\* One more minute begins a block only after a multiple of it.
LEMMA CeilStep ==
  ASSUME NEW x \in Nat, NEW b \in Nat \ {0}
  PROVE  CeilDiv(x + 1, b) = CeilDiv(x, b) + (IF x % b = 0 THEN 1 ELSE 0)
<1> DEFINE q == x \div b
           r == x % b
<1>1. q \in Int /\ r \in 0 .. b - 1 /\ x = q * b + r /\ q * b \in Int
  BY DivMod
<1> HIDE DEF q, r
<1>2. (q + 1) * b = q * b + b /\ (q - 1) * b = q * b - b
  BY <1>1
<1> DEFINE y == q * b
           z == (q + 1) * b
           w == (q - 1) * b
<1>3. y \in Int /\ z = y + b /\ w = y - b /\ x = y + r
  BY <1>1, <1>2
<1>4. CeilDiv(x + 1, b) = q + 1
  <2>1. y < x + 1 /\ x + 1 <= z
    <3> HIDE DEF y, z, w
    <3> QED
      BY <1>1, <1>3
  <2> QED
    BY <1>1, <2>1, CeilIs
<1>5. CASE r = 0
  <2>1. w < x /\ x <= y
    <3> HIDE DEF y, z, w
    <3> QED
      BY <1>1, <1>3, <1>5
  <2>2. q - 1 \in Int /\ q - 1 + 1 = q
    BY <1>1
  <2>3. CeilDiv(x, b) = q
    BY <2>1, <2>2, CeilIs
  <2> QED
    BY <1>1, <1>4, <1>5, <2>3 DEF r
<1>6. CASE r # 0
  <2>1. y < x /\ x <= z
    <3> HIDE DEF y, z, w
    <3> QED
      BY <1>1, <1>3, <1>6
  <2>2. CeilDiv(x, b) = q + 1
    BY <1>1, <2>1, CeilIs
  <2> QED
    BY <1>1, <1>4, <1>6, <2>2 DEF r
<1> QED
  BY <1>5, <1>6
-----------------------------------------------------------------------------
(* The fee grows with the stay (Pricing).                                  *)

LEMMA RateFields ==
  ASSUME NEW rate \in Rate
  PROVE  /\ rate.free \in Nat /\ rate.initial \in Nat \ {0} /\ rate.initialFee \in Nat
         /\ rate.block \in Nat \ {0} /\ rate.blockFee \in Nat /\ rate.cap \in Nat \cup {NoCap}
         /\ rate.overnight \in Nat /\ rate.lost \in Nat /\ rate.overtime \in Nat
         /\ rate.day \in Nat /\ rate.month \in Nat /\ rate.discount \in 0 .. 100
BY DEF Rate

\* More minutes of a day never cost less.
LEMMA DayAmountMonotone ==
  ASSUME NEW rate \in Rate, NEW a \in Int, NEW c \in Int, a <= c
  PROVE  /\ DayAmount(rate, a) \in Nat /\ DayAmount(rate, c) \in Nat
         /\ DayAmount(rate, a) <= DayAmount(rate, c)
<1> DEFINE x == OrZero(a - rate.initial)
           y == OrZero(c - rate.initial)
           m == CeilDiv(x, rate.block)
           n == CeilDiv(y, rate.block)
<1>1. /\ rate.initial \in Nat \ {0} /\ rate.initialFee \in Nat /\ rate.block \in Nat \ {0}
      /\ rate.blockFee \in Nat /\ rate.cap \in Nat \cup {NoCap} /\ NoCap \notin Nat
  BY RateFields, PricingAssumption DEF PricingAssumption
<1>2. x \in Nat /\ y \in Nat /\ x <= y
  BY <1>1 DEF OrZero
<1> HIDE DEF x, y
<1>3. m \in Nat /\ n \in Nat /\ m <= n
  BY <1>1, <1>2, CeilDivMonotone, CeilDivNat
<1> DEFINE v == rate.initialFee + m * rate.blockFee
           w == rate.initialFee + n * rate.blockFee
<1>4. v \in Nat /\ w \in Nat /\ v <= w
  <2> HIDE DEF m, n
  <2>1. m * rate.blockFee <= n * rate.blockFee /\ m * rate.blockFee \in Nat /\ n * rate.blockFee \in Nat
    BY <1>1, <1>3, ProductMonotone
  <2> QED
    BY <1>1, <2>1
<1>5. DayAmount(rate, a) = Capped(v, rate) /\ DayAmount(rate, c) = Capped(w, rate)
  BY DEF DayAmount, m, n, x, y
<1> HIDE DEF v, w
<1> QED
  BY <1>1, <1>4, <1>5 DEF Capped

\* More days, and more of the last one, never cost less.
LEMMA ByTheDayMonotone ==
  ASSUME NEW rate \in Rate, NEW a \in Nat, NEW c \in Nat, a <= c
  PROVE  ByTheDay(rate, a) \in Nat /\ ByTheDay(rate, c) \in Nat /\ ByTheDay(rate, a) <= ByTheDay(rate, c)
<1> DEFINE D == DayMinutes
           q == a \div D
           r == a % D
           p == c \div D
           s == c % D
           full == DayAmount(rate, D)
           rest(x) == IF x = 0 THEN 0 ELSE DayAmount(rate, x)
<1>1. D \in Nat \ {0}
  BY PricingAssumption DEF PricingAssumption
<1>2. /\ q \in Nat /\ r \in 0 .. D - 1 /\ a = q * D + r
      /\ p \in Nat /\ s \in 0 .. D - 1 /\ c = p * D + s
  <2> HIDE DEF D
  <2>1. a \in Int /\ c \in Int
    OBVIOUS
  <2>2. r \in 0 .. D - 1 /\ a = q * D + r
    BY <1>1, <2>1, DivMod
  <2>3. s \in 0 .. D - 1 /\ c = p * D + s
    BY <1>1, <2>1, DivMod
  <2>4. q \in Nat /\ p \in Nat
    BY <1>1, DivNat
  <2> QED
    BY <2>2, <2>3, <2>4
<1>3. q <= p
  BY <1>1, DivMonotone
<1>4. full \in Nat
  BY <1>1, DayAmountMonotone
<1>5. rest(r) \in Nat /\ rest(s) \in Nat /\ rest(r) <= full
  BY <1>1, <1>2, <1>4, DayAmountMonotone
<1>6. r <= s => rest(r) <= rest(s)
  BY <1>2, DayAmountMonotone
<1>7. ByTheDay(rate, a) = q * full + rest(r) /\ ByTheDay(rate, c) = p * full + rest(s)
  BY DEF ByTheDay
<1> DEFINE x == rest(r)
           y == rest(s)
<1>8. x \in Nat /\ y \in Nat /\ x <= full /\ (r <= s => x <= y)
      /\ ByTheDay(rate, a) = q * full + x /\ ByTheDay(rate, c) = p * full + y
  BY <1>5, <1>6, <1>7
<1> HIDE DEF q, r, p, s, full, x, y, D
<1>9. q * full \in Nat /\ p * full \in Nat
  BY <1>2, <1>4
<1>10. CASE q = p
  <2>1. r <= s
    BY <1>1, <1>2, <1>10
  <2> QED
    BY <1>8, <1>9, <1>10, <2>1
<1>11. CASE q + 1 <= p
  <2>1. (q + 1) * full <= p * full /\ (q + 1) * full = q * full + full
    BY <1>2, <1>4, <1>11, ProductMonotone
  <2> QED
    BY <1>4, <1>8, <1>9, <2>1
<1> QED
  BY <1>2, <1>3, <1>10, <1>11

\* More time is never fewer minutes.
LEMMA BillableMonotone ==
  ASSUME NEW rate \in Rate, NEW a \in Int, NEW c \in Int, a <= c, NEW extra \in Int
  PROVE  /\ Billable(a, rate, extra) \in Nat /\ Billable(c, rate, extra) \in Nat
         /\ Billable(a, rate, extra) <= Billable(c, rate, extra)
<1>1. TicksPerMinute \in Nat \ {0} /\ rate.free \in Nat
  BY RateFields, PricingAssumption DEF PricingAssumption
<1>2. Minutes(a) \in Int /\ Minutes(c) \in Int /\ Minutes(a) <= Minutes(c)
  BY <1>1, CeilDivMonotone DEF Minutes
<1> QED
  BY <1>1, <1>2 DEF Billable, OrZero

\* A vehicle inside, with the prices of its check-in.
Stay == [status : {"parked"}, since : Int, kind : Kinds, rate : Rate, until : Int \cup {NoUntil},
         plate : BOOLEAN, code : BOOLEAN]

LEMMA EligibleMonotone ==
  ASSUME NEW c \in Stay, NEW t \in Int, NEW u \in Int, t <= u, NEW extra \in Int
  PROVE  Eligible(c, t, extra) \in Nat /\ Eligible(c, u, extra) \in Nat /\ Eligible(c, t, extra) <= Eligible(c, u, extra)
<1>1. c.since \in Int /\ c.kind \in Kinds /\ c.rate \in Rate /\ c.until \in Int \cup {NoUntil}
  BY DEF Stay
<1>2. /\ c.rate.day \in Nat /\ c.rate.month \in Nat
      /\ DayMinutes \in Nat \ {0} /\ MonthDays * DayMinutes \in Nat \ {0}
  <2>1. DayMinutes \in Nat \ {0} /\ MonthDays \in Nat \ {0}
    BY PricingAssumption DEF PricingAssumption
  <2>2. MonthDays * DayMinutes >= 1 * DayMinutes /\ MonthDays * DayMinutes \in Int
    BY <2>1, ProductMonotone
  <2> QED
    BY <1>1, <2>1, <2>2, RateFields
<1> DEFINE m == Billable(t - c.since, c.rate, extra)
           n == Billable(u - c.since, c.rate, extra)
<1>3. m \in Nat /\ n \in Nat /\ m <= n
  <2> DEFINE x == t - c.since
             y == u - c.since
  <2>1. x \in Int /\ y \in Int /\ x <= y
    BY <1>1
  <2> HIDE DEF x, y
  <2>2. /\ Billable(x, c.rate, extra) \in Nat /\ Billable(y, c.rate, extra) \in Nat
        /\ Billable(x, c.rate, extra) <= Billable(y, c.rate, extra)
    BY <1>1, <2>1, BillableMonotone
  <2> QED
    BY <2>2 DEF x, y
<1> HIDE DEF m, n
<1>4. CASE IsPass(c.kind, c.until)
  <2> DEFINE from == Later(c.since, c.until)
             a == Billable(t - from, c.rate, extra)
             b == Billable(u - from, c.rate, extra)
  <2>1. from \in Int
    BY <1>1, <1>4 DEF Later, IsPass
  <2> HIDE DEF from
  <2>2. a \in Nat /\ b \in Nat /\ a <= b
    <3> DEFINE x == t - from
               y == u - from
    <3>1. x \in Int /\ y \in Int /\ x <= y
      BY <2>1
    <3> HIDE DEF x, y
    <3>2. /\ Billable(x, c.rate, extra) \in Nat /\ Billable(y, c.rate, extra) \in Nat
          /\ Billable(x, c.rate, extra) <= Billable(y, c.rate, extra)
      BY <1>1, <3>1, BillableMonotone
    <3> QED
      BY <3>2 DEF x, y
  <2>3. Eligible(c, t, extra) = ByTheDay(c.rate, a) /\ Eligible(c, u, extra) = ByTheDay(c.rate, b)
    BY <1>4 DEF Eligible, from
  <2> HIDE DEF a, b
  <2> QED
    BY <1>1, <2>2, <2>3, ByTheDayMonotone
<1>5. CASE ~ IsPass(c.kind, c.until) /\ c.kind = "DAILY"
  <2> DEFINE a == CeilDiv(m, DayMinutes)
             b == CeilDiv(n, DayMinutes)
  <2>1. a \in Nat /\ b \in Nat /\ a <= b
    BY <1>2, <1>3, CeilDivMonotone, CeilDivNat
  <2>2. Eligible(c, t, extra) = a * c.rate.day /\ Eligible(c, u, extra) = b * c.rate.day
    BY <1>5 DEF Eligible, m, n
  <2> HIDE DEF a, b
  <2>3. a * c.rate.day \in Nat /\ b * c.rate.day \in Nat /\ a * c.rate.day <= b * c.rate.day
    BY <1>2, <2>1, ProductMonotone
  <2> QED
    BY <2>2, <2>3
<1>6. CASE ~ IsPass(c.kind, c.until) /\ c.kind = "MONTHLY"
  <2> DEFINE a == CeilDiv(m, MonthDays * DayMinutes)
             b == CeilDiv(n, MonthDays * DayMinutes)
  <2>1. a \in Nat /\ b \in Nat /\ a <= b
    BY <1>2, <1>3, CeilDivMonotone, CeilDivNat
  <2>2. Eligible(c, t, extra) = a * c.rate.month /\ Eligible(c, u, extra) = b * c.rate.month
    BY <1>6 DEF Eligible, m, n
  <2> HIDE DEF a, b
  <2>3. a * c.rate.month \in Nat /\ b * c.rate.month \in Nat /\ a * c.rate.month <= b * c.rate.month
    BY <1>2, <2>1, ProductMonotone
  <2> QED
    BY <2>2, <2>3
<1>7. CASE ~ IsPass(c.kind, c.until) /\ c.kind \notin {"DAILY", "MONTHLY"}
  <2>1. Eligible(c, t, extra) = ByTheDay(c.rate, m) /\ Eligible(c, u, extra) = ByTheDay(c.rate, n)
    BY <1>7 DEF Eligible, m, n
  <2> QED
    BY <1>1, <1>3, <2>1, ByTheDayMonotone
<1> QED
  BY <1>4, <1>5, <1>6, <1>7

\* The date of a later tick is not an earlier one.
LEMMA DateMonotone ==
  ASSUME NEW t \in Int, NEW u \in Int, t <= u
  PROVE  DateOf(t) \in Int /\ DateOf(u) \in Int /\ DateOf(t) <= DateOf(u)
<1> DEFINE b == TicksPerMinute * DayMinutes
<1>1. TicksPerMinute \in Nat \ {0} /\ DayMinutes \in Nat \ {0}
  BY PricingAssumption DEF PricingAssumption
<1>2. b >= 1 * DayMinutes /\ b \in Int
  BY <1>1, ProductMonotone
<1>3. b \in Nat \ {0}
  BY <1>1, <1>2
<1> HIDE DEF b
<1>4. t \div b \in Int /\ u \div b \in Int /\ t \div b <= u \div b
  BY <1>3, DivMonotone
<1> QED
  BY <1>4 DEF DateOf, b

\* With the same prices, who owes no less for the time and no fewer nights pays no less.
LEMMA FeeAddsUp ==
  ASSUME NEW b, NEW c, NEW t, NEW u, b.rate \in Rate, c.rate = b.rate,
         Eligible(b, t, 0) \in Nat, Eligible(c, u, 0) \in Nat,
         Eligible(b, t, 0) <= Eligible(c, u, 0),
         Nights(b, t) \in Nat, Nights(c, u) \in Nat, Nights(b, t) <= Nights(c, u)
  PROVE  CalculateFee(b, t, 0, FALSE, FALSE) <= CalculateFee(c, u, 0, FALSE, FALSE)
<1> DEFINE e == Eligible(b, t, 0)
           f == Eligible(c, u, 0)
           d == b.rate.discount
           o == b.rate.overnight
           j == Nights(b, t)
           k == Nights(c, u)
<1>1. e \in Nat /\ f \in Nat /\ e <= f /\ j \in Nat /\ k \in Nat /\ j <= k
  OBVIOUS
<1>2. d \in 0 .. 100 /\ o \in Nat
  BY RateFields
<1>3. /\ CalculateFee(b, t, 0, FALSE, FALSE) = e + j * o + 0 + 0 - (e * d) \div 100
      /\ CalculateFee(c, u, 0, FALSE, FALSE) = f + k * o + 0 + 0 - (f * d) \div 100
  BY DEF CalculateFee
<1> HIDE DEF e, f, d, o, j, k
<1>4. j * o \in Int /\ k * o \in Int /\ j * o <= k * o
  BY <1>1, <1>2, ProductMonotone
<1>5. /\ (e * d) \div 100 \in Int /\ (f * d) \div 100 \in Int
      /\ e - (e * d) \div 100 <= f - (f * d) \div 100
  BY <1>1, <1>2, DiscountedMonotone
<1> DEFINE x == (e * d) \div 100
           y == (f * d) \div 100
           v == j * o
           w == k * o
           less == CalculateFee(b, t, 0, FALSE, FALSE)
           more == CalculateFee(c, u, 0, FALSE, FALSE)
<1>6. x \in Int /\ y \in Int /\ e - x <= f - y
  BY <1>5
<1>7. v \in Int /\ w \in Int /\ v <= w
  BY <1>4
<1>8. less = e + v + 0 + 0 - x /\ more = f + w + 0 + 0 - y
  BY Zenon, <1>3
<1> HIDE DEF x, y, v, w, less, more
<1>9. less <= more
  BY <1>1, <1>6, <1>7, <1>8
<1> QED
  BY Zenon, <1>9 DEF less, more

\* A longer stay never costs less.
LEMMA FeeMonotone ==
  ASSUME NEW c \in Stay, NEW t \in Int, NEW u \in Int, t <= u
  PROVE  CalculateFee(c, t, 0, FALSE, FALSE) <= CalculateFee(c, u, 0, FALSE, FALSE)
<1>1. c.since \in Int /\ c.rate \in Rate /\ c.until \in Int \cup {NoUntil} /\ NoUntil \notin Int
  BY PricingAssumption DEF Stay, PricingAssumption
<1>2. /\ Eligible(c, t, 0) \in Nat /\ Eligible(c, u, 0) \in Nat
      /\ Eligible(c, t, 0) <= Eligible(c, u, 0)
  BY EligibleMonotone
<1>3. Nights(c, t) \in Nat /\ Nights(c, u) \in Nat /\ Nights(c, t) <= Nights(c, u)
  <2> DEFINE from == IF c.until = NoUntil THEN c.since ELSE Later(c.since, c.until)
  <2>1. from \in Int
    BY <1>1 DEF Later
  <2>2. Nights(c, t) = OrZero(DateOf(t) - DateOf(from))
        /\ Nights(c, u) = OrZero(DateOf(u) - DateOf(from))
    BY DEF Nights
  <2> HIDE DEF from
  <2>3. DateOf(t) \in Int /\ DateOf(u) \in Int /\ DateOf(t) <= DateOf(u) /\ DateOf(from) \in Int
    BY <2>1, DateMonotone
  <2> QED
    BY <2>2, <2>3 DEF OrZero
<1> QED
  BY <1>1, <1>2, <1>3, FeeAddsUp

\* A pass that is valid for longer never makes a stay dearer: fewer minutes and nights
\* lie behind its end.
LEMMA LongerPassIsCheaper ==
  ASSUME NEW c \in Stay, NEW p \in Int, c.until \in Int, c.until <= p,
         c.kind \in {"DAILY", "MONTHLY"}, NEW t \in Int
  PROVE  CalculateFee([c EXCEPT !.until = p], t, 0, FALSE, FALSE)
           <= CalculateFee(c, t, 0, FALSE, FALSE)
<1> DEFINE b == [c EXCEPT !.until = p]
           late == Later(c.since, p)
           soon == Later(c.since, c.until)
<1>1. /\ b \in Stay /\ b.since = c.since /\ b.kind = c.kind /\ b.rate = c.rate /\ b.until = p
      /\ c.since \in Int /\ c.rate \in Rate /\ NoUntil \notin Int
  BY PricingAssumption DEF Stay, PricingAssumption
<1>2. late \in Int /\ soon \in Int /\ soon <= late
  BY <1>1 DEF Later
<1>3. IsPass(b.kind, b.until) /\ IsPass(c.kind, c.until)
  BY <1>1 DEF IsPass
<1>4. /\ Eligible(b, t, 0) = ByTheDay(c.rate, Billable(t - late, c.rate, 0))
      /\ Eligible(c, t, 0) = ByTheDay(c.rate, Billable(t - soon, c.rate, 0))
  BY <1>1, <1>3 DEF Eligible
<1>5. /\ Nights(b, t) = OrZero(DateOf(t) - DateOf(late))
      /\ Nights(c, t) = OrZero(DateOf(t) - DateOf(soon))
  BY <1>1 DEF Nights
<1>6. b.rate \in Rate /\ c.rate = b.rate
  BY <1>1
<1> HIDE DEF b, late, soon
<1>7. /\ Eligible(b, t, 0) \in Nat /\ Eligible(c, t, 0) \in Nat
      /\ Eligible(b, t, 0) <= Eligible(c, t, 0)
  <2> DEFINE x == t - late
             y == t - soon
             m == Billable(x, c.rate, 0)
             n == Billable(y, c.rate, 0)
  <2>1. x \in Int /\ y \in Int /\ x <= y
    BY <1>2
  <2>2. Eligible(b, t, 0) = ByTheDay(c.rate, m) /\ Eligible(c, t, 0) = ByTheDay(c.rate, n)
    BY <1>4
  <2> HIDE DEF x, y
  <2>3. m \in Nat /\ n \in Nat /\ m <= n
    <3>1. c.rate \in Rate /\ 0 \in Int
      BY <1>1
    <3>2. /\ Billable(x, c.rate, 0) \in Nat /\ Billable(y, c.rate, 0) \in Nat
          /\ Billable(x, c.rate, 0) <= Billable(y, c.rate, 0)
      BY <2>1, <3>1, BillableMonotone
    <3> QED
      BY <3>2
  <2> HIDE DEF m, n
  <2> QED
    BY <1>1, <2>2, <2>3, ByTheDayMonotone
<1>8. Nights(b, t) \in Nat /\ Nights(c, t) \in Nat /\ Nights(b, t) <= Nights(c, t)
  <2>1. /\ DateOf(soon) \in Int /\ DateOf(late) \in Int /\ DateOf(soon) <= DateOf(late)
        /\ DateOf(t) \in Int
    BY <1>2, DateMonotone
  <2> QED
    BY <1>5, <2>1 DEF OrZero
<1>9. CalculateFee(b, t, 0, FALSE, FALSE) <= CalculateFee(c, t, 0, FALSE, FALSE)
  BY <1>6, <1>7, <1>8, FeeAddsUp
<1> QED
  BY <1>9 DEF b

\* What the price snapshot of a check-in is taken from.
PricesAgree ==
  /\ now \in Nat
  /\ \A v \in versions : v.number \in 1 .. MaxVersions /\ v.from \in Int /\ v.rules \in Tariffs
  /\ sold \subseteq Packages

CarAgrees == car.status \in {"away", "parked"} /\ (car.status = "parked" => car \in Stay)

\* The price list in force is one that was published.
LEMMA InForceIsPublished ==
  ASSUME PricesAgree, Effective # {}
  PROVE  InForce \in versions
<1> DEFINE ages == {now - v.from : v \in Effective}
           Wins(v) == \A w \in Effective :
             w.from < v.from \/ (w.from = v.from /\ w.number <= v.number)
<1>1. /\ now \in Int /\ MaxVersions \in Nat
      /\ \A v \in Effective : /\ v \in versions /\ v.from \in Int /\ now - v.from \in Nat
                              /\ v.number \in Int /\ MaxVersions - v.number \in Nat
  BY PricingAssumption DEF PricingAssumption, PricesAgree, Effective
<1>2. PICK age \in ages : \A x \in ages : age <= x
  <2>1. ages \in SUBSET Nat /\ ages # {}
    BY <1>1
  <2> HIDE DEF ages
  <2> QED
    BY <2>1, LeastNat
<1>3. PICK v \in Effective : age = now - v.from
  BY <1>2
<1>4. \A w \in Effective : w.from <= v.from
  <2>1. ASSUME NEW w \in Effective PROVE w.from <= v.from
    <3>1. now - w.from \in ages
      OBVIOUS
    <3> HIDE DEF ages
    <3> QED
      BY <1>1, <1>2, <1>3, <3>1
  <2> QED
    BY <2>1
<1> DEFINE newest == {w \in Effective : w.from = v.from}
           ranks == {MaxVersions - w.number : w \in newest}
<1>5. PICK rank \in ranks : \A x \in ranks : rank <= x
  <2>1. ranks \in SUBSET Nat /\ ranks # {}
    BY <1>1, <1>3
  <2> HIDE DEF ranks
  <2> QED
    BY <2>1, LeastNat
<1>6. PICK u \in newest : rank = MaxVersions - u.number
  BY <1>5
<1>7. u \in Effective /\ Wins(u)
  <2>1. ASSUME NEW w \in Effective, w.from = u.from PROVE w.number <= u.number
    <3>1. MaxVersions - w.number \in ranks
      BY <1>6, <2>1
    <3> HIDE DEF ranks
    <3> QED
      BY <1>1, <1>5, <1>6, <3>1
  <2>2. ASSUME NEW w \in Effective, w.from # u.from PROVE w.from < u.from
    <3>1. w.from <= u.from /\ w.from \in Int /\ u.from \in Int
      BY <1>1, <1>4, <1>6
    <3> QED
      BY <2>2, <3>1
  <2> QED
    BY <1>6, <2>1, <2>2
<1>8. InForce = CHOOSE x \in Effective : Wins(x)
  BY DEF InForce
<1>9. InForce \in Effective
  <2> HIDE DEF Wins
  <2> QED
    BY <1>7, <1>8
<1> QED
  BY <1>1, <1>9

\* Check-in takes the price list in force and, if there is one, the package that matches.
LEMMA EnterAgrees ==
  ASSUME PricesAgree, Enter
  PROVE  CarAgrees'
<1>1. PICK kind \in Kinds, zone \in Zones \cup {NoZone}, plate, code, typed \in BOOLEAN :
        LET held == IF kind \in {"DAILY", "MONTHLY"} THEN Matches(kind, zone, plate, code) ELSE {}
        IN /\ car.status = "away" /\ Effective # {}
           /\ code => CarriesCode
           /\ EntryDecision(plate, code, typed) # "DENY"
           /\ InForce.rules[kind] # NoRate
           /\ Cardinality(held) <= 1
           /\ car' = [status |-> "parked", since |-> now, kind |-> kind,
                      rate |-> InForce.rules[kind],
                      until |-> IF held = {} THEN NoUntil ELSE (CHOOSE p \in held : TRUE).until,
                      plate |-> plate, code |-> code]
           /\ UNCHANGED <<now, versions, sold, retired>>
  BY DEF Enter
<1> DEFINE held == IF kind \in {"DAILY", "MONTHLY"} THEN Matches(kind, zone, plate, code) ELSE {}
           until == IF held = {} THEN NoUntil ELSE (CHOOSE p \in held : TRUE).until
           rate == InForce.rules[kind]
<1>2. rate \in Rate
  <2>1. InForce.rules \in Tariffs
    BY <1>1, InForceIsPublished DEF PricesAgree
  <2> QED
    BY <1>1, <2>1, PricingAssumption DEF PricingAssumption
<1>3. until \in Int \cup {NoUntil}
  <2>1. held \subseteq Package
    BY PricingAssumption DEF PricesAgree, Matches, PricingAssumption
  <2>2. \A p \in Package : p.until \in Int
    BY DEF Package
  <2>3. held # {} => (CHOOSE p \in held : TRUE) \in held
    OBVIOUS
  <2> HIDE DEF held
  <2> QED
    BY <2>1, <2>2, <2>3
<1>4. car' = [status |-> "parked", since |-> now, kind |-> kind, rate |-> rate,
              until |-> until, plate |-> plate, code |-> code]
  BY Zenon, <1>1
<1> HIDE DEF rate, until
<1>5. now \in Int
  BY DEF PricesAgree
<1> QED
  BY <1>2, <1>3, <1>4, <1>5 DEF CarAgrees, Stay

\* The number of a new version is one that is not too large, and positive.
LEMMA NextNumberInRange ==
  ASSUME PricesAgree, NextNumber <= MaxVersions
  PROVE  NextNumber \in 1 .. MaxVersions
<1> DEFINE numbers == {v.number : v \in versions}
           gaps == {MaxVersions - k : k \in numbers}
<1>1. MaxVersions \in Nat /\ numbers \subseteq 1 .. MaxVersions
  BY PricingAssumption DEF PricingAssumption, PricesAgree
<1>2. CASE versions = {}
  BY <1>1, <1>2 DEF NextNumber
<1>3. CASE versions # {}
  <2>1. numbers # {}
    BY <1>3
  <2> HIDE DEF numbers
  <2>2. gaps \in SUBSET Nat /\ gaps # {}
    <3>1. \A j \in numbers : MaxVersions - j \in Nat
      BY <1>1
    <3> QED
      BY <2>1, <3>1
  <2>3. PICK gap \in gaps : \A x \in gaps : gap <= x
    <3> HIDE DEF gaps
    <3> QED
      BY <2>2, LeastNat
  <2>4. PICK k \in numbers : gap = MaxVersions - k
    BY <2>3
  <2>5. \E x \in numbers : \A j \in numbers : x >= j
    <3>1. ASSUME NEW j \in numbers PROVE k >= j
      <4>1. MaxVersions - j \in gaps
        OBVIOUS
      <4> HIDE DEF gaps
      <4> QED
        BY <1>1, <2>3, <2>4, <4>1
    <3> QED
      BY <3>1
  <2>6. Max(numbers) \in numbers
    BY <2>5 DEF Max
  <2>7. NextNumber = Max(numbers) + 1
    BY <1>3 DEF NextNumber, numbers
  <2> QED
    BY <1>1, <2>6, <2>7
<1> QED
  BY <1>2, <1>3

LEMMA PrInitAgrees == PrInit => PricesAgree /\ CarAgrees
BY DEF PrInit, PricesAgree, CarAgrees, NoCar

LEMMA PrStepAgrees ==
  ASSUME PricesAgree, CarAgrees, [PrNext]_prVars
  PROVE  PricesAgree' /\ CarAgrees'
<1>1. CASE Clock
  BY <1>1 DEF Clock, PricesAgree, CarAgrees
<1>2. CASE CreateVersion
  <2>1. PICK t \in Tariffs, s \in Starts :
          /\ NextNumber <= MaxVersions
          /\ versions' = versions \cup {[number |-> NextNumber, from |-> s, rules |-> t]}
          /\ UNCHANGED <<now, sold, retired, car>>
    BY <1>2 DEF CreateVersion
  <2>2. NextNumber \in 1 .. MaxVersions /\ s \in Int
    BY <2>1, NextNumberInRange, PricingAssumption DEF PricingAssumption
  <2> QED
    BY <2>1, <2>2 DEF PricesAgree, CarAgrees
<1>3. CASE SellPackage
  BY <1>3 DEF SellPackage, PricesAgree, CarAgrees
<1>4. CASE RetireProduct
  BY <1>4 DEF RetireProduct, PricesAgree, CarAgrees
<1>5. CASE Enter
  <2>1. UNCHANGED <<now, versions, sold, retired>>
    BY <1>5 DEF Enter
  <2> QED
    BY <1>5, <2>1, EnterAgrees DEF PricesAgree
<1>6. CASE Collect
  BY <1>6 DEF Collect, PricesAgree, CarAgrees, NoCar
<1>7. CASE UNCHANGED prVars
  BY <1>7 DEF prVars, PricesAgree, CarAgrees
<1> QED
  BY <1>1, <1>2, <1>3, <1>4, <1>5, <1>6, <1>7 DEF PrNext

\* For any prices, discounts, packages and day length: what a parked vehicle would be
\* invoiced never gets less, whatever is published, sold or withdrawn during its stay
\* (calculate_fee on the snapshot of check-in).
THEOREM InvoicesNeverFall == PrSpec => FeeNeverFalls
<1>1. ASSUME PricesAgree, CarAgrees, [PrNext]_prVars,
             car.status = "parked", car'.status = "parked"
      PROVE  InvoiceFee' >= InvoiceFee
  <2>1. car' = car /\ now \in Int /\ now' \in Int /\ now <= now'
    <3>1. CASE Clock
      BY <1>1, <3>1 DEF Clock, PricesAgree
    <3>2. CASE CreateVersion \/ SellPackage \/ RetireProduct
      BY <1>1, <3>2 DEF CreateVersion, SellPackage, RetireProduct, PricesAgree
    <3>3. CASE Enter \/ Collect
      BY <1>1, <3>3 DEF Enter, Collect, NoCar
    <3>4. CASE UNCHANGED prVars
      BY <1>1, <3>4 DEF prVars, PricesAgree
    <3> QED
      BY <1>1, <3>1, <3>2, <3>3, <3>4 DEF PrNext
  <2>2. PICK c, t, u : c = car /\ t = now /\ u = now'
    OBVIOUS
  <2>3. c \in Stay /\ t \in Int /\ u \in Int /\ t <= u
    BY <1>1, <2>1, <2>2 DEF CarAgrees
  <2>4. CalculateFee(c, t, 0, FALSE, FALSE) <= CalculateFee(c, u, 0, FALSE, FALSE)
    BY <2>3, FeeMonotone
  <2>5. InvoiceFee = CalculateFee(c, t, 0, FALSE, FALSE)
    BY <2>2 DEF InvoiceFee
  <2>6. InvoiceFee' = CalculateFee(c, u, 0, FALSE, FALSE)
    BY <2>1, <2>2 DEF InvoiceFee
  <2> QED
    BY <2>4, <2>5, <2>6
<1>2. PricesAgree /\ CarAgrees /\ [PrNext]_prVars
        => [car.status = "parked" /\ car'.status = "parked" => InvoiceFee' >= InvoiceFee]_prVars
  BY <1>1
<1> QED
  BY PrInitAgrees, PrStepAgrees, <1>2, PTL DEF PrSpec, FeeNeverFalls
-----------------------------------------------------------------------------
(* Passes at the exit.                                                     *)

\* Some time bounds all packages sold, and the end of a stay's pass is that of one.
PassesAgree ==
  /\ \E b \in Nat : \A p \in sold : p.until <= b
  /\ car.status = "parked" /\ car.until # NoUntil =>
       /\ car.kind \in {"DAILY", "MONTHLY"}
       /\ \E p \in sold : p.until = car.until

LEMMA PassStepAgrees ==
  ASSUME PricesAgree, PassesAgree, [PrNext]_prVars
  PROVE  PassesAgree'
<1>1. CASE SellPackage
  <2>1. PICK p \in Packages \ sold : sold' = sold \cup {p} /\ UNCHANGED <<now, versions, retired, car>>
    BY <1>1 DEF SellPackage
  <2>2. p.until \in Nat
    BY PricingAssumption DEF PricingAssumption, Package
  <2>3. PICK b \in Nat : \A q \in sold : q.until <= b
    BY DEF PassesAgree
  <2>4. \A q \in sold : q.until \in Nat
    BY PricingAssumption DEF PricingAssumption, Package, PricesAgree
  <2>5. b + p.until \in Nat /\ \A q \in sold' : q.until <= b + p.until
    BY <2>1, <2>2, <2>3, <2>4
  <2>6. \E e \in Nat : \A q \in sold' : q.until <= e
    BY <2>5
  <2> QED
    BY <2>1, <2>6 DEF PassesAgree
<1>2. CASE Enter
  <2>1. PICK kind \in Kinds, zone \in Zones \cup {NoZone}, plate, code, typed \in BOOLEAN :
          LET held == IF kind \in {"DAILY", "MONTHLY"} THEN Matches(kind, zone, plate, code) ELSE {}
          IN /\ car.status = "away" /\ Effective # {}
             /\ code => CarriesCode
             /\ EntryDecision(plate, code, typed) # "DENY"
             /\ InForce.rules[kind] # NoRate
             /\ Cardinality(held) <= 1
             /\ car' = [status |-> "parked", since |-> now, kind |-> kind,
                        rate |-> InForce.rules[kind],
                        until |-> IF held = {} THEN NoUntil ELSE (CHOOSE p \in held : TRUE).until,
                        plate |-> plate, code |-> code]
             /\ UNCHANGED <<now, versions, sold, retired>>
    BY <1>2 DEF Enter
  <2> DEFINE held == IF kind \in {"DAILY", "MONTHLY"} THEN Matches(kind, zone, plate, code) ELSE {}
             until == IF held = {} THEN NoUntil ELSE (CHOOSE p \in held : TRUE).until
  <2>2. held \subseteq sold /\ (held # {} => kind \in {"DAILY", "MONTHLY"})
    BY DEF Matches
  <2>3. car'.kind = kind /\ car'.until = until /\ sold' = sold
    BY Zenon, <2>1
  <2>4. until # NoUntil => kind \in {"DAILY", "MONTHLY"} /\ \E p \in sold : p.until = until
    <3> HIDE DEF held
    <3> QED
      BY <2>2
  <2> HIDE DEF until
  <2> QED
    BY <2>3, <2>4 DEF PassesAgree
<1>3. CASE Collect
  BY <1>3 DEF Collect, NoCar, PassesAgree
<1>4. CASE Clock \/ CreateVersion \/ RetireProduct
  BY <1>4 DEF Clock, CreateVersion, RetireProduct, PassesAgree
<1>5. CASE UNCHANGED prVars
  BY <1>5 DEF prVars, PassesAgree
<1> QED
  BY <1>1, <1>2, <1>3, <1>4, <1>5 DEF PrNext

\* The package that ends last is one of those sold, and none ends after it.
LEMMA LatestIsLast ==
  ASSUME PricesAgree, PassesAgree, sold # {}
  PROVE  Latest \in sold /\ \A q \in sold : q.until <= Latest.until
<1>1. \A q \in sold : q.until \in Nat
  BY PricingAssumption DEF PricingAssumption, Package, PricesAgree
<1>2. PICK b \in Nat : \A q \in sold : q.until <= b
  BY DEF PassesAgree
<1> DEFINE gaps == {b - q.until : q \in sold}
<1>3. PICK gap \in gaps : \A x \in gaps : gap <= x
  <2>1. gaps \in SUBSET Nat /\ gaps # {}
    BY <1>1, <1>2
  <2> HIDE DEF gaps
  <2> QED
    BY <2>1, LeastNat
<1>4. PICK p \in sold : gap = b - p.until
  BY <1>3
<1>5. \A q \in sold : q.until <= p.until
  <2>1. ASSUME NEW q \in sold PROVE q.until <= p.until
    <3>1. b - q.until \in gaps
      OBVIOUS
    <3> HIDE DEF gaps
    <3> QED
      BY <1>1, <1>3, <1>4, <3>1
  <2> QED
    BY <2>1
<1> QED
  BY <1>5 DEF Latest

\* For any prices and packages: a vehicle that came in on a pass never pays more at the
\* barrier than its invoice says while its latest package still admits it
\* (calculate_parking_fee against the snapshot of check-in).
THEOREM HeldPassesPayOverage == PrSpec => []HeldPassPaysOverage
<1>1. ASSUME PricesAgree, CarAgrees, PassesAgree PROVE HeldPassPaysOverage
  <2> SUFFICES ASSUME car.status = "parked", car.until # NoUntil, AtExit.until # NoUntil
               PROVE  CheckOutFee <= InvoiceFee
    BY DEF HeldPassPaysOverage
  <2>1. car \in Stay /\ car.until \in Int /\ car.kind \in {"DAILY", "MONTHLY"} /\ now \in Int
    BY <1>1 DEF CarAgrees, PassesAgree, Stay, PricesAgree
  <2>2. PICK c, t : c = car /\ t = now
    OBVIOUS
  <2>3. InvoiceFee = CalculateFee(c, t, 0, FALSE, FALSE)
        /\ CheckOutFee = CalculateFee(AtExit, t, 0, FALSE, FALSE)
    BY <2>2 DEF InvoiceFee, CheckOutFee
  <2>4. CASE AtExit = car
    <3>1. CheckOutFee = CalculateFee(c, t, 0, FALSE, FALSE)
      BY <2>2, <2>3, <2>4
    <3>2. c \in Stay /\ t \in Int /\ t <= t
      BY <2>1, <2>2
    <3>3. CalculateFee(c, t, 0, FALSE, FALSE) <= CalculateFee(c, t, 0, FALSE, FALSE)
      BY <3>2, FeeMonotone
    <3> QED
      BY <2>3, <3>1, <3>3
  <2>5. CASE AtExit # car
    <3>1. /\ car.kind = "MONTHLY" /\ sold # {}
          /\ AtExit = [car EXCEPT !.kind = "MONTHLY", !.until = Latest.until]
      BY <2>1, <2>5 DEF AtExit, Stay
    <3>2. Latest.until \in Int /\ car.until <= Latest.until
      <4>1. Latest \in sold /\ \A q \in sold : q.until <= Latest.until
        BY <1>1, <3>1, LatestIsLast
      <4>2. \A q \in sold : q.until \in Nat
        BY <1>1, PricingAssumption DEF PricingAssumption, Package, PricesAgree
      <4> QED
        BY <1>1, <4>1, <4>2 DEF PassesAgree
    <3>3. PICK p : p = Latest.until
      OBVIOUS
    <3>4. AtExit = [c EXCEPT !.until = p]
      BY <2>1, <2>2, <3>1, <3>3 DEF Stay
    <3>5. CalculateFee([c EXCEPT !.until = p], t, 0, FALSE, FALSE)
            <= CalculateFee(c, t, 0, FALSE, FALSE)
      BY <2>1, <2>2, <3>2, <3>3, LongerPassIsCheaper
    <3> QED
      BY <2>3, <3>4, <3>5
  <2> QED
    BY <2>4, <2>5
<1>2. PrInit => PassesAgree
  BY DEF PrInit, NoCar, PassesAgree
<1>3. PricesAgree /\ PassesAgree /\ [PrNext]_prVars => PassesAgree'
  BY PassStepAgrees
<1> QED
  BY <1>1, <1>2, <1>3, PrInitAgrees, PrStepAgrees, PTL DEF PrSpec
-----------------------------------------------------------------------------
(* The price list read minute by minute (Pricing).                         *)

\* The multiples of b below m are as many as its quotient, rounded up.
LEMMA MultiplesBelow ==
  ASSUME NEW m \in Nat, NEW b \in Nat \ {0}
  PROVE  /\ CeilDiv(m, b) \in Nat
         /\ {d \in 0 .. m : d * b < m} = 0 .. CeilDiv(m, b) - 1
         /\ Cardinality({d \in 0 .. m : d * b < m}) = CeilDiv(m, b)
<1> DEFINE c == CeilDiv(m, b)
           S == {d \in 0 .. m : d * b < m}
<1>1. c \in Nat
  BY CeilDivNat
<1>2. ASSUME NEW d \in Nat PROVE d * b < m <=> d < c
  BY BelowCeil
<1>3. ASSUME NEW d \in Nat, d * b < m PROVE d < m
  <2>1. d * 1 <= d * b /\ d * b \in Int
    BY ProductMonotone
  <2> DEFINE x == d * b
  <2>2. d <= x /\ x \in Int /\ x < m
    BY <1>3, <2>1
  <2> HIDE DEF x
  <2> QED
    BY <2>2
<1> HIDE DEF c
<1>4. S = 0 .. c - 1
  <2>1. ASSUME NEW d \in S PROVE d \in 0 .. c - 1
    <3>1. d \in Nat /\ d * b < m
      OBVIOUS
    <3> QED
      BY <1>1, <1>2, <3>1
  <2>2. ASSUME NEW d \in 0 .. c - 1 PROVE d \in S
    <3>1. d \in Nat /\ d < c
      BY <1>1
    <3>2. d * b < m /\ d < m
      BY <1>2, <1>3, <3>1
    <3> QED
      BY <3>1, <3>2
  <2> HIDE DEF S
  <2> QED
    BY <2>1, <2>2
<1>5. Cardinality(0 .. c - 1) = c
  BY <1>1, FS_Interval
<1> QED
  BY <1>1, <1>4, <1>5 DEF c

\* The minutes of a stay that have begun and are not free, as many as calculate_fee bills.
LEMMA ChargedAreBillable ==
  ASSUME NEW rate \in Rate, NEW extra \in Nat, NEW ticks \in Int, ticks <= Horizon
  PROVE  /\ Billable(ticks, rate, extra) \in Nat
         /\ Cardinality(Charged(ticks, rate, extra)) = Billable(ticks, rate, extra)
<1> DEFINE c == Minutes(ticks)
           first == rate.free + extra
           S == Charged(ticks, rate, extra)
<1>1. TicksPerMinute \in Nat \ {0} /\ Horizon \in Nat /\ rate.free \in Nat
  BY RateFields, PricingAssumption DEF PricingAssumption
<1>2. first \in Nat
  BY <1>1
<1>3. c \in Int /\ \A k \in Nat : k * TicksPerMinute < ticks <=> k < c
  BY <1>1, BelowCeil DEF Minutes
<1>4. ASSUME NEW k \in Nat, k * TicksPerMinute < ticks PROVE k <= Horizon
  <2>1. k * 1 <= k * TicksPerMinute /\ k * TicksPerMinute \in Int
    BY <1>1, ProductMonotone
  <2> DEFINE x == k * TicksPerMinute
  <2>2. k <= x /\ x \in Int /\ x < ticks
    BY <1>4, <2>1
  <2> HIDE DEF x
  <2> QED
    BY <1>1, <2>2
<1>5. S = {k \in first .. Horizon : k * TicksPerMinute < ticks}
  BY DEF Charged
<1>6. Billable(ticks, rate, extra) = OrZero(c - rate.free - extra)
  BY DEF Billable
<1> HIDE DEF c, S
<1>7. S = first .. c - 1
  <2>1. ASSUME NEW k \in S PROVE k \in first .. c - 1
    <3>1. k \in Nat /\ k \in first .. Horizon /\ k * TicksPerMinute < ticks
      BY <1>1, <1>2, <1>5
    <3> HIDE DEF first
    <3> QED
      BY <1>2, <1>3, <3>1
  <2>2. ASSUME NEW k \in first .. c - 1 PROVE k \in S
    <3> HIDE DEF first
    <3>1. k \in Nat /\ k >= first /\ k < c
      BY <1>2, <1>3
    <3>2. k * TicksPerMinute < ticks /\ k <= Horizon
      BY <1>3, <1>4, <3>1
    <3> QED
      BY <1>1, <1>2, <1>5, <3>1, <3>2
  <2> HIDE DEF first
  <2> QED
    BY <2>1, <2>2
<1>8. Cardinality(first .. c - 1) = IF first > c - 1 THEN 0 ELSE (c - 1) - first + 1
  <2> HIDE DEF first
  <2> QED
    BY <1>2, <1>3, FS_Interval
<1>9. c \in Int
  BY <1>3
<1>10. /\ OrZero(c - rate.free - extra) = IF first > c - 1 THEN 0 ELSE (c - 1) - first + 1
       /\ OrZero(c - rate.free - extra) \in Nat
  BY <1>1, <1>9 DEF OrZero
<1>11. Cardinality(S) = Billable(ticks, rate, extra) /\ Billable(ticks, rate, extra) \in Nat
  <2> HIDE DEF first
  <2> QED
    BY <1>6, <1>7, <1>8, <1>10
<1> QED
  BY <1>11 DEF S

\* What the first k minutes of a day cost without the cap.
UpTo(rate, k) ==
  IF k = 0 THEN 0
  ELSE rate.initialFee + CeilDiv(OrZero(k - rate.initial), rate.block) * rate.blockFee

LEMMA UpToStep ==
  ASSUME NEW rate \in Rate, NEW k \in Nat
  PROVE  /\ UpTo(rate, k) \in Nat /\ MinuteFee(rate, k) \in Nat
         /\ UpTo(rate, k + 1) = UpTo(rate, k) + MinuteFee(rate, k)
<1>1. /\ rate.initial \in Nat \ {0} /\ rate.initialFee \in Nat /\ rate.block \in Nat \ {0}
      /\ rate.blockFee \in Nat
  BY RateFields
<1> DEFINE B(j) == CeilDiv(OrZero(j - rate.initial), rate.block)
           F == rate.blockFee
<1>2. ASSUME NEW j \in Nat PROVE B(j) \in Nat /\ B(j) * F \in Nat
  <2>1. OrZero(j - rate.initial) \in Nat
    BY <1>1 DEF OrZero
  <2>2. B(j) \in Nat
    BY <1>1, <2>1, CeilDivNat
  <2> HIDE DEF B
  <2> QED
    BY <1>1, <2>2
<1>3. UpTo(rate, k) \in Nat
  <2>1. UpTo(rate, k) = IF k = 0 THEN 0 ELSE rate.initialFee + B(k) * F
    BY DEF UpTo
  <2> DEFINE x == B(k) * F
  <2>2. x \in Nat
    BY <1>2
  <2> HIDE DEF x
  <2> QED
    BY <1>1, <2>1, <2>2 DEF x
<1>4. MinuteFee(rate, k) \in Nat
  BY <1>1 DEF MinuteFee
<1>5. UpTo(rate, k + 1) = rate.initialFee + B(k + 1) * F
  BY DEF UpTo
<1>6. CASE k = 0
  <2>1. OrZero(1 - rate.initial) = 0
    BY <1>1 DEF OrZero
  <2>2. B(1) = 0
    BY <1>1, <2>1 DEF CeilDiv
  <2>3. B(1) * F = 0 /\ k + 1 = 1
    BY <1>1, <1>6, <2>2
  <2>4. UpTo(rate, k) = 0 /\ MinuteFee(rate, k) = rate.initialFee
    BY <1>6 DEF UpTo, MinuteFee
  <2> HIDE DEF B
  <2> QED
    BY <1>1, <1>3, <1>5, <2>3, <2>4
<1>7. CASE k # 0
  <2>1. B(k + 1) = B(k) + (IF k >= rate.initial /\ (k - rate.initial) % rate.block = 0 THEN 1 ELSE 0)
    <3>1. CASE k >= rate.initial
      <4> DEFINE x == k - rate.initial
      <4>1. x \in Nat /\ OrZero(k - rate.initial) = x /\ OrZero((k + 1) - rate.initial) = x + 1
        BY <1>1, <3>1 DEF OrZero
      <4>2. CeilDiv(x + 1, rate.block) = CeilDiv(x, rate.block) + (IF x % rate.block = 0 THEN 1 ELSE 0)
        <5> HIDE DEF x
        <5> QED
          BY <1>1, <4>1, CeilStep
      <4>3. B(k) = CeilDiv(x, rate.block) /\ B(k + 1) = CeilDiv(x + 1, rate.block)
        BY <4>1
      <4> HIDE DEF B
      <4>4. B(k + 1) = B(k) + (IF (k - rate.initial) % rate.block = 0 THEN 1 ELSE 0)
        BY <4>2, <4>3
      <4> QED
        BY <3>1, <4>4
    <3>2. CASE ~(k >= rate.initial)
      <4>1. OrZero(k - rate.initial) = 0 /\ OrZero((k + 1) - rate.initial) = 0
        BY <1>1, <3>2 DEF OrZero
      <4>2. CeilDiv(0, rate.block) \in Nat
        BY <1>1, CeilDivNat
      <4>3. B(k) = CeilDiv(0, rate.block) /\ B(k + 1) = CeilDiv(0, rate.block)
        BY <4>1
      <4> DEFINE opens == k >= rate.initial /\ (k - rate.initial) % rate.block = 0
      <4>4. ~opens
        BY <3>2
      <4> HIDE DEF B, opens
      <4>5. B(k + 1) = B(k) + (IF opens THEN 1 ELSE 0)
        BY <4>2, <4>3, <4>4
      <4> QED
        BY <4>5 DEF opens
    <3> QED
      BY <3>1, <3>2
  <2>2. MinuteFee(rate, k) = IF k >= rate.initial /\ (k - rate.initial) % rate.block = 0 THEN F ELSE 0
    BY <1>7 DEF MinuteFee
  <2>3. B(k + 1) * F = B(k) * F + MinuteFee(rate, k)
    <3> DEFINE u == B(k)
               v == B(k + 1)
               opens == k >= rate.initial /\ (k - rate.initial) % rate.block = 0
    <3>1. u \in Nat /\ v \in Nat /\ F \in Nat /\ opens \in BOOLEAN
      BY <1>1, <1>2
    <3>2. v = u + (IF opens THEN 1 ELSE 0)
      BY <2>1
    <3>3. MinuteFee(rate, k) = IF opens THEN F ELSE 0
      BY <2>2
    <3> HIDE DEF u, v, F, opens
    <3>4. v * F = u * F + (IF opens THEN F ELSE 0)
      <4>1. CASE opens
        <5>1. v = u + 1
          BY <3>2, <4>1
        <5>2. v * F = u * F + F
          BY <3>1, <5>1
        <5> QED
          BY <4>1, <5>2
      <4>2. CASE ~opens
        <5>1. v = u /\ u * F \in Nat
          BY <3>1, <3>2, <4>2
        <5> QED
          BY <4>2, <5>1
      <4> QED
        BY <4>1, <4>2
    <3> QED
      BY <3>3, <3>4 DEF u, v
  <2>4. UpTo(rate, k) = rate.initialFee + B(k) * F
    BY <1>7 DEF UpTo
  <2> DEFINE x == B(k) * F
             y == B(k + 1) * F
  <2>5. x \in Nat /\ y = x + MinuteFee(rate, k)
    BY <1>2, <2>3
  <2> HIDE DEF x, y
  <2>6. rate.initialFee + y = (rate.initialFee + x) + MinuteFee(rate, k)
    BY <1>1, <1>4, <2>5
  <2>7. UpTo(rate, k + 1) = UpTo(rate, k) + MinuteFee(rate, k)
    BY <1>5, <2>4, <2>6 DEF x, y
  <2> QED
    BY <1>3, <1>4, <2>7
<1> QED
  BY <1>3, <1>4, <1>6, <1>7

\* Minute by minute, a day costs what calculate_fee charges for its minutes at once.
LEMMA DayByTheMinute ==
  ASSUME NEW rate \in Rate, NEW m \in Nat, NEW d \in Nat, NEW L \in Nat,
         {j \in 0 .. DayMinutes - 1 : d * DayMinutes + j < m} = 0 .. L - 1
  PROVE  FeeOfDay(rate, m, d) = Capped(UpTo(rate, L), rate)
<1> DEFINE S == 0 .. L - 1
           f == [j \in Nat |-> MinuteFee(rate, j)]
           p == [k \in 0 .. L |-> UpTo(rate, k)]
           Body(g) == g = [s \in SUBSET S |->
                             IF s = {} THEN 0
                             ELSE MinuteFee(rate, Picked(s)) + g[s \ {Picked(s)}]]
           G == CHOOSE g : Body(g)
<1>1. f \in [Nat -> Nat]
  BY UpToStep
<1>2. InOrder(f, S, L, p)
  <2>1. p \in [0 .. L -> Nat] /\ p[0] = 0
    <3>1. p \in [0 .. L -> Nat]
      BY UpToStep
    <3>2. p[0] = 0
      BY DEF UpTo
    <3> QED
      BY <3>1, <3>2
  <2>2. ASSUME NEW k \in 0 .. L - 1
        PROVE  p[k + 1] = p[k] + (IF k \in S THEN f[k] ELSE 0)
    <3>1. k \in Nat /\ k \in 0 .. L /\ k + 1 \in 0 .. L
      OBVIOUS
    <3>2. p[k + 1] = UpTo(rate, k + 1) /\ p[k] = UpTo(rate, k) /\ f[k] = MinuteFee(rate, k)
      BY <3>1
    <3>3. UpTo(rate, k + 1) = UpTo(rate, k) + MinuteFee(rate, k)
      BY <3>1, UpToStep
    <3> HIDE DEF p, f
    <3> QED
      BY <3>2, <3>3
  <2> HIDE DEF p, f, S
  <2> QED
    BY <2>1, <2>2 DEF InOrder, S
<1>3. ASSUME NEW g PROVE Body(g) <=> Sums(f, S, g)
  <2>1. \A s \in SUBSET S : s # {} => f[Picked(s)] = MinuteFee(rate, Picked(s))
    <3>1. \A s \in SUBSET S : s # {} => Picked(s) \in s
      BY DEF Picked
    <3>2. S \subseteq Nat
      OBVIOUS
    <3> HIDE DEF S
    <3> QED
      BY <3>1, <3>2
  <2>2. [s \in SUBSET S |-> IF s = {} THEN 0
                            ELSE MinuteFee(rate, Picked(s)) + g[s \ {Picked(s)}]]
          = [s \in SUBSET S |-> IF s = {} THEN 0 ELSE f[Picked(s)] + g[s \ {Picked(s)}]]
    <3> HIDE DEF S, f
    <3> QED
      BY <2>1
  <2> HIDE DEF f, S
  <2> QED
    BY <2>2 DEF Sums
<1>4. (\E g : Sums(f, S, g)) /\ \A g : Sums(f, S, g) => g[S] = p[L]
  <2>1. S \in SUBSET (0 .. L - 1)
    OBVIOUS
  <2> HIDE DEF f, p, S
  <2>2. \E g : Sums(f, S, g)
    BY <1>1, <1>2, <2>1, SumsExist
  <2>3. ASSUME NEW g, Sums(f, S, g) PROVE g[S] = p[L]
    <3>1. g[S] = Ordered(f, S, L)
      BY <1>1, <1>2, <2>1, <2>3, SumsAre
    <3>2. Ordered(f, S, L) = p[L]
      BY <1>1, <1>2, OrderedIs
    <3> QED
      BY <3>1, <3>2
  <2> QED
    BY <2>2, <2>3
<1>5. G[S] = p[L]
  <2> HIDE DEF f, p, S, Body
  <2>1. \E g : Body(g)
    BY <1>3, <1>4
  <2>2. Body(G)
    BY <2>1
  <2> HIDE DEF G
  <2> QED
    BY <1>3, <1>4, <2>2
<1>6. FeeOfDay(rate, m, d) = Capped(MapThenSumSet(LAMBDA j : MinuteFee(rate, j), S), rate)
  BY DEF FeeOfDay
<1>7. MapThenSumSet(LAMBDA j : MinuteFee(rate, j), S) = G[S]
  BY DEF MapThenSumSet, MapThenFoldSet, Picked
<1>8. p[L] = UpTo(rate, L)
  OBVIOUS
<1> HIDE DEF G, p
<1> QED
  BY <1>5, <1>6, <1>7, <1>8

\* A day that has begun costs DayAmount, one that has not costs nothing.
LEMMA FullDay ==
  ASSUME NEW rate \in Rate, NEW L \in Nat
  PROVE  /\ Capped(UpTo(rate, L), rate) = IF L = 0 THEN 0 ELSE DayAmount(rate, L)
         /\ Capped(UpTo(rate, L), rate) \in Nat
<1>1. rate.cap \in Nat \cup {NoCap} /\ UpTo(rate, L) \in Nat
  BY RateFields, UpToStep
<1>2. Capped(UpTo(rate, L), rate) \in Nat
  BY <1>1 DEF Capped
<1>3. CASE L = 0
  BY <1>1, <1>2, <1>3 DEF Capped, UpTo
<1>4. CASE L # 0
  BY <1>2, <1>4 DEF UpTo, DayAmount
<1> QED
  BY <1>3, <1>4

\* What day d of a stay of m minutes costs: the minutes of it that have begun.
LEMMA FeeOfOneDay ==
  ASSUME NEW rate \in Rate, NEW m \in Nat, NEW d \in Nat
  PROVE  /\ d * DayMinutes + DayMinutes <= m => FeeOfDay(rate, m, d) = DayAmount(rate, DayMinutes)
         /\ \A r \in 1 .. DayMinutes - 1 :
              m = d * DayMinutes + r => FeeOfDay(rate, m, d) = DayAmount(rate, r)
         /\ FeeOfDay(rate, m, d) \in Nat
<1> DEFINE D == DayMinutes
           x == d * D
           L == IF m < x THEN 0 ELSE IF x + D <= m THEN D ELSE m - x
<1>1. D \in Nat \ {0}
  BY PricingAssumption DEF PricingAssumption
<1>2. x \in Nat
  BY <1>1
<1> HIDE DEF D, x
<1>3. L \in Nat /\ {j \in 0 .. D - 1 : x + j < m} = 0 .. L - 1
  <2>1. L \in Nat /\ L <= D
    BY <1>1, <1>2
  <2>2. ASSUME NEW j \in Nat PROVE j \in 0 .. D - 1 /\ x + j < m <=> j < L
    BY <1>1, <1>2
  <2> HIDE DEF L
  <2>3. ASSUME NEW j \in 0 .. D - 1 PROVE x + j < m <=> j \in 0 .. L - 1
    BY <1>1, <2>1, <2>2
  <2>4. 0 .. L - 1 \subseteq 0 .. D - 1
    BY <1>1, <2>1
  <2> QED
    BY <2>1, <2>3, <2>4
<1>4. FeeOfDay(rate, m, d) = Capped(UpTo(rate, L), rate)
  <2> HIDE DEF L
  <2> QED
    BY <1>3, DayByTheMinute DEF D, x
<1>5. /\ FeeOfDay(rate, m, d) \in Nat
      /\ L # 0 => FeeOfDay(rate, m, d) = DayAmount(rate, L)
  <2> HIDE DEF L
  <2> QED
    BY <1>3, <1>4, FullDay
<1>6. ASSUME x + D <= m PROVE FeeOfDay(rate, m, d) = DayAmount(rate, D)
  <2>1. L = D /\ L # 0
    BY <1>1, <1>2, <1>6
  <2> HIDE DEF L
  <2> QED
    BY <1>5, <2>1
<1>7. ASSUME NEW r \in 1 .. D - 1, m = x + r PROVE FeeOfDay(rate, m, d) = DayAmount(rate, r)
  <2>1. L = r /\ L # 0
    BY <1>1, <1>2, <1>7
  <2> HIDE DEF L
  <2> QED
    BY <1>5, <2>1
<1> HIDE DEF L
<1> QED
  BY <1>5, <1>6, <1>7 DEF D, x

\* Day by day, a stay costs what the loop of calculate_fee adds up.
LEMMA DaysByTheMinute ==
  ASSUME NEW rate \in Rate, NEW m \in Nat
  PROVE  FeeOfDays(rate, m) = ByTheDay(rate, m)
<1> DEFINE D == DayMinutes
           c == CeilDiv(m, D)
           q == m \div D
           r == m % D
           full == DayAmount(rate, D)
           S == 0 .. c - 1
           f == [d \in Nat |-> FeeOfDay(rate, m, d)]
           p == [k \in 0 .. c |-> IF k <= q THEN k * full ELSE ByTheDay(rate, m)]
           Body(g) == g = [s \in SUBSET S |->
                             IF s = {} THEN 0
                             ELSE FeeOfDay(rate, m, Picked(s)) + g[s \ {Picked(s)}]]
           G == CHOOSE g : Body(g)
<1>1. D \in Nat \ {0}
  BY PricingAssumption DEF PricingAssumption
<1>2. q \in Nat /\ r \in 0 .. D - 1 /\ m = q * D + r
  <2>1. m \in Int
    OBVIOUS
  <2> HIDE DEF D
  <2>2. r \in 0 .. D - 1 /\ m = q * D + r
    BY <1>1, <2>1, DivMod
  <2>3. q \in Nat
    BY <1>1, DivNat
  <2> QED
    BY <2>2, <2>3
<1>3. full \in Nat /\ ByTheDay(rate, m) \in Nat
  BY <1>1, DayAmountMonotone, ByTheDayMonotone
<1>4. ByTheDay(rate, m) = q * full + (IF r = 0 THEN 0 ELSE DayAmount(rate, r))
  BY DEF ByTheDay
<1>5. c = IF r = 0 THEN q ELSE q + 1
  <2> DEFINE y == q * D
             z == (q + 1) * D
             w == (q - 1) * D
  <2>1. y \in Int /\ z = y + D /\ w = y - D /\ m = y + r
    <3> HIDE DEF q, r, D
    <3> QED
      BY <1>1, <1>2
  <2>2. CASE r = 0
    <3>1. w < m /\ m <= y
      <4> HIDE DEF y, z, w, r, D
      <4> QED
        BY <1>1, <2>1, <2>2
    <3>2. q - 1 \in Int /\ (q - 1) + 1 = q
      BY <1>2
    <3>3. CeilDiv(m, D) = (q - 1) + 1
      <4> HIDE DEF q, D
      <4> QED
        BY <1>1, <3>1, <3>2, CeilIs
    <3> QED
      BY <2>2, <3>2, <3>3
  <2>3. CASE r # 0
    <3>1. y < m /\ m <= z
      <4> HIDE DEF y, z, w, r, D
      <4> QED
        BY <1>1, <1>2, <2>1, <2>3
    <3>2. CeilDiv(m, D) = q + 1
      <4> HIDE DEF q, D
      <4> QED
        BY <1>1, <1>2, <3>1, CeilIs
    <3> QED
      BY <2>3, <3>2
  <2> QED
    BY <2>2, <2>3
<1>6. c \in Nat /\ q <= c
  <2> HIDE DEF c, q, r
  <2> QED
    BY <1>2, <1>5
<1>7. f \in [Nat -> Nat]
  BY FeeOfOneDay
<1>8. ASSUME NEW k \in 0 .. c - 1
      PROVE  p[k + 1] = p[k] + f[k]
  <2>1. k \in Nat /\ k \in 0 .. c /\ k + 1 \in 0 .. c
    <3> HIDE DEF c
    <3> QED
      BY <1>6
  <2>2. f[k] = FeeOfDay(rate, m, k)
    BY <2>1
  <2>3. /\ p[k] = IF k <= q THEN k * full ELSE ByTheDay(rate, m)
        /\ p[k + 1] = IF k + 1 <= q THEN (k + 1) * full ELSE ByTheDay(rate, m)
    <3> HIDE DEF c, q, full
    <3> QED
      BY <2>1
  <2> HIDE DEF p, f
  <2>4. CASE k + 1 <= q
    <3>1. (k + 1) * D <= q * D /\ (k + 1) * D = k * D + D /\ k * D \in Int /\ q * D \in Int
      <4> HIDE DEF q, D
      <4> QED
        BY <1>1, <1>2, <2>1, <2>4, ProductMonotone
    <3>2. k * D + D <= m
      <4> DEFINE y == k * D
                 z == q * D
                 w == (k + 1) * D
      <4>1. y \in Int /\ z \in Int /\ w <= z /\ w = y + D /\ m = z + r
        BY <1>2, <3>1
      <4> HIDE DEF y, z, w, r, D
      <4>2. y + D <= m
        BY <1>1, <1>2, <4>1
      <4> QED
        BY <4>2 DEF y
    <3>3. FeeOfDay(rate, m, k) = full
      BY <2>1, <3>2, FeeOfOneDay
    <3>4. (k + 1) * full = k * full + full /\ k <= q
      <4> HIDE DEF full, q
      <4> QED
        BY <1>2, <1>3, <2>1, <2>4
    <3> HIDE DEF full, q
    <3> QED
      BY <2>2, <2>3, <2>4, <3>3, <3>4
  <2>5. CASE ~(k + 1 <= q)
    <3>1. k = q /\ r # 0
      <4> HIDE DEF c, q, r
      <4> QED
        BY <1>2, <1>5, <2>1, <2>5
    <3>2. m = k * D + r /\ r \in 1 .. D - 1
      <4>1. r \in 1 .. D - 1
        <5> HIDE DEF r, D
        <5> QED
          BY <1>1, <1>2, <3>1
      <4> QED
        BY <1>2, <3>1, <4>1
    <3>3. FeeOfDay(rate, m, k) = DayAmount(rate, r)
      <4> HIDE DEF r
      <4> QED
        BY <2>1, <3>2, FeeOfOneDay
    <3>4. p[k] = q * full /\ p[k + 1] = ByTheDay(rate, m)
      <4> HIDE DEF q, full
      <4> QED
        BY <1>2, <2>3, <2>5, <3>1
    <3> HIDE DEF q, full, r
    <3> QED
      BY <1>4, <2>2, <3>1, <3>3, <3>4
  <2> QED
    BY <2>4, <2>5
<1>9. p \in [0 .. c -> Nat] /\ p[0] = 0 /\ p[c] = ByTheDay(rate, m)
  <2>1. \A k \in 0 .. c : k * full \in Nat
    <3> HIDE DEF c, full
    <3> QED
      BY <1>3
  <2>2. 0 \in 0 .. c /\ c \in 0 .. c /\ 0 <= q /\ 0 * full = 0
    <3> HIDE DEF c, q, full
    <3> QED
      BY <1>2, <1>3, <1>6
  <2>3. CASE r = 0
    <3>1. c = q /\ ByTheDay(rate, m) = q * full
      <4> HIDE DEF c, q, r, full
      <4>1. q * full \in Nat
        BY <1>2, <1>3
      <4> QED
        BY <1>4, <1>5, <2>3, <4>1
    <3> HIDE DEF c, q, full, r
    <3> QED
      BY <1>2, <1>3, <2>1, <2>2, <3>1
  <2>4. CASE r # 0
    <3>1. c = q + 1
      BY <1>5, <2>4
    <3> HIDE DEF c, q, full, r
    <3> QED
      BY <1>2, <1>3, <2>1, <2>2, <3>1
  <2> QED
    BY <2>3, <2>4
<1>10. InOrder(f, S, c, p)
  <2>1. \A k \in 0 .. c - 1 : k \in S
    OBVIOUS
  <2> HIDE DEF p, f, S, c
  <2> QED
    BY <1>8, <1>9, <2>1 DEF InOrder
<1>11. ASSUME NEW g PROVE Body(g) <=> Sums(f, S, g)
  <2>1. \A s \in SUBSET S : s # {} => f[Picked(s)] = FeeOfDay(rate, m, Picked(s))
    <3>1. \A s \in SUBSET S : s # {} => Picked(s) \in s
      BY DEF Picked
    <3>2. S \subseteq Nat
      <4> HIDE DEF c
      <4> QED
        BY <1>6
    <3> HIDE DEF S
    <3> QED
      BY <3>1, <3>2
  <2>2. [s \in SUBSET S |-> IF s = {} THEN 0
                            ELSE FeeOfDay(rate, m, Picked(s)) + g[s \ {Picked(s)}]]
          = [s \in SUBSET S |-> IF s = {} THEN 0 ELSE f[Picked(s)] + g[s \ {Picked(s)}]]
    <3> HIDE DEF S, f
    <3> QED
      BY <2>1
  <2> HIDE DEF f, S
  <2> QED
    BY <2>2 DEF Sums
<1>12. (\E g : Sums(f, S, g)) /\ \A g : Sums(f, S, g) => g[S] = p[c]
  <2>1. S \in SUBSET (0 .. c - 1)
    OBVIOUS
  <2> HIDE DEF f, p, S, c
  <2>2. \E g : Sums(f, S, g)
    BY <1>6, <1>7, <1>10, <2>1, SumsExist
  <2>3. ASSUME NEW g, Sums(f, S, g) PROVE g[S] = p[c]
    <3>1. g[S] = Ordered(f, S, c)
      BY <1>6, <1>7, <1>10, <2>1, <2>3, SumsAre
    <3>2. Ordered(f, S, c) = p[c]
      BY <1>6, <1>7, <1>10, OrderedIs
    <3> QED
      BY <3>1, <3>2
  <2> QED
    BY <2>2, <2>3
<1>13. G[S] = p[c]
  <2> HIDE DEF f, p, S, c, Body
  <2>1. \E g : Body(g)
    BY <1>11, <1>12
  <2>2. Body(G)
    BY <2>1
  <2> HIDE DEF G
  <2> QED
    BY <1>11, <1>12, <2>2
<1>14. FeeOfDays(rate, m) = MapThenSumSet(LAMBDA d : FeeOfDay(rate, m, d), S)
  <2>1. {d \in 0 .. m : d * D < m} = S
    BY <1>1, MultiplesBelow
  <2>2. FeeOfDays(rate, m)
          = MapThenSumSet(LAMBDA d : FeeOfDay(rate, m, d), {d \in 0 .. m : d * D < m})
    BY DEF FeeOfDays
  <2> HIDE DEF S
  <2> QED
    BY <2>1, <2>2
<1>15. MapThenSumSet(LAMBDA d : FeeOfDay(rate, m, d), S) = G[S]
  BY DEF MapThenSumSet, MapThenFoldSet, Picked
<1> HIDE DEF G, p, S, c
<1> QED
  BY <1>9, <1>13, <1>14, <1>15

\* The lines of an invoice for a stay, in minutes, days and months that have begun.
LEMMA EligibleByTheMinute ==
  ASSUME NEW c \in Stay, c.since \in Nat, NEW t \in Int, t <= Horizon, NEW extra \in Nat
  PROVE  Eligible(c, t, extra) = EligibleReference(c, t, extra)
<1>1. /\ c.since \in Nat /\ c.kind \in Kinds /\ c.rate \in Rate
      /\ c.until \in Int \cup {NoUntil} /\ Horizon \in Nat
  BY PricingAssumption DEF Stay, PricingAssumption
<1> DEFINE D == DayMinutes
           M == MonthDays * DayMinutes
           m == Billable(t - c.since, c.rate, extra)
<1>2. D \in Nat \ {0} /\ MonthDays \in Nat \ {0} /\ M \in Nat \ {0}
  <2>1. DayMinutes \in Nat \ {0} /\ MonthDays \in Nat \ {0}
    BY PricingAssumption DEF PricingAssumption
  <2>2. MonthDays * DayMinutes >= 1 * DayMinutes /\ MonthDays * DayMinutes \in Int
    BY <2>1, ProductMonotone
  <2> QED
    BY <2>1, <2>2
<1>3. m \in Nat /\ Cardinality(Charged(t - c.since, c.rate, extra)) = m
  <2> DEFINE x == t - c.since
  <2>1. x \in Int /\ x <= Horizon
    BY <1>1
  <2> HIDE DEF x
  <2>2. /\ Billable(x, c.rate, extra) \in Nat
        /\ Cardinality(Charged(x, c.rate, extra)) = Billable(x, c.rate, extra)
    BY <1>1, <2>1, ChargedAreBillable
  <2> QED
    BY <2>2 DEF x
<1>4. CASE IsPass(c.kind, c.until)
  <2> DEFINE x == t - Later(c.since, c.until)
             over == Billable(x, c.rate, extra)
  <2>1. x \in Int /\ x <= Horizon
    BY <1>1, <1>4 DEF Later, IsPass
  <2>2. Eligible(c, t, extra) = ByTheDay(c.rate, over)
    BY <1>4 DEF Eligible
  <2>3. EligibleReference(c, t, extra) = FeeOfDays(c.rate, Cardinality(Charged(x, c.rate, extra)))
    BY <1>4 DEF EligibleReference
  <2> HIDE DEF x
  <2>4. over \in Nat /\ Cardinality(Charged(x, c.rate, extra)) = over
    BY <1>1, <2>1, ChargedAreBillable
  <2> HIDE DEF over
  <2> QED
    BY <1>1, <2>2, <2>3, <2>4, DaysByTheMinute
<1>5. CASE ~IsPass(c.kind, c.until) /\ c.kind = "DAILY"
  <2>1. Eligible(c, t, extra) = CeilDiv(m, D) * c.rate.day
    BY <1>5 DEF Eligible
  <2>2. EligibleReference(c, t, extra)
          = c.rate.day * Cardinality({d \in 0 .. m : d * D < m})
    BY <1>3, <1>5 DEF EligibleReference
  <2> HIDE DEF m, D
  <2>3. Cardinality({d \in 0 .. m : d * D < m}) = CeilDiv(m, D) /\ CeilDiv(m, D) \in Nat
    BY <1>2, <1>3, MultiplesBelow
  <2>4. c.rate.day \in Nat
    BY <1>1, RateFields
  <2> QED
    BY <2>1, <2>2, <2>3, <2>4
<1>6. CASE ~IsPass(c.kind, c.until) /\ c.kind = "MONTHLY"
  <2>1. Eligible(c, t, extra) = CeilDiv(m, M) * c.rate.month
    BY <1>6 DEF Eligible
  <2>2. EligibleReference(c, t, extra)
          = c.rate.month * Cardinality({d \in 0 .. m : d * MonthDays * DayMinutes < m})
    BY <1>3, <1>6 DEF EligibleReference
  <2>3. \A d \in 0 .. m : d * MonthDays * DayMinutes = d * M
    BY <1>2
  <2> HIDE DEF m, M
  <2>4. {d \in 0 .. m : d * MonthDays * DayMinutes < m} = {d \in 0 .. m : d * M < m}
    BY <2>3
  <2>5. Cardinality({d \in 0 .. m : d * M < m}) = CeilDiv(m, M) /\ CeilDiv(m, M) \in Nat
    BY <1>2, <1>3, MultiplesBelow
  <2>6. c.rate.month \in Nat
    BY <1>1, RateFields
  <2>7. \A x, y \in Nat : x * y = y * x
    OBVIOUS
  <2> HIDE DEF D
  <2>8. EligibleReference(c, t, extra) = c.rate.month * CeilDiv(m, M)
    BY <2>2, <2>4, <2>5
  <2> QED
    BY <2>1, <2>5, <2>6, <2>7, <2>8
<1>7. CASE ~IsPass(c.kind, c.until) /\ c.kind \notin {"DAILY", "MONTHLY"}
  <2>1. Eligible(c, t, extra) = ByTheDay(c.rate, m)
    BY <1>7 DEF Eligible
  <2>2. EligibleReference(c, t, extra) = FeeOfDays(c.rate, m)
    BY <1>3, <1>7 DEF EligibleReference
  <2> HIDE DEF m
  <2> QED
    BY <1>1, <1>3, <2>1, <2>2, DaysByTheMinute
<1> QED
  BY <1>4, <1>5, <1>6, <1>7

\* The clock keeps within its bound, and no check-in lies before it began.
ClockAgrees == now <= Horizon /\ (car.status = "parked" => car.since \in Nat)

LEMMA ClockStepAgrees ==
  ASSUME PricesAgree, ClockAgrees, [PrNext]_prVars
  PROVE  ClockAgrees'
<1>1. now \in Nat /\ Horizon \in Nat
  BY PricingAssumption DEF PricesAgree, PricingAssumption
<1>2. CASE Clock
  BY <1>1, <1>2 DEF Clock, ClockAgrees
<1>3. CASE CreateVersion \/ SellPackage \/ RetireProduct
  BY <1>3 DEF CreateVersion, SellPackage, RetireProduct, ClockAgrees
<1>4. CASE Enter
  BY <1>1, <1>4 DEF Enter, ClockAgrees
<1>5. CASE Collect
  BY <1>5 DEF Collect, NoCar, ClockAgrees
<1>6. CASE UNCHANGED prVars
  BY <1>6 DEF prVars, ClockAgrees
<1> QED
  BY <1>2, <1>3, <1>4, <1>5, <1>6 DEF PrNext

\* For any prices, blocks, caps, packages, day and month length and any stay:
\* calculate_fee's formula over whole days, blocks and the rest of the last day charges
\* exactly the minutes, days and months that have begun and are not free.
THEOREM FeesAreByTheMinute == PrSpec => []FeeByTheMinute
<1>1. PrInit => ClockAgrees
  BY PricingAssumption DEF PrInit, ClockAgrees, NoCar, PricingAssumption
<1>2. PricesAgree /\ ClockAgrees /\ [PrNext]_prVars => ClockAgrees'
  BY ClockStepAgrees
<1>3. PricesAgree /\ CarAgrees /\ ClockAgrees => FeeByTheMinute
  <2> SUFFICES ASSUME PricesAgree, CarAgrees, ClockAgrees, car.status = "parked",
                      NEW extra \in 0 .. 1
               PROVE  Eligible(car, now, extra) = EligibleReference(car, now, extra)
    BY DEF FeeByTheMinute
  <2>1. car \in Stay /\ car.since \in Nat /\ now \in Int /\ now <= Horizon /\ extra \in Nat
    BY DEF PricesAgree, CarAgrees, ClockAgrees
  <2> QED
    BY <2>1, EligibleByTheMinute
<1> QED
  BY <1>1, <1>2, <1>3, PrInitAgrees, PrStepAgrees, PTL DEF PrSpec
=============================================================================
