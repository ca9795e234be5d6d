---------------------------- MODULE OrdersProofs ----------------------------
(***************************************************************************)
(* The orders of Orders, for every price of the band, every target, policy *)
(* and account, every environment and any number of raw levels.            *)
(*                                                                         *)
(* What a lattice is rests on the greatest common divisor of a price and   *)
(* the minimum maker step: its recursion is followed to a least            *)
(* counterexample (LeastNat), and the divisor is a combination of the two  *)
(* (GcdFacts), so that a size is aligned exactly where it is a multiple of *)
(* the step of its price (AlignedIsMultiple).  The sizes of the code are   *)
(* then the multiples next to the size a target needs (NearestSizes).      *)
(*                                                                         *)
(* OrdersInv adds to that what links a step to the one before: one start,  *)
(* one order, and the body prepared from the intent.                       *)
(***************************************************************************)
EXTENDS Orders, Sums, SequenceTheorems

-----------------------------------------------------------------------------
(* Division.                                                               *)
Divides(d, n) == \E q \in Int : n = q * d

LEMMA Remainder ==
  ASSUME NEW a \in Int, NEW b \in Nat \ {0}
  PROVE  /\ a \div b \in Int /\ a % b \in 0..(b - 1)
         /\ a = (a \div b) * b + (a % b)
         /\ a >= 0 => a \div b >= 0
  OBVIOUS

LEMMA DividesSum ==
  ASSUME NEW d \in Nat, NEW a \in Int, NEW b \in Int, NEW q \in Int,
         Divides(d, a), Divides(d, b)
  PROVE  Divides(d, q * b + a)
<1>1. PICK s \in Int : a = s * d
  BY DEF Divides
<1>2. PICK t \in Int : b = t * d
  BY DEF Divides
<1>3. q * b + a = (q * t + s) * d
  BY <1>1, <1>2
<1>4. q * t + s \in Int
  OBVIOUS
<1>. QED
  BY <1>3, <1>4 DEF Divides

(* One step of Euclid's loop keeps the divisors.                           *)
LEMMA SameDivisors ==
  ASSUME NEW a \in Nat, NEW b \in Nat \ {0}, NEW d \in Nat
  PROVE  Divides(d, a) /\ Divides(d, b) <=> Divides(d, b) /\ Divides(d, a % b)
<1>1. PICK q \in Int, r \in Int : r = a % b /\ a = q * b + r
  BY Remainder
<1>2. PICK n \in Int : r = n * b + a
  <2>1. -q \in Int /\ r = (-q) * b + a
    BY <1>1
  <2>. QED
    BY <2>1
<1>3. Divides(d, a) /\ Divides(d, b) => Divides(d, r)
  <2>1. Divides(d, a) /\ Divides(d, b) => Divides(d, n * b + a)
    BY DividesSum
  <2>. QED
    BY <1>2, <2>1, Zenon
<1>4. Divides(d, b) /\ Divides(d, r) => Divides(d, a)
  <2>1. Divides(d, b) /\ Divides(d, r) => Divides(d, q * b + r)
    BY DividesSum
  <2>. QED
    BY <1>1, <2>1, Zenon
<1>. QED
  BY <1>1, <1>3, <1>4, Zenon

LEMMA DividesEachOther ==
  ASSUME NEW a \in Nat, NEW d \in Nat, Divides(a, d), Divides(d, a)
  PROVE  a = d
<1>1. PICK s \in Int : d = s * a
  BY DEF Divides
<1>2. PICK t \in Int : a = t * d
  BY DEF Divides
<1>3. ASSUME NEW m \in Nat, NEW n \in Nat, NEW q \in Int, m = q * n, m > 0
      PROVE  m >= n
  <2>1. q > 0
    BY <1>3
  <2>2. m = n + (q - 1) * n
    BY <1>3
  <2>3. (q - 1) * n >= 0
    BY <2>1
  <2>. QED
    BY <2>2, <2>3
<1>4. CASE a = 0
  BY <1>1, <1>4
<1>5. CASE d = 0
  BY <1>2, <1>5
<1>6. CASE a > 0 /\ d > 0
  BY <1>1, <1>2, <1>3, <1>6
<1>. QED
  BY <1>4, <1>5, <1>6

IsGcd(d, a, b) ==
  /\ Divides(d, a) /\ Divides(d, b)
  /\ \A e \in Nat : Divides(e, a) /\ Divides(e, b) => Divides(e, d)

LEMMA GcdOfZero ==
  ASSUME NEW a \in Nat, NEW d \in Nat
  PROVE  IsGcd(d, a, 0) <=> d = a
<1>1. \A e \in Nat : Divides(e, 0)
  <2>. SUFFICES ASSUME NEW e \in Nat PROVE Divides(e, 0)
    OBVIOUS
  <2>1. 0 = 0 * e
    OBVIOUS
  <2>. QED
    BY <2>1 DEF Divides
<1>2. Divides(a, a)
  <2>1. a = 1 * a
    OBVIOUS
  <2>. QED
    BY <2>1 DEF Divides
<1>. QED
  BY <1>1, <1>2, DividesEachOther DEF IsGcd

LEMMA GcdOfStep ==
  ASSUME NEW a \in Nat, NEW b \in Nat \ {0}, NEW d \in Nat
  PROVE  IsGcd(d, a, b) <=> IsGcd(d, b, a % b)
  BY SameDivisors DEF IsGcd

LEMMA GcdExists ==
  ASSUME NEW a \in Nat, NEW b \in Nat
  PROVE  \E d \in Nat : IsGcd(d, a, b)
<1>. DEFINE Bad == {n \in Nat : \E m \in Nat : \A d \in Nat : ~IsGcd(d, m, n)}
<1>1. ASSUME Bad # {}
      PROVE  FALSE
  <2>1. PICK n \in Bad : \A m \in Bad : n <= m
    <3>1. Bad \subseteq Nat
      OBVIOUS
    <3>. HIDE DEF Bad
    <3>. QED
      BY <1>1, <3>1, LeastNat
  <2>2. PICK m \in Nat : \A d \in Nat : ~IsGcd(d, m, n)
    OBVIOUS
  <2>3. n # 0
    BY <2>2, GcdOfZero
  <2>4. m % n \in Nat /\ m % n < n
    BY <2>3, Remainder
  <2>5. m % n \notin Bad
    BY <2>1, <2>4
  <2>6. PICK d \in Nat : IsGcd(d, n, m % n)
    BY <2>4, <2>5
  <2>. QED
    BY <2>2, <2>3, <2>6, GcdOfStep
<1>. QED
  BY <1>1


(* The recursion has a solution, so gcd is one.                            *)
LEMMA GcdUnfolds ==
  ASSUME NEW a \in Nat, NEW b \in Nat
  PROVE  gcd[<<a, b>>] = IF b = 0 THEN a ELSE gcd[<<b, a % b>>]
<1>. DEFINE Step(f) == [ab \in Nat \X Nat |-> IF ab[2] = 0 THEN ab[1] ELSE f[<<ab[2], ab[1] % ab[2]>>]]
            h == [ab \in Nat \X Nat |-> CHOOSE d \in Nat : IsGcd(d, ab[1], ab[2])]
<1>1. ASSUME NEW x \in Nat, NEW y \in Nat
      PROVE  h[<<x, y>>] = IF y = 0 THEN x ELSE h[<<y, x % y>>]
  <2>1. CASE y = 0
    <3>1. (CHOOSE d \in Nat : IsGcd(d, x, 0)) = x
      BY GcdOfZero
    <3>. QED
      BY <2>1, <3>1
  <2>2. CASE y # 0
    <3>1. x % y \in Nat
      BY <2>2, Remainder
    <3>2. \A d \in Nat : IsGcd(d, x, y) <=> IsGcd(d, y, x % y)
      BY <2>2, GcdOfStep
    <3>3. (CHOOSE d \in Nat : IsGcd(d, x, y)) = (CHOOSE d \in Nat : IsGcd(d, y, x % y))
      BY <3>2
    <3>4. <<x, y>> \in Nat \X Nat /\ <<y, x % y>> \in Nat \X Nat
      BY <3>1
    <3>5. h[<<x, y>>] = CHOOSE d \in Nat : IsGcd(d, x, y)
      BY <3>4
    <3>6. h[<<y, x % y>>] = CHOOSE d \in Nat : IsGcd(d, y, x % y)
      BY <3>4
    <3>. QED
      BY <2>2, <3>3, <3>5, <3>6, Zenon
  <2>. QED
    BY <2>1, <2>2
<1>2. h = Step(h)
  <2>1. \A ab \in Nat \X Nat : ab = <<ab[1], ab[2]>> /\ ab[1] \in Nat /\ ab[2] \in Nat
    OBVIOUS
  <2>2. \A ab \in Nat \X Nat : h[ab] = IF ab[2] = 0 THEN ab[1] ELSE h[<<ab[2], ab[1] % ab[2]>>]
    <3>. HIDE DEF h
    <3>. QED
      BY <2>1, <1>1
  <2>3. h = [ab \in Nat \X Nat |-> h[ab]]
    OBVIOUS
  <2>. HIDE DEF h
  <2>. QED
    BY <2>2, <2>3
<1>3. gcd = Step(gcd)
  <2>. HIDE DEF h
  <2>1. \E f : f = Step(f)
    BY <1>2
  <2>. QED
    BY <2>1 DEF gcd
<1>. QED
  BY <1>3

LEMMA GcdFacts ==
  ASSUME NEW a \in Nat, NEW b \in Nat
  PROVE  /\ gcd[<<a, b>>] \in Nat
         /\ Divides(gcd[<<a, b>>], a) /\ Divides(gcd[<<a, b>>], b)
         /\ \E x \in Int, y \in Int : gcd[<<a, b>>] = x * a + y * b
<1>. DEFINE Good(m, n) == LET d == gcd[<<m, n>>] IN
                            /\ d \in Nat /\ Divides(d, m) /\ Divides(d, n)
                            /\ \E x \in Int, y \in Int : d = x * m + y * n
            Bad == {n \in Nat : \E m \in Nat : ~Good(m, n)}
<1>1. ASSUME NEW m \in Nat
      PROVE  Good(m, 0)
  <2>1. gcd[<<m, 0>>] = m
    BY GcdUnfolds
  <2>2. Divides(m, m) /\ Divides(m, 0)
    BY GcdOfZero DEF IsGcd
  <2>3. m = 1 * m + 0 * 0
    OBVIOUS
  <2>. QED
    BY <2>1, <2>2, <2>3
<1>2. ASSUME NEW m \in Nat, NEW n \in Nat \ {0}, Good(n, m % n)
      PROVE  Good(m, n)
  <2>1. PICK q \in Int, r \in Nat : r = m % n /\ m = q * n + r
    <3>1. m % n \in Nat /\ m \div n \in Int /\ m = (m \div n) * n + (m % n)
      BY Remainder
    <3>. QED
      BY <3>1
  <2>2. PICK d \in Nat, x \in Int, y \in Int :
          /\ d = gcd[<<n, r>>] /\ Divides(d, n) /\ Divides(d, r)
          /\ d = x * n + y * r
    <3>1. Good(n, r)
      <4>. HIDE DEF Good
      <4>. QED
        BY <1>2, <2>1, Zenon
    <3>. QED
      BY <3>1
  <2>3. gcd[<<m, n>>] = d
    BY <2>1, <2>2, GcdUnfolds
  <2>4. Divides(d, m)
    BY <2>1, <2>2, SameDivisors
  <2>5. d = y * m + (x - y * q) * n
    <3>1. r = m - q * n
      BY <2>1
    <3>2. y * r = y * m - y * (q * n)
      BY <3>1
    <3>. QED
      BY <2>2, <3>2
  <2>6. x - y * q \in Int
    OBVIOUS
  <2>7. \E u \in Int, v \in Int : gcd[<<m, n>>] = u * m + v * n
    <3>1. PICK v \in Int : v = x - y * q
      BY <2>6
    <3>2. gcd[<<m, n>>] = y * m + v * n
      BY <2>3, <2>5, <3>1
    <3>. QED
      BY <3>2
  <2>. QED
    BY <2>2, <2>3, <2>4, <2>7
<1>3. ASSUME Bad # {}
      PROVE  FALSE
  <2>1. PICK n \in Bad : \A m \in Bad : n <= m
    <3>1. Bad \subseteq Nat
      OBVIOUS
    <3>. HIDE DEF Bad
    <3>. QED
      BY <1>3, <3>1, LeastNat
  <2>. HIDE DEF Good
  <2>2. PICK m \in Nat : ~Good(m, n)
    OBVIOUS
  <2>3. n \in Nat \ {0}
    BY <2>2, <1>1
  <2>4. PICK r \in Nat : r = m % n /\ r < n
    <3>. HIDE DEF Bad
    <3>1. m % n \in Nat /\ m % n < n
      BY <2>3, Remainder
    <3>. QED
      BY <3>1
  <2>5. m % n \notin Bad
    <3>. HIDE DEF Bad
    <3>1. ~(n <= r)
      BY <2>3, <2>4
    <3>. QED
      BY <2>1, <2>4, <3>1
  <2>6. Good(n, m % n)
    BY <2>4, <2>5
  <2>. QED
    BY <2>2, <2>3, <2>6, <1>2
<1>4. Good(a, b)
  <2>. HIDE DEF Good
  <2>. QED
    BY <1>3
<1>. QED
  BY <1>4

(* What divides leaves no remainder.                                       *)
LEMMA NoRemainder ==
  ASSUME NEW d \in Nat \ {0}, NEW n \in Int
  PROVE  /\ Divides(d, n) <=> n % d = 0
         /\ Divides(d, n) => n = (n \div d) * d
<1>1. PICK q \in Int, r \in 0..(d - 1) : q = n \div d /\ r = n % d /\ n = q * d + r
  <2>1. n % d \in 0..(d - 1) /\ n \div d \in Int /\ n = (n \div d) * d + (n % d)
    BY Remainder
  <2>. QED
    BY <2>1
<1>2. ASSUME Divides(d, n)
      PROVE  r = 0
  <2>1. PICK s \in Int : n = s * d
    BY <1>2 DEF Divides
  <2>2. PICK t \in Int : t = s - q
    OBVIOUS
  <2>3. r = t * d
    BY <1>1, <2>1, <2>2
  <2>4. CASE t > 0
    <3>1. t * d = d + (t - 1) * d
      OBVIOUS
    <3>2. (t - 1) * d >= 0
      BY <2>4
    <3>. QED
      BY <2>3, <3>1, <3>2
  <2>5. CASE t < 0
    <3>1. t * d = (t + 1) * d - d
      OBVIOUS
    <3>2. (t + 1) * d <= 0
      BY <2>5
    <3>. QED
      BY <2>3, <3>1, <3>2
  <2>. QED
    BY <2>3, <2>4, <2>5
<1>3. r = 0 => n = q * d
  BY <1>1
<1>4. r = 0 => Divides(d, n)
  BY <1>3 DEF Divides
<1>. QED
  BY <1>1, <1>2, <1>3, <1>4

-----------------------------------------------------------------------------
(* The lattice of a price: the sizes that cost whole cents are the         *)
(* multiples of its step.                                                  *)
Common(price) == gcd[<<price, MAKER_STEP>>]

LEMMA StepOfPrice ==
  ASSUME NEW price \in Nat \ {0}
  PROVE  /\ Common(price) \in Nat \ {0}
         /\ buy_size_multiple(price) \in Nat \ {0}
         /\ buy_size_multiple(price) * Common(price) = MAKER_STEP
         /\ price \div Common(price) \in Nat
         /\ price = (price \div Common(price)) * Common(price)
<1>. DEFINE g == Common(price)
<1>1. g \in Nat /\ Divides(g, price) /\ Divides(g, MAKER_STEP)
  BY GcdFacts DEF Common, MAKER_STEP
<1>2. g # 0
  BY <1>1 DEF Divides
<1>3. price = (price \div g) * g /\ MAKER_STEP = (MAKER_STEP \div g) * g
  <2>. HIDE DEF g
  <2>1. MAKER_STEP \in Int
    BY DEF MAKER_STEP
  <2>. QED
    BY <1>1, <1>2, <2>1, NoRemainder
<1>4. price \div g \in Nat /\ MAKER_STEP \div g \in Nat
  <2>. HIDE DEF g
  <2>. QED
    BY <1>1, <1>2, Remainder DEF MAKER_STEP
<1>5. MAKER_STEP \div g # 0
  <2>. HIDE DEF g
  <2>. QED
    BY <1>1, <1>3 DEF MAKER_STEP
<1>. QED
  BY <1>1, <1>2, <1>3, <1>4, <1>5 DEF buy_size_multiple, Common

LEMMA AlignedIsMultiple ==
  ASSUME NEW price \in Nat \ {0}, NEW size \in Int
  PROVE  Aligned(price, size) <=> Divides(buy_size_multiple(price), size)
<1>. DEFINE g == Common(price)
            mult == buy_size_multiple(price)
            share == price \div g
<1>1. /\ g \in Nat \ {0} /\ mult \in Nat \ {0} /\ mult * g = MAKER_STEP
      /\ share \in Nat /\ price = share * g
  BY StepOfPrice
<1>2. PICK x \in Int, y \in Int : g = x * price + y * MAKER_STEP
  <2>1. MAKER_STEP \in Nat
    BY DEF MAKER_STEP
  <2>. QED
    BY <2>1, GcdFacts DEF Common
<1>. HIDE DEF g, mult, share
<1>3. Aligned(price, size) <=> Divides(MAKER_STEP, price * size)
  BY NoRemainder DEF Aligned, MAKER_STEP
<1>4. ASSUME Divides(MAKER_STEP, price * size)
      PROVE  Divides(mult, size)
  <2>1. PICK u \in Int : price * size = u * MAKER_STEP
    BY <1>4 DEF Divides
  <2>2. PICK t \in Int : t = x * u + y * size
    OBVIOUS
  <2>3. g * size = t * MAKER_STEP
    <3>1. g * size = x * (price * size) + y * size * MAKER_STEP
      BY <1>1, <1>2 DEF MAKER_STEP
    <3>2. g * size = (x * u) * MAKER_STEP + (y * size) * MAKER_STEP
      BY <3>1, <2>1 DEF MAKER_STEP
    <3>. QED
      BY <3>2, <2>2 DEF MAKER_STEP
  <2>4. g * size = g * (t * mult)
    BY <1>1, <2>3
  <2>5. size = t * mult
    BY <1>1, <2>4
  <2>. QED
    BY <2>5 DEF Divides
<1>5. ASSUME Divides(mult, size)
      PROVE  Divides(MAKER_STEP, price * size)
  <2>1. PICK t \in Int : size = t * mult
    BY <1>5 DEF Divides
  <2>2. PICK u \in Int : u = share * t
    BY <1>1
  <2>3. price * size = u * MAKER_STEP
    <3>1. price * size = (share * g) * (t * mult)
      BY <1>1, <2>1
    <3>2. (share * g) * (t * mult) = (share * t) * (mult * g)
      BY <1>1
    <3>. QED
      BY <1>1, <2>2, <3>1, <3>2
  <2>. QED
    BY <2>3 DEF Divides
<1>. QED
  BY <1>3, <1>4, <1>5 DEF mult

(* The multiples next to a size.                                           *)
LEMMA FloorMultiple ==
  ASSUME NEW size \in Nat, NEW mult \in Nat \ {0}
  PROVE  LET floor == floor_to_multiple(size, mult) IN
         /\ floor \in Nat /\ Divides(mult, floor)
         /\ floor <= size /\ size < floor + mult
         /\ size % mult = 0 => floor = size
<1>1. PICK q \in Nat, r \in 0..(mult - 1) : q = size \div mult /\ r = size % mult /\ size = q * mult + r
  <2>1. size % mult \in 0..(mult - 1) /\ size \div mult \in Int
    BY Remainder
  <2>2. size = (size \div mult) * mult + (size % mult)
    OBVIOUS
  <2>3. size \div mult >= 0
    BY Remainder
  <2>. QED
    BY <2>1, <2>2, <2>3
<1>2. PICK floor \in Int : floor = q * mult
  OBVIOUS
<1>3. floor >= 0 /\ size = floor + r
  <2>1. q * mult >= 0
    OBVIOUS
  <2>. QED
    BY <1>1, <1>2, <2>1
<1>4. Divides(mult, floor)
  BY <1>2 DEF Divides
<1>5. floor_to_multiple(size, mult) = floor
  BY <1>1, <1>2 DEF floor_to_multiple
<1>6. floor \in Nat /\ floor <= size /\ size < floor + mult /\ (r = 0 => floor = size)
  BY <1>3
<1>. QED
  BY <1>1, <1>4, <1>5, <1>6

LEMMA CeilMultiple ==
  ASSUME NEW size \in Nat, NEW mult \in Nat \ {0}
  PROVE  LET ceil == ceil_to_multiple(size, mult) IN
         /\ ceil \in Nat /\ Divides(mult, ceil)
         /\ size <= ceil /\ ceil < size + mult
         /\ floor_to_multiple(size, mult) # size => ceil = floor_to_multiple(size, mult) + mult
<1>1. PICK floor \in Nat :
        /\ floor = floor_to_multiple(size, mult) /\ Divides(mult, floor)
        /\ floor <= size /\ size < floor + mult
        /\ size % mult = 0 => floor = size
  BY FloorMultiple
<1>2. Divides(mult, floor + mult)
  <2>1. PICK q \in Int : floor = q * mult
    BY <1>1 DEF Divides
  <2>2. floor + mult = (q + 1) * mult
    BY <2>1
  <2>. QED
    BY <2>2 DEF Divides
<1>3. size % mult # 0 => floor # size
  BY <1>1, NoRemainder
<1>4. ceil_to_multiple(size, mult) = IF size % mult = 0 THEN size ELSE floor + mult
  BY <1>1, NoRemainder DEF ceil_to_multiple
<1>5. CASE size % mult = 0
  BY <1>1, <1>4, <1>5
<1>6. CASE size % mult # 0
  <2>1. ceil_to_multiple(size, mult) = floor + mult
    BY <1>4, <1>6
  <2>2. size <= floor + mult /\ floor + mult < size + mult
    BY <1>1, <1>3, <1>6
  <2>. QED
    BY <1>1, <1>2, <2>1, <2>2
<1>. QED
  BY <1>5, <1>6

(* No multiple lies between two neighbours.                                *)
LEMMA NoneBetween ==
  ASSUME NEW mult \in Nat \ {0}, NEW low \in Int, NEW size \in Int,
         Divides(mult, low), Divides(mult, size), low < size
  PROVE  low + mult <= size
<1>1. PICK s \in Int : low = s * mult
  BY DEF Divides
<1>2. PICK t \in Int : size = t * mult
  BY DEF Divides
<1>3. PICK k \in Int : k = t - s
  OBVIOUS
<1>4. size - low = k * mult
  BY <1>1, <1>2, <1>3
<1>5. k >= 1
  <2>1. CASE k <= 0
    <3>1. k * mult <= 0
      BY <2>1
    <3>. QED
      BY <3>1, <1>4
  <2>. QED
    BY <2>1
<1>6. k * mult = mult + (k - 1) * mult /\ (k - 1) * mult >= 0
  BY <1>5
<1>. QED
  BY <1>4, <1>6

-----------------------------------------------------------------------------
(* The size and the amount of a BUY, for every price, target and policy.   *)
Input(inp) ==
  /\ inp.price \in 1..99 /\ inp.target \in Nat
  /\ inp.overrun \in Int /\ inp.bps \in Int

(* The size needed buys the target and less than a hundredth of a share    *)
(* more.                                                                   *)
LEMMA NeededSize ==
  ASSUME NEW inp, Input(inp)
  PROVE  /\ raw_size(inp) \in Nat
         /\ inp.price * raw_size(inp) >= inp.target * MAKER_STEP
         /\ inp.price * raw_size(inp) < inp.target * MAKER_STEP + inp.price * RAW_STEP
<1>. DEFINE price == inp.price
            target == inp.target
<1>1. price \in Nat \ {0} /\ target \in Nat
  BY DEF Input
<1>. HIDE DEF price, target
<1>2. target * 100 \in Nat
  BY <1>1
<1>3. PICK q \in Nat, r \in 0..(price - 1) :
        q = (target * 100) \div price /\ r = (target * 100) % price /\ target * 100 = q * price + r
  <2>1. (target * 100) % price \in 0..(price - 1) /\ (target * 100) \div price \in Int
    BY <1>1, <1>2, Remainder
  <2>2. target * 100 = ((target * 100) \div price) * price + ((target * 100) % price)
    BY <1>1, <1>2
  <2>3. (target * 100) \div price >= 0
    BY <1>1, <1>2, Remainder
  <2>. QED
    BY <2>1, <2>2, <2>3
<1>4. raw_size(inp) = IF r > 0 THEN (q + 1) * 100 ELSE q * 100
  BY <1>3 DEF raw_size, RAW_STEP, price, target
<1>5. PICK cost \in Nat : cost = q * price
  BY <1>1
<1>6. raw_size(inp) \in Nat
  BY <1>3, <1>4
<1>7. target * 100 = cost + r
  BY <1>3, <1>5
<1>8. CASE r > 0
  <2>1. price * raw_size(inp) = (cost + price) * 100
    BY <1>1, <1>3, <1>4, <1>5, <1>8
  <2>2. target * 10000 <= (cost + price) * 100 /\ (cost + price) * 100 < target * 10000 + price * 100
    BY <1>1, <1>3, <1>7, <1>8
  <2>. QED
    BY <2>1, <2>2, <1>6 DEF MAKER_STEP, RAW_STEP, price, target
<1>9. CASE r = 0
  <2>1. price * raw_size(inp) = cost * 100
    BY <1>1, <1>3, <1>4, <1>5, <1>9
  <2>2. target * 10000 <= cost * 100 /\ cost * 100 < target * 10000 + price * 100
    BY <1>1, <1>3, <1>7, <1>9
  <2>. QED
    BY <2>1, <2>2, <1>6 DEF MAKER_STEP, RAW_STEP, price, target
<1>. QED
  BY <1>3, <1>8, <1>9

LEMMA Sizes ==
  ASSUME NEW inp, Input(inp)
  PROVE  /\ floor_size(inp) \in Nat /\ ceil_size(inp) \in Nat
         /\ Aligned(inp.price, floor_size(inp)) /\ Aligned(inp.price, ceil_size(inp))
         /\ floor_size(inp) <= raw_size(inp) /\ raw_size(inp) <= ceil_size(inp)
         /\ raw_size(inp) < floor_size(inp) + buy_size_multiple(inp.price)
         /\ ceil_size(inp) < raw_size(inp) + buy_size_multiple(inp.price)
<1>1. inp.price \in Nat \ {0}
  BY DEF Input
<1>2. raw_size(inp) \in Nat
  BY NeededSize
<1>3. buy_size_multiple(inp.price) \in Nat \ {0}
  BY <1>1, StepOfPrice
<1>4. /\ floor_size(inp) \in Nat /\ Divides(buy_size_multiple(inp.price), floor_size(inp))
      /\ floor_size(inp) <= raw_size(inp) /\ raw_size(inp) < floor_size(inp) + buy_size_multiple(inp.price)
  BY <1>2, <1>3, FloorMultiple DEF floor_size
<1>5. /\ ceil_size(inp) \in Nat /\ Divides(buy_size_multiple(inp.price), ceil_size(inp))
      /\ raw_size(inp) <= ceil_size(inp) /\ ceil_size(inp) < raw_size(inp) + buy_size_multiple(inp.price)
  BY <1>2, <1>3, CeilMultiple DEF ceil_size
<1>. QED
  BY <1>1, <1>4, <1>5, AlignedIsMultiple

LEMMA TimesMore ==
  ASSUME NEW n \in Nat, NEW a \in Nat, NEW b \in Nat, a <= b
  PROVE  n * a <= n * b
<1>1. PICK d \in Nat : d = b - a
  OBVIOUS
<1>2. n * b = n * a + n * d /\ n * d >= 0
  BY <1>1
<1>. QED
  BY <1>2

LEMMA AmountOfSize ==
  ASSUME NEW price \in 1..99, NEW size \in Nat
  PROVE  /\ maker_cents(price, size) \in Nat
         /\ Aligned(price, size) => maker_cents(price, size) * MAKER_STEP = price * size
<1>1. PICK cost \in Nat : cost = price * size
  OBVIOUS
<1>2. maker_cents(price, size) = cost \div 10000 /\ (Aligned(price, size) <=> cost % 10000 = 0)
  BY <1>1 DEF maker_cents, Aligned, MAKER_STEP
<1>. QED
  BY <1>1, <1>2 DEF MAKER_STEP

LEMMA MoreCostsMore ==
  ASSUME NEW price \in 1..99, NEW less \in Nat, NEW more \in Nat, less <= more
  PROVE  maker_cents(price, less) <= maker_cents(price, more)
<1>1. PICK a \in Nat, b \in Nat : a = price * less /\ b = price * more
  OBVIOUS
<1>2. a <= b
  BY <1>1, TimesMore
<1>3. a \div 10000 <= b \div 10000
  BY <1>2
<1>. QED
  BY <1>1, <1>3 DEF maker_cents, MAKER_STEP

LEMMA CapType ==
  ASSUME NEW inp, Input(inp)
  PROVE  max_allowed(inp) \in Int
<1>1. \A n \in Nat : n \div 10000 \in Int
  OBVIOUS
<1>2. inp.bps >= 0 => inp.target * inp.bps \in Nat
  BY DEF Input
<1>3. ~(inp.bps >= 0) => inp.target * (-inp.bps) \in Nat
  BY DEF Input
<1>4. bps_overrun(inp) \in Int
  BY <1>1, <1>2, <1>3 DEF bps_overrun
<1>. QED
  BY <1>4 DEF max_allowed, Input

(* What the choice between the two lattice points leaves.                  *)
LEMMA ChosenSize ==
  ASSUME NEW inp, Input(inp), canonical_buy_target(inp).kind = "target"
  PROVE  \E size \in {floor_size(inp), ceil_size(inp)} :
           /\ canonical_buy_target(inp) = Target(inp, size)
           /\ MeetsMinimum(inp, size)
           /\ size # ceil_size(inp) => in_band(inp, size) /\ ~in_band(inp, ceil_size(inp))
           /\ in_band(inp, size) \/ ~in_band(inp, floor_size(inp))
<1>1. RawSizeBelowMin.kind # "target" /\ NoValidSize.kind # "target"
  BY DEF RawSizeBelowMin, NoValidSize, Without
<1>2. raw_size(inp) >= MIN_SIZE \/ ~(raw_size(inp) < MIN_SIZE)
  BY <1>1 DEF canonical_buy_target
<1>3. CASE in_band(inp, ceil_size(inp))
  BY <1>1, <1>3 DEF canonical_buy_target, in_band
<1>4. CASE ~in_band(inp, ceil_size(inp)) /\ in_band(inp, floor_size(inp))
  BY <1>1, <1>4 DEF canonical_buy_target, in_band
<1>5. CASE ~in_band(inp, ceil_size(inp)) /\ ~in_band(inp, floor_size(inp))
  BY <1>1, <1>5 DEF canonical_buy_target
<1>. QED
  BY <1>3, <1>4, <1>5

(* Between the size needed and the next lattice point there is none, nor   *)
(* between the last below it and the size.                                 *)
LEMMA NearestSizes ==
  ASSUME NEW inp, Input(inp), NEW size \in Int, Aligned(inp.price, size)
  PROVE  /\ size >= raw_size(inp) => size >= ceil_size(inp)
         /\ size < raw_size(inp) => size <= floor_size(inp)
<1>. DEFINE mult == buy_size_multiple(inp.price)
            floor == floor_size(inp)
            ceil == ceil_size(inp)
            needed == raw_size(inp)
<1>1. inp.price \in Nat \ {0}
  BY DEF Input
<1>2. mult \in Nat \ {0} /\ needed \in Nat /\ floor \in Nat /\ ceil \in Nat
  BY <1>1, StepOfPrice, NeededSize, Sizes
<1>3. needed < floor + mult /\ ceil < needed + mult
  BY Sizes
<1>4. Divides(mult, size) /\ Divides(mult, floor) /\ Divides(mult, ceil)
  BY <1>1, <1>2, Sizes, AlignedIsMultiple
<1>. HIDE DEF mult, floor, ceil, needed
<1>5. size < ceil => size + mult <= ceil
  BY <1>2, <1>4, NoneBetween
<1>6. floor < size => floor + mult <= size
  BY <1>2, <1>4, NoneBetween
<1>7. size >= needed => size >= ceil
  BY <1>2, <1>3, <1>5
<1>8. size < needed => size <= floor
  BY <1>2, <1>3, <1>6
<1>. QED
  BY <1>7, <1>8 DEF needed, ceil, floor

(* The size below costs the target at most.                                *)
LEMMA FloorIsCheap ==
  ASSUME NEW inp, Input(inp)
  PROVE  maker_cents(inp.price, floor_size(inp)) <= inp.target
<1>1. PICK price \in 1..99, target \in Nat, needed \in Nat, floor \in Nat :
        /\ price = inp.price /\ target = inp.target /\ needed = raw_size(inp) /\ floor = floor_size(inp)
        /\ floor <= needed /\ Aligned(price, floor)
  BY NeededSize, Sizes DEF Input
<1>2. PICK cost \in Nat, need \in Nat, amount \in Nat :
        /\ cost = price * floor /\ need = price * needed
        /\ amount = maker_cents(price, floor) /\ amount * 10000 = cost
  <2>1. maker_cents(price, floor) \in Nat /\ maker_cents(price, floor) * MAKER_STEP = price * floor
    BY <1>1, AmountOfSize
  <2>2. price * floor \in Nat /\ price * needed \in Nat
    OBVIOUS
  <2>. QED
    BY <2>1, <2>2 DEF MAKER_STEP
<1>3. cost <= need
  BY <1>1, <1>2, TimesMore
<1>4. need < target * 10000 + price * 100
  BY <1>1, <1>2, NeededSize DEF MAKER_STEP, RAW_STEP
<1>5. amount * 10000 < target * 10000 + 9901
  BY <1>2, <1>3, <1>4
<1>6. amount <= target
  BY <1>5
<1>. QED
  BY <1>1, <1>2, <1>6

(* The size an affordable amount buys.                                     *)
LEMMA SizeOfAmount ==
  ASSUME NEW inp, Input(inp), NEW cents \in Affordable(inp)
  PROVE  \E size \in Nat :
           /\ Aligned(inp.price, size) /\ maker_cents(inp.price, size) = cents
           /\ size >= MIN_SIZE /\ cents \in Nat /\ cents >= MIN_MAKER /\ cents <= max_allowed(inp)
<1>1. PICK price \in 1..99 : price = inp.price
  BY DEF Input
<1>2. cents \in Nat /\ cents >= MIN_MAKER /\ cents <= max_allowed(inp)
  BY CapType, MinimaAssumption DEF Affordable
<1>3. PICK worth \in Nat : worth = cents * MAKER_STEP
  BY <1>2 DEF MAKER_STEP
<1>4. PICK size \in Nat : size = worth \div price /\ worth = size * price
  <2>1. worth % price = 0
    BY <1>1, <1>3 DEF Affordable
  <2>2. worth = (worth \div price) * price + (worth % price) /\ worth \div price \in Nat
    BY Remainder
  <2>. QED
    BY <2>1, <2>2
<1>5. price * size = cents * 10000
  BY <1>3, <1>4 DEF MAKER_STEP
<1>6. (cents * 10000) % 10000 = 0 /\ (cents * 10000) \div 10000 = cents
  BY <1>2
<1>7. Aligned(price, size) /\ maker_cents(price, size) = cents
  BY <1>5, <1>6 DEF Aligned, maker_cents, MAKER_STEP
<1>8. size >= MIN_SIZE
  BY <1>1, <1>3, <1>4 DEF Affordable
<1>. QED
  BY <1>1, <1>2, <1>7, <1>8

(* Where an amount within the cap buys a size, one of the two sizes tried  *)
(* is within it: the one above the target if that size is above, else the  *)
(* one below, which costs no less than that size and the target at most.   *)
LEMMA CapIsKept ==
  ASSUME NEW inp, Input(inp), canonical_buy_target(inp).kind = "target",
         max_allowed(inp) >= inp.target, NEW cents \in Affordable(inp)
  PROVE  canonical_buy_target(inp).maker_amount <= max_allowed(inp)
<1>. DEFINE floor == floor_size(inp)
            ceil == ceil_size(inp)
            needed == raw_size(inp)
            cap == max_allowed(inp)
<1>1. PICK size \in {floor, ceil} :
        /\ canonical_buy_target(inp) = Target(inp, size) /\ MeetsMinimum(inp, size)
        /\ size # ceil => in_band(inp, size)
        /\ in_band(inp, size) \/ ~in_band(inp, floor)
  BY ChosenSize
<1>2. canonical_buy_target(inp).maker_amount = maker_cents(inp.price, size)
  BY <1>1 DEF Target
<1>3. CASE in_band(inp, size)
  BY <1>2, <1>3 DEF in_band
<1>4. CASE ~in_band(inp, size)
  <2>1. size = ceil /\ ~in_band(inp, floor)
    BY <1>1, <1>4
  <2>2. PICK s \in Nat :
          /\ Aligned(inp.price, s) /\ maker_cents(inp.price, s) = cents
          /\ s >= MIN_SIZE /\ cents \in Nat /\ cents >= MIN_MAKER /\ cents <= cap
    BY SizeOfAmount
  <2>3. /\ inp.price \in 1..99 /\ floor \in Nat /\ ceil \in Nat /\ needed \in Nat
        /\ Aligned(inp.price, floor) /\ cap \in Int /\ inp.target \in Nat
    BY NeededSize, Sizes, CapType DEF Input
  <2>4. maker_cents(inp.price, floor) \in Nat /\ maker_cents(inp.price, ceil) \in Nat
    BY <2>3, AmountOfSize
  <2>5. CASE s >= needed
    <3>1. ceil <= s
      BY <2>2, <2>5, NearestSizes
    <3>2. maker_cents(inp.price, ceil) <= maker_cents(inp.price, s)
      BY <2>3, <3>1, MoreCostsMore
    <3>. HIDE DEF floor, ceil, needed, cap
    <3>3. maker_cents(inp.price, ceil) <= cap
      BY <2>2, <2>3, <2>4, <3>2
    <3>. QED
      BY <1>2, <2>1, <3>3 DEF cap
  <2>6. CASE s < needed
    <3>1. s <= floor
      BY <2>2, <2>6, NearestSizes
    <3>2. maker_cents(inp.price, s) <= maker_cents(inp.price, floor)
      BY <2>3, <3>1, MoreCostsMore
    <3>3. maker_cents(inp.price, floor) <= inp.target
      BY FloorIsCheap
    <3>4. cap >= inp.target
      OBVIOUS
    <3>5. floor >= MIN_SIZE /\ maker_cents(inp.price, floor) >= MIN_MAKER
          /\ maker_cents(inp.price, floor) <= cap
      <4>. HIDE DEF floor, ceil, needed, cap
      <4>. QED
        BY <2>2, <2>3, <2>4, <3>1, <3>2, <3>3, <3>4, MinimaAssumption
    <3>6. in_band(inp, floor)
      BY <2>3, <3>5 DEF in_band, MeetsMinimum
    <3>. QED
      BY <2>1, <3>6
  <2>. QED
    BY <2>2, <2>3, <2>5, <2>6
<1>. QED
  BY <1>3, <1>4

-----------------------------------------------------------------------------
(* What a launch lets the bot run with.                                    *)
Running(c) ==
  /\ c.usdc_per_trade \in Nat /\ c.usdc_per_trade >= venue_floor
  /\ c.max_notional_overrun \in Int /\ c.max_notional_overrun_bps \in Int
  /\ c.sell_slippage \in Int
  /\ c.live => c.maker # "none"

LEMMA ReadSettings ==
  ASSUME NEW env \in [Settings -> Int \cup {Missing, Unreadable}], Accepts(env)
  PROVE  /\ Value(env, "usdc_per_trade") \in Nat /\ Value(env, "usdc_per_trade") >= venue_floor
         /\ Value(env, "max_notional_overrun") \in Int
         /\ Value(env, "max_notional_overrun_bps") \in Int
         /\ Value(env, "sell_slippage") \in Int
<1>1. {"usdc_per_trade", "max_notional_overrun", "max_notional_overrun_bps", "sell_slippage"} \subseteq Settings
  BY DEF Settings, Required, Default
<1>2. \A s \in Settings : Reads(env, s) => Value(env, s) \in Int
  BY DEF Reads, Value
<1>3. /\ Default["max_notional_overrun"] \in Int /\ Default["max_notional_overrun_bps"] \in Int
      /\ Default["sell_slippage"] \in Int
  BY DEF Default
<1>4. Admits(env, "usdc_per_trade")
  BY <1>1 DEF Accepts
<1>5. Reads(env, "usdc_per_trade")
  BY <1>4 DEF Admits, Required
<1>6. "usdc_per_trade" \in DOMAIN Least /\ Least["usdc_per_trade"] = venue_floor
  BY DEF Least
<1>7. Value(env, "usdc_per_trade") >= venue_floor
  BY <1>4, <1>6 DEF Admits
<1>8. Value(env, "usdc_per_trade") \in Int
  BY <1>1, <1>2, <1>5
<1>9. /\ Value(env, "max_notional_overrun") \in Int
      /\ Value(env, "max_notional_overrun_bps") \in Int
      /\ Value(env, "sell_slippage") \in Int
  BY <1>1, <1>2, <1>3 DEF Value
<1>. QED
  BY <1>7, <1>8, <1>9 DEF venue_floor

LEMMA LaunchRuns ==
  ASSUME NEW l \in Launches, Starts(l.env, l.account, l.granted)
  PROVE  Running(Configured(l))
<1>1. l.env \in [Settings -> Int \cup {Missing, Unreadable}] /\ Accepts(l.env)
  BY BookAssumption DEF BookAssumption, Starts
<1>2. Configured(l).live = l.account.live /\ Configured(l).maker = Maker(l.account)
  BY DEF Configured
<1>3. l.account.live => Maker(l.account) # "none"
  BY DEF Starts
<1>4. /\ Configured(l).usdc_per_trade = Value(l.env, "usdc_per_trade")
      /\ Configured(l).max_notional_overrun = Value(l.env, "max_notional_overrun")
      /\ Configured(l).max_notional_overrun_bps = Value(l.env, "max_notional_overrun_bps")
      /\ Configured(l).sell_slippage = Value(l.env, "sell_slippage")
  BY DEF Configured, OrderSettings
<1>. QED
  BY <1>1, <1>2, <1>3, <1>4, ReadSettings DEF Running

-----------------------------------------------------------------------------
(* A body of either side.                                                  *)
(* A hundredth of a share, in atoms.                                       *)
Unit == 10000

LEMMA BuyIsExact ==
  ASSUME NEW inp, Input(inp), NEW b \in sign_fak_buy(inp.price, canonical_buy_target(inp))
  PROVE  /\ b.side = "BUY"
         /\ b.maker_atoms * 100 = b.limit * b.taker_atoms
         /\ b.maker_atoms % Unit = 0
         /\ b.maker_atoms >= MIN_MAKER * Unit /\ b.taker_atoms >= MIN_SIZE * 100
<1>. DEFINE out == canonical_buy_target(inp)
<1>1. /\ b = Body("BUY", inp.price, out.maker_amount * 10000, out.size * 100)
      /\ out.maker_amount * 10000 > 0
  BY DEF sign_fak_buy, Signed, Body
<1>2. out.kind = "target"
  <2>1. out \in {RawSizeBelowMin, NoValidSize} \cup {Target(inp, ceil_size(inp)), Target(inp, floor_size(inp))}
    BY DEF canonical_buy_target
  <2>2. RawSizeBelowMin.maker_amount = 0 /\ NoValidSize.maker_amount = 0
    BY DEF RawSizeBelowMin, NoValidSize, Without
  <2>3. out # RawSizeBelowMin /\ out # NoValidSize
    BY <1>1, <2>2
  <2>. QED
    BY <2>1, <2>3 DEF Target
<1>. HIDE DEF out
<1>3. PICK size \in Nat : out = Target(inp, size) /\ MeetsMinimum(inp, size)
  BY <1>2, ChosenSize, Sizes DEF out
<1>4. PICK price \in 1..99 : price = inp.price
  BY DEF Input
<1>5. PICK amount \in Nat :
        /\ amount = maker_cents(price, size) /\ amount * 10000 = price * size
        /\ amount >= MIN_MAKER /\ size >= MIN_SIZE
  <2>1. Aligned(price, size) /\ maker_cents(price, size) >= MIN_MAKER /\ size >= MIN_SIZE
    BY <1>3, <1>4 DEF MeetsMinimum
  <2>2. maker_cents(price, size) \in Nat /\ maker_cents(price, size) * MAKER_STEP = price * size
    BY <2>1, AmountOfSize
  <2>. QED
    BY <2>1, <2>2 DEF MAKER_STEP
<1>6. out.maker_amount = amount /\ out.size = size
  BY <1>3, <1>4, <1>5 DEF Target
<1>7. b.side = "BUY" /\ b.limit = price /\ b.maker_atoms = amount * 10000 /\ b.taker_atoms = size * 100
  BY <1>1, <1>4, <1>6 DEF Body
<1>8. amount * 10000 * 100 = price * (size * 100)
  <2>1. price * (size * 100) = (price * size) * 100
    OBVIOUS
  <2>. QED
    BY <1>5, <2>1
<1>9. (amount * 10000) % 10000 = 0
  OBVIOUS
<1>10. amount * 10000 >= MIN_MAKER * 10000 /\ size * 100 >= MIN_SIZE * 100
  BY <1>5, MinimaAssumption DEF MinimaAssumption
<1>. QED
  BY <1>7, <1>8, <1>9, <1>10 DEF Unit

LEMMA SellOfUnits ==
  ASSUME NEW c, Running(c), NEW bid \in 1..99, NEW atoms \in Nat
  PROVE  \E units \in Nat, limit \in Nat :
           /\ units * Unit <= atoms /\ atoms - units * Unit < Unit
           /\ limit >= 1 /\ (c.sell_slippage >= 0 => limit <= bid)
           /\ sell_body(c, bid, atoms) =
                IF units > 0 /\ checked(limit)
                THEN Signed(Body("SELL", limit, units * Unit, limit * units * 100)) ELSE {}
<1>1. PICK units \in Nat : units = atoms \div 10000 /\ units * 10000 <= atoms /\ atoms - units * 10000 < 10000
  OBVIOUS
<1>2. PICK limit \in Nat :
        /\ limit = sell_limit(bid, c.sell_slippage) /\ limit >= 1
        /\ c.sell_slippage >= 0 => limit <= bid
  BY DEF Running, sell_limit
<1>3. floor_from_shares4(units * 100) = units
  BY DEF floor_from_shares4
<1>4. sell_body(c, bid, atoms) =
        IF units > 0 /\ checked(limit)
        THEN Signed(Body("SELL", limit, units * Unit, limit * units * 100)) ELSE {}
  BY <1>1, <1>2, <1>3 DEF sell_body, sign_fak_sell, Unit
<1>5. units * Unit <= atoms /\ atoms - units * Unit < Unit
  BY <1>1 DEF Unit
<1>. QED
  BY <1>2, <1>4, <1>5

LEMMA SellIsExact ==
  ASSUME NEW c, Running(c), NEW bid \in 1..99, NEW atoms \in Nat,
         NEW b \in sell_body(c, bid, atoms)
  PROVE  /\ b.side = "SELL"
         /\ b.taker_atoms * 100 = b.limit * b.maker_atoms
         /\ b.maker_atoms % Unit = 0
<1>1. PICK units \in Nat, limit \in Nat :
        b = Body("SELL", limit, units * Unit, limit * units * 100)
  <2>1. PICK units \in Nat, limit \in Nat :
          b \in IF units > 0 /\ checked(limit)
                THEN Signed(Body("SELL", limit, units * Unit, limit * units * 100)) ELSE {}
    BY SellOfUnits
  <2>. QED
    BY <2>1 DEF Signed
<1>2. limit * units * 100 * 100 = limit * (units * Unit)
  BY DEF Unit
<1>3. (units * Unit) % Unit = 0
  BY DEF Unit
<1>. QED
  BY <1>1, <1>2, <1>3 DEF Body

LEMMA SellIsOffered ==
  ASSUME NEW c, Running(c), NEW bid \in 1..99, NEW atoms \in Nat,
         c.sell_slippage >= 0, atoms >= Unit
  PROVE  \E b \in sell_body(c, bid, atoms) :
           /\ b.limit \in 1..bid
           /\ b.maker_atoms <= atoms /\ atoms - b.maker_atoms < Unit
<1>1. PICK units \in Nat, limit \in Nat :
        /\ units * Unit <= atoms /\ atoms - units * Unit < Unit
        /\ limit >= 1 /\ limit <= bid
        /\ sell_body(c, bid, atoms) =
             IF units > 0 /\ checked(limit)
             THEN Signed(Body("SELL", limit, units * Unit, limit * units * 100)) ELSE {}
  BY SellOfUnits
<1>. DEFINE b == Body("SELL", limit, units * Unit, limit * units * 100)
<1>2. units > 0
  BY <1>1 DEF Unit
<1>3. checked(limit)
  BY <1>1 DEF checked
<1>4. limit * units * 100 > 0
  <2>1. limit * units > 0
    BY <1>1, <1>2
  <2>. QED
    BY <2>1
<1>5. b.maker_atoms = units * Unit /\ b.taker_atoms = limit * units * 100 /\ b.limit = limit
  BY DEF Body
<1>6. b \in Signed(b)
  BY <1>2, <1>4, <1>5 DEF Signed, Unit
<1>7. b \in sell_body(c, bid, atoms)
  BY <1>1, <1>2, <1>3, <1>6
<1>. HIDE DEF b
<1>. QED
  BY <1>1, <1>5, <1>7

(* The venue's minima, at most a dollar and a share.                       *)
SmallMinima == MIN_MAKER \in 1..venue_floor /\ MIN_SIZE <= MAKER_STEP

LEMMA BuyIsSigned ==
  ASSUME SmallMinima, NEW inp, Input(inp), inp.target >= venue_floor
  PROVE  sign_fak_buy(inp.price, canonical_buy_target(inp)) # {}
<1>1. PICK price \in 1..99 : price = inp.price
  BY DEF Input
<1>2. PICK target \in Nat : target = inp.target /\ target >= 100
  BY DEF Input, venue_floor
<1>3. PICK needed \in Nat : needed = raw_size(inp) /\ price * needed >= target * 10000
  BY <1>1, <1>2, NeededSize DEF MAKER_STEP
<1>4. needed >= MAKER_STEP
  <2>1. CASE needed < 10000
    <3>1. price * needed <= price * 9999 /\ price * needed <= 99 * 9999
      BY <2>1, TimesMore
    <3>. QED
      BY <1>2, <1>3, <3>1
  <2>. QED
    BY <2>1 DEF MAKER_STEP
<1>5. PICK ceil \in Nat : ceil = ceil_size(inp) /\ ceil >= needed /\ Aligned(price, ceil)
  BY <1>1, <1>3, Sizes
<1>6. maker_cents(price, ceil) >= target
  <2>1. PICK amount \in Nat : amount = maker_cents(price, ceil) /\ amount * 10000 = price * ceil
    <3>1. maker_cents(price, ceil) \in Nat /\ maker_cents(price, ceil) * MAKER_STEP = price * ceil
      BY <1>5, AmountOfSize
    <3>. QED
      BY <3>1 DEF MAKER_STEP
  <2>2. price * needed <= price * ceil
    BY <1>5, TimesMore
  <2>3. amount * 10000 >= target * 10000
    BY <2>1, <2>2, <1>3
  <2>. QED
    BY <2>1, <2>3
<1>7. MeetsMinimum(inp, ceil)
  <2>1. ceil >= MIN_SIZE
    BY <1>4, <1>5, MinimaAssumption DEF MinimaAssumption, SmallMinima, MAKER_STEP
  <2>2. maker_cents(price, ceil) >= MIN_MAKER
    <3>1. maker_cents(price, ceil) \in Nat
      BY AmountOfSize
    <3>2. MIN_MAKER \in Nat /\ MIN_MAKER <= 100
      BY DEF SmallMinima, venue_floor
    <3>. QED
      BY <1>2, <1>6, <3>1, <3>2
  <2>. QED
    BY <1>1, <1>5, <2>1, <2>2 DEF MeetsMinimum
<1>8. canonical_buy_target(inp).kind = "target"
  <2>1. ~(raw_size(inp) < MIN_SIZE)
    BY <1>3, <1>4, MinimaAssumption DEF MinimaAssumption, SmallMinima, MAKER_STEP
  <2>. QED
    BY <1>5, <1>7, <2>1 DEF canonical_buy_target, Target
<1>9. PICK size \in Nat : canonical_buy_target(inp) = Target(inp, size) /\ MeetsMinimum(inp, size)
  BY <1>8, ChosenSize, Sizes
<1>10. PICK amount \in Nat : amount = maker_cents(price, size) /\ amount * 10000 = price * size
  <2>1. Aligned(price, size)
    BY <1>1, <1>9 DEF MeetsMinimum
  <2>2. maker_cents(price, size) \in Nat /\ maker_cents(price, size) * MAKER_STEP = price * size
    BY <2>1, AmountOfSize
  <2>. QED
    BY <2>2 DEF MAKER_STEP
<1>11. amount > 0
  BY <1>1, <1>9, <1>10 DEF MeetsMinimum, SmallMinima, venue_floor
<1>12. size > 0
  <2>1. size = 0 => price * size = 0
    OBVIOUS
  <2>. QED
    BY <1>10, <1>11, <2>1
<1>. DEFINE b == Body("BUY", price, amount * 10000, size * 100)
<1>13. b.maker_atoms = amount * 10000 /\ b.taker_atoms = size * 100
  BY DEF Body
<1>14. b \in Signed(b)
  BY <1>11, <1>12, <1>13 DEF Signed
<1>15. sign_fak_buy(inp.price, canonical_buy_target(inp)) = Signed(b)
  BY <1>1, <1>9, <1>10 DEF sign_fak_buy, Target
<1>. QED
  BY <1>14, <1>15

-----------------------------------------------------------------------------
(* One bot runs, and what is prepared is of its settings.                  *)
OneConfig ==
  /\ \A c \in config : Running(c)
  /\ \A c \in config, d \in config : c = d

(* A BUY and a SELL are never prepared together.                           *)
OneOrder ==
  /\ input # {} => intent # {}
  /\ intent # {} => holding = {}
  /\ body # {} => input # {} \/ holding # {}

BuyPrepared ==
  /\ \A limit \in intent : checked(limit)
  /\ \A inp \in input :
       /\ Input(inp) /\ inp.target >= venue_floor
       /\ outcome = canonical_buy_target(inp)
       /\ body = sign_fak_buy(inp.price, outcome)

SellPrepared ==
  \A h \in holding :
    /\ h.bid \in 1..99 /\ h.atoms \in Nat
    /\ \E c \in config : body = sell_body(c, h.bid, h.atoms)

OrdersInv == OneConfig /\ OneOrder /\ BuyPrepared /\ SellPrepared

LEMMA OrdersStart == Init => OrdersInv
  BY DEF Init, OrdersInv, OneConfig, OneOrder, BuyPrepared, SellPrepared

LEMMA OrdersStep == OrdersInv /\ [Next]_vars => OrdersInv'
<1>. SUFFICES ASSUME OrdersInv, [Next]_vars
              PROVE  OrdersInv'
  OBVIOUS
<1>. USE DEF OrdersInv
<1>1. ASSUME NEW l \in Launches, Launch(l)
      PROVE  OrdersInv'
  <2>1. config = {} /\ config' = {Configured(l)} /\ UNCHANGED orderVars
    BY <1>1 DEF Launch
  <2>2. Running(Configured(l))
    BY <1>1, LaunchRuns DEF Launch
  <2>3. holding = {}
    BY <2>1 DEF SellPrepared
  <2>4. OneConfig'
    BY <2>1, <2>2 DEF OneConfig
  <2>5. OneOrder' /\ BuyPrepared' /\ SellPrepared'
    BY <2>1, <2>3 DEF orderVars, OneOrder, BuyPrepared, SellPrepared
  <2>. QED
    BY <2>4, <2>5
<1>2. ASSUME UNCHANGED <<config, orderVars>>
      PROVE  OrdersInv'
  BY <1>2 DEF orderVars, OneConfig, OneOrder, BuyPrepared, SellPrepared
<1>3. ASSUME NEW level \in BookLevel, ReadLevel(level)
      PROVE  OrdersInv'
  BY <1>2, <1>3 DEF ReadLevel
<1>4. ASSUME NEW ask \in ChangedAsks, PriceChange(ask)
      PROVE  OrdersInv'
  BY <1>2, <1>4 DEF PriceChange
<1>5. ASSUME NEW c \in config, Decide(c)
      PROVE  OrdersInv'
  <2>1. PICK limit : checked(limit) /\ intent' = {limit}
    BY <1>5 DEF Decide
  <2>2. intent = {} /\ holding = {} /\ UNCHANGED <<config, input, outcome, holding, body>>
    BY <1>5 DEF Decide
  <2>. QED
    BY <2>1, <2>2 DEF OneConfig, OneOrder, BuyPrepared, SellPrepared
<1>6. ASSUME NEW c \in config, NEW limit \in intent, PrepareBuy(c, limit)
      PROVE  OrdersInv'
  <2>. DEFINE inp == [price |-> limit, target |-> c.usdc_per_trade,
                      overrun |-> c.max_notional_overrun, bps |-> c.max_notional_overrun_bps]
  <2>1. /\ c.live /\ input' = {inp} /\ outcome' = canonical_buy_target(inp)
        /\ body' = IF c.maker = "none" THEN {} ELSE sign_fak_buy(limit, outcome')
        /\ UNCHANGED <<config, intent, holding>>
    BY <1>6 DEF PrepareBuy
  <2>2. Running(c) /\ c.maker # "none"
    BY <1>6, <2>1 DEF OneConfig, Running
  <2>3. inp.price = limit /\ inp.target = c.usdc_per_trade
    OBVIOUS
  <2>4. Input(inp) /\ inp.target >= venue_floor
    BY <1>6, <2>2 DEF Running, Input, BuyPrepared, checked
  <2>5. holding = {} /\ intent # {}
    BY <1>6 DEF OneOrder
  <2>. HIDE DEF inp
  <2>6. OneConfig' /\ OneOrder' /\ SellPrepared'
    BY <2>1, <2>5 DEF OneConfig, OneOrder, SellPrepared
  <2>7. BuyPrepared'
    BY <2>1, <2>2, <2>3, <2>4 DEF BuyPrepared
  <2>. QED
    BY <2>6, <2>7
<1>7. ASSUME NEW c \in config, NEW bid \in Bids, NEW atoms \in Holdings, PrepareSell(c, bid, atoms)
      PROVE  OrdersInv'
  <2>1. /\ intent = {} /\ holding' = {[bid |-> bid, atoms |-> atoms]}
        /\ body' = sell_body(c, bid, atoms)
        /\ UNCHANGED <<config, intent, input, outcome>>
    BY <1>7 DEF PrepareSell
  <2>2. bid \in 1..99 /\ atoms \in Nat
    BY BookAssumption DEF BookAssumption
  <2>3. OneConfig' /\ OneOrder' /\ BuyPrepared'
    BY <2>1 DEF OneConfig, OneOrder, BuyPrepared
  <2>4. SellPrepared'
    BY <2>1, <2>2 DEF SellPrepared
  <2>. QED
    BY <2>3, <2>4
<1>. QED
  BY <1>1, <1>2, <1>3, <1>4, <1>5, <1>6, <1>7 DEF Next, vars

LEMMA OrdersAlways == Spec => []OrdersInv
  BY OrdersStart, OrdersStep, PTL DEF Spec

(* Both bodies are exact, at every price and for all settings a start      *)
(* accepts.                                                                *)
THEOREM BodyAlwaysExact == Spec => []BodyIsExact
<1>1. OrdersInv => BodyIsExact
  <2>. SUFFICES ASSUME OrdersInv, NEW b \in body
                PROVE  IF b.side = "BUY"
                       THEN /\ b.maker_atoms * 100 = b.limit * b.taker_atoms
                            /\ b.maker_atoms % 10000 = 0
                            /\ b.maker_atoms >= MIN_MAKER * 10000 /\ b.taker_atoms >= MIN_SIZE * 100
                       ELSE b.taker_atoms * 100 = b.limit * b.maker_atoms /\ b.maker_atoms % 10000 = 0
    BY DEF BodyIsExact
  <2>1. CASE input # {}
    <3>1. PICK inp \in input : Input(inp) /\ body = sign_fak_buy(inp.price, canonical_buy_target(inp))
      BY <2>1 DEF OrdersInv, BuyPrepared
    <3>2. b \in sign_fak_buy(inp.price, canonical_buy_target(inp))
      BY <3>1
    <3>3. /\ b.side = "BUY"
          /\ b.maker_atoms * 100 = b.limit * b.taker_atoms
          /\ b.maker_atoms % 10000 = 0
          /\ b.maker_atoms >= MIN_MAKER * 10000 /\ b.taker_atoms >= MIN_SIZE * 100
      BY <3>1, <3>2, BuyIsExact DEF Unit
    <3>. QED
      BY <3>3
  <2>2. CASE holding # {}
    <3>1. PICK c \in config, bid \in 1..99, atoms \in Nat : Running(c) /\ body = sell_body(c, bid, atoms)
      BY <2>2 DEF OrdersInv, OneConfig, SellPrepared
    <3>2. /\ b.side = "SELL"
          /\ b.taker_atoms * 100 = b.limit * b.maker_atoms
          /\ b.maker_atoms % 10000 = 0
      <4>1. b \in sell_body(c, bid, atoms)
        BY <3>1
      <4>2. b.side = "SELL" /\ b.taker_atoms * 100 = b.limit * b.maker_atoms /\ b.maker_atoms % Unit = 0
        BY <3>1, <4>1, SellIsExact
      <4>. QED
        BY <4>2 DEF Unit
    <3>. QED
      BY <3>2
  <2>. QED
    BY <2>1, <2>2 DEF OrdersInv, OneOrder
<1>. QED
  BY <1>1, OrdersAlways, PTL

(* Whatever the bot is started with, sizing and signing refuse no limit.   *)
THEOREM IntentAlwaysSigned ==
  ASSUME SmallMinima
  PROVE  Spec => []IntentIsSigned
<1>1. OrdersInv => IntentIsSigned
  BY BuyIsSigned DEF OrdersInv, BuyPrepared, IntentIsSigned
<1>. QED
  BY <1>1, OrdersAlways, PTL

(* No holding above dust is left unoffered, at any bid and concession.     *)
THEOREM SellAlwaysPriced == Spec => []SellIsPriced
<1>1. OrdersInv => SellIsPriced
  <2>. SUFFICES ASSUME OrdersInv, NEW c \in config, NEW h \in holding,
                       c.sell_slippage >= 0, h.atoms >= Unit
                PROVE  \E b \in body : /\ b.limit \in 1..h.bid
                                       /\ b.maker_atoms <= h.atoms /\ h.atoms - b.maker_atoms < Unit
    BY DEF SellIsPriced, Unit
  <2>1. /\ Running(c) /\ h.bid \in 1..99 /\ h.atoms \in Nat
        /\ body = sell_body(c, h.bid, h.atoms)
    BY DEF OrdersInv, OneConfig, SellPrepared
  <2>2. \E b \in sell_body(c, h.bid, h.atoms) :
          b.limit \in 1..h.bid /\ b.maker_atoms <= h.atoms /\ h.atoms - b.maker_atoms < Unit
    BY <2>1, SellIsOffered
  <2>. QED
    BY <2>1, <2>2
<1>. QED
  BY <1>1, OrdersAlways, PTL

(* The cap on overrun is passed only where nothing within it can be bought.*)
THEOREM OverrunAlwaysNeeded == Spec => []OverrunOnlyAtGaps
<1>1. OrdersInv => OverrunOnlyAtGaps
  <2>. SUFFICES ASSUME OrdersInv, NEW inp \in Chosen, max_allowed(inp) >= inp.target,
                       NEW cents \in Affordable(inp)
                PROVE  outcome.maker_amount <= max_allowed(inp)
    BY DEF OverrunOnlyAtGaps
  <2>1. Input(inp) /\ outcome = canonical_buy_target(inp) /\ outcome.kind = "target"
    BY DEF OrdersInv, BuyPrepared, Chosen
  <2>. QED
    BY <2>1, CapIsKept
<1>. QED
  BY <1>1, OrdersAlways, PTL

(* The size chosen is the next lattice point above the target, or the last *)
(* below it where that one passes the cap.                                 *)
LEMMA LeastIsNext ==
  ASSUME NEW inp, Input(inp)
  PROVE  LET needed == raw_size(inp)
             between == {s \in needed..(needed + MAKER_STEP) : Aligned(inp.price, s)}
         IN  (CHOOSE s \in between : \A t \in between : s <= t) = ceil_size(inp)
<1>. DEFINE needed == raw_size(inp)
            between == {s \in needed..(needed + MAKER_STEP) : Aligned(inp.price, s)}
            ceil == ceil_size(inp)
<1>1. needed \in Nat /\ ceil \in Nat /\ needed <= ceil
  BY NeededSize, Sizes
<1>2. ceil <= needed + MAKER_STEP
  <2>1. ceil < needed + buy_size_multiple(inp.price)
    BY Sizes
  <2>2. PICK mult \in Nat, g \in Nat \ {0} : mult = buy_size_multiple(inp.price) /\ mult * g = MAKER_STEP
    <3>1. inp.price \in Nat \ {0}
      BY DEF Input
    <3>2. /\ buy_size_multiple(inp.price) \in Nat /\ Common(inp.price) \in Nat \ {0}
          /\ buy_size_multiple(inp.price) * Common(inp.price) = MAKER_STEP
      BY <3>1, StepOfPrice
    <3>. QED
      BY <3>2
  <2>3. mult <= mult * g
    <3>1. mult * 1 <= mult * g
      BY TimesMore
    <3>. QED
      BY <3>1
  <2>. QED
    BY <1>1, <2>1, <2>2, <2>3 DEF MAKER_STEP
<1>3. Aligned(inp.price, ceil)
  BY Sizes
<1>4. ceil \in between
  BY <1>1, <1>2, <1>3 DEF MAKER_STEP
<1>5. \A t \in between : ceil <= t
  <2>. SUFFICES ASSUME NEW t \in between
                PROVE  ceil <= t
    OBVIOUS
  <2>1. t \in Int /\ t >= needed /\ Aligned(inp.price, t)
    BY <1>1 DEF MAKER_STEP
  <2>. QED
    BY <1>1, <2>1, NearestSizes
<1>6. between \subseteq Int
  BY <1>1 DEF MAKER_STEP
<1>. HIDE DEF between, ceil, needed
<1>7. \A s \in between : (\A t \in between : s <= t) => s = ceil
  BY <1>4, <1>5, <1>6
<1>8. (CHOOSE s \in between : \A t \in between : s <= t) = ceil
  BY <1>4, <1>5, <1>7
<1>. QED
  BY <1>8 DEF between, ceil, needed

(* No other size is as near: nothing lies between the target and the       *)
(* amount above it, and one below is taken only where the cap forbids that.*)
THEOREM OvershootAlwaysLeast == Spec => []LeastOvershoot
<1>1. ASSUME OrdersInv, NEW inp \in Chosen
      PROVE  LET needed == raw_size(inp)
                 size == outcome.size
                 between == {s \in needed..(needed + MAKER_STEP) : Aligned(inp.price, s)}
                 least == CHOOSE s \in between : \A t \in between : s <= t
             IN  IF size >= needed THEN size = least
                 ELSE /\ maker_cents(inp.price, least) > max_allowed(inp)
                      /\ \A s \in (size + 1)..(needed - 1) : ~Aligned(inp.price, s)
  <2>1. /\ Input(inp) /\ outcome = canonical_buy_target(inp)
        /\ canonical_buy_target(inp).kind = "target"
    BY <1>1 DEF OrdersInv, BuyPrepared, Chosen
  <2>2. PICK size \in {floor_size(inp), ceil_size(inp)} :
          /\ outcome = Target(inp, size) /\ MeetsMinimum(inp, size)
          /\ size # ceil_size(inp) => in_band(inp, size) /\ ~in_band(inp, ceil_size(inp))
    BY <2>1, ChosenSize
  <2>3. outcome.size = size
    BY <2>2 DEF Target
  <2>. DEFINE needed == raw_size(inp)
              between == {s \in needed..(needed + MAKER_STEP) : Aligned(inp.price, s)}
              least == CHOOSE s \in between : \A t \in between : s <= t
  <2>4. least = ceil_size(inp)
    BY <2>1, LeastIsNext
  <2>. HIDE DEF least
  <2>5. /\ needed \in Nat /\ floor_size(inp) \in Nat /\ ceil_size(inp) \in Nat
        /\ Aligned(inp.price, floor_size(inp)) /\ Aligned(inp.price, ceil_size(inp))
        /\ floor_size(inp) <= needed /\ needed <= ceil_size(inp)
    BY <2>1, NeededSize, Sizes
  <2>6. ASSUME size >= needed
        PROVE  size = least
    <3>1. CASE size = floor_size(inp)
      <4>1. size >= ceil_size(inp)
        BY <2>1, <2>5, <2>6, <3>1, NearestSizes
      <4>. QED
        BY <2>4, <2>5, <3>1, <4>1
    <3>. QED
      BY <2>2, <2>4, <3>1
  <2>7. ASSUME ~(size >= needed)
        PROVE  /\ maker_cents(inp.price, least) > max_allowed(inp)
               /\ \A s \in (size + 1)..(needed - 1) : ~Aligned(inp.price, s)
    <3>1. size = floor_size(inp) /\ size < ceil_size(inp)
      BY <2>2, <2>5, <2>7
    <3>2. MeetsMinimum(inp, ceil_size(inp))
      <4>1. ceil_size(inp) >= MIN_SIZE
        BY <2>2, <2>5, <3>1, MinimaAssumption DEF MinimaAssumption, MeetsMinimum
      <4>2. maker_cents(inp.price, size) <= maker_cents(inp.price, ceil_size(inp))
        <5>1. inp.price \in 1..99 /\ size \in Nat /\ size <= ceil_size(inp)
          BY <2>1, <2>5, <3>1 DEF Input
        <5>. QED
          BY <5>1, <2>5, MoreCostsMore
      <4>3. /\ maker_cents(inp.price, size) \in Nat /\ maker_cents(inp.price, ceil_size(inp)) \in Nat
            /\ maker_cents(inp.price, size) >= MIN_MAKER
        BY <2>1, <2>2, <2>5, <3>1, AmountOfSize DEF Input, MeetsMinimum
      <4>4. maker_cents(inp.price, ceil_size(inp)) >= MIN_MAKER
        BY <4>2, <4>3, MinimaAssumption DEF MinimaAssumption
      <4>. QED
        BY <2>5, <4>1, <4>4 DEF MeetsMinimum
    <3>3. ~(maker_cents(inp.price, ceil_size(inp)) <= max_allowed(inp))
      <4>1. ~in_band(inp, ceil_size(inp))
        BY <2>2, <2>5, <3>1
      <4>. QED
        BY <3>2, <4>1 DEF in_band
    <3>4. maker_cents(inp.price, ceil_size(inp)) \in Int /\ max_allowed(inp) \in Int
      <4>1. inp.price \in 1..99
        BY <2>1 DEF Input
      <4>2. maker_cents(inp.price, ceil_size(inp)) \in Nat
        BY <2>5, <4>1, AmountOfSize
      <4>. QED
        BY <2>1, <4>2, CapType
    <3>5. ASSUME NEW s \in (size + 1)..(needed - 1), Aligned(inp.price, s)
          PROVE  FALSE
      <4>1. s \in Int /\ s < needed /\ s > floor_size(inp)
        BY <2>5, <3>1, <3>5
      <4>. QED
        BY <2>1, <2>5, <3>5, <4>1, NearestSizes
    <3>. QED
      BY <2>4, <3>3, <3>4, <3>5
  <2>. QED
    BY <2>3, <2>6, <2>7 DEF least
<1>2. OrdersInv => LeastOvershoot
  BY <1>1 DEF LeastOvershoot
<1>. QED
  BY <1>2, OrdersAlways, PTL
-----------------------------------------------------------------------------
(* The book a message describes, and the levels kept of it.                *)
Kept == [price : LevelPrices, size_atoms : Nat \ {0}]

SizeOf(rw, price) ==
  SumFunctionOnSet([i \in DOMAIN rw |-> rw[i].size_atoms], {i \in DOMAIN rw : rw[i].price = price})

LEMMA BookNumbers == LevelPrices \subseteq 1..99 /\ LevelSizes \subseteq Nat /\ LEVELS \in Nat \ {0}
BY BookAssumption DEF BookAssumption

LEMMA SizeOfType ==
  ASSUME NEW rw \in Seq(BookLevel), NEW price
  PROVE  SizeOf(rw, price) \in Nat
<1> DEFINE w == [i \in DOMAIN rw |-> rw[i].size_atoms]
           S == {i \in DOMAIN rw : rw[i].price = price}
<1>1. IsFiniteSet(S)
  <2>1. Len(rw) \in Nat /\ S \subseteq 1..Len(rw)
    OBVIOUS
  <2>2. IsFiniteSet(1..Len(rw))
    BY <2>1, FS_Interval
  <2> HIDE DEF S
  <2>3. QED
    BY <2>1, <2>2, FS_Subset
<1>2. \A i \in S : w[i] \in Nat
  <2>1. \A i \in DOMAIN rw : rw[i] \in BookLevel
    OBVIOUS
  <2>2. QED
    BY <2>1, BookNumbers DEF BookLevel
<1> HIDE DEF w, S
<1>3. IntOn(w, S) /\ \A i \in S : w[i] >= 0
  BY <1>2 DEF IntOn
<1>4. SumFunctionOnSet(w, S) \in Nat
  BY <1>1, <1>3, SumType
<1>5. QED
  BY <1>4 DEF SizeOf, w, S

LEMMA SizeOfNothing == ASSUME NEW price PROVE SizeOf(<<>>, price) = 0
<1>1. {i \in DOMAIN <<>> : <<>>[i].price = price} = {}
  OBVIOUS
<1>2. QED
  BY <1>1, SumOfNone DEF SizeOf

(* A level read adds its size to its price and leaves the others alone.    *)
LEMMA SizeOfAppend ==
  ASSUME NEW rw \in Seq(BookLevel), NEW level \in BookLevel, NEW price
  PROVE  SizeOf(Append(rw, level), price)
         = SizeOf(rw, price) + (IF level.price = price THEN level.size_atoms ELSE 0)
<1> DEFINE more == Append(rw, level)
           n == Len(rw)
           w == [i \in DOMAIN rw |-> rw[i].size_atoms]
           v == [i \in DOMAIN more |-> more[i].size_atoms]
           S == {i \in DOMAIN rw : rw[i].price = price}
           T == {i \in DOMAIN more : more[i].price = price}
<1>1. /\ n \in Nat /\ DOMAIN rw = 1..n /\ DOMAIN more = 1..(n + 1)
      /\ more[n + 1] = level /\ \A i \in 1..n : more[i] = rw[i]
  BY AppendProperties
<1>2. IsFiniteSet(S)
  <2>1. IsFiniteSet(1..n) /\ S \subseteq 1..n
    BY <1>1, FS_Interval
  <2> HIDE DEF S, n
  <2>2. QED
    BY <2>1, FS_Subset
<1>3. IntOn(w, S) /\ level.size_atoms \in Int
  <2>1. \A i \in S : w[i] \in LevelSizes
    <3>1. \A i \in DOMAIN rw : rw[i] \in BookLevel
      OBVIOUS
    <3>2. QED
      BY <3>1 DEF BookLevel
  <2> HIDE DEF w, S, more, n
  <2>2. level.size_atoms \in LevelSizes
    BY DEF BookLevel
  <2>3. LevelSizes \subseteq Int
    BY BookNumbers
  <2>4. QED
    BY <2>1, <2>2, <2>3 DEF IntOn
<1>4. v[n + 1] = level.size_atoms /\ (\A i \in S : v[i] = w[i]) /\ n + 1 \notin S
  <2> HIDE DEF more
  <2>1. QED
    BY <1>1
<1>5. T = IF level.price = price THEN S \cup {n + 1} ELSE S
  <2> HIDE DEF more
  <2>1. QED
    BY <1>1
<1> HIDE DEF w, v, S, T, n, more
<1>6. SumFunctionOnSet(v, S) = SumFunctionOnSet(w, S) /\ SumFunctionOnSet(w, S) \in Int
  BY <1>2, <1>3, <1>4, SumSame, SumType
<1>7. CASE level.price = price
  <2>1. IntOn(v, S \cup {n + 1})
    BY <1>3, <1>4 DEF IntOn
  <2>2. SumFunctionOnSet(v, S \cup {n + 1}) = v[n + 1] + SumFunctionOnSet(v, S)
    BY <1>2, <1>4, <2>1, SumOneMore
  <2>3. SumFunctionOnSet(v, T) = SumFunctionOnSet(w, S) + level.size_atoms
    BY <1>3, <1>4, <1>5, <1>6, <1>7, <2>2
  <2>4. QED
    BY <1>7, <2>3 DEF SizeOf, v, T, w, S, more
<1>8. CASE level.price # price
  <2>1. SumFunctionOnSet(v, T) = SumFunctionOnSet(w, S) + 0
    BY <1>5, <1>6, <1>8
  <2>2. QED
    BY <1>8, <2>1 DEF SizeOf, v, T, w, S, more
<1>9. QED
  BY <1>7, <1>8

(* The levels kept are the best of the book rw, each with all of its size: *)
(* a price that is not kept is worse than all that are, and they are as    *)
(* many as can be.                                                         *)
Ascending(ls) == \A i, j \in 1..Len(ls) : i < j => ls[i].price < ls[j].price

Ladder(ls, rw) ==
  /\ ls \in Seq(Kept) /\ Len(ls) <= LEVELS /\ Ascending(ls)
  /\ \A i \in 1..Len(ls) : ls[i].size_atoms = SizeOf(rw, ls[i].price)
  /\ \A price \in LevelPrices : SizeOf(rw, price) > 0 =>
       \/ \E i \in 1..Len(ls) : ls[i].price = price
       \/ Len(ls) = LEVELS /\ \A i \in 1..Len(ls) : ls[i].price < price

BookInv ==
  /\ raw \in Seq(BookLevel) /\ Ladder(levels, raw)
  /\ raw # <<>> => changed_ask = {}

LEMMA LadderTypes ==
  ASSUME NEW ls \in Seq(Kept)
  PROVE  /\ Len(ls) \in Nat /\ DOMAIN ls = 1..Len(ls)
         /\ \A i \in 1..Len(ls) : /\ ls[i] \in Kept /\ ls[i].price \in LevelPrices
                                  /\ ls[i].price \in Nat /\ ls[i].size_atoms \in Nat \ {0}
<1>1. Len(ls) \in Nat /\ DOMAIN ls = 1..Len(ls) /\ \A i \in 1..Len(ls) : ls[i] \in Kept
  OBVIOUS
<1>2. LevelPrices \subseteq Nat
  BY BookNumbers
<1>3. QED
  BY <1>1, <1>2 DEF Kept

LEMMA EmptyLadder == Ladder(<<>>, <<>>)
<1>1. <<>> \in Seq(Kept) /\ Len(<<>>) = 0 /\ 0 <= LEVELS
  BY BookNumbers
<1>2. QED
  BY <1>1, SizeOfNothing DEF Ladder, Ascending

-----------------------------------------------------------------------------
(* BookDepth::insert keeps a ladder.                                       *)
LEMMA MergedLadder ==
  ASSUME BookInv, NEW level \in BookLevel, level.size_atoms > 0,
         NEW k \in DOMAIN levels, levels[k].price = level.price
  PROVE  Ladder(Merged(level), Append(raw, level))
<1> DEFINE n == Len(levels)
           ls == Merged(level)
           more == Append(raw, level)
<1>1. /\ levels \in Seq(Kept) /\ n <= LEVELS /\ Ascending(levels) /\ raw \in Seq(BookLevel)
      /\ \A i \in 1..n : levels[i].size_atoms = SizeOf(raw, levels[i].price)
      /\ \A price \in LevelPrices : SizeOf(raw, price) > 0 =>
           \/ \E i \in 1..n : levels[i].price = price
           \/ n = LEVELS /\ \A i \in 1..n : levels[i].price < price
  BY DEF BookInv, Ladder
<1>2. /\ n \in Nat /\ DOMAIN levels = 1..n
      /\ \A i \in 1..n : /\ levels[i] \in Kept /\ levels[i].price \in LevelPrices
                         /\ levels[i].price \in Nat /\ levels[i].size_atoms \in Nat \ {0}
  BY <1>1, LadderTypes
<1>3. level.size_atoms \in Nat /\ level.price \in LevelPrices
  BY BookNumbers DEF BookLevel
<1> HIDE DEF n
<1>4. ASSUME NEW i \in 1..n
      PROVE  /\ ls[i] \in Kept /\ ls[i].price = levels[i].price
             /\ ls[i].size_atoms = levels[i].size_atoms
                                   + (IF levels[i].price = level.price THEN level.size_atoms ELSE 0)
  BY <1>2, <1>3 DEF Merged, Kept
<1>5. ls \in Seq(Kept) /\ Len(ls) = n
  <2>1. ls = [i \in 1..n |-> ls[i]]
    BY <1>2 DEF Merged
  <2>2. QED
    BY <1>2, <1>4, <2>1
<1>6. \A price : SizeOf(more, price)
                 = SizeOf(raw, price) + (IF level.price = price THEN level.size_atoms ELSE 0)
  BY <1>1, SizeOfAppend
<1> HIDE DEF ls, more
<1>7. Ascending(ls)
  BY <1>1, <1>4, <1>5 DEF Ascending, n
<1>8. \A i \in 1..n : ls[i].size_atoms = SizeOf(more, ls[i].price)
  BY <1>1, <1>4, <1>6
<1>9. ASSUME NEW price \in LevelPrices, SizeOf(more, price) > 0
      PROVE  \/ \E i \in 1..n : ls[i].price = price
             \/ n = LEVELS /\ \A i \in 1..n : ls[i].price < price
  <2>1. CASE level.price = price
    BY <1>2, <1>4, <2>1
  <2>2. CASE level.price # price
    <3>1. SizeOf(raw, price) \in Nat
      BY <1>1, SizeOfType
    <3>2. SizeOf(raw, price) > 0
      BY <1>6, <1>9, <2>2, <3>1
    <3>3. QED
      BY <1>1, <1>4, <3>2
  <2>3. QED
    BY <2>1, <2>2
<1>10. QED
  BY <1>1, <1>5, <1>7, <1>8, <1>9 DEF Ladder, ls, more

(* The levels no dearer than a price are the first of the ladder.          *)
LEMMA CheaperAreFirst ==
  ASSUME NEW ls \in Seq(Kept), Ascending(ls), NEW price \in LevelPrices
  PROVE  \E a \in 0..Len(ls) : {i \in DOMAIN ls : ls[i].price <= price} = 1..a
<1> DEFINE n == Len(ls)
           Dearer == {i \in 1..n : ls[i].price > price}
<1>1. /\ n \in Nat /\ DOMAIN ls = 1..n /\ price \in Nat
      /\ \A i \in 1..n : ls[i].price \in Nat
  BY LadderTypes, BookNumbers
<1>2. CASE Dearer = {}
  <2>1. {i \in DOMAIN ls : ls[i].price <= price} = 1..n
    BY <1>1, <1>2
  <2>2. QED
    BY <1>1, <2>1
<1>3. CASE Dearer # {}
  <2>1. PICK d \in Dearer : \A i \in Dearer : d <= i
    <3>1. Dearer \subseteq Nat
      OBVIOUS
    <3> HIDE DEF Dearer
    <3>2. QED
      BY <1>3, <3>1, LeastNat
  <2>2. d \in 1..n /\ ls[d].price > price
    OBVIOUS
  <2>3. ASSUME NEW i \in 1..n, i >= d PROVE ls[i].price > price
    <3>1. CASE i = d
      BY <2>2, <3>1
    <3>2. CASE i # d
      <4>1. ls[d].price < ls[i].price
        BY <2>2, <2>3, <3>2 DEF Ascending
      <4>2. QED
        BY <1>1, <2>2, <4>1
    <3>3. QED
      BY <3>1, <3>2
  <2>4. ASSUME NEW i \in 1..n, i < d PROVE ls[i].price <= price
    BY <1>1, <2>1, <2>4
  <2> HIDE DEF Dearer, n
  <2>5. {i \in DOMAIN ls : ls[i].price <= price} = 1..(d - 1)
    BY <1>1, <2>2, <2>3, <2>4
  <2>6. d - 1 \in 0..n
    BY <1>1, <2>2
  <2>7. QED
    BY <2>5, <2>6 DEF n
<1>4. QED
  BY <1>2, <1>3

LEMMA InsertAtFacts ==
  ASSUME NEW S, NEW s \in Seq(S), NEW e \in S, NEW a \in 0..Len(s)
  PROVE  /\ InsertAt(s, a + 1, e) \in Seq(S)
         /\ Len(InsertAt(s, a + 1, e)) = Len(s) + 1
         /\ \A i \in 1..(Len(s) + 1) :
              InsertAt(s, a + 1, e)[i] = IF i <= a THEN s[i] ELSE IF i = a + 1 THEN e ELSE s[i - 1]
<1> DEFINE n == Len(s)
           front == SubSeq(s, 1, a)
           back == SubSeq(s, a + 1, n)
<1>1. n \in Nat /\ a \in Nat /\ a <= n /\ \A i \in 1..n : s[i] \in S
  OBVIOUS
<1>2. front \in Seq(S) /\ Len(front) = a /\ \A i \in 1..a : front[i] = s[i]
  <2>1. \A i \in 1..a : s[i] \in S
    BY <1>1
  <2>2. /\ front \in Seq(S) /\ Len(front) = IF 1 <= a THEN a - 1 + 1 ELSE 0
        /\ \A i \in 1..(a - 1 + 1) : front[i] = s[1 + i - 1]
    BY <1>1, <2>1, SubSeqProperties
  <2> HIDE DEF front
  <2>3. QED
    BY <1>1, <2>2
<1>3. back \in Seq(S) /\ Len(back) = n - a /\ \A i \in 1..(n - a) : back[i] = s[a + i]
  <2>1. \A i \in (a + 1)..n : s[i] \in S
    BY <1>1
  <2>2. a + 1 \in Int /\ n \in Int
    BY <1>1
  <2>3. /\ back \in Seq(S) /\ Len(back) = IF a + 1 <= n THEN n - (a + 1) + 1 ELSE 0
        /\ \A i \in 1..(n - (a + 1) + 1) : back[i] = s[(a + 1) + i - 1]
    <3> HIDE DEF n
    <3>1. QED
      BY <2>1, <2>2, SubSeqProperties
  <2> HIDE DEF back, n
  <2>4. n - (a + 1) + 1 = n - a /\ \A i \in 1..(n - a) : (a + 1) + i - 1 = a + i
    BY <1>1
  <2>5. Len(back) = n - a
    BY <1>1, <2>3
  <2>6. QED
    BY <2>3, <2>4, <2>5
<1>4. <<e>> \in Seq(S) /\ Len(<<e>>) = 1 /\ <<e>>[1] = e
  OBVIOUS
<1> HIDE DEF front, back, n
<1>5. /\ front \o <<e>> \in Seq(S) /\ Len(front \o <<e>>) = a + 1
      /\ \A i \in 1..(a + 1) : (front \o <<e>>)[i] = IF i <= a THEN s[i] ELSE e
  <2>1. /\ front \o <<e>> \in Seq(S) /\ Len(front \o <<e>>) = Len(front) + Len(<<e>>)
        /\ \A i \in 1..(Len(front) + Len(<<e>>)) :
             (front \o <<e>>)[i] = IF i <= Len(front) THEN front[i] ELSE <<e>>[i - Len(front)]
    BY <1>2, <1>4, ConcatProperties
  <2>2. QED
    BY <1>1, <1>2, <1>4, <2>1
<1> DEFINE head == front \o <<e>>
           all == head \o back
<1>6. /\ all \in Seq(S) /\ Len(all) = n + 1
      /\ \A i \in 1..(n + 1) : all[i] = IF i <= a + 1 THEN head[i] ELSE back[i - (a + 1)]
  <2> HIDE DEF head
  <2>1. head \in Seq(S) /\ Len(head) = a + 1
    BY <1>5 DEF head
  <2>2. /\ all \in Seq(S) /\ Len(all) = Len(head) + Len(back)
        /\ \A i \in 1..(Len(head) + Len(back)) :
             all[i] = IF i <= Len(head) THEN head[i] ELSE back[i - Len(head)]
    BY <1>3, <2>1, ConcatProperties
  <2> HIDE DEF all
  <2>3. Len(head) + Len(back) = n + 1
    BY <1>1, <1>3, <2>1
  <2>4. QED
    BY <2>1, <2>2, <2>3
<1>7. \A i \in 1..(n + 1) : all[i] = IF i <= a THEN s[i] ELSE IF i = a + 1 THEN e ELSE s[i - 1]
  <2> TAKE i \in 1..(n + 1)
  <2> HIDE DEF all, head
  <2>0. all[i] = IF i <= a + 1 THEN head[i] ELSE back[i - (a + 1)]
    BY <1>6
  <2>1. CASE i <= a + 1
    <3>1. i \in 1..(a + 1)
      BY <1>1, <2>1
    <3>2. head[i] = IF i <= a THEN s[i] ELSE e
      BY <1>5, <3>1 DEF head
    <3>3. QED
      BY <1>1, <2>0, <2>1, <3>2
  <2>2. CASE i > a + 1
    <3>1. i - (a + 1) \in 1..(n - a) /\ a + (i - (a + 1)) = i - 1
      BY <1>1, <2>2
    <3>2. all[i] = back[i - (a + 1)]
      BY <1>1, <2>0, <2>2
    <3>3. back[i - (a + 1)] = s[a + (i - (a + 1))]
      BY <1>3, <3>1
    <3>4. QED
      BY <1>1, <2>2, <3>1, <3>2, <3>3
  <2>3. QED
    BY <1>1, <2>1, <2>2
<1>8. InsertAt(s, a + 1, e) = all
  <2>1. (a + 1) - 1 = a
    BY <1>1
  <2>2. InsertAt(s, a + 1, e) = SubSeq(s, 1, (a + 1) - 1) \o <<e>> \o SubSeq(s, a + 1, Len(s))
    BY DEF InsertAt
  <2>3. QED
    BY <2>1, <2>2 DEF all, head, front, back, n
<1> HIDE DEF all, head
<1>9. QED
  BY <1>6, <1>7, <1>8 DEF n

LEMMA InsertedLadder ==
  ASSUME BookInv, NEW level \in BookLevel, level.size_atoms > 0,
         \A i \in DOMAIN levels : levels[i].price # level.price
  PROVE  Ladder(Inserted(level), Append(raw, level))
<1> DEFINE n == Len(levels)
           m == IF n + 1 > LEVELS THEN LEVELS ELSE n + 1
           ls == Inserted(level)
           more == Append(raw, level)
<1>1. /\ levels \in Seq(Kept) /\ n <= LEVELS /\ Ascending(levels) /\ raw \in Seq(BookLevel)
      /\ \A i \in 1..n : levels[i].size_atoms = SizeOf(raw, levels[i].price)
      /\ \A price \in LevelPrices : SizeOf(raw, price) > 0 =>
           \/ \E i \in 1..n : levels[i].price = price
           \/ n = LEVELS /\ \A i \in 1..n : levels[i].price < price
  BY DEF BookInv, Ladder
<1>2. /\ n \in Nat /\ DOMAIN levels = 1..n
      /\ \A i \in 1..n : /\ levels[i] \in Kept /\ levels[i].price \in LevelPrices
                         /\ levels[i].price \in Nat /\ levels[i].size_atoms \in Nat \ {0}
  BY <1>1, LadderTypes
<1>3. /\ level.size_atoms \in Nat \ {0} /\ level.price \in LevelPrices /\ level.price \in Nat
      /\ level \in Kept /\ LEVELS \in Nat \ {0} /\ LevelPrices \subseteq Nat
  <2>1. LEVELS \in Nat \ {0} /\ LevelPrices \subseteq Nat /\ LevelSizes \subseteq Nat
    BY BookNumbers
  <2>2. level.size_atoms \in LevelSizes /\ level.price \in LevelPrices
    BY DEF BookLevel
  <2>3. level.size_atoms \in Nat \ {0}
    <3> HIDE DEF n, m, ls, more
    <3>1. level.size_atoms \in Nat
      BY <2>1, <2>2
    <3>2. QED
      BY <3>1
  <2>4. level \in Kept
    BY <2>2, <2>3 DEF BookLevel, Kept
  <2>5. QED
    BY <2>1, <2>2, <2>3, <2>4
<1>4. PICK a \in 0..n : {i \in DOMAIN levels : levels[i].price <= level.price} = 1..a
  BY <1>1, <1>3, CheaperAreFirst
<1>5. a \in Nat /\ a <= n /\ Cardinality(1..a) = a
  <2>1. a \in Nat /\ a <= n
    BY <1>2, <1>4
  <2>2. Cardinality(1..a) = IF 1 > a THEN 0 ELSE a - 1 + 1
    BY <2>1, FS_Interval
  <2>3. QED
    BY <2>1, <2>2
<1>6. /\ \A i \in 1..n : i <= a => levels[i].price < level.price
      /\ \A i \in 1..n : i > a => levels[i].price > level.price
  <2>1. \A i \in 1..n : levels[i].price <= level.price <=> i <= a
    <3> HIDE DEF n
    <3>1. \A i \in 1..n : i \in 1..a <=> i <= a
      BY <1>5
    <3>2. QED
      BY <1>2, <1>4, <3>1
  <2> HIDE DEF n
  <2>2. \A i \in 1..n : levels[i].price # level.price
    BY <1>2
  <2>3. QED
    BY <1>2, <1>3, <1>5, <2>1, <2>2
<1> DEFINE all == InsertAt(levels, a + 1, level)
<1>7. /\ all \in Seq(Kept) /\ Len(all) = n + 1
      /\ \A i \in 1..(n + 1) :
           all[i] = IF i <= a THEN levels[i] ELSE IF i = a + 1 THEN level ELSE levels[i - 1]
  BY <1>1, <1>3, <1>4, InsertAtFacts
<1>8. ls = SubSeq(all, 1, m)
  BY <1>4, <1>5, <1>7 DEF Inserted
<1> HIDE DEF all, n, ls, more
<1>9. m \in 1..(n + 1) /\ m <= LEVELS /\ (m < n + 1 => m = LEVELS /\ n = LEVELS)
  <2>1. n \in Nat /\ LEVELS \in Nat \ {0} /\ n <= LEVELS
    BY <1>1, <1>2, <1>3
  <2>2. QED
    BY <2>1
<1> HIDE DEF m
<1>10. /\ ls \in Seq(Kept) /\ Len(ls) = m /\ m \in Nat
       /\ \A i \in 1..m :
            ls[i] = IF i <= a THEN levels[i] ELSE IF i = a + 1 THEN level ELSE levels[i - 1]
  <2>1. m \in Nat /\ m <= n + 1
    BY <1>2, <1>9
  <2>2. \A i \in 1..m : all[i] \in Kept /\ i \in 1..(n + 1)
    <3>1. \A i \in 1..m : i \in 1..(n + 1)
      BY <1>2, <2>1
    <3>2. QED
      BY <1>7, <3>1
  <2>3. /\ SubSeq(all, 1, m) \in Seq(Kept)
        /\ Len(SubSeq(all, 1, m)) = IF 1 <= m THEN m - 1 + 1 ELSE 0
        /\ \A i \in 1..(m - 1 + 1) : SubSeq(all, 1, m)[i] = all[1 + i - 1]
    BY <2>1, <2>2, SubSeqProperties
  <2>4. Len(ls) = m /\ \A i \in 1..m : ls[i] = all[i]
    BY <1>8, <2>1, <2>3
  <2>5. QED
    BY <1>7, <1>8, <2>1, <2>2, <2>3, <2>4
<1>11. \A price : SizeOf(more, price)
                 = SizeOf(raw, price) + (IF level.price = price THEN level.size_atoms ELSE 0)
  BY <1>1, SizeOfAppend DEF more
<1>12. \A price : SizeOf(raw, price) \in Nat
  BY <1>1, SizeOfType
<1>13. \A i \in 1..m : /\ i <= a => i \in 1..n /\ ls[i] = levels[i]
                       /\ i > a + 1 => i - 1 \in 1..n /\ i - 1 > a /\ ls[i] = levels[i - 1]
                       /\ i = a + 1 => ls[i] = level
  BY <1>2, <1>5, <1>9, <1>10
<1>14. Ascending(ls)
  <2>1. ASSUME NEW i \in 1..m, NEW j \in 1..m, i < j PROVE ls[i].price < ls[j].price
    <3>1. CASE j <= a
      BY <1>1, <1>5, <1>13, <2>1, <3>1 DEF Ascending, n
    <3>2. CASE i <= a /\ j = a + 1
      BY <1>6, <1>13, <2>1, <3>2
    <3>3. CASE i <= a /\ j > a + 1
      BY <1>2, <1>3, <1>6, <1>13, <2>1, <3>3
    <3>4. CASE i = a + 1
      BY <1>5, <1>6, <1>13, <2>1, <3>4
    <3>5. CASE i > a + 1
      <4>1. /\ i - 1 \in 1..n /\ j - 1 \in 1..n /\ i - 1 < j - 1
            /\ ls[i] = levels[i - 1] /\ ls[j] = levels[j - 1]
        BY <1>5, <1>13, <2>1, <3>5
      <4>2. QED
        BY <1>1, <4>1 DEF Ascending, n
    <3>6. QED
      BY <1>5, <2>1, <3>1, <3>2, <3>3, <3>4, <3>5
  <2>2. QED
    BY <1>10, <2>1 DEF Ascending
<1>15. ASSUME NEW i \in 1..m PROVE ls[i].size_atoms = SizeOf(more, ls[i].price)
  <2>1. CASE i = a + 1
    <3>1. ~(SizeOf(raw, level.price) > 0)
      <4>1. SUFFICES ASSUME SizeOf(raw, level.price) > 0 PROVE FALSE
        OBVIOUS
      <4>2. n = LEVELS /\ \A j \in 1..n : levels[j].price < level.price
        BY <1>1, <1>2, <1>3, <4>1
      <4>3. n \in 1..n
        BY <1>2, <1>3, <4>2
      <4>4. ~(n > a)
        BY <1>2, <1>3, <1>6, <4>2, <4>3
      <4>5. QED
        BY <1>2, <1>5, <1>9, <2>1, <4>2, <4>4
    <3>2. SizeOf(raw, level.price) = 0
      BY <1>12, <3>1
    <3>3. QED
      BY <1>3, <1>11, <1>13, <2>1, <3>2
  <2>2. CASE i # a + 1
    <3>1. PICK j \in 1..n : ls[i] = levels[j]
      BY <1>5, <1>13, <2>2
    <3>2. levels[j].price # level.price
      BY <1>2
    <3>3. QED
      BY <1>1, <1>11, <1>12, <3>1, <3>2
  <2>3. QED
    BY <2>1, <2>2
<1>16. ASSUME NEW price \in LevelPrices, SizeOf(more, price) > 0,
              \A i \in 1..m : ls[i].price # price
       PROVE  m = LEVELS /\ \A i \in 1..m : ls[i].price < price
  <2>1. price \in Nat
    BY <1>3
  <2>2. CASE level.price = price
    <3>1. ~(a + 1 <= m)
      <4>1. SUFFICES ASSUME a + 1 <= m PROVE FALSE
        OBVIOUS
      <4>2. a + 1 \in 1..m /\ ls[a + 1] = level
        BY <1>5, <1>10, <1>13, <4>1
      <4>3. QED
        BY <1>16, <2>2, <4>2
    <3>2. m < n + 1
      BY <1>2, <1>5, <1>10, <3>1
    <3>3. ASSUME NEW i \in 1..m PROVE ls[i].price < price
      <4>1. i <= a
        BY <1>5, <1>10, <3>1
      <4>2. QED
        BY <1>6, <1>13, <2>2, <4>1
    <3>4. QED
      BY <1>9, <3>2, <3>3
  <2>3. CASE level.price # price
    <3>1. SizeOf(raw, price) > 0
      BY <1>11, <1>12, <1>16, <2>3
    <3>2. CASE \E j \in 1..n : levels[j].price = price
      <4>1. PICK j \in 1..n : levels[j].price = price
        BY <3>2
      <4>2. j > a
        <5>1. SUFFICES ASSUME j <= a PROVE FALSE
          BY <1>5
        <5>2. j <= m
          BY <1>2, <1>5, <1>9, <1>10, <5>1
        <5>3. j \in 1..m /\ ls[j] = levels[j]
          BY <1>10, <1>13, <5>1, <5>2
        <5>4. QED
          BY <1>16, <4>1, <5>3
      <4>3. ~(j + 1 <= m)
        <5>1. SUFFICES ASSUME j + 1 <= m PROVE FALSE
          OBVIOUS
        <5>2. j + 1 \in 1..m /\ j + 1 > a + 1 /\ (j + 1) - 1 = j
          BY <1>5, <1>10, <4>2, <5>1
        <5>3. ls[j + 1] = levels[j]
          BY <1>13, <5>2
        <5>4. QED
          BY <1>16, <4>1, <5>2, <5>3
      <4>4. m < n + 1 /\ m = n /\ j = n /\ m = LEVELS
        BY <1>2, <1>9, <1>10, <4>1, <4>3
      <4>5. ASSUME NEW i \in 1..m PROVE ls[i].price < price
        <5>1. CASE i <= a
          <6>1. i < j /\ i \in 1..n /\ ls[i] = levels[i]
            BY <1>5, <1>13, <4>2, <5>1
          <6>2. QED
            BY <1>1, <4>1, <6>1 DEF Ascending, n
        <5>2. CASE i = a + 1
          BY <1>6, <1>13, <4>1, <4>2, <5>2
        <5>3. CASE i > a + 1
          <6>1. i - 1 < j /\ i - 1 \in 1..n /\ ls[i] = levels[i - 1]
            BY <1>5, <1>10, <1>13, <4>4, <5>3
          <6>2. QED
            BY <1>1, <4>1, <6>1 DEF Ascending, n
        <5>4. QED
          BY <1>5, <5>1, <5>2, <5>3
      <4>6. QED
        BY <4>4, <4>5
    <3>3. CASE ~\E j \in 1..n : levels[j].price = price
      <4>1. n = LEVELS /\ \A j \in 1..n : levels[j].price < price
        BY <1>1, <3>1, <3>3
      <4>2. m = n
        BY <1>2, <1>3, <4>1 DEF m
      <4>3. ASSUME NEW i \in 1..m PROVE ls[i].price < price
        <5>1. CASE i = a + 1
          <6>1. n \in 1..n /\ n > a
            BY <1>2, <1>3, <1>5, <4>1, <4>2, <5>1
          <6>2. levels[n].price > level.price /\ levels[n].price < price
            BY <1>6, <4>1, <6>1
          <6>3. QED
            BY <1>2, <1>3, <1>13, <2>1, <5>1, <6>1, <6>2
        <5>2. CASE i # a + 1
          <6>1. \E j \in 1..n : ls[i] = levels[j]
            BY <1>5, <1>13, <5>2
          <6>2. QED
            BY <4>1, <6>1
        <5>3. QED
          BY <5>1, <5>2
      <4>4. QED
        BY <4>1, <4>2, <4>3
    <3>4. QED
      BY <3>2, <3>3
  <2>4. QED
    BY <2>2, <2>3
<1>17. QED
  BY <1>9, <1>10, <1>14, <1>15, <1>16 DEF Ladder, ls, more

(* A level read, a decision and a price change keep the book.              *)
LEMMA BookStart == Init => BookInv
BY EmptyLadder DEF Init, BookInv

LEMMA BookStep == BookInv /\ [Next]_vars => BookInv'
<1> SUFFICES ASSUME BookInv, [Next]_vars PROVE BookInv'
  OBVIOUS
<1>1. ASSUME UNCHANGED bookVars PROVE BookInv'
  BY <1>1 DEF BookInv, bookVars
<1>2. ASSUME NEW level \in BookLevel, ReadLevel(level) PROVE BookInv'
  <2>1. raw \in Seq(BookLevel) /\ raw' = Append(raw, level) /\ changed_ask' = {}
    BY <1>2 DEF BookInv, ReadLevel
  <2>2. raw' \in Seq(BookLevel)
    BY <2>1, AppendProperties
  <2>3. level.size_atoms \in Nat
    BY BookNumbers DEF BookLevel
  <2>4. CASE level.size_atoms > 0
    <3>1. levels' = insert(level)
      BY <1>2, <2>4 DEF ReadLevel
    <3>2. CASE \E i \in DOMAIN levels : levels[i].price = level.price
      <4>1. levels' = Merged(level)
        BY <3>1, <3>2 DEF insert
      <4>2. Ladder(Merged(level), Append(raw, level))
        BY <2>4, <3>2, MergedLadder
      <4>3. QED
        BY <2>1, <2>2, <4>1, <4>2 DEF BookInv
    <3>3. CASE ~\E i \in DOMAIN levels : levels[i].price = level.price
      <4>1. levels' = Inserted(level)
        BY <3>1, <3>3 DEF insert
      <4>2. Ladder(Inserted(level), Append(raw, level))
        BY <2>4, <3>3, InsertedLadder
      <4>3. QED
        BY <2>1, <2>2, <4>1, <4>2 DEF BookInv
    <3>4. QED
      BY <3>2, <3>3
  <2>5. CASE ~(level.size_atoms > 0)
    <3>1. levels' = levels /\ level.size_atoms = 0
      BY <1>2, <2>3, <2>5 DEF ReadLevel
    <3>2. \A price : SizeOf(Append(raw, level), price) = SizeOf(raw, price)
      <4>1. \A price : SizeOf(raw, price) \in Nat
        BY <2>1, SizeOfType
      <4>2. QED
        BY <2>1, <3>1, <4>1, SizeOfAppend
    <3>3. Ladder(levels, Append(raw, level))
      BY <3>2 DEF BookInv, Ladder
    <3>4. QED
      BY <2>1, <2>2, <3>1, <3>3 DEF BookInv
  <2>6. QED
    BY <2>4, <2>5
<1>3. ASSUME NEW ask \in ChangedAsks, PriceChange(ask) PROVE BookInv'
  BY <1>3 DEF PriceChange, BookInv
<1>4. ASSUME NEW c \in config, Decide(c) PROVE BookInv'
  BY <1>4, EmptyLadder DEF Decide, BookInv
<1>5. ASSUME NEW c \in config, NEW limit \in intent, PrepareBuy(c, limit) PROVE BookInv'
  BY <1>1, <1>5 DEF PrepareBuy
<1>6. ASSUME NEW c \in config, NEW bid \in Bids, NEW atoms \in Holdings, PrepareSell(c, bid, atoms)
      PROVE  BookInv'
  BY <1>1, <1>6 DEF PrepareSell
<1>7. ASSUME NEW l \in Launches, Launch(l) PROVE BookInv'
  BY <1>1, <1>7 DEF Launch
<1>8. CASE UNCHANGED vars
  BY <1>1, <1>8 DEF vars
<1>9. QED
  BY <1>2, <1>3, <1>4, <1>5, <1>6, <1>7, <1>8 DEF Next

LEMMA BookAlways == Spec => []BookInv
<1>1. QED
  BY BookStart, BookStep, PTL DEF Spec

-----------------------------------------------------------------------------
(* What a ladder holds up to a level of it is what the book offers there.  *)
UpToPrice(price) == {q \in Quoted : q <= price}

(* The ladder of n levels, in the words of the property.                   *)
LadderOf(n) ==
  /\ n = Len(levels) /\ DOMAIN levels = 1..n /\ n <= LEVELS /\ LEVELS \in Nat \ {0}
  /\ \A i \in 1..n : /\ levels[i].price \in Quoted /\ levels[i].price \in Nat
                     /\ levels[i].size_atoms \in Nat
                     /\ levels[i].size_atoms = SizeAt(levels[i].price)
  /\ \A i, j \in 1..n : i < j => levels[i].price < levels[j].price
  /\ Quoted \subseteq 1..99
  /\ \A q \in Quoted : \/ \E i \in 1..n : levels[i].price = q
                       \/ n = LEVELS /\ \A i \in 1..n : levels[i].price < q

LEMMA LadderFacts ==
  ASSUME BookInv
  PROVE  \E n \in Nat : LadderOf(n)
<1> DEFINE n == Len(levels)
<1>1. levels \in Seq(Kept) /\ n <= LEVELS
  BY DEF BookInv, Ladder
<1>2. /\ n \in Nat /\ DOMAIN levels = 1..n
      /\ \A i \in 1..n : /\ levels[i].price \in LevelPrices
                         /\ levels[i].price \in Nat /\ levels[i].size_atoms \in Nat \ {0}
  BY <1>1, LadderTypes
<1>3. \A price : SizeAt(price) = SizeOf(raw, price)
  BY DEF SizeAt, SizeOf
<1>4. \A i \in 1..n : levels[i].size_atoms = SizeAt(levels[i].price)
  BY <1>3 DEF BookInv, Ladder
<1>5. \A i \in 1..n : levels[i].price \in Quoted
  BY <1>2, <1>4 DEF Quoted
<1>6. \A i, j \in 1..n : i < j => levels[i].price < levels[j].price
  BY DEF BookInv, Ladder, Ascending
<1>7. Quoted \subseteq 1..99 /\ LEVELS \in Nat \ {0}
  BY BookNumbers DEF Quoted
<1>8. \A q \in Quoted : \/ \E i \in 1..n : levels[i].price = q
                        \/ n = LEVELS /\ \A i \in 1..n : levels[i].price < q
  BY <1>3 DEF BookInv, Ladder, Quoted
<1>9. n = Len(levels)
  OBVIOUS
<1> HIDE DEF n
<1>10. \A i \in 1..n : levels[i].size_atoms \in Nat
  BY <1>2
<1>11. QED
  BY <1>1, <1>2, <1>4, <1>5, <1>6, <1>7, <1>8, <1>9, <1>10 DEF LadderOf

LEMMA FirstLevels ==
  ASSUME BookInv, NEW i \in DOMAIN levels
  PROVE  /\ KeptNotional(i) = BookNotional(levels[i].price)
         /\ IsFiniteSet(UpToPrice(levels[i].price))
         /\ Cardinality(UpToPrice(levels[i].price)) = i
<1>1. PICK n \in Nat : LadderOf(n)
  BY LadderFacts
<1> USE DEF LadderOf
<1> DEFINE P == UpToPrice(levels[i].price)
           f == [k \in 1..i |-> levels[k].price]
           w == [k \in DOMAIN levels |-> levels[k].price * levels[k].size_atoms]
           v == [q \in Quoted |-> q * SizeAt(q)]
<1>2. i \in 1..n /\ i \in Nat /\ 1..i \subseteq 1..n
  BY <1>1
<1>3. \A k \in 1..n : levels[k].price <= levels[i].price <=> k <= i
  <2> TAKE k \in 1..n
  <2>1. /\ k < i => levels[k].price < levels[i].price
        /\ i < k => levels[i].price < levels[k].price
    BY <1>1, <1>2
  <2>2. levels[k].price \in Nat /\ levels[i].price \in Nat
    BY <1>1, <1>2
  <2>3. QED
    BY <1>2, <2>1, <2>2
<1>4. f \in [1..i -> P]
  <2>1. \A k \in 1..i : levels[k].price \in P
    <3> TAKE k \in 1..i
    <3>1. k \in 1..n /\ k <= i
      BY <1>2
    <3>2. levels[k].price \in Quoted /\ levels[k].price <= levels[i].price
      BY <1>1, <1>3, <3>1
    <3>3. QED
      BY <3>2 DEF UpToPrice
  <2> HIDE DEF P
  <2>2. QED
    BY <2>1
<1>5. \A k \in 1..i, j \in 1..i : f[k] = f[j] => k = j
  <2> TAKE k \in 1..i, j \in 1..i
  <2>1. k \in 1..n /\ j \in 1..n /\ f[k] = levels[k].price /\ f[j] = levels[j].price
    BY <1>2
  <2>2. /\ k < j => levels[k].price < levels[j].price
        /\ j < k => levels[j].price < levels[k].price
        /\ levels[k].price \in Nat
    BY <1>1, <2>1
  <2> HIDE DEF f
  <2>3. QED
    BY <1>2, <2>1, <2>2
<1>6. \A q \in P : \E k \in 1..i : f[k] = q
  <2> TAKE q \in P
  <2>1. q \in Quoted /\ q <= levels[i].price /\ q \in Nat /\ levels[i].price \in Nat
    BY <1>1, <1>2 DEF UpToPrice
  <2>2. PICK k \in 1..n : levels[k].price = q
    BY <1>1, <1>2, <2>1
  <2>3. k \in 1..i
    BY <1>2, <1>3, <2>1, <2>2
  <2>4. QED
    BY <2>2, <2>3
<1>7. f \in Bijection(1..i, P)
  <2> HIDE DEF f, P
  <2>1. QED
    BY <1>4, <1>5, <1>6 DEF Bijection, Injection, Surjection, IsInjective
<1>8. IsFiniteSet(1..i) /\ Cardinality(1..i) = i
  <2>1. 1 \in Int /\ i \in Int /\ 1 <= i
    BY <1>2
  <2>2. IsFiniteSet(1..i) /\ Cardinality(1..i) = IF 1 > i THEN 0 ELSE i - 1 + 1
    BY <2>1, FS_Interval
  <2>3. QED
    BY <2>1, <2>2
<1>9. IntOn(w, 1..i) /\ \A k \in 1..i : v[f[k]] = w[k]
  <2>1. ASSUME NEW k \in 1..i PROVE w[k] \in Int /\ v[f[k]] = w[k]
    <3>1. k \in 1..n
      BY <1>2
    <3>2. /\ levels[k].price \in Quoted /\ levels[k].price \in Nat
          /\ levels[k].size_atoms \in Nat /\ levels[k].size_atoms = SizeAt(levels[k].price)
      BY <1>1, <3>1
    <3>3. w[k] = levels[k].price * levels[k].size_atoms
      BY <1>1, <3>1
    <3>4. v[f[k]] = levels[k].price * SizeAt(levels[k].price)
      BY <3>2
    <3>5. QED
      BY <3>2, <3>3, <3>4
  <2>2. QED
    BY <2>1 DEF IntOn
<1> HIDE DEF P, f, w, v
<1>10. SumFunctionOnSet(v, P) = SumFunctionOnSet(w, 1..i)
  <2> DEFINE D == 1..i
  <2>1. IsFiniteSet(D) /\ IntOn(w, D) /\ (\A k \in D : v[f[k]] = w[k]) /\ f \in Bijection(D, P)
    BY <1>7, <1>8, <1>9
  <2> HIDE DEF D
  <2>2. SumFunctionOnSet(v, P) = SumFunctionOnSet(w, D)
    BY <2>1, SumMoved
  <2>3. QED
    BY <2>2 DEF D
<1>11. IsFiniteSet(P) /\ Cardinality(P) = i
  BY <1>7, <1>8, FS_Bijection DEF ExistsBijection
<1>12. QED
  BY <1>10, <1>11 DEF KeptNotional, BookNotional, P, UpToPrice, w, v

(* A price that is not kept is past more prices than are kept.             *)
LEMMA NotKeptIsFar ==
  ASSUME BookInv, NEW price \in Quoted, \A i \in DOMAIN levels : levels[i].price # price
  PROVE  /\ \A i \in DOMAIN levels : levels[i].price < price
         /\ levels # <<>>
         /\ ~(Cardinality(UpToPrice(price)) <= LEVELS)
<1>1. PICK n \in Nat : LadderOf(n)
  BY LadderFacts
<1> USE DEF LadderOf
<1>2. n = LEVELS /\ \A k \in 1..n : levels[k].price < price
  BY <1>1
<1>3. n \in DOMAIN levels /\ levels[n].price < price /\ levels[n].price \in Nat /\ price \in Nat
  BY <1>1, <1>2
<1> DEFINE near == UpToPrice(levels[n].price)
           all == UpToPrice(price)
<1>4. IsFiniteSet(near) /\ Cardinality(near) = n
  BY <1>3, FirstLevels
<1>5. price \notin near /\ near \cup {price} \subseteq all
  <2>1. Quoted \subseteq Nat
    BY <1>1
  <2>2. /\ \A q : q \in near <=> q \in Quoted /\ q <= levels[n].price
        /\ \A q : q \in all <=> q \in Quoted /\ q <= price
    BY DEF UpToPrice
  <2> HIDE DEF near, all
  <2>3. ASSUME NEW q \in near PROVE q \in Quoted /\ q \in Nat /\ q < price
    <3>1. q \in Quoted /\ q <= levels[n].price
      BY <2>2
    <3>2. q \in Nat
      BY <2>1, <3>1
    <3>3. QED
      BY <1>3, <3>1, <3>2
  <2>4. price \in all /\ \A q \in near : q \in all
    BY <1>3, <2>2, <2>3
  <2>5. price \notin near
    BY <1>3, <2>3
  <2>6. QED
    BY <2>4, <2>5
<1>6. IsFiniteSet(all)
  <2>1. all \subseteq 1..99
    <3>1. all \subseteq Quoted
      BY DEF UpToPrice
    <3> HIDE DEF all
    <3>2. QED
      BY <1>1, <3>1
  <2>2. IsFiniteSet(1..99)
    <3>1. \A k \in Nat : IsFiniteSet(1..k)
      BY FS_Interval
    <3>2. QED
      BY <3>1
  <2> HIDE DEF all
  <2>3. QED
    BY <2>1, <2>2, FS_Subset
<1> HIDE DEF near, all
<1>7. IsFiniteSet(near \cup {price}) /\ Cardinality(near \cup {price}) = n + 1
  BY <1>4, <1>5, FS_AddElement
<1>8. Cardinality(near \cup {price}) <= Cardinality(all)
  BY <1>5, <1>6, FS_Subset
<1>9. Cardinality(all) \in Nat
  BY <1>6, FS_CardinalityType
<1>10. ~(Cardinality(all) <= LEVELS)
  BY <1>2, <1>7, <1>8, <1>9
<1>11. QED
  BY <1>1, <1>2, <1>3, <1>10 DEF all

(* CutoffCovers for every message, order of levels and number of levels    *)
(* kept: what BookDepth keeps and cutoff_for_buy_cents reads of it is the  *)
(* least price up to which the whole book offers the target, or the best   *)
(* ask where that takes more prices than are kept.                         *)
THEOREM CutoffAlwaysCovers == Spec => []CutoffCovers
<1>1. BookInv => CutoffCovers
  <2> SUFFICES ASSUME BookInv, NEW target, raw # <<>>
               PROVE  LET enough == {price \in Quoted : BookNotional(price) >= target * MAKER_STEP}
                          near == {price \in enough : Cardinality(UpToPrice(price)) <= LEVELS}
                          pool == IF near = {} THEN Quoted ELSE near
                      IN  buy_cutoff_for_cents(target) = {price \in pool : \A q \in pool : price <= q}
    BY DEF CutoffCovers, UpToPrice
  <2> DEFINE enough == {price \in Quoted : BookNotional(price) >= target * MAKER_STEP}
             near == {price \in enough : Cardinality(UpToPrice(price)) <= LEVELS}
             pool == IF near = {} THEN Quoted ELSE near
             R == Reaching(target)
  <2>1. PICK n \in Nat : LadderOf(n)
    BY LadderFacts
  <2> USE DEF LadderOf
  <2>2. \A k \in 1..n : /\ KeptNotional(k) = BookNotional(levels[k].price)
                        /\ Cardinality(UpToPrice(levels[k].price)) = k /\ k <= LEVELS
    BY <2>1, FirstLevels
  <2>3. R = {k \in 1..n : BookNotional(levels[k].price) >= target * MAKER_STEP}
    BY <2>1, <2>2 DEF Reaching
  <2>4. near = {levels[k].price : k \in R}
    <3>1. ASSUME NEW k \in R PROVE levels[k].price \in near
      BY <2>1, <2>2, <2>3, <3>1
    <3>2. ASSUME NEW price \in near PROVE \E k \in R : levels[k].price = price
      <4>1. PICK k \in 1..n : levels[k].price = price
        BY <2>1, NotKeptIsFar
      <4>2. k \in R
        BY <2>3, <4>1
      <4>3. QED
        BY <4>1, <4>2
    <3> HIDE DEF near, R
    <3>3. QED
      BY <3>1, <3>2
  <2>5. R \subseteq 1..n
    BY <2>3
  <2> HIDE DEF near, R, enough
  <2>6. \A k, j \in 1..n : k <= j => levels[k].price <= levels[j].price
    <3> TAKE k, j \in 1..n
    <3>1. k < j => levels[k].price < levels[j].price
      BY <2>1
    <3>2. levels[k].price \in Nat /\ levels[j].price \in Nat
      BY <2>1
    <3>3. QED
      BY <3>1, <3>2
  <2>7. CASE R = {}
    <3>1. near = {} /\ buy_cutoff_for_cents(target) = Ask
      BY <2>4, <2>7 DEF buy_cutoff_for_cents, R
    <3>2. CASE levels = <<>>
      <4>1. Quoted = {}
        <5>1. SUFFICES ASSUME NEW q \in Quoted PROVE FALSE
          OBVIOUS
        <5>2. n = 0
          BY <2>1, <3>2
        <5>3. QED
          BY <2>1, <3>2, <5>2
      <4>2. Ask = {}
        BY <3>2 DEF Ask, BookInv
      <4>3. QED
        BY <3>1, <4>1, <4>2
    <3>3. CASE levels # <<>>
      <4>1. 1 \in 1..n /\ Ask = {levels[1].price}
        BY <2>1, <3>3 DEF Ask
      <4>2. levels[1].price \in Quoted /\ levels[1].price \in Nat
        BY <2>1, <4>1
      <4>3. ASSUME NEW q \in Quoted PROVE levels[1].price <= q
        <5>1. CASE \E k \in 1..n : levels[k].price = q
          BY <2>6, <4>1, <5>1
        <5>2. CASE \A k \in 1..n : levels[k].price < q
          BY <2>1, <4>1, <4>2, <5>2
        <5>3. QED
          BY <2>1, <5>1, <5>2
      <4>4. \A price \in Quoted : (\A q \in Quoted : price <= q) => price = levels[1].price
        <5>1. SUFFICES ASSUME NEW price \in Quoted, \A q \in Quoted : price <= q
                       PROVE  price = levels[1].price
          OBVIOUS
        <5>2. price <= levels[1].price /\ levels[1].price <= price /\ price \in Nat
          BY <2>1, <4>2, <4>3, <5>1
        <5>3. QED
          BY <4>2, <5>2
      <4>5. Ask = {price \in Quoted : \A q \in Quoted : price <= q}
        BY <4>1, <4>2, <4>3, <4>4
      <4>6. QED
        BY <3>1, <4>5 DEF near, enough
    <3>4. QED
      BY <3>2, <3>3
  <2>8. CASE R # {}
    <3>1. PICK k0 \in R : \A k \in R : k0 <= k
      <4>1. R \subseteq Nat
        BY <2>5
      <4>2. QED
        BY <2>8, <4>1, LeastNat
    <3>2. k0 \in 1..n /\ levels[k0].price \in Nat /\ near # {}
      BY <2>1, <2>4, <2>5, <3>1
    <3>3. {j \in R : \A k \in R : j <= k} = {k0}
      <4>1. \A j \in R : j \in Nat
        BY <2>5
      <4>2. \A j \in R : (\A k \in R : j <= k) => j = k0
        <5>1. SUFFICES ASSUME NEW j \in R, \A k \in R : j <= k PROVE j = k0
          OBVIOUS
        <5>2. j <= k0 /\ k0 <= j
          BY <3>1, <5>1
        <5>3. QED
          BY <3>1, <4>1, <5>2
      <4>3. QED
        BY <3>1, <4>2
    <3>4. buy_cutoff_for_cents(target) = {levels[k0].price}
      <4>1. buy_cutoff_for_cents(target) = {levels[i].price : i \in {j \in R : \A k \in R : j <= k}}
        BY <2>8 DEF buy_cutoff_for_cents, R
      <4>2. QED
        BY <3>3, <4>1
    <3>5. levels[k0].price \in near /\ \A q \in near : levels[k0].price <= q
      <4>1. \A k \in R : levels[k0].price <= levels[k].price
        BY <2>5, <2>6, <3>1
      <4>2. QED
        BY <2>4, <3>1, <4>1
    <3>6. \A price \in near : (\A q \in near : price <= q) => price = levels[k0].price
      <4>1. SUFFICES ASSUME NEW price \in near, \A q \in near : price <= q
                     PROVE  price = levels[k0].price
        OBVIOUS
      <4>2. price <= levels[k0].price /\ levels[k0].price <= price
        BY <3>5, <4>1
      <4>3. price \in Nat
        BY <2>1, <2>4, <2>5, <4>1
      <4>4. QED
        BY <3>2, <4>2, <4>3
    <3>7. {levels[k0].price} = {price \in near : \A q \in near : price <= q}
      BY <3>5, <3>6
    <3>8. QED
      BY <3>2, <3>4, <3>7 DEF near, enough
  <2>9. QED
    BY <2>7, <2>8
<1>2. QED
  BY <1>1, BookAlways, PTL

=============================================================================
