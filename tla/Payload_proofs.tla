--------------------------- MODULE Payload_proofs ---------------------------
(***************************************************************************)
(* What holds of the bytes of any payload: advanceIv continues the         *)
(* keystream of the cipher, a read hands out the bytes that were stored,   *)
(* and the parser of framed bodies keeps its state what it is.  Values     *)
(* that the modules define by recursive functions over the digits of a     *)
(* counter are reasoned about by the functions that those definitions      *)
(* choose, which Recursion shows to exist.                                 *)
(***************************************************************************)
EXTENDS Payload, TLAPS, WellFoundedInduction, FiniteSetTheorems, SequenceTheorems

\* Among natural numbers there is a least.
LEMMA LeastNatural ==
  ASSUME NEW T \in SUBSET Nat, T # {}
  PROVE  \E x \in T : \A y \in T : x =< y
<1>1. PICK x \in T : \A y \in T : ~ (<<y, x>> \in OpToRel(<, Nat))
  BY NatLessThanWellFounded, WFMin
<1>2. \A y \in T : ~ (y < x)
  BY <1>1 DEF OpToRel
<1> QED BY <1>2

\* Counting up: what holds of 0 and is handed on from i to i + 1 holds up to n.
LEMMA CountUp ==
  ASSUME NEW T \in SUBSET Nat, NEW n \in Nat, 0 \in T,
         \A i \in Nat : i < n /\ i \in T => i + 1 \in T
  PROVE  \A i \in 0 .. n : i \in T
<1> SUFFICES ASSUME NEW j \in 0 .. n, j \notin T PROVE FALSE
  OBVIOUS
<1> DEFINE M == {i \in 0 .. n : i \notin T}
<1>0. M \in SUBSET Nat /\ M # {}
  OBVIOUS
<1> HIDE DEF M
<1>1. PICK x \in M : \A y \in M : x =< y
  BY <1>0, LeastNatural
<1> USE DEF M
<1>2. x # 0 /\ x - 1 \in Nat /\ x - 1 < n /\ x - 1 \in T
  BY <1>1
<1> QED BY <1>1, <1>2

\* Remainders and quotients of natural numbers are natural numbers.
LEMMA Mod0 ==
  ASSUME NEW a \in Nat, NEW P \in Nat \ {0}
  PROVE  a % P \in Nat /\ a \div P \in Nat
<1>1. a % P \in 0 .. P - 1
  OBVIOUS
<1>2. a \div P \in Int
  OBVIOUS
<1>3. a \div P >= 0
  OBVIOUS
<1> QED BY <1>1, <1>2, <1>3

\* A quotient and a remainder that make up a number are its quotient and remainder.
LEMMA Mod2 ==
  ASSUME NEW P \in Nat \ {0}, NEW q \in Nat, NEW r \in Nat, r < P
  PROVE  (q * P + r) % P = r /\ (q * P + r) \div P = q
OBVIOUS

\* A number is made up of its quotient and its remainder.
LEMMA Mod1 ==
  ASSUME NEW a \in Nat, NEW P \in Nat \ {0}
  PROVE  a = P * (a \div P) + (a % P)
<1> DEFINE T == {n \in Nat : \E q, r \in Nat : r < P /\ n = q * P + r}
<1>1. 0 \in T
  <2>1. 0 = 0 * P + 0
    OBVIOUS
  <2> QED BY <2>1
<1>2. ASSUME NEW n \in Nat, n \in T PROVE n + 1 \in T
  <2>1. PICK q \in Nat, r \in Nat : r < P /\ n = q * P + r
    BY <1>2
  <2>2. CASE r + 1 < P
    <3>1. n + 1 = q * P + (r + 1) /\ r + 1 \in Nat
      BY <2>1
    <3> QED BY <2>2, <3>1
  <2>3. CASE r + 1 = P
    <3>1. n + 1 = (q + 1) * P + 0 /\ q + 1 \in Nat
      BY <2>1, <2>3
    <3>2. \E x, y \in Nat : y < P /\ n + 1 = x * P + y
      <4>1. 0 < P /\ 0 \in Nat /\ q + 1 \in Nat
        OBVIOUS
      <4> WITNESS q + 1 \in Nat, 0 \in Nat
      <4> QED BY <3>1, <4>1
    <3> QED BY <3>2
  <2> QED BY <2>1, <2>2, <2>3
<1>3. a \in T
  <2> HIDE DEF T
  <2>1. T \in SUBSET Nat
    BY DEF T
  <2> QED BY <1>1, <1>2, <2>1, CountUp
<1>4. PICK q \in Nat, r \in Nat : r < P /\ a = q * P + r
  BY <1>3
<1>5. a % P = r /\ a \div P = q
  BY <1>4, Mod2
<1>6. q * P = P * q
  OBVIOUS
<1>7. P * (a \div P) + (a % P) = P * q + r
  BY <1>4, <1>5, Zenon
<1>8. P * q + r = q * P + r
  BY <1>6
<1> QED BY <1>4, <1>7, <1>8

\* Whole turns do not show in the remainder.
LEMMA ModShift ==
  ASSUME NEW a \in Nat, NEW q \in Nat, NEW P \in Nat \ {0}
  PROVE  (a + q * P) % P = a % P
<1> DEFINE d == a \div P
           r == a % P
<1>1. d \in Nat /\ r \in Nat /\ a = d * P + r /\ r < P
  BY Mod0, Mod1
<1>2. a + q * P = (d + q) * P + r
  BY <1>1
<1> HIDE DEF d, r
<1>3. (a + q * P) % P = r
  BY <1>1, <1>2, Mod2
<1> QED BY <1>3 DEF r

\* Values that are each computed from the one before.
Recipe(D, N, b, g) == N \in Nat /\ b \in D /\ g \in [1 .. N -> [D -> D]]
Recurs(D, N, b, g) == \E f \in [0 .. N -> D] : f[0] = b /\ \A i \in 1 .. N : f[i] = g[i][f[i - 1]]

\* They exist, up to any number.
LEMMA RecursionIn ==
  ASSUME NEW D, NEW N, NEW b, NEW g, Recipe(D, N, b, g)
  PROVE  Recurs(D, N, b, g)
<1>0. N \in Nat /\ b \in D /\ g \in [1 .. N -> [D -> D]]
  BY DEF Recipe
<1> DEFINE Upto(n) == \E f \in [0 .. n -> D] : f[0] = b /\ \A i \in 1 .. n : f[i] = g[i][f[i - 1]]
           T == {n \in Nat : n =< N => Upto(n)}
<1>1. Upto(0)
  <2>1. /\ [i \in 0 .. 0 |-> b] \in [0 .. 0 -> D] /\ [i \in 0 .. 0 |-> b][0] = b
        /\ \A i \in 1 .. 0 : FALSE
    BY <1>0
  <2> QED BY <1>0, <2>1
<1>2. ASSUME NEW n \in Nat, n < N, Upto(n) PROVE Upto(n + 1)
  <2>1. PICK f \in [0 .. n -> D] : f[0] = b /\ \A i \in 1 .. n : f[i] = g[i][f[i - 1]]
    BY <1>2
  <2> DEFINE h == [i \in 0 .. n + 1 |-> IF i =< n THEN f[i] ELSE g[n + 1][f[n]]]
  <2>2. h \in [0 .. n + 1 -> D]
    <3>1. g[n + 1] \in [D -> D] /\ f[n] \in D
      BY <1>0, <1>2
    <3>2. g[n + 1][f[n]] \in D
      BY <3>1
    <3>3. \A i \in 0 .. n + 1 : (IF i =< n THEN f[i] ELSE g[n + 1][f[n]]) \in D
      <4>1. \A i \in 0 .. n + 1 : i =< n => i \in 0 .. n
        OBVIOUS
      <4> QED BY <2>1, <3>2, <4>1
    <3> QED BY <3>3
  <2>3. h[0] = b
    BY <2>1
  <2>4. ASSUME NEW i \in 1 .. n + 1 PROVE h[i] = g[i][h[i - 1]]
    <3>1. CASE i =< n
      <4>1. i \in 1 .. n /\ i \in 0 .. n + 1 /\ i - 1 \in 0 .. n + 1 /\ i - 1 =< n
        BY <3>1
      <4>2. h[i] = f[i] /\ h[i - 1] = f[i - 1]
        BY <4>1
      <4> QED BY <2>1, <4>1, <4>2
    <3>2. CASE i = n + 1
      BY <2>1, <3>2
    <3> QED BY <3>1, <3>2
  <2> HIDE DEF h
  <2> QED BY <2>2, <2>3, <2>4
<1> HIDE DEF Upto
<1>3. 0 \in T /\ T \in SUBSET Nat
  BY <1>1
<1>4. \A i \in Nat : i < N /\ i \in T => i + 1 \in T
  <2> TAKE i \in Nat
  <2> HAVE i < N /\ i \in T
  <2>1. Upto(i)
    BY <1>0
  <2>2. Upto(i + 1) /\ i + 1 \in Nat
    BY <1>2, <2>1
  <2> QED BY <2>2
<1>5. N \in 0 .. N
  BY <1>0
<1>6. \A i \in 0 .. N : i \in T
  <2> HIDE DEF T
  <2> QED BY <1>0, <1>3, <1>4, CountUp
<1>7. Upto(N)
  <2>1. N \in T
    BY <1>5, <1>6
  <2> QED BY <2>1
<1> QED BY <1>7 DEF Upto, Recurs

\* The same for natural numbers.
LEMMA Recursion ==
  ASSUME NEW N \in Nat, NEW b \in Nat, NEW g \in [1 .. N -> [Nat -> Nat]]
  PROVE  \E f \in [0 .. N -> Nat] : f[0] = b /\ \A i \in 1 .. N : f[i] = g[i][f[i - 1]]
<1>1. Recipe(Nat, N, b, g)
  BY DEF Recipe
<1>2. Recurs(Nat, N, b, g)
  BY <1>1, RecursionIn
<1> QED BY <1>2 DEF Recurs

\* ValueOf, digit by digit.
LEMMA ValueByDigits ==
  ASSUME NEW iv \in Counters
  PROVE  \E v \in [0 .. CounterSize -> Nat] :
           /\ v[0] = 0 /\ ValueOf(iv) = v[CounterSize]
           /\ \A i \in 1 .. CounterSize : v[i] = v[i - 1] * Radix + iv[i]
<1> DEFINE N == CounterSize
           g == [i \in 1 .. N |-> [x \in Nat |-> x * Radix + iv[i]]]
           F(v) == v = [i \in 0 .. N |-> IF i = 0 THEN 0 ELSE v[i - 1] * Radix + iv[i]]
<1>0. N \in Nat /\ N > 0 /\ Radix \in Nat /\ iv \in [1 .. N -> Nat]
  BY PayloadAssumption DEF Counters
<1> HIDE DEF N
<1>1. g \in [1 .. N -> [Nat -> Nat]]
  BY <1>0
<1>2. PICK f \in [0 .. N -> Nat] : f[0] = 0 /\ \A i \in 1 .. N : f[i] = g[i][f[i - 1]]
  <2> HIDE DEF g
  <2> QED BY <1>0, <1>1, Recursion, ZenonT(60)
<1>3. ASSUME NEW i \in 1 .. N PROVE f[i] = f[i - 1] * Radix + iv[i]
  <2>1. i - 1 \in 0 .. N
    BY <1>0
  <2>2. f[i - 1] \in Nat
    BY <1>2, <2>1
  <2>3. f[i] = g[i][f[i - 1]]
    BY <1>2
  <2>4. g[i] = [x \in Nat |-> x * Radix + iv[i]]
    OBVIOUS
  <2> HIDE DEF g
  <2> QED BY <2>2, <2>3, <2>4
<1>4. F(f)
  <2>1. \A i \in 0 .. N : f[i] = IF i = 0 THEN 0 ELSE f[i - 1] * Radix + iv[i]
    BY <1>0, <1>2, <1>3
  <2> QED BY <1>2, <2>1
<1> DEFINE u == CHOOSE v : F(v)
<1>5. F(u)
  BY <1>4
<1>6. ValueOf(iv) = u[N]
  BY DEF ValueOf, N
<1> HIDE DEF u
<1>7. DOMAIN u = 0 .. N /\ u[0] = 0 /\ \A i \in 1 .. N : u[i] = u[i - 1] * Radix + iv[i]
  BY <1>0, <1>5
<1> DEFINE T == {i \in Nat : i =< N => u[i] \in Nat}
<1>8. \A i \in 0 .. N : u[i] \in Nat
  <2>1. 0 \in T /\ T \in SUBSET Nat
    BY <1>7
  <2>2. ASSUME NEW i \in Nat, i < N, i \in T PROVE i + 1 \in T
    <3>1. i + 1 \in 1 .. N /\ u[i] \in Nat /\ iv[i + 1] \in Nat /\ (i + 1) - 1 = i
      BY <1>0, <2>2
    <3>2. u[i + 1] = u[i] * Radix + iv[i + 1]
      BY <1>7, <3>1
    <3>3. u[i + 1] \in Nat
      <4> DEFINE x == u[i]
      <4>0. x \in Nat /\ Radix \in Nat
        BY <1>0, <3>1
      <4> HIDE DEF x
      <4>1. x * Radix \in Nat
        BY <4>0
      <4>2. u[i + 1] = x * Radix + iv[i + 1]
        BY <3>2 DEF x
      <4> QED BY <3>1, <4>1, <4>2
    <3> QED BY <3>3
  <2>3. \A i \in 0 .. N : i \in T
    <3> HIDE DEF T
    <3> QED BY <1>0, <2>1, <2>2, CountUp
  <2> QED BY <2>3, <1>0
<1>9. u = [i \in 0 .. N |-> u[i]]
  BY <1>5
<1>10. u \in [0 .. N -> Nat]
  BY <1>8, <1>9
<1> QED BY <1>6, <1>7, <1>10 DEF N

\* The carries of advanceIv, from the last digit (CounterSize) to beyond the first (0).
Carries(iv, blocks, k) ==
  /\ k \in [0 .. CounterSize -> Nat] /\ k[CounterSize] = blocks
  /\ \A i \in 1 .. CounterSize :
       k[i - 1] = (k[i] \div Radix) + ((iv[i] + (k[i] % Radix)) \div Radix)

\* One digit of advanceIv: what it takes in and what it hands on make up a sum.
LEMMA CarryStep ==
  ASSUME NEW x \in Nat, NEW d \in Nat
  PROVE  /\ (x \div Radix) + ((d + (x % Radix)) \div Radix) \in Nat
         /\ (d + (x % Radix)) % Radix \in 0 .. Radix - 1
         /\ ((x \div Radix) + ((d + (x % Radix)) \div Radix)) * Radix + ((d + (x % Radix)) % Radix) = d + x
<1>0. Radix \in Nat \ {0}
  BY PayloadAssumption
<1> DEFINE a == x \div Radix
           b == x % Radix
           s == d + b
           e == s \div Radix
           f == s % Radix
<1>1. a \in Nat /\ b \in Nat /\ x = Radix * a + b
  BY <1>0, Mod0, Mod1
<1>2. s \in Nat
  BY <1>1
<1> HIDE DEF a, b, s
<1>3. e \in Nat /\ f \in Nat /\ s = Radix * e + f
  BY <1>0, <1>2, Mod0, Mod1
<1>4. f \in 0 .. Radix - 1
  BY <1>0, <1>2
<1> HIDE DEF e, f
<1>5. s = d + b
  BY DEF s
<1>6. (a + e) * Radix + f = Radix * a + (Radix * e + f)
  BY <1>0, <1>1, <1>3
<1>7. Radix * a + s = d + x
  BY <1>0, <1>1, <1>5
<1>8. (a + e) * Radix + f = d + x /\ a + e \in Nat
  BY <1>1, <1>3, <1>6, <1>7
<1> QED BY <1>4, <1>8 DEF a, b, s, e, f

\* The carries of advanceIv exist.
LEMMA CarriesExist ==
  ASSUME NEW iv \in Counters, NEW blocks \in Nat
  PROVE  \E k : Carries(iv, blocks, k)
<1> DEFINE N == CounterSize
           Over(x, d) == (x \div Radix) + ((d + (x % Radix)) \div Radix)
           g == [j \in 1 .. N |-> [x \in Nat |-> Over(x, iv[N - j + 1])]]
<1>0. N \in Nat /\ N > 0 /\ iv \in [1 .. N -> Nat]
  BY PayloadAssumption DEF Counters
<1> HIDE DEF N
<1>1. \A x, d \in Nat : Over(x, d) \in Nat
  BY CarryStep
<1> HIDE DEF Over
<1>2. g \in [1 .. N -> [Nat -> Nat]]
  <2>1. \A j \in 1 .. N : N - j + 1 \in 1 .. N
    BY <1>0
  <2> QED BY <1>0, <1>1, <2>1
<1>3. PICK h \in [0 .. N -> Nat] : h[0] = blocks /\ \A j \in 1 .. N : h[j] = g[j][h[j - 1]]
  <2> HIDE DEF g
  <2> QED BY <1>0, <1>2, Recursion
<1> DEFINE k == [i \in 0 .. N |-> h[N - i]]
<1>4. k \in [0 .. N -> Nat] /\ k[N] = blocks
  BY <1>0, <1>3
<1>5. ASSUME NEW i \in 1 .. N PROVE k[i - 1] = Over(k[i], iv[i])
  <2> DEFINE j == N - i + 1
  <2>1. j \in 1 .. N /\ N - (i - 1) = j /\ j - 1 = N - i /\ N - j + 1 = i /\ N - i \in 0 .. N
    BY <1>0
  <2>2. k[i - 1] = h[j] /\ k[i] = h[j - 1] /\ h[j - 1] \in Nat
    BY <1>0, <1>3, <2>1
  <2>3. g[j] = [x \in Nat |-> Over(x, iv[i])]
    BY <2>1
  <2> HIDE DEF j, g, k
  <2>4. h[j] = g[j][h[j - 1]]
    BY <1>3, <2>1
  <2> QED BY <2>2, <2>3, <2>4
<1> HIDE DEF k
<1>6. Carries(iv, blocks, k)
  BY <1>4, <1>5 DEF Carries, N, Over
<1> QED BY <1>6

\* advanceIv takes its digits from those carries.
LEMMA AdvanceByCarries ==
  ASSUME NEW iv \in Counters, NEW blocks \in Nat, NEW k, Carries(iv, blocks, k)
  PROVE  /\ AdvanceIv(iv, blocks) \in Counters
         /\ \A i \in 1 .. CounterSize : AdvanceIv(iv, blocks)[i] = (iv[i] + (k[i] % Radix)) % Radix
<1> DEFINE N == CounterSize
           Over(x, d) == (x \div Radix) + ((d + (x % Radix)) \div Radix)
           F(u) == u = [i \in 1 .. N |->
                          IF i = N THEN blocks
                          ELSE LET sum == iv[i + 1] + (u[i + 1] % Radix) IN (u[i + 1] \div Radix) + (sum \div Radix)]
           carry == CHOOSE u : F(u)
           w == [i \in 1 .. N |-> k[i]]
<1>0. /\ N \in Nat /\ N > 0 /\ iv \in [1 .. N -> Nat]
      /\ k \in [0 .. N -> Nat] /\ k[N] = blocks
      /\ \A i \in 1 .. N : k[i - 1] = Over(k[i], iv[i])
  <2>1. N \in Nat /\ N > 0 /\ iv \in [1 .. N -> Nat]
    BY PayloadAssumption DEF Counters
  <2>2. /\ k \in [0 .. N -> Nat] /\ k[N] = blocks
        /\ \A i \in 1 .. N : k[i - 1] = Over(k[i], iv[i])
    BY DEF Carries
  <2> QED BY <2>1, <2>2
<1>1. AdvanceIv(iv, blocks) = [i \in 1 .. N |-> (iv[i] + (carry[i] % Radix)) % Radix]
  BY DEF AdvanceIv
<1> HIDE DEF N
<1>2. F(w)
  <2>1. \A i \in 1 .. N : i # N => w[i] = Over(w[i + 1], iv[i + 1])
    <3> TAKE i \in 1 .. N
    <3> HAVE i # N
    <3>1. i + 1 \in 1 .. N /\ (i + 1) - 1 = i
      BY <1>0
    <3>2. k[i] = Over(k[i + 1], iv[i + 1])
      BY <1>0, <3>1
    <3> QED BY <3>1, <3>2
  <2>2. N \in 1 .. N /\ w[N] = blocks
    BY <1>0
  <2> QED BY <2>1, <2>2
<1>3. F(carry)
  BY <1>2
<1> HIDE DEF carry, w
<1>4. carry[N] = blocks /\ \A i \in 1 .. N : i # N => carry[i] = Over(carry[i + 1], iv[i + 1])
  <2>1. N \in 1 .. N
    BY <1>0
  <2> QED BY <1>3, <2>1
<1> DEFINE T == {j \in Nat : j < N => carry[N - j] = k[N - j]}
<1>5. 0 \in T /\ T \in SUBSET Nat
  BY <1>0, <1>4
<1>6. ASSUME NEW j \in Nat, j < N, j \in T PROVE j + 1 \in T
  <2>1. CASE j + 1 < N
    <3>1. N - (j + 1) \in 1 .. N /\ N - (j + 1) # N /\ (N - (j + 1)) + 1 = N - j /\ N - j \in 1 .. N
          /\ (N - j) - 1 = N - (j + 1)
      BY <1>0, <1>6, <2>1
    <3>2. carry[N - (j + 1)] = Over(carry[N - j], iv[N - j]) /\ k[N - (j + 1)] = Over(k[N - j], iv[N - j])
      BY <1>0, <1>4, <3>1
    <3>3. carry[N - j] = k[N - j]
      BY <1>6
    <3> QED BY <3>2, <3>3
  <2>2. CASE ~ (j + 1 < N)
    BY <2>2
  <2> QED BY <2>1, <2>2
<1>7. \A j \in 0 .. N : j \in T
  <2> HIDE DEF T
  <2> QED BY <1>0, <1>5, <1>6, CountUp
<1>8. ASSUME NEW i \in 1 .. N PROVE carry[i] = k[i]
  <2>1. N - i \in 0 .. N /\ N - i < N /\ N - (N - i) = i
    BY <1>0
  <2>2. N - i \in T
    BY <1>7, <2>1
  <2> QED BY <2>1, <2>2
<1>9. \A i \in 1 .. N : (iv[i] + (k[i] % Radix)) % Radix \in 0 .. Radix - 1
  <2> TAKE i \in 1 .. N
  <2>1. iv[i] \in Nat /\ k[i] \in Nat
    BY <1>0
  <2> QED BY <2>1, CarryStep
<1> HIDE DEF T
<1>10. AdvanceIv(iv, blocks) = [i \in 1 .. N |-> (iv[i] + (k[i] % Radix)) % Radix]
  BY <1>1, <1>8
<1> QED BY <1>9, <1>10 DEF Counters, N

\* Power, digit by digit.
LEMMA PowerByDigits ==
  /\ Power \in [0 .. CounterSize -> Nat \ {0}] /\ Power[0] = 1
  /\ \A i \in 1 .. CounterSize : Power[i] = Power[i - 1] * Radix
<1> DEFINE N == CounterSize
           g == [i \in 1 .. N |-> [x \in Nat |-> x * Radix]]
           F(v) == v = [i \in 0 .. N |-> IF i = 0 THEN 1 ELSE v[i - 1] * Radix]
<1>0. N \in Nat /\ N > 0 /\ Radix \in Nat /\ Radix > 0
  BY PayloadAssumption
<1> HIDE DEF N
<1>1. g \in [1 .. N -> [Nat -> Nat]]
  BY <1>0
<1>2. PICK f \in [0 .. N -> Nat] : f[0] = 1 /\ \A i \in 1 .. N : f[i] = g[i][f[i - 1]]
  <2> DEFINE b == 1
  <2>1. b \in Nat
    OBVIOUS
  <2> HIDE DEF g, b
  <2>2. \E f \in [0 .. N -> Nat] : f[0] = b /\ \A i \in 1 .. N : f[i] = g[i][f[i - 1]]
    BY <1>0, <1>1, <2>1, Recursion
  <2> QED BY <2>2 DEF b
<1>3. ASSUME NEW i \in 1 .. N PROVE f[i] = f[i - 1] * Radix
  <2>1. i - 1 \in 0 .. N
    BY <1>0
  <2>2. f[i - 1] \in Nat
    BY <1>2, <2>1
  <2>3. f[i] = g[i][f[i - 1]]
    BY <1>2
  <2>4. g[i] = [x \in Nat |-> x * Radix]
    OBVIOUS
  <2> HIDE DEF g
  <2> QED BY <2>2, <2>3, <2>4
<1>4. F(f)
  <2>1. \A i \in 0 .. N : f[i] = IF i = 0 THEN 1 ELSE f[i - 1] * Radix
    BY <1>0, <1>2, <1>3
  <2> QED BY <1>2, <2>1
<1> DEFINE u == CHOOSE v : F(v)
<1>5. F(u)
  BY <1>4
<1>6. Power = u
  BY DEF Power, N
<1> HIDE DEF u
<1>7. DOMAIN u = 0 .. N /\ u[0] = 1 /\ \A i \in 1 .. N : u[i] = u[i - 1] * Radix
  BY <1>0, <1>5
<1> DEFINE T == {i \in Nat : i =< N => u[i] \in Nat \ {0}}
<1>8. \A i \in 0 .. N : u[i] \in Nat \ {0}
  <2>1. 0 \in T /\ T \in SUBSET Nat
    BY <1>7
  <2>2. ASSUME NEW i \in Nat, i < N, i \in T PROVE i + 1 \in T
    <3>1. i + 1 \in 1 .. N /\ u[i] \in Nat \ {0} /\ (i + 1) - 1 = i
      BY <1>0, <2>2
    <3>2. u[i + 1] = u[i] * Radix
      BY <1>7, <3>1
    <3>3. u[i + 1] \in Nat \ {0}
      BY <1>0, <3>1, <3>2
    <3> QED BY <3>3
  <2>3. \A i \in 0 .. N : i \in T
    <3> HIDE DEF T
    <3> QED BY <1>0, <2>1, <2>2, CountUp
  <2> QED BY <2>3, <1>0
<1>9. u = [i \in 0 .. N |-> u[i]]
  BY <1>5
<1>10. u \in [0 .. N -> Nat \ {0}]
  BY <1>8, <1>9
<1> QED BY <1>6, <1>7, <1>10 DEF N

\* advanceIv adds the blocks to the counter, as one number, and drops what runs over
\* the first digit.
LEMMA AdvanceAdds ==
  ASSUME NEW iv \in Counters, NEW blocks \in Nat
  PROVE  /\ AdvanceIv(iv, blocks) \in Counters
         /\ \E over \in Nat : ValueOf(AdvanceIv(iv, blocks)) + over * Power[CounterSize] = ValueOf(iv) + blocks
         /\ ValueOf(iv) \in Nat /\ ValueOf(AdvanceIv(iv, blocks)) \in Nat
<1> DEFINE N == CounterSize
           adv == AdvanceIv(iv, blocks)
<1>0. N \in Nat /\ N > 0 /\ Radix \in Nat
  BY PayloadAssumption
<1>1. PICK k : Carries(iv, blocks, k)
  BY CarriesExist
<1>2. adv \in Counters /\ \A i \in 1 .. N : adv[i] = (iv[i] + (k[i] % Radix)) % Radix
  BY <1>1, AdvanceByCarries
<1>3. PICK v \in [0 .. N -> Nat] :
           /\ v[0] = 0 /\ ValueOf(iv) = v[N]
           /\ \A i \in 1 .. N : v[i] = v[i - 1] * Radix + iv[i]
  BY ValueByDigits
<1> HIDE DEF adv
<1>4. PICK a \in [0 .. N -> Nat] :
           /\ a[0] = 0 /\ ValueOf(adv) = a[N]
           /\ \A i \in 1 .. N : a[i] = a[i - 1] * Radix + adv[i]
  BY <1>2, ValueByDigits
<1>5. /\ Power \in [0 .. N -> Nat \ {0}] /\ Power[0] = 1
      /\ \A i \in 1 .. N : Power[i] = Power[i - 1] * Radix
  BY PowerByDigits
<1>6. /\ k \in [0 .. N -> Nat] /\ k[N] = blocks
      /\ \A i \in 1 .. N : k[i - 1] = (k[i] \div Radix) + ((iv[i] + (k[i] % Radix)) \div Radix)
  BY <1>1 DEF Carries
<1>7. iv \in [1 .. N -> Nat] /\ adv \in [1 .. N -> Nat]
  <2>1. 0 .. Radix - 1 \subseteq Nat
    BY <1>0
  <2> QED BY <1>2, <2>1 DEF Counters
<1> HIDE DEF N
<1>8. \A i \in 1 .. N : k[i - 1] * Radix + adv[i] = iv[i] + k[i]
  <2> TAKE i \in 1 .. N
  <2>1. k[i] \in Nat /\ iv[i] \in Nat
    BY <1>0, <1>6, <1>7, SMTT(60)
  <2>2. ((k[i] \div Radix) + ((iv[i] + (k[i] % Radix)) \div Radix)) * Radix
        + ((iv[i] + (k[i] % Radix)) % Radix) = iv[i] + k[i]
    BY <2>1, CarryStep
  <2> QED BY <1>2, <1>6, <2>2 DEF N
<1> DEFINE T == {i \in Nat : i =< N => a[i] + k[0] * Power[i] = v[i] + k[i]}
<1>9. 0 \in T /\ T \in SUBSET Nat
  <2>1. k[0] \in Nat
    BY <1>0, <1>6
  <2>2. k[0] * 1 = k[0]
    BY <2>1
  <2> QED BY <1>3, <1>4, <1>5, <2>1, <2>2
<1>10. ASSUME NEW i \in Nat, i < N, i \in T PROVE i + 1 \in T
  <2> DEFINE j == i + 1
             A == a[i]
             V == v[i]
             K == k[i]
             P == Power[i]
             K0 == k[0]
             d == adv[j]
             e == iv[j]
             L == k[j]
  <2>1. j \in 1 .. N /\ j - 1 = i /\ i \in 0 .. N /\ j \in 0 .. N /\ 0 \in 0 .. N
    BY <1>0, <1>10
  <2>2. /\ A \in Nat /\ V \in Nat /\ K \in Nat /\ P \in Nat /\ K0 \in Nat /\ d \in Nat /\ e \in Nat
        /\ L \in Nat
    BY <1>3, <1>4, <1>5, <1>6, <1>7, <2>1
  <2>3. A + K0 * P = V + K
    BY <1>10, <2>1
  <2>4. /\ a[j] = A * Radix + d /\ v[j] = V * Radix + e /\ Power[j] = P * Radix
        /\ K * Radix + d = e + L
    BY <1>3, <1>4, <1>5, <1>8, <2>1
  <2> HIDE DEF A, V, K, P, K0, d, e, L
  <2>5. (A * Radix + d) + K0 * (P * Radix) = (A + K0 * P) * Radix + d
    BY <1>0, <2>2
  <2>6. (V + K) * Radix + d = V * Radix + (K * Radix + d)
    BY <1>0, <2>2
  <2>7. V * Radix + (e + L) = (V * Radix + e) + L
    BY <1>0, <2>2
  <2>8. (A * Radix + d) + K0 * (P * Radix) = (V * Radix + e) + L
    BY <2>3, <2>4, <2>5, <2>6, <2>7
  <2>9. a[j] + k[0] * Power[j] = v[j] + k[j]
    BY <2>4, <2>8 DEF K0, L
  <2> QED BY <2>9
<1>11. \A i \in 0 .. N : i \in T
  <2> HIDE DEF T
  <2> QED BY <1>0, <1>9, <1>10, CountUp
<1>12. a[N] + k[0] * Power[N] = v[N] + k[N] /\ k[0] \in Nat /\ a[N] \in Nat /\ v[N] \in Nat
  <2>1. N \in 0 .. N /\ 0 \in 0 .. N
    BY <1>0
  <2>2. N \in T
    BY <1>11, <2>1
  <2> QED BY <1>0, <1>3, <1>4, <1>6, <2>1, <2>2
<1> HIDE DEF T
<1>13. ValueOf(adv) + k[0] * Power[N] = ValueOf(iv) + blocks
  BY <1>3, <1>4, <1>6, <1>12
<1>14. ValueOf(iv) \in Nat /\ ValueOf(adv) \in Nat
  BY <1>3, <1>4, <1>12
<1> QED BY <1>2, <1>12, <1>13, <1>14 DEF adv, N

\* advanceIv: a cipher that is opened at a block has the keystream that the payload was
\* encrypted with from there on, for every initial counter, every number of digits and
\* every radix: the carry runs through all digits and over the edge.
THEOREM AdvancedKeystream ==
  ASSUME NEW iv \in Counters, NEW blocks \in Nat, NEW n \in Nat
  PROVE  KeystreamBlock(AdvanceIv(iv, blocks), n) = KeystreamBlock(iv, blocks + n)
<1> DEFINE P == Power[CounterSize]
           x == ValueOf(AdvanceIv(iv, blocks))
           y == ValueOf(iv)
<1>1. P \in Nat \ {0}
  BY PowerByDigits, PayloadAssumption
<1>2. PICK over \in Nat : x + over * P = y + blocks
  BY AdvanceAdds
<1>3. x \in Nat /\ y \in Nat
  BY AdvanceAdds
<1>4. KeystreamBlock(AdvanceIv(iv, blocks), n) = (x + n) % P /\ KeystreamBlock(iv, blocks + n) = (y + (blocks + n)) % P
  BY DEF KeystreamBlock
<1> HIDE DEF P, x, y
<1>5. y + (blocks + n) = (x + n) + over * P
  <2>1. over * P \in Nat
    BY <1>1
  <2> QED BY <1>2, <1>3, <2>1
<1>6. ((x + n) + over * P) % P = (x + n) % P
  <2> DEFINE z == x + n
  <2>1. z \in Nat
    BY <1>3
  <2> HIDE DEF z
  <2>2. (z + over * P) % P = z % P
    BY <1>1, <2>1, ModShift
  <2> QED BY <2>2 DEF z
<1> QED BY <1>4, <1>5, <1>6

-----------------------------------------------------------------------------
\* A payload as it is stored, and how far a read of it has come that drops what
\* comes before position start.
BlobOf(blob, plain) ==
  /\ plain \in Seq(Symbol) /\ blob.iv \in Counters \cup {<<>>}
  /\ blob.bytes = IF blob.iv = <<>> THEN InTheClear(plain) ELSE Encrypted(blob.iv, plain)

Reading(blob, plain, start, r) ==
  /\ r \in [position : Nat, from : Nat, end : Int, skip : Nat, out : Seq(Symbol)]
  /\ start \in Nat /\ start =< r.end + 1
  /\ r.from =< start /\ r.from =< r.position
  /\ blob.iv # <<>> => r.from % Block = 0
  /\ r.position =< r.end + 1 /\ r.end + 1 =< Len(plain)
  /\ r.skip = IF r.position < start THEN start - r.position ELSE 0
  /\ r.skip < Block
  /\ r.out = SubSeq(plain, start + 1, r.position)

\* What a stored byte remembers: its value, the counter of its block, its place there.
LEMMA BytesOfBlob ==
  ASSUME NEW blob, NEW plain, BlobOf(blob, plain)
  PROVE  /\ Len(blob.bytes) = Len(plain) /\ Len(plain) \in Nat
         /\ \A i \in 1 .. Len(plain) :
              /\ blob.bytes[i].byte = plain[i]
              /\ blob.iv # <<>> => /\ blob.bytes[i].under = KeystreamBlock(blob.iv, (i - 1) \div Block)
                                  /\ blob.bytes[i].at = (i - 1) % Block
<1>1. Len(plain) \in Nat
  BY DEF BlobOf
<1>2. CASE blob.iv = <<>>
  <2>1. blob.bytes = [i \in 1 .. Len(plain) |-> [byte |-> plain[i]]]
    BY <1>2 DEF BlobOf, InTheClear
  <2> QED BY <1>1, <1>2, <2>1
<1>3. CASE blob.iv # <<>>
  <2>1. blob.bytes = [i \in 1 .. Len(plain) |->
           [byte |-> plain[i], under |-> KeystreamBlock(blob.iv, (i - 1) \div Block), at |-> (i - 1) % Block]]
    BY <1>3 DEF BlobOf, Encrypted
  <2> HIDE DEF BlobOf
  <2> QED BY <1>1, <1>3, <2>1
<1> QED BY <1>2, <1>3

\* Counting blocks from where the file was opened is counting them from its start.
LEMMA AlignedBlocks ==
  ASSUME NEW from \in Nat, NEW passed \in Nat, from % Block = 0
  PROVE  /\ (from + passed) \div Block = (from \div Block) + (passed \div Block)
         /\ (from + passed) % Block = passed % Block
<1> DEFINE a == from \div Block
           b == passed \div Block
           r == passed % Block
<1>0. Block \in Nat \ {0}
  BY PayloadAssumption
<1>1. a \in Nat /\ b \in Nat /\ r \in Nat /\ r < Block
  BY <1>0, Mod0
<1>2. from = Block * a + 0 /\ passed = Block * b + r
  <2>1. from = Block * a + (from % Block) /\ passed = Block * b + r
    BY <1>0, Mod1
  <2> QED BY <2>1
<1> HIDE DEF a, b, r
<1>3. from + passed = (a + b) * Block + r
  BY <1>0, <1>1, <1>2
<1>4. (from + passed) % Block = r /\ (from + passed) \div Block = a + b
  <2> DEFINE q == a + b
  <2>1. q \in Nat
    BY <1>1
  <2> HIDE DEF q
  <2>2. (q * Block + r) % Block = r /\ (q * Block + r) \div Block = q
    BY <1>0, <1>1, <2>1, Mod2
  <2> QED BY <1>3, <2>2 DEF q
<1> QED BY <1>4 DEF a, b, r

\* The decipher stage hands on the bytes of the payload, wherever the file was opened.
LEMMA DecipheredIsPlain ==
  ASSUME NEW blob, NEW plain, BlobOf(blob, plain), NEW start, NEW r, Reading(blob, plain, start, r),
         NEW n \in 0 .. r.end + 1 - r.position
  PROVE  Deciphered(blob, r, n) = [i \in 1 .. n |-> plain[r.position + i]]
<1>0. Block \in Nat \ {0}
  BY PayloadAssumption
<1>1. SUFFICES ASSUME NEW i \in 1 .. n
               PROVE  (LET c == blob.bytes[r.position + i]
                           passed == r.position + i - 1 - r.from
                       IN IF blob.iv = <<>> THEN c.byte
                          ELSE Decrypt(c, KeystreamBlock(AdvanceIv(blob.iv, r.from \div Block), passed \div Block), passed % Block))
                      = plain[r.position + i]
  BY DEF Deciphered
<1> DEFINE p == r.position + i
           passed == r.position + i - 1 - r.from
<1>2. /\ p \in 1 .. Len(plain) /\ passed \in Nat /\ r.from \in Nat /\ p - 1 = r.from + passed
      /\ r.position + i - 1 = r.from + passed
  <2>1. r.position \in Nat /\ r.from \in Nat /\ r.end \in Int /\ r.from =< r.position /\ r.position =< r.end + 1
        /\ r.end + 1 =< Len(plain)
    BY DEF Reading
  <2>2. Len(plain) \in Nat
    BY BytesOfBlob
  <2> DEFINE pos == r.position
             from == r.from
             end == r.end
  <2>3. pos \in Nat /\ from \in Nat /\ end \in Int /\ from =< pos /\ end + 1 =< Len(plain)
    BY <2>1
  <2>4. n \in 0 .. end + 1 - pos /\ i \in 1 .. n /\ p = pos + i /\ passed = pos + i - 1 - from
    OBVIOUS
  <2> HIDE DEF p, passed, pos, from, end
  <2>5. i \in Nat /\ i >= 1 /\ pos + i =< end + 1
    BY <2>3, <2>4
  <2>6. p \in 1 .. Len(plain)
    BY <2>2, <2>3, <2>4, <2>5
  <2>7. passed \in Nat /\ p - 1 = from + passed /\ pos + i - 1 = from + passed
    BY <2>3, <2>4, <2>5
  <2> QED BY <2>3, <2>6, <2>7 DEF pos, from
<1>3. CASE blob.iv = <<>>
  BY <1>2, <1>3, BytesOfBlob
<1>4. CASE blob.iv # <<>>
  <2>1. blob.iv \in Counters /\ r.from % Block = 0
    BY <1>4 DEF BlobOf, Reading
  <2> DEFINE c == blob.bytes[p]
  <2>2. c.byte = plain[p] /\ c.under = KeystreamBlock(blob.iv, (p - 1) \div Block) /\ c.at = (p - 1) % Block
    BY <1>2, <1>4, BytesOfBlob, SMTT(60)
  <2> HIDE DEF p, passed, c
  <2>3. /\ (p - 1) \div Block = (r.from \div Block) + (passed \div Block)
        /\ (p - 1) % Block = passed % Block
    BY <1>2, <2>1, AlignedBlocks
  <2>4. r.from \div Block \in Nat /\ passed \div Block \in Nat
    BY <1>0, <1>2, Mod0
  <2>5. KeystreamBlock(AdvanceIv(blob.iv, r.from \div Block), passed \div Block) = c.under
    BY <2>1, <2>2, <2>3, <2>4, AdvancedKeystream
  <2>6. c.at = passed % Block
    BY <2>2, <2>3
  <2>7. Decrypt(c, KeystreamBlock(AdvanceIv(blob.iv, r.from \div Block), passed \div Block), passed % Block) = plain[p]
    BY <2>2, <2>5, <2>6 DEF Decrypt
  <2> QED BY <1>4, <2>7 DEF p, passed, c
<1> QED BY <1>3, <1>4

\* decryptStages opens the file at the block in which the range starts.
LEMMA ReadsStart ==
  ASSUME NEW blob, NEW plain, BlobOf(blob, plain), NEW range,
         range.whole \/ (range.start \in Nat /\ range.end \in Nat /\ range.start =< range.end /\ range.end < Len(plain))
  PROVE  /\ Reading(blob, plain, IF range.whole THEN 0 ELSE range.start, OpenBlob(blob, range))
         /\ OpenBlob(blob, range).end = IF range.whole THEN Len(plain) - 1 ELSE range.end
<1> DEFINE start == IF range.whole THEN 0 ELSE range.start
           end == IF range.whole THEN Len(plain) - 1 ELSE range.end
           aligned == IF blob.iv = <<>> THEN start ELSE AlignedOffset(start)
<1>0. Block \in Nat \ {0}
  BY PayloadAssumption
<1>1. Len(blob.bytes) = Len(plain) /\ Len(plain) \in Nat
  BY BytesOfBlob
<1>2. start \in Nat /\ end \in Int /\ start =< end + 1 /\ end + 1 =< Len(plain)
  BY <1>1
<1>3. OpenBlob(blob, range) = [position |-> aligned, from |-> aligned, end |-> end, skip |-> start - aligned, out |-> <<>>]
  BY <1>1 DEF OpenBlob
<1> HIDE DEF start, end
<1>4. aligned \in Nat /\ aligned =< start /\ start - aligned < Block /\ (blob.iv # <<>> => aligned % Block = 0)
  <2>1. CASE blob.iv = <<>>
    BY <1>0, <1>2, <2>1
  <2>2. CASE blob.iv # <<>>
    <3> DEFINE q == start \div Block
               m == start % Block
    <3>1. q \in Nat /\ m \in Nat /\ m < Block /\ start = Block * q + m
      BY <1>0, <1>2, Mod0, Mod1
    <3>2. aligned = start - m
      BY <2>2 DEF AlignedOffset
    <3> HIDE DEF q, m
    <3>3. aligned = q * Block + 0 /\ aligned \in Nat
      <4>1. start - m = Block * q /\ Block * q \in Nat /\ Block * q = q * Block
        BY <1>0, <3>1
      <4> QED BY <3>2, <4>1
    <3>4. (q * Block + 0) % Block = 0
      BY <1>0, <3>1, Mod2
    <3> QED BY <1>2, <3>1, <3>2, <3>3, <3>4
  <2> QED BY <2>1, <2>2
<1> HIDE DEF aligned
<1>5. SubSeq(plain, start + 1, aligned) = <<>>
  BY <1>2, <1>4, SubSeqEmpty
<1>6. <<>> \in Seq(Symbol)
  BY EmptySeq
<1> DEFINE r == OpenBlob(blob, range)
<1>7. /\ r.position = aligned /\ r.from = aligned /\ r.end = end /\ r.skip = start - aligned /\ r.out = <<>>
      /\ r \in [position : Nat, from : Nat, end : Int, skip : Nat, out : Seq(Symbol)]
  BY <1>2, <1>3, <1>4, <1>6
<1> HIDE DEF r
<1>8. Reading(blob, plain, start, r)
  BY <1>2, <1>4, <1>5, <1>7 DEF Reading
<1> QED BY <1>7, <1>8 DEF r, start, end

\* A part of a payload is a sequence of its bytes.
LEMMA PlainSlice ==
  ASSUME NEW S, NEW plain \in Seq(S), NEW m \in Nat, NEW n \in Nat, m > 0, n =< Len(plain)
  PROVE  /\ SubSeq(plain, m, n) \in Seq(S)
         /\ Len(SubSeq(plain, m, n)) = IF m =< n THEN n - m + 1 ELSE 0
         /\ \A i \in 1 .. n - m + 1 : SubSeq(plain, m, n)[i] = plain[m + i - 1]
<1>1. \A i \in m .. n : plain[i] \in S
  BY ElementOfSeq
<1> QED BY <1>1, SubSeqProperties

\* read: one chunk more, and the skip stage has dropped what comes before the range.
LEMMA ReadsGoOn ==
  ASSUME NEW blob, NEW plain, BlobOf(blob, plain), NEW start, NEW r, Reading(blob, plain, start, r),
         NEW n \in 0 .. r.end + 1 - r.position
  PROVE  /\ Reading(blob, plain, start, ReadChunk(blob, r, n))
         /\ ReadChunk(blob, r, n).end = r.end /\ ReadChunk(blob, r, n).position = r.position + n
<1> DEFINE S == Symbol
           d == Deciphered(blob, r, n)
           k == Skipped(r, n)
           pos == r.position
           s == ReadChunk(blob, r, n)
<1>0. /\ plain \in Seq(S) /\ Len(plain) \in Nat /\ Block \in Nat \ {0}
      /\ pos \in Nat /\ r.end \in Int /\ r.skip \in Nat /\ start \in Nat /\ n \in Nat /\ pos + n =< r.end + 1
      /\ pos + n =< Len(plain) /\ r.out \in Seq(S) /\ r.out = SubSeq(plain, start + 1, pos)
      /\ r.skip = IF pos < start THEN start - pos ELSE 0
  <2>1. Len(plain) \in Nat
    BY BytesOfBlob
  <2>2. plain \in Seq(S)
    BY DEF BlobOf
  <2>3. /\ r \in [position : Nat, from : Nat, end : Int, skip : Nat, out : Seq(S)]
        /\ start \in Nat /\ r.end + 1 =< Len(plain) /\ pos =< r.end + 1
        /\ r.out = SubSeq(plain, start + 1, pos)
        /\ r.skip = IF pos < start THEN start - pos ELSE 0
    BY DEF Reading
  <2>4. pos \in Nat /\ r.end \in Int /\ r.skip \in Nat /\ r.out \in Seq(S)
    BY <2>3
  <2> HIDE DEF pos, S
  <2>5. n \in 0 .. r.end + 1 - pos
    BY DEF pos
  <2>6. n \in Nat /\ pos + n =< r.end + 1 /\ pos + n =< Len(plain)
    BY <2>1, <2>3, <2>4, <2>5, SMTT(60)
  <2> QED BY <2>1, <2>2, <2>3, <2>4, <2>6, PayloadAssumption
<1> HIDE DEF S
<1>1. d = [i \in 1 .. n |-> plain[pos + i]]
  BY <1>0, DecipheredIsPlain
<1>2. k \in 0 .. n /\ k = IF r.skip < n THEN r.skip ELSE n
  BY <1>0 DEF Skipped, Least
<1>3. s = [r EXCEPT !.position = pos + n, !.skip = r.skip - k, !.out = r.out \o From(d, k + 1)]
  BY DEF ReadChunk
<1> HIDE DEF d, k, pos, s
<1>4. From(d, k + 1) = SubSeq(plain, pos + k + 1, pos + n)
  <2>0. d \in Seq(S) /\ Len(d) = n
    <3>1. \A i \in 1 .. n : plain[pos + i] \in S
      BY <1>0, ElementOfSeq
    <3> QED BY <1>0, <1>1, <3>1
  <2> DEFINE t == SubSeq(d, k + 1, n)
             u == SubSeq(plain, pos + k + 1, pos + n)
  <2>1. t \in Seq(S) /\ Len(t) = n - k /\ \A i \in 1 .. n - k : t[i] = d[k + i]
    <3>1. \A i \in k + 1 .. n : d[i] \in S
      BY <1>0, <1>2, <2>0, ElementOfSeq
    <3>2. /\ t \in Seq(S) /\ Len(t) = IF k + 1 <= n THEN n - (k + 1) + 1 ELSE 0
          /\ \A i \in 1 .. n - (k + 1) + 1 : t[i] = d[k + 1 + i - 1]
      BY <1>0, <1>2, <3>1, SubSeqProperties
    <3>3. n - (k + 1) + 1 = n - k /\ \A i \in 1 .. n - k : k + 1 + i - 1 = k + i
      BY <1>0, <1>2
    <3> HIDE DEF t
    <3> QED BY <1>0, <1>2, <3>2, <3>3
  <2>2. u \in Seq(S) /\ Len(u) = n - k /\ \A i \in 1 .. n - k : u[i] = plain[pos + k + i]
    <3> DEFINE m == pos + k + 1
               e == pos + n
    <3>1. m \in Nat /\ m > 0 /\ e \in Nat /\ e =< Len(plain) /\ e - m + 1 = n - k
      BY <1>0, <1>2
    <3>2. \A i \in 1 .. n - k : m + i - 1 = pos + k + i
      BY <1>0, <1>2
    <3> HIDE DEF m, e
    <3>3. /\ SubSeq(plain, m, e) \in Seq(S) /\ Len(SubSeq(plain, m, e)) = IF m =< e THEN e - m + 1 ELSE 0
          /\ \A i \in 1 .. e - m + 1 : SubSeq(plain, m, e)[i] = plain[m + i - 1]
      BY <1>0, <3>1, PlainSlice
    <3>4. u = SubSeq(plain, m, e)
      BY DEF u, m, e
    <3> HIDE DEF u
    <3>5. u \in Seq(S) /\ \A i \in 1 .. n - k : u[i] = plain[m + i - 1]
      BY <3>1, <3>3, <3>4
    <3>6. Len(u) = n - k
      <4>1. e - m + 1 = n - k /\ n - k >= 0
        BY <1>0, <1>2, <3>1
      <4>2. Len(u) = IF m =< e THEN e - m + 1 ELSE 0
        BY <3>3, <3>4
      <4>3. ~ (m =< e) => e - m + 1 =< 0
        BY <3>1
      <4>4. n - k \in Int
        BY <1>0, <1>2
      <4> HIDE DEF m, e, k
      <4> QED BY <3>1, <4>1, <4>2, <4>3, <4>4
    <3> QED BY <3>2, <3>5, <3>6
  <2> HIDE DEF t, u
  <2>3. \A i \in 1 .. n - k : t[i] = u[i]
    <3> TAKE i \in 1 .. n - k
    <3>1. k + i \in 1 .. n /\ pos + (k + i) = pos + k + i
      BY <1>0, <1>2
    <3>2. d[k + i] = plain[pos + (k + i)]
      BY <1>1, <3>1
    <3> QED BY <2>1, <2>2, <3>1, <3>2
  <2>4. t = u
    BY <2>1, <2>2, <2>3, SeqEqual
  <2> QED BY <2>0, <2>4 DEF From, t, u
<1>5. r.out \o From(d, k + 1) = SubSeq(plain, start + 1, pos + n)
  <2>1. CASE start =< pos
    <3>1. k = 0
      BY <1>0, <1>2, <2>1
    <3>2. start + 1 \in 1 .. Len(plain) + 1 /\ pos \in (start + 1) - 1 .. Len(plain) /\ pos + n \in pos .. Len(plain)
      BY <1>0, <2>1
    <3>3. SubSeq(plain, start + 1, pos) \o SubSeq(plain, pos + 1, pos + n) = SubSeq(plain, start + 1, pos + n)
      BY <1>0, <3>2, ConcatAdjacentSubSeq
    <3>4. pos + k + 1 = pos + 1
      BY <1>0, <3>1
    <3> QED BY <1>0, <1>4, <3>3, <3>4
  <2>2. CASE pos < start /\ start =< pos + n
    <3>1. pos + k + 1 = start + 1
      BY <1>0, <1>2, <2>2
    <3>2. r.out = <<>>
      BY <1>0, <2>2, SubSeqEmpty
    <3>3. From(d, k + 1) = SubSeq(plain, start + 1, pos + n)
      BY <1>4, <3>1
    <3>4. From(d, k + 1) \in Seq(S)
      <4>1. start + 1 \in Nat /\ start + 1 > 0 /\ pos + n \in Nat
        BY <1>0
      <4>2. SubSeq(plain, start + 1, pos + n) \in Seq(S)
        BY <1>0, <4>1, PlainSlice
      <4> QED BY <3>3, <4>2
    <3> QED BY <3>2, <3>3, <3>4, ConcatEmptySeq
  <2>3. CASE pos + n < start
    <3>1. k = n
      BY <1>0, <1>2, <2>3
    <3>2. r.out = <<>>
      BY <1>0, <2>3, SubSeqEmpty
    <3>3. pos + k + 1 \in Int /\ pos + n \in Int /\ pos + n < pos + k + 1
      BY <1>0, <3>1
    <3>4. From(d, k + 1) = <<>>
      BY <1>4, <3>3, SubSeqEmpty
    <3>5. SubSeq(plain, start + 1, pos + n) = <<>>
      BY <1>0, <2>3, SubSeqEmpty
    <3>6. <<>> \o <<>> = <<>>
      BY EmptySeq, ConcatEmptySeq
    <3> QED BY <3>2, <3>4, <3>5, <3>6
  <2> QED BY <1>0, <2>1, <2>2, <2>3, SMTT(60)
<1>6. SubSeq(plain, start + 1, pos + n) \in Seq(S)
  <2>1. start + 1 \in Nat /\ start + 1 > 0 /\ pos + n \in Nat
    BY <1>0
  <2> QED BY <1>0, <2>1, PlainSlice
<1>7. r.skip - k = IF pos + n < start THEN start - (pos + n) ELSE 0
  BY <1>0, <1>2
<1>8. r.skip - k \in Nat /\ r.skip - k =< r.skip
  BY <1>0, <1>2
<1>9. r \in [position : Nat, from : Nat, end : Int, skip : Nat, out : Seq(S)]
  BY DEF Reading, S
<1>10. /\ s \in [position : Nat, from : Nat, end : Int, skip : Nat, out : Seq(S)]
       /\ s.position = pos + n /\ s.from = r.from /\ s.end = r.end /\ s.skip = r.skip - k
       /\ s.out = SubSeq(plain, start + 1, pos + n)
  <2> DEFINE o == SubSeq(plain, start + 1, pos + n)
             e == pos + n
             x == r.skip - k
  <2>1. o \in Seq(S) /\ e \in Nat /\ x \in Nat
    BY <1>0, <1>6, <1>8
  <2>2. s = [r EXCEPT !.position = e, !.skip = x, !.out = o]
    BY <1>3, <1>5
  <2> HIDE DEF o, e, x
  <2>3. /\ s \in [position : Nat, from : Nat, end : Int, skip : Nat, out : Seq(S)]
        /\ s.position = e /\ s.from = r.from /\ s.end = r.end /\ s.skip = x /\ s.out = o
    BY <1>9, <2>1, <2>2
  <2> QED BY <2>3 DEF o, e, x
<1>11. Reading(blob, plain, start, s)
  <2>1. /\ start =< r.end + 1 /\ r.from =< start /\ r.from =< pos /\ (blob.iv # <<>> => r.from % Block = 0)
        /\ r.end + 1 =< Len(plain) /\ r.skip < Block /\ r.from \in Nat
    BY DEF Reading, pos
  <2>2. /\ s \in [position : Nat, from : Nat, end : Int, skip : Nat, out : Seq(Symbol)]
        /\ start \in Nat /\ start =< s.end + 1
        /\ s.from =< start /\ (blob.iv # <<>> => s.from % Block = 0)
        /\ s.end + 1 =< Len(plain) /\ s.out = SubSeq(plain, start + 1, s.position)
    BY <1>0, <1>10, <2>1 DEF S
  <2>3. /\ s.from =< s.position /\ s.position =< s.end + 1
        /\ s.skip = (IF s.position < start THEN start - s.position ELSE 0) /\ s.skip < Block
    BY <1>0, <1>7, <1>8, <1>10, <2>1, SMTT(60)
  <2> QED BY <2>2, <2>3 DEF Reading
<1> QED BY <1>10, <1>11 DEF s, pos

-----------------------------------------------------------------------------
\* What the parser keeps are symbols, whatever it has met.
Parser(p) ==
  p \in [state : {"header", "data", "terminator", "done", "malformed", "mismatch"},
         pending : Seq(Symbol), remaining : Nat, final : BOOLEAN, signed : BOOLEAN,
         signature : {p.signature}, chunk : Seq(Symbol), chain : {p.chain}, out : Seq(Symbol)]

\* What is left of a sequence is one.
LEMMA FromIsSequence ==
  ASSUME NEW S, NEW s \in Seq(S), NEW i \in Nat \ {0}
  PROVE  From(s, i) \in Seq(S)
<1>1. Len(s) \in Nat
  OBVIOUS
<1>2. SubSeq(s, i, Len(s)) \in Seq(S)
  BY <1>1, PlainSlice
<1> QED BY <1>2 DEF From

\* A new parser has pushed nothing.
LEMMA ParserStarts ==
  ASSUME NEW signed \in BOOLEAN
  PROVE  Parser(NewParser(signed)) /\ NewParser(signed).out = <<>>
<1>1. <<>> \in Seq(Symbol)
  BY EmptySeq
<1> QED BY <1>1 DEF Parser, NewParser

\* Bytes that arrive are appended.
LEMMA ParserIsFed ==
  ASSUME NEW p, Parser(p), NEW piece \in Seq(Symbol)
  PROVE  /\ Parser([p EXCEPT !.out = @ \o piece])
         /\ Parser([p EXCEPT !.pending = @ \o piece])
<1>1. p.out \o piece \in Seq(Symbol) /\ p.pending \o piece \in Seq(Symbol)
  BY ConcatProperties DEF Parser
<1> DEFINE x == p.out \o piece
           y == p.pending \o piece
<1> HIDE DEF x, y
<1>2. Parser([p EXCEPT !.out = x])
  BY <1>1 DEF Parser, x
<1>3. Parser([p EXCEPT !.pending = y])
  BY <1>1 DEF Parser, y
<1> QED BY <1>2, <1>3 DEF x, y

\* consumeHeader keeps the parser what it is.
LEMMA HeadersAreConsumed ==
  ASSUME NEW p, Parser(p)
  PROVE  Parser(ConsumeHeader(p))
<1> DEFINE end == LineEnd(p.pending)
           header == SubSeq(p.pending, 1, end - 1)
           found == Signatures(header)
<1>0. p.pending \in Seq(Symbol) /\ Len(p.pending) \in Nat
  BY DEF Parser
<1>1. end # 0 => end \in 1 .. Len(p.pending) - 1
  BY DEF LineEnd
<1> HIDE DEF end
<1>2. CASE end = 0 \/ header = <<>> \/ header[1].is # "size" \/ (p.signed /\ found = <<>>)
  <2>1. ConsumeHeader(p) = p \/ ConsumeHeader(p) = [p EXCEPT !.state = "malformed"]
    BY <1>2 DEF ConsumeHeader, Fail, end
  <2> QED BY <2>1 DEF Parser
<1>3. CASE ~ (end = 0 \/ header = <<>> \/ header[1].is # "size" \/ (p.signed /\ found = <<>>))
  <2>1. end - 1 \in Nat /\ end - 1 =< Len(p.pending) /\ end + 2 \in Nat \ {0}
    BY <1>0, <1>1, <1>3, SMTT(60)
  <2>2. header \in Seq(Symbol)
    BY <1>0, <2>1, PlainSlice
  <2>3. header[1] \in Symbol /\ header[1].is = "size"
    <3>1. 1 \in 1 .. Len(header)
      BY <1>3, <2>2
    <3> HIDE DEF header
    <3> QED BY <1>3, <2>2, <3>1, ElementOfSeq
  <2> HIDE DEF header, found
  <2>4. header[1].n \in Nat
    BY <2>3 DEF Symbol, Byte, CR, LF
  <2> DEFINE size == header[1].n
             rest == From(p.pending, end + 2)
             state == IF size = 0 THEN "terminator" ELSE "data"
  <2>5. rest \in Seq(Symbol) /\ <<>> \in Seq(Symbol)
    BY <1>0, <2>1, FromIsSequence, EmptySeq
  <2>6. ConsumeHeader(p) = [p EXCEPT !.pending = rest, !.remaining = size, !.final = size = 0,
                                     !.signature = found, !.chunk = <<>>, !.state = state]
    BY <1>3 DEF ConsumeHeader, end, header, found
  <2>7. state \in {"terminator", "data"} /\ (size = 0) \in BOOLEAN
    OBVIOUS
  <2> HIDE DEF rest, size, state
  <2> DEFINE q == ConsumeHeader(p)
  <2>8. /\ q \in [state : {"header", "data", "terminator", "done", "malformed", "mismatch"},
                   pending : Seq(Symbol), remaining : Nat, final : BOOLEAN, signed : BOOLEAN,
                   signature : {found}, chunk : Seq(Symbol), chain : {p.chain}, out : Seq(Symbol)]
    BY <2>4, <2>5, <2>6, <2>7 DEF Parser, size
  <2>9. q.signature = found /\ q.chain = p.chain
    BY <2>8
  <2> QED BY <2>8, <2>9 DEF Parser
<1> QED BY <1>2, <1>3

\* verifyChunk keeps the parser what it is and pushes nothing.
LEMMA ChunksAreVerified ==
  ASSUME NEW p, Parser(p), NEW next \in {"header", "done"}
  PROVE  Parser(VerifyChunk(p, next)) /\ VerifyChunk(p, next).out = p.out
<1> DEFINE q == VerifyChunk(p, next)
<1>1. \/ q = [p EXCEPT !.state = next]
      \/ q = [p EXCEPT !.state = "mismatch"]
      \/ q = [p EXCEPT !.state = next, !.chain = p.signature[1].over]
  BY DEF VerifyChunk
<1> HIDE DEF q
<1>2. CASE q = [p EXCEPT !.state = next] \/ q = [p EXCEPT !.state = "mismatch"]
  BY <1>2 DEF Parser, q
<1>3. CASE q = [p EXCEPT !.state = next, !.chain = p.signature[1].over]
  <2> DEFINE over == p.signature[1].over
  <2> HIDE DEF over
  <2>1. q = [p EXCEPT !.state = next, !.chain = over]
    BY <1>3 DEF over
  <2>2. q \in [state : {"header", "data", "terminator", "done", "malformed", "mismatch"},
               pending : Seq(Symbol), remaining : Nat, final : BOOLEAN, signed : BOOLEAN,
               signature : {p.signature}, chunk : Seq(Symbol), chain : {over}, out : Seq(Symbol)]
        /\ q.out = p.out
    BY <2>1 DEF Parser
  <2>3. q.signature = p.signature /\ q.chain = over
    BY <2>2
  <2>4. Parser(q) /\ q.out = p.out
    BY <2>2, <2>3 DEF Parser
  <2> QED BY <2>4 DEF q
<1> QED BY <1>1, <1>2, <1>3

\* One turn of consume keeps the parser what it is.
LEMMA ParserGoesOn ==
  ASSUME NEW p, Parser(p)
  PROVE  Parser(ConsumeOnce(p))
<1>0. p.pending \in Seq(Symbol) /\ Len(p.pending) \in Nat /\ p.remaining \in Nat
  BY DEF Parser
<1>1. CASE p.state = "header"
  BY <1>1, HeadersAreConsumed DEF ConsumeOnce
<1>2. CASE p.state = "data"
  <2> DEFINE take == IF p.remaining < Len(p.pending) THEN p.remaining ELSE Len(p.pending)
             data == SubSeq(p.pending, 1, take)
             rest == From(p.pending, take + 1)
             chunk == p.chunk \o data
             out == p.out \o data
             left == p.remaining - take
             state == IF take = p.remaining THEN "terminator" ELSE "data"
  <2>1. take \in Nat /\ take =< Len(p.pending) /\ left \in Nat /\ take + 1 \in Nat \ {0}
    BY <1>0
  <2> HIDE DEF take
  <2>2. data \in Seq(Symbol) /\ rest \in Seq(Symbol)
    BY <1>0, <2>1, PlainSlice, FromIsSequence
  <2> HIDE DEF data
  <2>3. chunk \in Seq(Symbol) /\ out \in Seq(Symbol)
    BY <2>2, ConcatProperties DEF Parser
  <2>4. ConsumeOnce(p) = [p EXCEPT !.pending = rest, !.remaining = left, !.chunk = chunk, !.out = out, !.state = state]
    BY <1>2 DEF ConsumeOnce, ConsumeData, take, data
  <2>5. state \in {"terminator", "data"}
    OBVIOUS
  <2> HIDE DEF rest, left, chunk, out, state
  <2> QED BY <2>1, <2>2, <2>3, <2>4, <2>5 DEF Parser
<1>3. CASE p.state = "terminator"
  <2> DEFINE rest == From(p.pending, 3)
             q == [p EXCEPT !.pending = rest]
             next == IF p.final THEN "done" ELSE "header"
  <2>1. rest \in Seq(Symbol)
    BY <1>0, FromIsSequence
  <2> HIDE DEF rest
  <2>2. Parser(q)
    BY <2>1 DEF Parser
  <2>3. ConsumeOnce(p) = p \/ ConsumeOnce(p) = [p EXCEPT !.state = "malformed"] \/ ConsumeOnce(p) = VerifyChunk(q, next)
    BY <1>3 DEF ConsumeOnce, ConsumeTerminator, Fail, rest
  <2>4. next \in {"header", "done"}
    OBVIOUS
  <2> HIDE DEF q, next
  <2>5. Parser(VerifyChunk(q, next))
    BY <2>2, <2>4, ChunksAreVerified
  <2>6. Parser([p EXCEPT !.state = "malformed"])
    BY DEF Parser
  <2> QED BY <2>3, <2>5, <2>6
<1>4. CASE p.state = "done"
  <2>1. <<>> \in Seq(Symbol)
    BY EmptySeq
  <2>2. ConsumeOnce(p) = [p EXCEPT !.pending = <<>>]
    BY <1>4 DEF ConsumeOnce
  <2> QED BY <2>1, <2>2 DEF Parser
<1>5. CASE p.state \notin {"header", "data", "terminator", "done"}
  BY <1>5 DEF ConsumeOnce
<1> QED BY <1>1, <1>2, <1>3, <1>4, <1>5

\* _flush keeps the parser what it is.
LEMMA ParserEnds ==
  ASSUME NEW p, Parser(p)
  PROVE  Parser(Flush(p))
<1> DEFINE q == IF p.state = "terminator" /\ p.final /\ p.pending = <<>> THEN VerifyChunk(p, "done") ELSE p
<1>1. Parser(q)
  BY ChunksAreVerified
<1>2. Flush(p) = q \/ Flush(p) = [q EXCEPT !.state = "malformed"]
  BY DEF Flush, Fail
<1> HIDE DEF q
<1>3. Parser([q EXCEPT !.state = "malformed"])
  BY <1>1 DEF Parser
<1> QED BY <1>1, <1>2, <1>3

-----------------------------------------------------------------------------
\* The bodies of a client.

\* A sequence of sequences is put together one after the other.
LEMMA FlattenSteps ==
  ASSUME NEW D, NEW s \in Seq(Seq(D))
  PROVE  \E f \in [0 .. Len(s) -> Seq(D)] :
           /\ f[0] = <<>>
           /\ \A i \in 1 .. Len(s) : f[i] = f[i - 1] \o s[i]
           /\ \A i \in 0 .. Len(s) : Ext!FlattenSeq(SubSeq(s, 1, i)) = f[i]
<1> DEFINE N == Len(s)
           g == [i \in 1 .. N |-> [x \in Seq(D) |-> x \o s[i]]]
<1>0. N \in Nat /\ \A i \in 1 .. N : s[i] \in Seq(D)
  BY ElementOfSeq
<1> HIDE DEF N
<1>1. g \in [1 .. N -> [Seq(D) -> Seq(D)]]
  <2>1. \A i \in 1 .. N : \A x \in Seq(D) : x \o s[i] \in Seq(D)
    BY <1>0, ConcatProperties
  <2> QED BY <2>1
<1>2. PICK f \in [0 .. N -> Seq(D)] : f[0] = <<>> /\ \A i \in 1 .. N : f[i] = g[i][f[i - 1]]
  <2>1. <<>> \in Seq(D)
    BY EmptySeq
  <2>2. Recipe(Seq(D), N, <<>>, g)
    BY <1>0, <1>1, <2>1 DEF Recipe
  <2> HIDE DEF g
  <2>3. Recurs(Seq(D), N, <<>>, g)
    BY <2>2, RecursionIn
  <2> QED BY <2>3 DEF Recurs
<1>3. ASSUME NEW i \in 1 .. N PROVE f[i] = f[i - 1] \o s[i]
  <2>1. i - 1 \in 0 .. N
    BY <1>0
  <2>2. f[i - 1] \in Seq(D)
    BY <1>2, <2>1
  <2>3. f[i] = g[i][f[i - 1]] /\ g[i] = [x \in Seq(D) |-> x \o s[i]]
    BY <1>2
  <2> HIDE DEF g
  <2> QED BY <2>2, <2>3
<1>4. ASSUME NEW i \in 0 .. N PROVE Ext!FlattenSeq(SubSeq(s, 1, i)) = f[i]
  <2> DEFINE t == SubSeq(s, 1, i)
             F(v) == v = [j \in 1 .. Len(t) |-> IF j = 1 THEN t[j] ELSE v[j - 1] \o t[j]]
             u == CHOOSE v : F(v)
  <2>1. Len(t) = i /\ t \in Seq(Seq(D)) /\ \A j \in 1 .. i : t[j] = s[j]
    <3>1. /\ SubSeq(s, 1, i) \in Seq(Seq(D))
          /\ Len(SubSeq(s, 1, i)) = IF 1 =< i THEN i - 1 + 1 ELSE 0
          /\ \A j \in 1 .. i - 1 + 1 : SubSeq(s, 1, i)[j] = s[1 + j - 1]
      BY <1>0, PlainSlice DEF N
    <3> QED BY <1>0, <3>1
  <2>2. CASE i = 0
    <3>1. Len(t) = 0
      BY <2>1, <2>2
    <3>2. t = <<>>
      BY <2>1, <3>1, EmptySeq
    <3>3. Ext!FlattenSeq(t) = t
      <4> HIDE DEF t
      <4> QED BY <3>1 DEF Ext!FlattenSeq
    <3> QED BY <1>2, <2>2, <3>2, <3>3
  <2>3. CASE i # 0
    <3> HIDE DEF t
    <3>0. i \in Nat /\ i > 0
      BY <1>0, <2>3
    <3>1. Ext!FlattenSeq(t) = u[i]
      BY <2>1, <3>0 DEF Ext!FlattenSeq
    <3> DEFINE h == [j \in 1 .. i |-> f[j]]
    <3>2. F(h)
      <4>1. ASSUME NEW j \in 1 .. i
            PROVE  h[j] = IF j = 1 THEN t[j] ELSE h[j - 1] \o t[j]
        <5>0. j \in 1 .. N
          BY <1>0
        <5>1. h[j] = f[j] /\ t[j] = s[j] /\ f[j] = f[j - 1] \o s[j]
          BY <1>3, <2>1, <5>0
        <5>2. CASE j = 1
          <6>0. j - 1 = 0
            BY <5>2
          <6>1. s[1] \in Seq(D) /\ f[1] = <<>> \o s[1]
            BY <1>0, <1>2, <5>0, <5>1, <5>2, <6>0
          <6>2. <<>> \o s[1] = s[1]
            BY <6>1, ConcatEmptySeq
          <6> QED BY <5>1, <5>2, <6>1, <6>2
        <5>3. CASE j # 1
          <6>1. j - 1 \in 1 .. i
            BY <1>0, <5>3
          <6> QED BY <5>1, <5>3, <6>1
        <5> QED BY <5>2, <5>3
      <4> HIDE DEF h
      <4>2. DOMAIN h = 1 .. i /\ h = [j \in 1 .. i |-> h[j]]
        BY DEF h
      <4>3. h = [j \in 1 .. i |-> IF j = 1 THEN t[j] ELSE h[j - 1] \o t[j]]
        BY <4>1, <4>2
      <4> QED BY <2>1, <4>3
    <3>3. F(u)
      BY <3>2
    <3> HIDE DEF u
    <3>4. \A j \in 1 .. i : u[j] = IF j = 1 THEN t[j] ELSE u[j - 1] \o t[j]
      BY <2>1, <3>3
    <3> DEFINE T == {j \in Nat : 1 =< j /\ j =< i => u[j] = f[j]}
    <3>5. 0 \in T /\ T \in SUBSET Nat
      OBVIOUS
    <3>6. ASSUME NEW j \in Nat, j < i, j \in T PROVE j + 1 \in T
      <4>1. j + 1 \in 1 .. i /\ j + 1 \in 1 .. N /\ (j + 1) - 1 = j
        BY <1>0, <3>6
      <4>2. f[j + 1] = f[j] \o s[j + 1] /\ t[j + 1] = s[j + 1]
        BY <1>3, <2>1, <4>1
      <4>3. CASE j = 0
        <5>0. j + 1 = 1
          BY <4>3
        <5>1. s[1] \in Seq(D) /\ f[1] = <<>> \o s[1] /\ u[1] = s[1]
          BY <1>0, <1>2, <3>4, <4>1, <4>2, <4>3, <5>0
        <5>2. <<>> \o s[1] = s[1]
          BY <5>1, ConcatEmptySeq
        <5> QED BY <4>3, <5>1, <5>2
      <4>4. CASE j # 0
        <5>0. 1 =< j /\ j =< i /\ j + 1 # 1
          BY <1>0, <3>6, <4>4
        <5>1. u[j] = f[j]
          BY <3>6, <5>0
        <5>2. u[j + 1] = u[(j + 1) - 1] \o t[j + 1]
          BY <3>4, <4>1, <5>0
        <5>3. u[j + 1] = f[j] \o s[j + 1]
          BY <4>1, <4>2, <5>1, <5>2
        <5>4. u[j + 1] = f[j + 1]
          BY <4>2, <5>3
        <5> QED BY <5>4
      <4> QED BY <4>3, <4>4
    <3>7. \A j \in 0 .. i : j \in T
      <4> HIDE DEF T
      <4> QED BY <3>0, <3>5, <3>6, CountUp
    <3>8. i \in 0 .. i /\ 1 =< i /\ i =< i
      BY <3>0
    <3>9. u[i] = f[i]
      BY <3>7, <3>8
    <3> QED BY <3>1, <3>9 DEF t
  <2> QED BY <2>2, <2>3
<1> QED BY <1>2, <1>3, <1>4 DEF N

\* One sequence after the other.
LEMMA OneAfterTheOther ==
  ASSUME NEW D, NEW x \in Seq(D), NEW y \in Seq(D)
  PROVE  /\ x \o y \in Seq(D) /\ Len(x \o y) = Len(x) + Len(y) /\ Len(x) \in Nat /\ Len(y) \in Nat
         /\ \A j \in 1 .. Len(x) : (x \o y)[j] = x[j]
         /\ \A j \in 1 .. Len(y) : (x \o y)[Len(x) + j] = y[j]
<1>1. /\ x \o y \in Seq(D) /\ Len(x \o y) = Len(x) + Len(y) /\ Len(x) \in Nat /\ Len(y) \in Nat
      /\ \A j \in 1 .. Len(x) + Len(y) : (x \o y)[j] = IF j =< Len(x) THEN x[j] ELSE y[j - Len(x)]
  BY ConcatProperties
<1>2. ASSUME NEW j \in 1 .. Len(y) PROVE (x \o y)[Len(x) + j] = y[j]
  <2>1. Len(x) + j \in 1 .. Len(x) + Len(y) /\ ~(Len(x) + j =< Len(x)) /\ (Len(x) + j) - Len(x) = j
    BY <1>1
  <2>2. (x \o y)[Len(x) + j] = y[(Len(x) + j) - Len(x)]
    BY <1>1, <2>1
  <2> QED BY <2>1, <2>2
<1> QED BY <1>1, <1>2

\* Where the parts of a sequence end that is put together of them.
Parts(D, s, e) ==
  /\ e \in [0 .. Len(s) -> Nat] /\ e[0] = 0
  /\ Ext!FlattenSeq(s) \in Seq(D) /\ Len(Ext!FlattenSeq(s)) = e[Len(s)]
  /\ \A i \in 0 .. Len(s) : e[i] = Len(Ext!FlattenSeq(SubSeq(s, 1, i))) /\ e[i] =< e[Len(s)]
  /\ \A i \in 1 .. Len(s) :
        /\ s[i] \in Seq(D) /\ e[i] = e[i - 1] + Len(s[i])
        /\ \A j \in 1 .. Len(s[i]) : Ext!FlattenSeq(s)[e[i - 1] + j] = s[i][j]

\* All of a sequence is the sequence.
LEMMA WholeSequence ==
  ASSUME NEW D, NEW s \in Seq(D)
  PROVE  SubSeq(s, 1, Len(s)) = s
<1> DEFINE N == Len(s)
<1>0. N \in Nat
  OBVIOUS
<1>1. /\ SubSeq(s, 1, N) \in Seq(D)
      /\ Len(SubSeq(s, 1, N)) = IF 1 =< N THEN N - 1 + 1 ELSE 0
      /\ \A j \in 1 .. N - 1 + 1 : SubSeq(s, 1, N)[j] = s[1 + j - 1]
  BY <1>0, PlainSlice
<1>2. Len(SubSeq(s, 1, N)) = N /\ \A j \in 1 .. N : SubSeq(s, 1, N)[j] = s[j]
  <2> HIDE DEF N
  <2> QED BY <1>0, <1>1
<1> QED BY <1>1, <1>2, SeqEqual

\* A piece and what is left after it.
LEMMA PrefixAndRest ==
  ASSUME NEW S, NEW s \in Seq(S), NEW n \in 1 .. Len(s)
  PROVE  SubSeq(s, 1, n) \o From(s, n + 1) = s
<1>0. Len(s) \in Nat
  OBVIOUS
<1>1. SubSeq(s, 1, Len(s)) = s
  BY WholeSequence
<1>2. 1 \in 1 .. Len(s) + 1 /\ n \in 1 - 1 .. Len(s) /\ Len(s) \in n .. Len(s)
  BY <1>0
<1>3. SubSeq(s, 1, n) \o SubSeq(s, n + 1, Len(s)) = SubSeq(s, 1, Len(s))
  BY <1>2, ConcatAdjacentSubSeq
<1>4. From(s, n + 1) = SubSeq(s, n + 1, Len(s))
  BY DEF From
<1> QED BY <1>1, <1>3, <1>4, Zenon

\* What is put together has each part in its place.
LEMMA FlattenParts ==
  ASSUME NEW D, NEW s \in Seq(Seq(D))
  PROVE  \E e : Parts(D, s, e)
<1> DEFINE N == Len(s)
<1>0. N \in Nat /\ (\A i \in 1 .. N : s[i] \in Seq(D)) /\ SubSeq(s, 1, N) = s
  <2>1. N \in Nat /\ (\A i \in 1 .. N : s[i] \in Seq(D))
    BY ElementOfSeq
  <2>2. SubSeq(s, 1, Len(s)) = s
    BY WholeSequence
  <2> QED BY <2>1, <2>2
<1>1. PICK f \in [0 .. N -> Seq(D)] :
         /\ f[0] = <<>>
         /\ \A i \in 1 .. N : f[i] = f[i - 1] \o s[i]
         /\ \A i \in 0 .. N : Ext!FlattenSeq(SubSeq(s, 1, i)) = f[i]
  BY FlattenSteps
<1> HIDE DEF N
<1>2. Ext!FlattenSeq(s) = f[N] /\ \A i \in 0 .. N : f[i] \in Seq(D)
  <2>1. N \in 0 .. N
    BY <1>0
  <2>2. Ext!FlattenSeq(SubSeq(s, 1, N)) = f[N]
    BY <1>1, <2>1
  <2> QED BY <1>0, <1>1, <2>2
<1> DEFINE e == [i \in 0 .. N |-> Len(f[i])]
<1>3. e \in [0 .. N -> Nat] /\ e[0] = 0
  <2>1. \A i \in 0 .. N : Len(f[i]) \in Nat
    BY <1>2
  <2>2. Len(f[0]) = 0
    BY <1>1
  <2> QED BY <1>0, <2>1, <2>2
<1>4. ASSUME NEW i \in 1 .. N
      PROVE  /\ e[i] = e[i - 1] + Len(s[i])
             /\ \A j \in 1 .. e[i - 1] : f[i][j] = f[i - 1][j]
             /\ \A j \in 1 .. Len(s[i]) : f[i][e[i - 1] + j] = s[i][j]
  <2>1. i - 1 \in 0 .. N /\ i \in 0 .. N
    BY <1>0
  <2>2. f[i - 1] \in Seq(D) /\ s[i] \in Seq(D) /\ f[i] = f[i - 1] \o s[i]
    BY <1>0, <1>1, <2>1
  <2>3. e[i] = Len(f[i]) /\ e[i - 1] = Len(f[i - 1])
    BY <2>1
  <2> HIDE DEF e
  <2> DEFINE x == f[i - 1]
             y == s[i]
  <2>4. /\ Len(x \o y) = Len(x) + Len(y)
        /\ \A j \in 1 .. Len(x) : (x \o y)[j] = x[j]
        /\ \A j \in 1 .. Len(y) : (x \o y)[Len(x) + j] = y[j]
    <3>1. x \in Seq(D) /\ y \in Seq(D)
      BY <2>2
    <3> HIDE DEF x, y
    <3> QED BY <3>1, OneAfterTheOther
  <2> QED BY <2>2, <2>3, <2>4
<1>5. \A n \in 0 .. N : \A i \in 0 .. n : e[i] =< e[n] /\ \A j \in 1 .. e[i] : f[n][j] = f[i][j]
  <2> DEFINE T == {n \in Nat : n =< N => \A i \in 0 .. n : e[i] =< e[n] /\ \A j \in 1 .. e[i] : f[n][j] = f[i][j]}
  <2>1. 0 \in T /\ T \in SUBSET Nat
    BY <1>0, <1>3
  <2>2. ASSUME NEW n \in Nat, n < N, n \in T PROVE n + 1 \in T
    <3>0. n + 1 \in 1 .. N /\ n \in 0 .. N /\ (n + 1) - 1 = n
      BY <1>0, <2>2
    <3>1. /\ e[n + 1] = e[n] + Len(s[n + 1]) /\ e[n] \in Nat /\ Len(s[n + 1]) \in Nat
          /\ \A j \in 1 .. e[n] : f[n + 1][j] = f[n][j]
      <4>1. Len(s[n + 1]) \in Nat /\ e[n] \in Nat
        BY <1>0, <1>3, <3>0
      <4>2. /\ e[n + 1] = e[(n + 1) - 1] + Len(s[n + 1])
            /\ \A j \in 1 .. e[(n + 1) - 1] : f[n + 1][j] = f[(n + 1) - 1][j]
        BY <1>4, <3>0
      <4> QED BY <3>0, <4>1, <4>2
    <3>2. ASSUME NEW i \in 0 .. n + 1
          PROVE  e[i] =< e[n + 1] /\ \A j \in 1 .. e[i] : f[n + 1][j] = f[i][j]
      <4> HIDE DEF e
      <4>0. e[i] \in Nat
        BY <1>0, <1>3, <3>0
      <4>1. CASE i = n + 1
        BY <1>3, <3>0, <4>0, <4>1
      <4>2. CASE i # n + 1
        <5>1. i \in 0 .. n
          BY <4>2
        <5>2. e[i] =< e[n] /\ \A j \in 1 .. e[i] : f[n][j] = f[i][j]
          BY <2>2, <3>0, <5>1
        <5> QED BY <3>1, <4>0, <5>2
      <4> QED BY <4>1, <4>2
    <3> HIDE DEF e
    <3> QED BY <3>2
  <2>3. \A n \in 0 .. N : n \in T
    <3> HIDE DEF T
    <3> QED BY <1>0, <2>1, <2>2, CountUp
  <2> HIDE DEF e
  <2> QED BY <1>0, <2>3
<1> HIDE DEF e
<1>6. N \in 0 .. N
  BY <1>0
<1>7. ASSUME NEW i \in 1 .. N, NEW j \in 1 .. Len(s[i]) PROVE f[N][e[i - 1] + j] = s[i][j]
  <2>1. i \in 0 .. N /\ i - 1 \in 0 .. N /\ e[i - 1] \in Nat /\ Len(s[i]) \in Nat /\ e[i] = e[i - 1] + Len(s[i])
    BY <1>0, <1>3, <1>4
  <2>2. e[i - 1] + j \in 1 .. e[i]
    BY <2>1
  <2>3. f[N][e[i - 1] + j] = f[i][e[i - 1] + j]
    BY <1>5, <1>6, <2>1, <2>2
  <2> QED BY <1>4, <2>3
<1>8. \A i \in 0 .. N : e[i] = Len(Ext!FlattenSeq(SubSeq(s, 1, i))) /\ e[i] =< e[N]
  BY <1>1, <1>5, <1>6 DEF e
<1>9. Ext!FlattenSeq(s) \in Seq(D) /\ Len(Ext!FlattenSeq(s)) = e[N]
  BY <1>2, <1>6 DEF e
<1>10. \A i \in 1 .. N :
         /\ s[i] \in Seq(D) /\ e[i] = e[i - 1] + Len(s[i])
         /\ \A j \in 1 .. Len(s[i]) : Ext!FlattenSeq(s)[e[i - 1] + j] = s[i][j]
  BY <1>0, <1>2, <1>4, <1>7
<1> QED BY <1>3, <1>8, <1>9, <1>10, ZenonT(60) DEF N, Parts

\* How long a chunk header is.
HeaderLength(signed) == IF signed THEN 4 ELSE 3

\* The ends of lines are bytes.
LEMMA LineEndsAreBytes == CR \in Byte /\ LF \in Byte /\ Byte \subseteq Symbol
BY DEF Byte, Symbol

\* However symbols are grouped, they come in their order.
LEMMA SymbolsInOrder ==
  ASSUME NEW x \in Seq(Symbol), NEW y \in Seq(Symbol), NEW z \in Seq(Symbol)
  PROVE  (x \o y) \o z = x \o (y \o z)
BY ConcatAssociative

\* A header says the size of its chunk and, when it is signed, what is signed.
LEMMA HeadersSaySizes ==
  ASSUME NEW all \in Seq(Seq(Byte)), NEW signed \in BOOLEAN, NEW i \in 1 .. Len(all)
  PROVE  LET h == Header(all, i, signed)
             n == HeaderLength(signed)
         IN /\ h \in Seq(Symbol) /\ Len(h) = n /\ h[1] = Size(Len(all[i]))
            /\ signed => h[2] = Sig(SubSeq(all, 1, i))
            /\ h[n - 1] = CR /\ h[n] = LF
            /\ SubSeq(all, 1, i) \in Seq(Seq(Byte)) /\ all[i] \in Seq(Byte)
<1> DEFINE size == Size(Len(all[i]))
           over == SubSeq(all, 1, i)
           sig == Sig(over)
<1>1. all[i] \in Seq(Byte) /\ Len(all[i]) \in Nat /\ Len(all) \in Nat
  BY ElementOfSeq
<1>2. over \in Seq(Seq(Byte))
  BY <1>1, PlainSlice
<1> HIDE DEF over
<1>3. size \in Symbol /\ sig \in Symbol /\ CR \in Symbol /\ LF \in Symbol
  <2>1. size \in [is : {"size"}, n : Nat] /\ sig \in [is : {"sig"}, over : Seq(Seq(Byte))]
    BY <1>1, <1>2 DEF Size, Sig
  <2>2. CR \in Byte /\ LF \in Byte
    BY LineEndsAreBytes
  <2> QED BY <2>1, <2>2 DEF Symbol
<1> HIDE DEF size, sig
<1> DEFINE x == <<size>>
           y == IF signed THEN <<sig>> ELSE <<>>
           z == <<CR, LF>>
           xy == x \o y
           k == Len(y)
<1>4. Header(all, i, signed) = xy \o z
  BY DEF Header, size, sig, over
<1>5. /\ x \in Seq(Symbol) /\ Len(x) = 1 /\ x[1] = size
      /\ z \in Seq(Symbol) /\ Len(z) = 2 /\ z[1] = CR /\ z[2] = LF
      /\ y \in Seq(Symbol) /\ k = (IF signed THEN 1 ELSE 0) /\ (signed => y[1] = sig)
  <2>1. <<sig>> \in Seq(Symbol) /\ <<>> \in Seq(Symbol) /\ Len(<<sig>>) = 1 /\ Len(<<>>) = 0 /\ <<sig>>[1] = sig
    BY <1>3
  <2>2. x \in Seq(Symbol) /\ Len(x) = 1 /\ x[1] = size
    BY <1>3
  <2>3. z \in Seq(Symbol) /\ Len(z) = 2 /\ z[1] = CR /\ z[2] = LF
    BY <1>3
  <2> QED BY <2>1, <2>2, <2>3
<1> HIDE DEF x, y, z
<1>6. /\ xy \in Seq(Symbol) /\ Len(xy) = 1 + k /\ k \in {0, 1}
      /\ \A j \in 1 .. 1 : xy[j] = x[j]
      /\ \A j \in 1 .. k : xy[1 + j] = y[j]
  <2>1. /\ x \o y \in Seq(Symbol) /\ Len(x \o y) = Len(x) + Len(y)
        /\ \A j \in 1 .. Len(x) : (x \o y)[j] = x[j]
        /\ \A j \in 1 .. Len(y) : (x \o y)[Len(x) + j] = y[j]
    <3>1. x \in Seq(Symbol) /\ y \in Seq(Symbol)
      BY <1>5
    <3> QED BY <3>1, OneAfterTheOther
  <2> QED BY <1>5, <2>1
<1> HIDE DEF xy, k
<1>7. /\ xy \o z \in Seq(Symbol) /\ Len(xy \o z) = 1 + k + 2
      /\ \A j \in 1 .. 1 + k : (xy \o z)[j] = xy[j]
      /\ \A j \in 1 .. 2 : (xy \o z)[1 + k + j] = z[j]
  <2>1. /\ xy \o z \in Seq(Symbol) /\ Len(xy \o z) = Len(xy) + Len(z)
        /\ \A j \in 1 .. Len(xy) : (xy \o z)[j] = xy[j]
        /\ \A j \in 1 .. Len(z) : (xy \o z)[Len(xy) + j] = z[j]
    <3>1. xy \in Seq(Symbol) /\ z \in Seq(Symbol)
      BY <1>5, <1>6
    <3> QED BY <3>1, OneAfterTheOther
  <2> QED BY <1>5, <1>6, <2>1
<1>8. HeaderLength(signed) = 1 + k + 2
  BY <1>5 DEF HeaderLength
<1> DEFINE w == xy \o z
<1> HIDE DEF w
<1>9. /\ w \in Seq(Symbol) /\ Len(w) = 1 + k + 2 /\ w[1] = size /\ (signed => w[2] = sig)
      /\ w[1 + k + 1] = CR /\ w[1 + k + 2] = LF
  <2>1. 1 \in 1 .. 1 /\ 1 \in 1 .. 1 + k /\ 1 \in 1 .. 2 /\ 2 \in 1 .. 2
    BY <1>6
  <2>2. w[1] = size
    BY <1>5, <1>6, <1>7, <2>1 DEF w
  <2>3. signed => w[2] = sig
    <3>1. signed => k = 1 /\ 1 \in 1 .. k /\ 2 \in 1 .. 1 + k /\ 1 + 1 = 2
      BY <1>5
    <3> QED BY <1>5, <1>6, <1>7, <3>1 DEF w
  <2> QED BY <1>5, <1>7, <2>1, <2>2, <2>3 DEF w
<1>10. (1 + k + 2) - 1 = 1 + k + 1
  BY <1>6
<1> QED BY <1>1, <1>2, <1>4, <1>8, <1>9, <1>10 DEF w, size, sig, over

\* Where the frames of a body are: frame i goes from e[i - 1] to e[i].
Laid(all, signed, e) ==
  /\ e \in [0 .. Len(all) -> Nat] /\ e[0] = 0
  /\ \A i \in 0 .. Len(all) : e[i] = EndOf(all, signed, i) /\ e[i] =< e[Len(all)]
  /\ \A i \in 1 .. Len(all) : e[i] = e[i - 1] + HeaderLength(signed) + Len(all[i]) + 2

\* What is in a body where.
Framing(all, signed, e, framed) ==
  /\ Len(framed) = e[Len(all)]
  /\ \A i \in 1 .. Len(all) :
        /\ framed[e[i - 1] + 1] = Size(Len(all[i]))
        /\ signed => framed[e[i - 1] + 2] = Sig(SubSeq(all, 1, i))
        /\ framed[e[i - 1] + HeaderLength(signed) - 1] = CR /\ framed[e[i - 1] + HeaderLength(signed)] = LF
        /\ \A j \in 1 .. Len(all[i]) : framed[e[i - 1] + HeaderLength(signed) + j] = all[i][j]
        /\ framed[e[i] - 1] = CR /\ framed[e[i]] = LF

LEMMA FramesAreLaid ==
  ASSUME NEW all \in Seq(Seq(Byte)), NEW signed \in BOOLEAN
  PROVE  /\ Framed(all, signed) \in Seq(Symbol)
         /\ \E e : Laid(all, signed, e) /\ Framing(all, signed, e, Framed(all, signed))
<1> DEFINE N == Len(all)
           H == HeaderLength(signed)
           h(i) == Header(all, i, signed)
           s == Frames(all, signed)
<1>0. N \in Nat /\ H \in {3, 4}
  BY DEF HeaderLength
<1>1. ASSUME NEW i \in 1 .. N
      PROVE  /\ s[i] = h(i) \o all[i] \o <<CR, LF>> /\ s[i] \in Seq(Symbol)
             /\ Len(all[i]) \in Nat /\ Len(s[i]) = H + Len(all[i]) + 2
             /\ s[i][1] = Size(Len(all[i])) /\ (signed => s[i][2] = Sig(SubSeq(all, 1, i)))
             /\ s[i][H - 1] = CR /\ s[i][H] = LF
             /\ \A j \in 1 .. Len(all[i]) : s[i][H + j] = all[i][j]
             /\ s[i][H + Len(all[i]) + 1] = CR /\ s[i][H + Len(all[i]) + 2] = LF
  <2>1. /\ h(i) \in Seq(Symbol) /\ Len(h(i)) = H /\ h(i)[1] = Size(Len(all[i]))
        /\ (signed => h(i)[2] = Sig(SubSeq(all, 1, i)))
        /\ h(i)[H - 1] = CR /\ h(i)[H] = LF /\ all[i] \in Seq(Byte)
    BY HeadersSaySizes
  <2>2. s[i] = h(i) \o all[i] \o <<CR, LF>>
    BY DEF Frames
  <2> DEFINE x == h(i)
             y == all[i]
             z == <<CR, LF>>
             xy == x \o y
             d == Len(y)
  <2>3. x \in Seq(Symbol) /\ y \in Seq(Symbol) /\ z \in Seq(Symbol)
    <3>1. Byte \subseteq Symbol /\ CR \in Symbol /\ LF \in Symbol
      BY LineEndsAreBytes
    <3>2. y \in Seq(Symbol)
      <4>1. y \in Seq(Byte)
        BY <2>1
      <4> HIDE DEF y
      <4> QED BY <3>1, <4>1
    <3> QED BY <2>1, <3>1, <3>2
  <2>4. Len(z) = 2 /\ z[1] = CR /\ z[2] = LF
    OBVIOUS
  <2>5. s[i] = xy \o z /\ Len(x) = H /\ x[1] = Size(Len(all[i])) /\ (signed => x[2] = Sig(SubSeq(all, 1, i)))
        /\ x[H - 1] = CR /\ x[H] = LF
    BY <2>1, <2>2
  <2> HIDE DEF s, x, y, z, H
  <2>6. /\ xy \in Seq(Symbol) /\ Len(xy) = H + d /\ d \in Nat
        /\ \A j \in 1 .. H : xy[j] = x[j]
        /\ \A j \in 1 .. d : xy[H + j] = y[j]
    <3>1. /\ x \o y \in Seq(Symbol) /\ Len(x \o y) = Len(x) + Len(y)
          /\ \A j \in 1 .. Len(x) : (x \o y)[j] = x[j]
          /\ \A j \in 1 .. Len(y) : (x \o y)[Len(x) + j] = y[j]
      BY <2>3, OneAfterTheOther
    <3>2. d \in Nat
      BY <2>3
    <3> QED BY <2>5, <3>1, <3>2
  <2> HIDE DEF xy, d
  <2>7. /\ xy \o z \in Seq(Symbol) /\ Len(xy \o z) = H + d + 2
        /\ \A j \in 1 .. H + d : (xy \o z)[j] = xy[j]
        /\ \A j \in 1 .. 2 : (xy \o z)[H + d + j] = z[j]
    <3>1. /\ xy \o z \in Seq(Symbol) /\ Len(xy \o z) = Len(xy) + Len(z)
          /\ \A j \in 1 .. Len(xy) : (xy \o z)[j] = xy[j]
          /\ \A j \in 1 .. Len(z) : (xy \o z)[Len(xy) + j] = z[j]
      <4>1. xy \in Seq(Symbol) /\ z \in Seq(Symbol)
        BY <2>3, <2>6
      <4> QED BY <4>1, OneAfterTheOther
    <3> QED BY <2>4, <2>6, <3>1
  <2>8. /\ 1 \in 1 .. H /\ 2 \in 1 .. H /\ H - 1 \in 1 .. H /\ H \in 1 .. H
        /\ \A j \in 1 .. H : j \in 1 .. H + d
        /\ \A j \in 1 .. d : H + j \in 1 .. H + d
        /\ 1 \in 1 .. 2 /\ 2 \in 1 .. 2
    BY <1>0, <2>6
  <2>9. /\ s[i][1] = x[1] /\ s[i][2] = x[2] /\ s[i][H - 1] = x[H - 1] /\ s[i][H] = x[H]
        /\ \A j \in 1 .. d : s[i][H + j] = y[j]
        /\ s[i][H + d + 1] = CR /\ s[i][H + d + 2] = LF
    <3> DEFINE w == xy \o z
    <3>1. s[i] = w
      BY <2>5
    <3>2. /\ \A j \in 1 .. H + d : w[j] = xy[j]
          /\ \A j \in 1 .. 2 : w[H + d + j] = z[j]
      BY <2>7
    <3> HIDE DEF w
    <3>3. \A j \in 1 .. H : w[j] = x[j]
      BY <2>6, <2>8, <3>2
    <3>4. \A j \in 1 .. d : w[H + j] = y[j]
      BY <2>6, <2>8, <3>2
    <3>5. w[H + d + 1] = CR /\ w[H + d + 2] = LF
      BY <2>4, <2>8, <3>2
    <3> QED BY <2>8, <3>1, <3>3, <3>4, <3>5
  <2>10. d = Len(all[i]) /\ y = all[i]
    BY DEF d, y
  <2> QED BY <2>2, <2>5, <2>6, <2>7, <2>9, <2>10 DEF x, y, z
<1>2. s \in Seq(Seq(Symbol)) /\ Len(s) = N
  <2>1. s = [i \in 1 .. N |-> s[i]] /\ \A i \in 1 .. N : s[i] \in Seq(Symbol)
    <3>1. s = [i \in 1 .. N |-> s[i]]
      BY DEF Frames
    <3> HIDE DEF s, h
    <3> QED BY <1>1, <3>1
  <2> HIDE DEF s, N
  <2>2. s \in [1 .. N -> Seq(Symbol)]
    BY <2>1
  <2> QED BY <1>0, <2>2
<1> HIDE DEF s, h, H
<1>3. PICK e \in [0 .. N -> Nat] :
         /\ Ext!FlattenSeq(s) \in Seq(Symbol) /\ Len(Ext!FlattenSeq(s)) = e[N] /\ e[0] = 0
         /\ \A i \in 0 .. N : e[i] = Len(Ext!FlattenSeq(SubSeq(s, 1, i))) /\ e[i] =< e[N]
         /\ \A i \in 1 .. N :
               /\ s[i] \in Seq(Symbol) /\ e[i] = e[i - 1] + Len(s[i])
               /\ \A j \in 1 .. Len(s[i]) : Ext!FlattenSeq(s)[e[i - 1] + j] = s[i][j]
  <2>1. s \in Seq(Seq(Symbol))
    BY <1>2
  <2>2. PICK e : Parts(Symbol, s, e)
    BY <2>1, FlattenParts
  <2>3. Len(s) = N
    BY <1>2
  <2> HIDE DEF N
  <2> QED BY <2>2, <2>3 DEF Parts
<1> DEFINE F == Ext!FlattenSeq(s)
<1>4. Framed(all, signed) = F
  BY DEF Framed, s
<1> HIDE DEF F
<1>5. ASSUME NEW i \in 1 .. N
      PROVE  /\ e[i] = e[i - 1] + H + Len(all[i]) + 2
             /\ F[e[i - 1] + 1] = Size(Len(all[i]))
             /\ signed => F[e[i - 1] + 2] = Sig(SubSeq(all, 1, i))
             /\ F[e[i - 1] + H - 1] = CR /\ F[e[i - 1] + H] = LF
             /\ \A j \in 1 .. Len(all[i]) : F[e[i - 1] + H + j] = all[i][j]
             /\ F[e[i] - 1] = CR /\ F[e[i]] = LF
  <2> DEFINE d == Len(all[i])
             b == e[i - 1]
  <2>0. d \in Nat /\ b \in Nat /\ Len(s[i]) = H + d + 2 /\ e[i] = b + (H + d + 2)
    <3>1. i - 1 \in 0 .. N
      BY <1>0
    <3> QED BY <1>1, <1>3, <3>1
  <2>1. \A j \in 1 .. H + d + 2 : F[b + j] = s[i][j]
    BY <1>3, <2>0 DEF F
  <2> HIDE DEF d, b
  <2>2. /\ 1 \in 1 .. H + d + 2 /\ 2 \in 1 .. H + d + 2 /\ H - 1 \in 1 .. H + d + 2 /\ H \in 1 .. H + d + 2
        /\ \A j \in 1 .. d : H + j \in 1 .. H + d + 2 /\ b + (H + j) = b + H + j
        /\ H + d + 1 \in 1 .. H + d + 2 /\ H + d + 2 \in 1 .. H + d + 2
        /\ b + (H - 1) = b + H - 1 /\ b + (H + d + 1) = e[i] - 1
    BY <1>0, <2>0
  <2>3. /\ F[b + 1] = s[i][1] /\ F[b + 2] = s[i][2] /\ F[b + H - 1] = s[i][H - 1] /\ F[b + H] = s[i][H]
        /\ \A j \in 1 .. d : F[b + H + j] = s[i][H + j]
        /\ F[e[i] - 1] = s[i][H + d + 1] /\ F[e[i]] = s[i][H + d + 2]
    BY <2>0, <2>1, <2>2
  <2>4. /\ s[i][1] = Size(d) /\ (signed => s[i][2] = Sig(SubSeq(all, 1, i)))
        /\ s[i][H - 1] = CR /\ s[i][H] = LF
        /\ \A j \in 1 .. d : s[i][H + j] = all[i][j]
        /\ s[i][H + d + 1] = CR /\ s[i][H + d + 2] = LF
    BY <1>1 DEF d
  <2>5. e[i] = b + H + d + 2
    BY <1>0, <2>0
  <2> QED BY <2>3, <2>4, <2>5 DEF d, b
<1>6. Laid(all, signed, e)
  <2>1. \A i \in 0 .. N : EndOf(all, signed, i) = Len(Ext!FlattenSeq(SubSeq(s, 1, i)))
    BY DEF EndOf, s
  <2> QED BY <1>3, <1>5, <2>1 DEF Laid, H
<1>7. Framing(all, signed, e, F)
  <2>1. Len(F) = e[N]
    BY <1>3 DEF F
  <2>2. \A i \in 1 .. N :
          /\ F[e[i - 1] + 1] = Size(Len(all[i]))
          /\ signed => F[e[i - 1] + 2] = Sig(SubSeq(all, 1, i))
          /\ F[e[i - 1] + H - 1] = CR /\ F[e[i - 1] + H] = LF
          /\ \A j \in 1 .. Len(all[i]) : F[e[i - 1] + H + j] = all[i][j]
          /\ F[e[i] - 1] = CR /\ F[e[i]] = LF
    BY <1>5
  <2> QED BY <2>1, <2>2 DEF Framing, H
<1> QED BY <1>3, <1>4, <1>6, <1>7 DEF F

-----------------------------------------------------------------------------
\* Signed bodies.

\* What a client sends: chunks that say something, and an empty one.
Client(all) == all \in Seq(Seq(Byte)) /\ Len(all) > 0 /\ \A i \in 1 .. Len(all) : all[i] = <<>> <=> i = Len(all)
\* What the first i chunks say.
Told(all, i) == Plain(SubSeq(all, 1, i))

LEMMA ToldByChunks ==
  ASSUME NEW all \in Seq(Seq(Byte))
  PROVE  /\ Told(all, 0) = <<>> /\ Told(all, Len(all)) = Plain(all)
         /\ \A i \in 0 .. Len(all) : Told(all, i) \in Seq(Byte)
         /\ \A i \in 1 .. Len(all) : all[i] \in Seq(Byte) /\ Told(all, i) = Told(all, i - 1) \o all[i]
<1>1. PICK f \in [0 .. Len(all) -> Seq(Byte)] :
           /\ f[0] = <<>>
           /\ \A i \in 1 .. Len(all) : f[i] = f[i - 1] \o all[i]
           /\ \A i \in 0 .. Len(all) : Ext!FlattenSeq(SubSeq(all, 1, i)) = f[i]
  BY FlattenSteps
<1>2. Len(all) \in Nat /\ SubSeq(all, 1, Len(all)) = all /\ \A i \in 1 .. Len(all) : all[i] \in Seq(Byte)
  BY WholeSequence, ElementOfSeq
<1>3. \A i \in 0 .. Len(all) : Told(all, i) = f[i]
  BY <1>1 DEF Told, Plain
<1>4. \A i \in 1 .. Len(all) : i \in 0 .. Len(all) /\ i - 1 \in 0 .. Len(all)
  BY <1>2
<1>5. 0 \in 0 .. Len(all)
  BY <1>2
<1>6. Told(all, Len(all)) = Plain(all)
  BY <1>2 DEF Told
<1>7. \A i \in 1 .. Len(all) : Told(all, i) = Told(all, i - 1) \o all[i]
  BY <1>1, <1>3, <1>4
<1> QED BY <1>1, <1>2, <1>3, <1>5, <1>6, <1>7

\* The empty chunk at the end says nothing.
LEMMA EndSaysNothing ==
  ASSUME NEW chunks \in Seq(Seq(Byte) \ {<<>>})
  PROVE  /\ Client(AllOf(chunks)) /\ Plain(AllOf(chunks)) = Plain(chunks)
         /\ Plain(chunks) \in Seq(Byte)
<1> DEFINE all == AllOf(chunks)
           N == Len(chunks)
<1>1. /\ N \in Nat /\ chunks \in Seq(Seq(Byte)) /\ <<>> \in Seq(Byte)
      /\ \A i \in 1 .. N : chunks[i] \in Seq(Byte) \ {<<>>}
  BY EmptySeq, ElementOfSeq
<1>2. all \in Seq(Seq(Byte)) /\ Len(all) = N + 1 /\ all[N + 1] = <<>> /\ \A i \in 1 .. N : all[i] = chunks[i]
  BY <1>1, AppendProperties DEF AllOf
<1> HIDE DEF all
<1>3. Client(all)
  <2>1. ASSUME NEW i \in 1 .. Len(all) PROVE all[i] = <<>> <=> i = Len(all)
    <3>1. CASE i = N + 1
      BY <1>2, <3>1
    <3>2. CASE i # N + 1
      <4>1. i \in 1 .. N
        BY <1>1, <1>2, <3>2
      <4> QED BY <1>1, <1>2, <3>2, <4>1
    <3> QED BY <3>1, <3>2
  <2> QED BY <1>1, <1>2, <2>1 DEF Client
<1>4. Told(all, N) = Plain(chunks)
  <2>1. /\ SubSeq(all, 1, N) \in Seq(Seq(Byte)) /\ Len(SubSeq(all, 1, N)) = N
        /\ \A i \in 1 .. N : SubSeq(all, 1, N)[i] = all[i]
    <3>1. /\ SubSeq(all, 1, N) \in Seq(Seq(Byte))
          /\ Len(SubSeq(all, 1, N)) = IF 1 =< N THEN N - 1 + 1 ELSE 0
          /\ \A i \in 1 .. N - 1 + 1 : SubSeq(all, 1, N)[i] = all[1 + i - 1]
      <4> HIDE DEF N
      <4>1. N =< Len(all)
        BY <1>1, <1>2
      <4> QED BY <1>1, <1>2, <4>1, PlainSlice
    <3> HIDE DEF N
    <3> QED BY <1>1, <3>1
  <2>2. SubSeq(all, 1, N) = chunks
    BY <1>1, <1>2, <2>1, SeqEqual
  <2> QED BY <2>2 DEF Told
<1>5. Plain(all) = Told(all, N) \o <<>> /\ Told(all, N) \in Seq(Byte)
  <2>1. N + 1 \in 1 .. Len(all) /\ (N + 1) - 1 = N /\ N \in 0 .. Len(all) /\ Len(all) = N + 1
    BY <1>1, <1>2
  <2> HIDE DEF N
  <2> QED BY <1>2, <2>1, ToldByChunks
<1>6. Told(all, N) \o <<>> = Told(all, N)
  BY <1>5, ConcatEmptySeq
<1> QED BY <1>3, <1>4, <1>5, <1>6 DEF all

\* A signature that continues one says which chunk it goes with.
LEMMA PrefixesGoOn ==
  ASSUME NEW all \in Seq(Seq(Byte)), NEW k \in 0 .. Len(all), NEW n \in 0 .. Len(all), NEW chunk \in Seq(Symbol),
         SubSeq(all, 1, n) = Append(SubSeq(all, 1, k), chunk)
  PROVE  n = k + 1 /\ chunk = all[k + 1]
<1> DEFINE x == SubSeq(all, 1, k)
           y == SubSeq(all, 1, n)
           D == Seq(Byte) \cup Seq(Symbol)
<1>0. Len(all) \in Nat /\ k \in Nat /\ n \in Nat
  OBVIOUS
<1>1. x \in Seq(Seq(Byte)) /\ Len(x) = k
  BY <1>0, PlainSlice
<1>2. Len(y) = n /\ \A i \in 1 .. n : y[i] = all[i]
  <2>1. /\ Len(y) = IF 1 =< n THEN n - 1 + 1 ELSE 0
        /\ \A i \in 1 .. n - 1 + 1 : y[i] = all[1 + i - 1]
    BY <1>0, PlainSlice
  <2> HIDE DEF y
  <2> QED BY <1>0, <2>1
<1> HIDE DEF x, y
<1>3. x \in Seq(D)
  BY <1>1
<1>4. Len(Append(x, chunk)) = k + 1 /\ Append(x, chunk)[k + 1] = chunk
  <2> HIDE DEF D
  <2>1. chunk \in D
    BY DEF D
  <2> QED BY <1>1, <1>3, <2>1, AppendProperties
<1>5. y = Append(x, chunk)
  BY DEF x, y
<1> QED BY <1>0, <1>2, <1>4, <1>5

\* The signature of a header is the first that it has.
LEMMA SignatureIsFirst ==
  ASSUME NEW header \in Seq(Symbol)
  PROVE  \/ Signatures(header) = <<>> /\ \A i \in 2 .. Len(header) : header[i].is # "sig"
         \/ \E i \in 2 .. Len(header) :
               /\ header[i].is = "sig" /\ Signatures(header) = <<header[i]>>
               /\ \A j \in 2 .. Len(header) : header[j].is = "sig" => i =< j
<1> DEFINE found == {i \in 2 .. Len(header) : header[i].is = "sig"}
           first == CHOOSE i \in found : \A j \in found : i =< j
<1>1. Len(header) \in Nat /\ found \in SUBSET Nat
  OBVIOUS
<1>2. CASE found = {}
  BY <1>2 DEF Signatures
<1>3. CASE found # {}
  <2>1. first \in found /\ \A j \in found : first =< j
    <3> HIDE DEF found
    <3>1. \E i \in found : \A j \in found : i =< j
      BY <1>1, <1>3, LeastNatural
    <3> QED BY <3>1
  <2>2. Signatures(header) = <<header[first]>>
    BY <1>3 DEF Signatures
  <2> HIDE DEF first
  <2> QED BY <2>1, <2>2
<1> QED BY <1>2, <1>3

\* What arrives of a body that only the client has signed.
Genuine(all) == {x \in Symbol : x.is = "sig" => \E n \in 0 .. Len(all) : x.over = SubSeq(all, 1, n)}

\* What the parser has passed on are the chunks that the client has signed, and the
\* chunk in hand.
Chained(all, p, k) ==
  /\ p.chain = SubSeq(all, 1, k)
  /\ p.state = "header" => p.out = Told(all, k)
  /\ p.state \in {"data", "terminator"} =>
        /\ p.out = Told(all, k) \o p.chunk
        /\ p.signature # <<>> /\ \E n \in 0 .. Len(all) : p.signature[1].over = SubSeq(all, 1, n)
  /\ p.state = "data" => ~p.final
  /\ p.state = "terminator" /\ p.final => p.chunk = <<>>
  /\ p.state = "done" => p.out = Plain(all)
Verified(all, p) ==
  /\ Parser(p) /\ p.signed /\ p.pending \in Seq(Genuine(all))
  /\ \E k \in 0 .. Len(all) : Chained(all, p, k)

LEMMA VerifiedStarts ==
  ASSUME NEW all, Client(all)
  PROVE  Verified(all, NewParser(TRUE))
<1>1. Parser(NewParser(TRUE)) /\ <<>> \in Seq(Genuine(all)) /\ 0 \in 0 .. Len(all)
  <2>1. TRUE \in BOOLEAN
    OBVIOUS
  <2>2. Parser(NewParser(TRUE))
    BY <2>1, ParserStarts
  <2>3. <<>> \in Seq(Genuine(all))
    BY EmptySeq
  <2>4. Len(all) \in Nat
    <3>1. all \in Seq(Seq(Byte))
      BY DEF Client
    <3> QED BY <3>1
  <2>5. 0 \in 0 .. Len(all)
    <3> DEFINE n == Len(all)
    <3>1. n \in Nat
      BY <2>4
    <3> HIDE DEF n
    <3>2. 0 \in 0 .. n
      BY <3>1
    <3> QED BY <3>2 DEF n
  <2> QED BY <2>2, <2>3, <2>5, Zenon
<1>2. SubSeq(all, 1, 0) = <<>>
  <2>1. SubSeq(all, 1, 0) \in Seq(Seq(Byte)) /\ Len(SubSeq(all, 1, 0)) = 0
    BY PlainSlice DEF Client
  <2> QED BY <2>1, EmptySeq
<1>3. Told(all, 0) = <<>>
  BY ToldByChunks DEF Client
<1> QED BY <1>1, <1>2, <1>3 DEF Verified, Chained, NewParser

LEMMA VerifiedIsFed ==
  ASSUME NEW all, NEW p, Verified(all, p), NEW piece \in Seq(Genuine(all))
  PROVE  Verified(all, [p EXCEPT !.pending = @ \o piece])
<1> DEFINE y == p.pending \o piece
           q == [p EXCEPT !.pending = y]
<1>1. y \in Seq(Genuine(all))
  BY OneAfterTheOther DEF Verified
<1>2. Genuine(all) \subseteq Symbol
  BY DEF Genuine
<1>3. Parser(q)
  <2>1. piece \in Seq(Symbol)
    BY <1>2
  <2> QED BY <2>1, ParserIsFed DEF Verified
<1> HIDE DEF y
<1>4. /\ q.pending = y /\ q.state = p.state /\ q.final = p.final /\ q.signed = p.signed /\ q.signature = p.signature
      /\ q.chunk = p.chunk /\ q.chain = p.chain /\ q.out = p.out
  BY DEF Verified, Parser
<1> HIDE DEF q
<1>5. ASSUME NEW k, Chained(all, p, k) PROVE Chained(all, q, k)
  BY <1>4, <1>5 DEF Chained
<1>6. Verified(all, q)
  BY <1>1, <1>3, <1>4, <1>5 DEF Verified
<1> QED BY <1>6 DEF q, y

\* consumeHeader takes a signature of the client, or fails.
LEMMA VerifiedHeader ==
  ASSUME NEW all, Client(all), NEW p, Verified(all, p), p.state = "header"
  PROVE  Verified(all, ConsumeHeader(p))
<1> DEFINE end == LineEnd(p.pending)
           header == SubSeq(p.pending, 1, end - 1)
           found == Signatures(header)
           q == ConsumeHeader(p)
<1>0. /\ Parser(p) /\ p.signed /\ p.pending \in Seq(Genuine(all)) /\ Len(p.pending) \in Nat
      /\ Genuine(all) \subseteq Symbol /\ p.pending \in Seq(Symbol)
  BY DEF Verified, Parser, Genuine
<1>1. end # 0 => end \in 1 .. Len(p.pending) - 1
  BY DEF LineEnd
<1>2. Parser(q)
  BY <1>0, HeadersAreConsumed
<1>3. PICK k \in 0 .. Len(all) : Chained(all, p, k)
  BY DEF Verified
<1> HIDE DEF end, q
<1>4. CASE end = 0 \/ header = <<>> \/ header[1].is # "size" \/ (p.signed /\ found = <<>>)
  <2>1. q = p \/ q = [p EXCEPT !.state = "malformed"]
    BY <1>4 DEF ConsumeHeader, Fail, end, q
  <2>2. CASE q = p
    BY <2>2 DEF q
  <2>3. CASE q = [p EXCEPT !.state = "malformed"]
    <3>1. q.state = "malformed" /\ q.signed = p.signed /\ q.pending = p.pending /\ q.chain = p.chain
      BY <1>0, <2>3 DEF Parser
    <3>2. Chained(all, q, k)
      BY <1>3, <3>1 DEF Chained
    <3> QED BY <1>0, <1>2, <3>1, <3>2 DEF Verified, q
  <2> QED BY <2>1, <2>2, <2>3
<1>5. CASE ~ (end = 0 \/ header = <<>> \/ header[1].is # "size" \/ (p.signed /\ found = <<>>))
  <2>1. end - 1 \in Nat /\ end - 1 =< Len(p.pending) /\ end + 2 \in Nat \ {0}
    BY <1>0, <1>1, <1>5, SMTT(60)
  <2>2. header \in Seq(Genuine(all)) /\ From(p.pending, end + 2) \in Seq(Genuine(all))
    <3> DEFINE x == p.pending
               n == end - 1
               m == end + 2
    <3>1. x \in Seq(Genuine(all)) /\ n \in Nat /\ n =< Len(x) /\ 1 \in Nat /\ 1 > 0 /\ m \in Nat \ {0}
      BY <1>0, <2>1
    <3> HIDE DEF x, n, m
    <3>2. SubSeq(x, 1, n) \in Seq(Genuine(all))
      BY <3>1, PlainSlice
    <3>3. From(x, m) \in Seq(Genuine(all))
      BY <3>1, FromIsSequence
    <3> QED BY <3>2, <3>3 DEF x, n, m
  <2>3. found # <<>> /\ \E n \in 0 .. Len(all) : found[1].over = SubSeq(all, 1, n)
    <3> HIDE DEF header, found
    <3>1. header \in Seq(Symbol)
      BY <1>0, <2>2
    <3>2. found # <<>>
      BY <1>0, <1>5
    <3>3. PICK i \in 2 .. Len(header) : header[i].is = "sig" /\ found = <<header[i]>>
      BY <3>1, <3>2, SignatureIsFirst DEF found
    <3>4. header[i] \in Genuine(all)
      <4>1. i \in 1 .. Len(header)
        BY <2>2, <3>3
      <4> QED BY <2>2, <4>1, ElementOfSeq
    <3>5. found[1] = header[i]
      BY <3>3
    <3> QED BY <3>2, <3>3, <3>4, <3>5 DEF Genuine
  <2> HIDE DEF header, found
  <2> DEFINE size == header[1].n
             rest == From(p.pending, end + 2)
             state == IF size = 0 THEN "terminator" ELSE "data"
  <2>4. q = [p EXCEPT !.pending = rest, !.remaining = size, !.final = size = 0,
                      !.signature = found, !.chunk = <<>>, !.state = state]
    BY <1>5 DEF ConsumeHeader, end, header, found, q
  <2>5. state = (IF size = 0 THEN "terminator" ELSE "data") /\ rest \in Seq(Genuine(all))
    BY <2>2
  <2> HIDE DEF rest, size, state
  <2>6. /\ q.pending = rest /\ q.final = (size = 0) /\ q.signature = found /\ q.chunk = <<>> /\ q.state = state
        /\ q.signed = p.signed /\ q.chain = p.chain /\ q.out = p.out
    BY <1>0, <2>4 DEF Parser
  <2>7. p.out = Told(all, k) /\ Told(all, k) \in Seq(Byte) /\ p.chain = SubSeq(all, 1, k)
    BY <1>3, ToldByChunks DEF Chained, Client
  <2>8. p.out = Told(all, k) \o <<>>
    BY <2>7, ConcatEmptySeq
  <2>9. Chained(all, q, k)
    BY <2>3, <2>5, <2>6, <2>7, <2>8 DEF Chained
  <2> QED BY <1>0, <1>2, <2>5, <2>6, <2>9 DEF Verified, q
<1> QED BY <1>4, <1>5

\* verifyChunk goes on along the chunks of the client, or fails.
LEMMA VerifiedChunk ==
  ASSUME NEW all, Client(all), NEW p, Verified(all, p), p.state = "terminator",
         NEW next, next = IF p.final THEN "done" ELSE "header"
  PROVE  Verified(all, VerifyChunk(p, next))
<1> DEFINE q == VerifyChunk(p, next)
<1>0. Parser(p) /\ p.signed /\ p.pending \in Seq(Genuine(all)) /\ p.chunk \in Seq(Symbol) /\ p.final \in BOOLEAN
  BY DEF Verified, Parser
<1>1. PICK k \in 0 .. Len(all) : Chained(all, p, k)
  BY DEF Verified
<1>2. PICK n \in 0 .. Len(all) :
         /\ p.signature # <<>> /\ p.signature[1].over = SubSeq(all, 1, n)
         /\ p.out = Told(all, k) \o p.chunk /\ p.chain = SubSeq(all, 1, k) /\ (p.final => p.chunk = <<>>)
  BY <1>1 DEF Chained
<1>3. Parser(q)
  BY <1>0, ChunksAreVerified
<1>4. CASE p.signature[1].over # Append(p.chain, p.chunk)
  <2>1. q = [p EXCEPT !.state = "mismatch"]
    BY <1>0, <1>2, <1>4 DEF VerifyChunk
  <2> HIDE DEF q
  <2>2. q.state = "mismatch" /\ q.signed = p.signed /\ q.pending = p.pending /\ q.chain = p.chain
    BY <1>0, <2>1 DEF Parser
  <2>3. Chained(all, q, k)
    BY <1>2, <2>2 DEF Chained
  <2> QED BY <1>0, <1>3, <2>2, <2>3 DEF Verified, q
<1>5. CASE p.signature[1].over = Append(p.chain, p.chunk)
  <2> DEFINE over == p.signature[1].over
  <2>1. q = [p EXCEPT !.state = next, !.chain = over]
    BY <1>0, <1>2, <1>5 DEF VerifyChunk
  <2>2. over = SubSeq(all, 1, n) /\ SubSeq(all, 1, n) = Append(SubSeq(all, 1, k), p.chunk)
    BY <1>2, <1>5
  <2> HIDE DEF q, over
  <2>3. /\ q.state = next /\ q.signed = p.signed /\ q.pending = p.pending /\ q.chain = over /\ q.out = p.out
    BY <1>0, <2>1 DEF Parser
  <2>4. n = k + 1 /\ p.chunk = all[k + 1]
    BY <1>0, <2>2, PrefixesGoOn DEF Client
  <2>5. k + 1 \in 1 .. Len(all) /\ (k + 1) - 1 = k /\ n \in 0 .. Len(all)
    BY <2>4 DEF Client
  <2>6. p.out = Told(all, n) /\ Told(all, Len(all)) = Plain(all)
    <3>1. Told(all, k + 1) = Told(all, (k + 1) - 1) \o all[k + 1] /\ Told(all, Len(all)) = Plain(all)
      BY <2>5, ToldByChunks DEF Client
    <3> QED BY <1>2, <2>4, <2>5, <3>1
  <2>7. p.final => n = Len(all)
    BY <1>2, <2>4, <2>5 DEF Client
  <2>8. Chained(all, q, n)
    BY <2>2, <2>3, <2>6, <2>7 DEF Chained
  <2> QED BY <1>0, <1>3, <2>3, <2>5, <2>8 DEF Verified, q
<1> QED BY <1>4, <1>5

\* One turn of consume keeps to the chunks of the client.
LEMMA VerifiedGoesOn ==
  ASSUME NEW all, Client(all), NEW p, Verified(all, p)
  PROVE  Verified(all, ConsumeOnce(p))
<1>0. /\ Parser(p) /\ p.signed /\ p.pending \in Seq(Genuine(all)) /\ Len(p.pending) \in Nat /\ p.remaining \in Nat
      /\ p.chunk \in Seq(Symbol) /\ Genuine(all) \subseteq Symbol
  BY DEF Verified, Parser, Genuine
<1>1. PICK k \in 0 .. Len(all) : Chained(all, p, k)
  BY DEF Verified
<1>2. Parser(ConsumeOnce(p))
  BY <1>0, ParserGoesOn
<1>3. CASE p.state = "header"
  BY <1>3, VerifiedHeader DEF ConsumeOnce
<1>4. CASE p.state = "data"
  <2> DEFINE take == IF p.remaining < Len(p.pending) THEN p.remaining ELSE Len(p.pending)
             data == SubSeq(p.pending, 1, take)
             rest == From(p.pending, take + 1)
             chunk == p.chunk \o data
             out == p.out \o data
             left == p.remaining - take
             state == IF take = p.remaining THEN "terminator" ELSE "data"
             q == ConsumeOnce(p)
  <2>1. take \in Nat /\ take =< Len(p.pending) /\ take + 1 \in Nat \ {0}
    BY <1>0
  <2>2. q = [p EXCEPT !.pending = rest, !.remaining = left, !.chunk = chunk, !.out = out, !.state = state]
    BY <1>4 DEF ConsumeOnce, ConsumeData
  <2> HIDE DEF take, q
  <2>3. data \in Seq(Symbol) /\ rest \in Seq(Genuine(all))
    <3> DEFINE x == p.pending
    <3>1. x \in Seq(Genuine(all)) /\ x \in Seq(Symbol)
      BY <1>0
    <3> HIDE DEF x
    <3>2. SubSeq(x, 1, take) \in Seq(Symbol)
      BY <2>1, <3>1, PlainSlice DEF x
    <3>3. From(x, take + 1) \in Seq(Genuine(all))
      BY <2>1, <3>1, FromIsSequence
    <3> QED BY <3>2, <3>3 DEF x
  <2> HIDE DEF data, rest
  <2>4. p.out = Told(all, k) \o p.chunk /\ Told(all, k) \in Seq(Symbol)
    <3>1. Told(all, k) \in Seq(Byte)
      BY ToldByChunks DEF Client
    <3> QED BY <1>1, <1>4, <3>1, LineEndsAreBytes DEF Chained
  <2>5. out = Told(all, k) \o chunk
    <3> DEFINE x == Told(all, k)
               y == p.chunk
    <3>1. x \in Seq(Symbol) /\ y \in Seq(Symbol) /\ data \in Seq(Symbol) /\ p.out = x \o y
      BY <1>0, <2>3, <2>4
    <3> HIDE DEF x, y
    <3>2. (x \o y) \o data = x \o (y \o data)
      <4>1. x \in Seq(Symbol) /\ y \in Seq(Symbol) /\ data \in Seq(Symbol)
        BY <3>1
      <4> QED BY <4>1, ConcatAssociative
    <3> QED BY <3>1, <3>2 DEF x, y
  <2>6. state \in {"data", "terminator"}
    OBVIOUS
  <2> HIDE DEF left, chunk, out, state
  <2>7. /\ q.pending = rest /\ q.chunk = chunk /\ q.out = out /\ q.state = state
        /\ q.signed = p.signed /\ q.chain = p.chain /\ q.signature = p.signature /\ q.final = p.final
    BY <1>0, <2>2 DEF Parser
  <2>8. Chained(all, q, k)
    BY <1>1, <1>4, <2>5, <2>6, <2>7 DEF Chained
  <2> QED BY <1>0, <1>2, <2>3, <2>7, <2>8 DEF Verified, q
<1>5. CASE p.state = "terminator"
  <2> DEFINE rest == From(p.pending, 3)
             q == [p EXCEPT !.pending = rest]
             next == IF p.final THEN "done" ELSE "header"
  <2>1. rest \in Seq(Genuine(all)) /\ rest \in Seq(Symbol)
    BY <1>0, FromIsSequence
  <2> HIDE DEF rest
  <2>2. Parser(q)
    BY <1>0, <2>1 DEF Parser
  <2>3. \/ ConsumeOnce(p) = p \/ ConsumeOnce(p) = [p EXCEPT !.state = "malformed"]
        \/ ConsumeOnce(p) = VerifyChunk(q, next)
    BY <1>5 DEF ConsumeOnce, ConsumeTerminator, Fail, rest
  <2> HIDE DEF q
  <2>4. /\ q.pending = rest /\ q.state = p.state /\ q.final = p.final /\ q.signed = p.signed
        /\ q.signature = p.signature /\ q.chunk = p.chunk /\ q.chain = p.chain /\ q.out = p.out
    BY <1>0 DEF Parser, q
  <2>5. Chained(all, q, k)
    BY <1>1, <2>4 DEF Chained
  <2>6. Verified(all, q)
    BY <1>0, <2>1, <2>2, <2>4, <2>5 DEF Verified
  <2>7. next = IF q.final THEN "done" ELSE "header"
    BY <2>4
  <2> HIDE DEF next
  <2>8. Verified(all, VerifyChunk(q, next))
    BY <1>5, <2>4, <2>6, <2>7, VerifiedChunk
  <2> DEFINE f == [p EXCEPT !.state = "malformed"]
  <2>9. Verified(all, f)
    <3>1. f.state = "malformed" /\ f.signed = p.signed /\ f.pending = p.pending /\ f.chain = p.chain /\ Parser(f)
      BY <1>0 DEF Parser
    <3> HIDE DEF f
    <3>2. Chained(all, f, k)
      BY <1>1, <3>1 DEF Chained
    <3> QED BY <1>0, <3>1, <3>2 DEF Verified
  <2> QED BY <2>3, <2>8, <2>9
<1>6. CASE p.state = "done"
  <2> DEFINE q == [p EXCEPT !.pending = <<>>]
  <2>1. ConsumeOnce(p) = q
    BY <1>6 DEF ConsumeOnce
  <2>2. /\ q.pending = <<>> /\ q.state = p.state /\ q.signed = p.signed /\ q.chain = p.chain /\ q.out = p.out
    BY <1>0 DEF Parser
  <2>3. Parser(q)
    BY <1>2, <2>1
  <2> HIDE DEF q
  <2>4. Chained(all, q, k) /\ <<>> \in Seq(Genuine(all))
    BY <1>1, <1>6, <2>2, EmptySeq DEF Chained
  <2> QED BY <1>0, <2>1, <2>2, <2>3, <2>4 DEF Verified
<1>7. CASE p.state \notin {"header", "data", "terminator", "done"}
  BY <1>7 DEF ConsumeOnce
<1> QED BY <1>3, <1>4, <1>5, <1>6, <1>7

\* What the parser has passed on when a signed body has ended well is what the client
\* meant.
LEMMA VerifiedEnds ==
  ASSUME NEW all, Client(all), NEW p, Verified(all, p), Flush(p).state = "done"
  PROVE  Flush(p).out = Plain(all)
<1> DEFINE q == IF p.state = "terminator" /\ p.final /\ p.pending = <<>> THEN VerifyChunk(p, "done") ELSE p
<1>1. Verified(all, q)
  <2>1. CASE p.state = "terminator" /\ p.final /\ p.pending = <<>>
    BY <2>1, VerifiedChunk
  <2>2. CASE ~ (p.state = "terminator" /\ p.final /\ p.pending = <<>>)
    BY <2>2
  <2> QED BY <2>1, <2>2
<1>2. Flush(p) = q \/ Flush(p) = [q EXCEPT !.state = "malformed"]
  BY DEF Flush, Fail
<1> HIDE DEF q
<1>3. Parser(q)
  BY <1>1 DEF Verified
<1>4. [q EXCEPT !.state = "malformed"].state = "malformed"
  BY <1>3 DEF Parser
<1>5. Flush(p) = q /\ q.state = "done"
  BY <1>2, <1>4
<1> QED BY <1>1, <1>5 DEF Verified, Chained

-----------------------------------------------------------------------------
\* Bodies that arrive up to a place where the parser looks.

\* The frames of a body come one after the other.
LEMMA FramesFollow ==
  ASSUME NEW all \in Seq(Seq(Byte)), NEW signed \in BOOLEAN, NEW e, Laid(all, signed, e),
         NEW i \in 0 .. Len(all), NEW j \in 0 .. Len(all), i =< j
  PROVE  e[i] =< e[j]
<1> DEFINE N == Len(all)
           H == HeaderLength(signed)
<1>0. N \in Nat /\ H \in Nat /\ i \in Nat /\ j - i \in Nat /\ e \in [0 .. N -> Nat]
  BY DEF Laid, HeaderLength
<1>1. \A k \in 1 .. N : Len(all[k]) \in Nat /\ e[k] = e[k - 1] + H + Len(all[k]) + 2
  BY DEF Laid
<1> HIDE DEF N, H
<1> DEFINE T == {n \in Nat : i + n =< N => e[i] =< e[i + n]}
<1>2. 0 \in T
  BY <1>0
<1>3. ASSUME NEW n \in Nat, n \in T PROVE n + 1 \in T
  <2>1. SUFFICES ASSUME i + (n + 1) =< N PROVE e[i] =< e[i + (n + 1)]
    OBVIOUS
  <2>2. i + (n + 1) \in 1 .. N /\ (i + (n + 1)) - 1 = i + n /\ i + n \in 0 .. N
    BY <1>0, <2>1
  <2>3. e[i] =< e[i + n]
    BY <1>0, <1>3, <2>2
  <2>4. e[i + (n + 1)] = e[i + n] + H + Len(all[i + (n + 1)]) + 2 /\ Len(all[i + (n + 1)]) \in Nat
    BY <1>1, <2>2
  <2>5. e[i] \in Nat /\ e[i + n] \in Nat
    BY <1>0, <2>2 DEF N
  <2> DEFINE x == e[i]
             y == e[i + n]
             d == Len(all[i + (n + 1)])
  <2>6. H \in Nat /\ x \in Nat /\ y \in Nat /\ d \in Nat /\ x =< y /\ e[i + (n + 1)] = y + H + d + 2
    BY <1>0, <2>3, <2>4, <2>5
  <2> HIDE DEF x, y, d
  <2>7. x =< e[i + (n + 1)]
    BY <2>6
  <2> QED BY <2>7 DEF x
<1>4. j - i \in T
  <2>1. T \in SUBSET Nat
    OBVIOUS
  <2> HIDE DEF T
  <2>2. \A n \in 0 .. j - i : n \in T
    BY <1>0, <1>2, <1>3, <2>1, CountUp
  <2> QED BY <1>0, <2>2
<1>5. i + (j - i) = j /\ j =< N
  BY <1>0 DEF N
<1> QED BY <1>4, <1>5

\* What arrives is what the client sent up to m, and there it ends, or something else
\* stands where the parser looks.
Intact(all, signed, e, wire, m) ==
  /\ Client(all) /\ signed \in BOOLEAN /\ wire \in Seq(Symbol)
  /\ Laid(all, signed, e) /\ Framing(all, signed, e, Framed(all, signed))
  /\ m \in Nat /\ m =< Len(wire) /\ m =< e[Len(all)]
  /\ \A j \in 1 .. m : wire[j] = Framed(all, signed)[j]
  /\ \A i \in 1 .. Len(all) : e[i - 1] =< m =>
        \/ m = Len(wire) \/ m >= e[i]
        \/ m = e[i - 1] /\ wire[m + 1].is # "size"
        \/ m = e[i] - 2 /\ wire[m + 1] # CR
        \/ m = e[i] - 1 /\ wire[m + 1] # LF
\* At most the last line end is missing.
Complete(all, e, wire, m) == m = Len(wire) /\ (m = e[Len(all)] \/ m = e[Len(all)] - 2)

LEMMA BrokenIsIntact ==
  ASSUME NEW all, Client(all), NEW signed \in BOOLEAN, NEW wire \in Seq(Symbol), NEW m \in Nat, m =< Len(wire),
         m =< Len(Framed(all, signed)), BrokenAt(wire, all, signed, m)
  PROVE  \E e : Intact(all, signed, e, wire, m) /\ e[Len(all)] = Len(Framed(all, signed))
<1> DEFINE F == Framed(all, signed)
           N == Len(all)
           H == HeaderLength(signed)
<1>0. all \in Seq(Seq(Byte)) /\ N \in Nat /\ N > 0 /\ H \in {3, 4} /\ Len(wire) \in Nat
  BY DEF Client, HeaderLength
<1>1. F \in Seq(Symbol) /\ \E e : Laid(all, signed, e) /\ Framing(all, signed, e, F)
  BY <1>0, FramesAreLaid
<1> HIDE DEF F
<1>2. PICK e : Laid(all, signed, e) /\ Framing(all, signed, e, F)
  BY <1>1
<1>3. Len(F) = e[N] /\ e[N] \in Nat /\ Len(F) \in Nat
  BY <1>0, <1>2 DEF Laid, Framing
<1>4. \A j \in 1 .. m : wire[j] = F[j]
  <2>1. SubSeq(wire, 1, m) = SubSeq(F, 1, m)
    BY DEF BrokenAt, F
  <2>2. \A j \in 1 .. m - 1 + 1 : SubSeq(wire, 1, m)[j] = wire[1 + j - 1]
    BY PlainSlice
  <2>3. \A j \in 1 .. m - 1 + 1 : SubSeq(F, 1, m)[j] = F[1 + j - 1]
    <3>1. m =< Len(F)
      BY DEF F
    <3> QED BY <1>1, <3>1, PlainSlice
  <2> QED BY <2>1, <2>2, <2>3
<1> HIDE DEF N, H
<1>5. ASSUME NEW i \in 1 .. N, e[i - 1] =< m
      PROVE  \/ m = Len(wire) \/ m >= e[i]
             \/ m = e[i - 1] /\ wire[m + 1].is # "size"
             \/ m = e[i] - 2 /\ wire[m + 1] # CR
             \/ m = e[i] - 1 /\ wire[m + 1] # LF
  <2>0. /\ e[i - 1] \in Nat /\ e[i] \in Nat /\ i - 1 \in 0 .. N /\ i \in 0 .. N /\ N \in 0 .. N
        /\ Len(all[i]) \in Nat /\ e[i] = e[i - 1] + H + Len(all[i]) + 2
        /\ F[e[i] - 1] = CR /\ F[e[i]] = LF /\ e[i] =< e[N]
    <3>1. i - 1 \in 0 .. N /\ i \in 0 .. N /\ N \in 0 .. N
      BY <1>0
    <3>2. Len(all[i]) \in Nat
      BY <1>0 DEF N
    <3> QED BY <1>2, <3>1, <3>2 DEF Laid, Framing, N, H
  <2> DEFINE x == e[i - 1]
             y == e[i]
             top == e[N]
             d == Len(all[i])
  <2>1. \A j \in 0 .. N : e[j] \in Nat /\ (j =< i - 1 => e[j] =< x) /\ (i =< j => y =< e[j])
    BY <1>0, <1>2, <2>0, FramesFollow DEF Laid, N
  <2>2. \A j \in 1 .. N : i + 1 =< j => e[j] >= y + H + 2
    <3>1. SUFFICES ASSUME NEW j \in 1 .. N, i + 1 =< j PROVE e[j] >= y + H + 2
      OBVIOUS
    <3>2. j - 1 \in 0 .. N /\ i =< j - 1 /\ e[j] = e[j - 1] + H + Len(all[j]) + 2 /\ Len(all[j]) \in Nat
      BY <1>0, <1>2, <3>1 DEF Laid, N, H
    <3> DEFINE z == e[j - 1]
               l == Len(all[j])
    <3>3. y \in Nat /\ y =< z /\ z \in Nat /\ l \in Nat /\ e[j] = z + H + l + 2
      BY <2>0, <2>1, <3>2
    <3> HIDE DEF y, z, l
    <3> QED BY <1>0, <3>3
  <2>3. \/ m \in {Len(wire), Len(F)}
        \/ \E j \in 0 .. N - 1 : m = e[j] /\ wire[m + 1].is # "size"
        \/ \E j \in 1 .. N : m + 1 \in {e[j] - 1, e[j]} /\ wire[m + 1] # F[m + 1]
    <3>1. \A j \in 0 .. N : e[j] = EndOf(all, signed, j)
      BY <1>2 DEF Laid, N
    <3>2. \A j \in 0 .. N - 1 : j \in 0 .. N
      BY <1>0
    <3>3. \A j \in 1 .. N : j \in 0 .. N
      BY <1>0
    <3> QED BY <3>1, <3>2, <3>3 DEF BrokenAt, F, N
  <2>4. SUFFICES ASSUME m # Len(wire), ~ (m >= y)
                 PROVE  \/ m = x /\ wire[m + 1].is # "size"
                        \/ m = y - 2 /\ wire[m + 1] # CR
                        \/ m = y - 1 /\ wire[m + 1] # LF
    OBVIOUS
  <2>5. /\ x \in Nat /\ y \in Nat /\ top \in Nat /\ d \in Nat /\ y = x + H + d + 2 /\ y =< top
        /\ F[y - 1] = CR /\ F[y] = LF /\ x =< m /\ Len(F) = top
    BY <1>3, <1>5, <2>0
  <2> HIDE DEF x, y, top, d
  <2>6. m # Len(F)
    BY <2>4, <2>5
  <2>7. ASSUME NEW j \in 0 .. N - 1, m = e[j], wire[m + 1].is # "size"
        PROVE  m = x
    <3>1. j \in 0 .. N
      BY <1>0
    <3> DEFINE z == e[j]
    <3>2. z \in Nat /\ (j =< i - 1 => z =< x) /\ (i =< j => y =< z) /\ m = z
      BY <2>1, <2>7, <3>1
    <3> HIDE DEF z
    <3> QED BY <1>0, <2>4, <2>5, <3>2
  <2>8. ASSUME NEW j \in 1 .. N, m + 1 \in {e[j] - 1, e[j]}, wire[m + 1] # F[m + 1]
        PROVE  \/ m = y - 2 /\ wire[m + 1] # CR
               \/ m = y - 1 /\ wire[m + 1] # LF
    <3>1. j \in 0 .. N
      BY <1>0
    <3> DEFINE z == e[j]
    <3>2. /\ z \in Nat /\ (j =< i - 1 => z =< x) /\ (i + 1 =< j => z >= y + H + 2)
          /\ m + 1 = z - 1 \/ m + 1 = z
      BY <2>1, <2>2, <2>8, <3>1
    <3>3. j = i => z = y
      BY DEF y
    <3> HIDE DEF z
    <3>4. j = i
      BY <1>0, <2>4, <2>5, <3>2
    <3>5. m + 1 = y - 1 \/ m + 1 = y
      BY <3>2, <3>3, <3>4
    <3>6. CASE m + 1 = y - 1
      <4>1. m = y - 2
        <5>1. m \in Nat /\ y \in Nat
          BY <2>5
        <5> QED BY <3>6, <5>1
      <4>2. wire[m + 1] # F[y - 1]
        BY <2>8, <3>6, Zenon
      <4> QED BY <2>5, <4>1, <4>2
    <3>7. CASE m + 1 = y
      <4>1. m = y - 1
        <5>1. m \in Nat /\ y \in Nat
          BY <2>5
        <5> QED BY <3>7, <5>1
      <4>2. wire[m + 1] # F[y]
        BY <2>8, <3>7, Zenon
      <4> QED BY <2>5, <4>1, <4>2
    <3> QED BY <3>5, <3>6, <3>7
  <2> QED BY <2>3, <2>4, <2>6, <2>7, <2>8
<1>6. m =< e[N]
  BY <1>3 DEF F
<1>7. Intact(all, signed, e, wire, m)
  BY <1>0, <1>2, <1>4, <1>5, <1>6 DEF Intact, F, N
<1> QED BY <1>3, <1>7 DEF F, N

\* A body that arrives whole, with or without its last line end, is intact.
LEMMA WholeIsIntact ==
  ASSUME NEW all, Client(all), NEW signed \in BOOLEAN, NEW wire,
         wire \in {Framed(all, signed), SubSeq(Framed(all, signed), 1, Len(Framed(all, signed)) - 2)}
  PROVE  \E e : Intact(all, signed, e, wire, Len(wire)) /\ Complete(all, e, wire, Len(wire))
<1> DEFINE F == Framed(all, signed)
           n == Len(F)
           N == Len(all)
           H == HeaderLength(signed)
<1>0. all \in Seq(Seq(Byte)) /\ N \in Nat /\ N > 0 /\ H \in {3, 4}
  BY DEF Client, HeaderLength
<1>1. F \in Seq(Symbol) /\ \E e : Laid(all, signed, e) /\ Framing(all, signed, e, F)
  BY <1>0, FramesAreLaid
<1> HIDE DEF F
<1>2. n \in Nat /\ n >= 2
  <2>1. PICK e : Laid(all, signed, e) /\ Framing(all, signed, e, F)
    BY <1>1
  <2> DEFINE x == e[N]
             y == e[N - 1]
             d == Len(all[N])
  <2>2. N \in 1 .. N /\ N - 1 \in 0 .. N
    BY <1>0
  <2>3. x \in Nat /\ y \in Nat /\ d \in Nat
    <3>1. e \in [0 .. N -> Nat] /\ N \in 0 .. N
      BY <1>0, <2>1 DEF Laid
    <3>2. d \in Nat
      BY <1>0, <2>2
    <3>3. x \in Nat /\ y \in Nat
      <4> HIDE DEF N
      <4> QED BY <2>2, <3>1
    <3> QED BY <3>2, <3>3
  <2>4. x = y + H + d + 2
    BY <2>1, <2>2 DEF Laid
  <2>5. n = x
    BY <2>1 DEF Framing
  <2> HIDE DEF x, y, d, n, H
  <2> QED BY <1>0, <2>3, <2>4, <2>5
<1> DEFINE cut == SubSeq(F, 1, n - 2)
<1>3. /\ cut \in Seq(Symbol) /\ Len(cut) = n - 2
      /\ \A j \in 1 .. n - 2 : cut[j] = F[j]
  <2>1. n - 2 \in Nat /\ n - 2 =< Len(F)
    BY <1>2
  <2> DEFINE k == n - 2
  <2> HIDE DEF n
  <2>2. /\ SubSeq(F, 1, k) \in Seq(Symbol)
        /\ Len(SubSeq(F, 1, k)) = IF 1 =< k THEN k - 1 + 1 ELSE 0
        /\ \A i \in 1 .. k - 1 + 1 : SubSeq(F, 1, k)[i] = F[1 + i - 1]
    <3> HIDE DEF k
    <3>1. k \in Nat /\ k =< Len(F)
      BY <2>1 DEF k
    <3> QED BY <1>1, <3>1, PlainSlice
  <2> QED BY <2>1, <2>2
<1>4. wire \in {F, cut}
  BY DEF F
<1> HIDE DEF cut
<1>5. wire \in Seq(Symbol) /\ Len(wire) \in Nat /\ Len(wire) =< n /\ Len(wire) >= n - 2
  BY <1>1, <1>2, <1>3, <1>4
<1>6. SubSeq(wire, 1, Len(wire)) = SubSeq(F, 1, Len(wire))
  <2>1. SubSeq(wire, 1, Len(wire)) = wire
    BY <1>5, WholeSequence
  <2>2. SubSeq(F, 1, Len(F)) = F
    BY <1>1, WholeSequence
  <2>3. wire = cut => SubSeq(F, 1, Len(wire)) = cut
    BY <1>3 DEF cut
  <2> QED BY <1>4, <2>1, <2>2, <2>3
<1>7. BrokenAt(wire, all, signed, Len(wire)) /\ Len(wire) =< Len(Framed(all, signed))
  BY <1>5, <1>6 DEF BrokenAt, F
<1>8. PICK e : Intact(all, signed, e, wire, Len(wire)) /\ e[N] = n
  BY <1>5, <1>7, BrokenIsIntact DEF F
<1>9. Complete(all, e, wire, Len(wire))
  BY <1>3, <1>4, <1>8 DEF Complete, n
<1> QED BY <1>8, <1>9

-----------------------------------------------------------------------------
\* What is pending is a part of what arrives.
LEMMA PartOfWire ==
  ASSUME NEW S, NEW w \in Seq(S), NEW a \in 0 .. Len(w), NEW k \in 0 .. a
  PROVE  /\ SubSeq(w, k + 1, a) \in Seq(S) /\ Len(SubSeq(w, k + 1, a)) = a - k
         /\ \A j \in 1 .. a - k : SubSeq(w, k + 1, a)[j] = w[k + j]
<1>0. a \in Nat /\ k \in Nat /\ a =< Len(w) /\ k =< a /\ k + 1 \in Nat /\ k + 1 > 0 /\ Len(w) \in Nat
  OBVIOUS
<1> DEFINE x == SubSeq(w, k + 1, a)
           n == k + 1
<1>1. /\ x \in Seq(S) /\ Len(x) = IF n =< a THEN a - n + 1 ELSE 0
      /\ \A i \in 1 .. a - n + 1 : x[i] = w[n + i - 1]
  <2> HIDE DEF n
  <2>1. n \in Nat /\ n > 0
    BY <1>0 DEF n
  <2>2. /\ SubSeq(w, n, a) \in Seq(S) /\ Len(SubSeq(w, n, a)) = IF n =< a THEN a - n + 1 ELSE 0
        /\ \A i \in 1 .. a - n + 1 : SubSeq(w, n, a)[i] = w[n + i - 1]
    BY <1>0, <2>1, PlainSlice
  <2> QED BY <2>2 DEF n
<1> HIDE DEF x
<1>2. Len(x) = a - k
  BY <1>0, <1>1
<1>3. ASSUME NEW j \in 1 .. a - k PROVE x[j] = w[k + j]
  <2>1. j \in 1 .. a - n + 1 /\ n + j - 1 = k + j
    BY <1>0
  <2> QED BY <1>1, <2>1
<1> QED BY <1>1, <1>2, <1>3 DEF x

\* Its end is one too.
LEMMA WindowFrom ==
  ASSUME NEW S, NEW w \in Seq(S), NEW a \in 0 .. Len(w), NEW k \in 0 .. a, NEW t \in 0 .. a - k
  PROVE  From(SubSeq(w, k + 1, a), t + 1) = SubSeq(w, (k + t) + 1, a)
<1> DEFINE x == SubSeq(w, k + 1, a)
           n == a - k
           y == SubSeq(w, (k + t) + 1, a)
           z == From(x, t + 1)
<1>0. a \in Nat /\ k \in Nat /\ t \in Nat /\ n \in Nat /\ t =< n /\ k + t \in 0 .. a /\ Len(w) \in Nat
  OBVIOUS
<1>1. x \in Seq(S) /\ Len(x) = n /\ \A j \in 1 .. n : x[j] = w[k + j]
  BY PartOfWire
<1>2. y \in Seq(S) /\ Len(y) = a - (k + t) /\ \A j \in 1 .. a - (k + t) : y[j] = w[(k + t) + j]
  <2> DEFINE l == k + t
  <2>1. l \in 0 .. a
    BY <1>0
  <2> HIDE DEF l
  <2>2. /\ SubSeq(w, l + 1, a) \in Seq(S) /\ Len(SubSeq(w, l + 1, a)) = a - l
        /\ \A j \in 1 .. a - l : SubSeq(w, l + 1, a)[j] = w[l + j]
    BY <2>1, PartOfWire
  <2> QED BY <2>2 DEF l
<1> HIDE DEF x, y
<1>3. z \in Seq(S) /\ Len(z) = n - t /\ \A j \in 1 .. n - t : z[j] = x[t + j]
  <2>1. n \in 0 .. Len(x) /\ t \in 0 .. n
    BY <1>0, <1>1
  <2> HIDE DEF n
  <2>2. /\ SubSeq(x, t + 1, n) \in Seq(S) /\ Len(SubSeq(x, t + 1, n)) = n - t
        /\ \A j \in 1 .. n - t : SubSeq(x, t + 1, n)[j] = x[t + j]
    BY <1>1, <2>1, PartOfWire
  <2> QED BY <1>1, <2>2 DEF From
<1> HIDE DEF z
<1>4. a - (k + t) = n - t
  BY <1>0
<1>5. ASSUME NEW j \in 1 .. n - t PROVE z[j] = y[j]
  <2>1. t + j \in 1 .. n /\ k + (t + j) = (k + t) + j /\ j \in 1 .. a - (k + t)
    BY <1>0
  <2> QED BY <1>1, <1>2, <1>3, <2>1
<1>6. z = y
  BY <1>2, <1>3, <1>4, <1>5, SeqEqual
<1> QED BY <1>6 DEF z, y, x

\* And with the next piece it is again one.
LEMMA WindowGrows ==
  ASSUME NEW S, NEW w \in Seq(S), NEW a \in 0 .. Len(w), NEW k \in 0 .. a, NEW n \in 1 .. Len(From(w, a + 1))
  PROVE  /\ a + n \in 0 .. Len(w)
         /\ SubSeq(w, k + 1, a) \o SubSeq(From(w, a + 1), 1, n) = SubSeq(w, k + 1, a + n)
         /\ From(From(w, a + 1), n + 1) = From(w, (a + n) + 1)
<1> DEFINE N == Len(w)
           f == From(w, a + 1)
           x == SubSeq(w, k + 1, a)
           y == SubSeq(f, 1, n)
           z == SubSeq(w, k + 1, a + n)
<1>0. N \in Nat /\ a \in 0 .. N /\ N \in 0 .. N /\ a \in Nat /\ k \in Nat /\ k =< a
  OBVIOUS
<1>1. f \in Seq(S) /\ Len(f) = N - a /\ \A j \in 1 .. N - a : f[j] = w[a + j]
  <2> HIDE DEF N
  <2>1. /\ SubSeq(w, a + 1, N) \in Seq(S) /\ Len(SubSeq(w, a + 1, N)) = N - a
        /\ \A j \in 1 .. N - a : SubSeq(w, a + 1, N)[j] = w[a + j]
    <3>1. N \in 0 .. Len(w) /\ a \in 0 .. N
      BY <1>0 DEF N
    <3> QED BY <3>1, PartOfWire
  <2> QED BY <2>1 DEF From, N
<1>2. x \in Seq(S) /\ Len(x) = a - k /\ \A j \in 1 .. a - k : x[j] = w[k + j]
  BY PartOfWire
<1>3. a + n \in 0 .. Len(w) /\ k \in 0 .. a + n /\ n \in 0 .. N - a /\ n \in Nat /\ n > 0
  BY <1>0, <1>1
<1>4. z \in Seq(S) /\ Len(z) = (a + n) - k /\ \A j \in 1 .. (a + n) - k : z[j] = w[k + j]
  <2> DEFINE b == a + n
  <2> HIDE DEF b
  <2>1. b \in 0 .. Len(w) /\ k \in 0 .. b
    BY <1>3 DEF b
  <2>2. /\ SubSeq(w, k + 1, b) \in Seq(S) /\ Len(SubSeq(w, k + 1, b)) = b - k
        /\ \A j \in 1 .. b - k : SubSeq(w, k + 1, b)[j] = w[k + j]
    BY <2>1, PartOfWire
  <2> QED BY <2>2 DEF b
<1>5. From(f, n + 1) = From(w, (a + n) + 1)
  <2>1. N \in 0 .. Len(w) /\ a \in 0 .. N /\ n \in 0 .. N - a
    BY <1>0, <1>3
  <2> HIDE DEF N
  <2>2. From(SubSeq(w, a + 1, N), n + 1) = SubSeq(w, (a + n) + 1, N)
    BY <2>1, WindowFrom
  <2> QED BY <2>2 DEF From, N
<1> HIDE DEF f, x, z, N
<1>6. y \in Seq(S) /\ Len(y) = n /\ \A j \in 1 .. n : y[j] = f[j]
  <2>1. /\ y \in Seq(S) /\ Len(y) = IF 1 =< n THEN n - 1 + 1 ELSE 0
        /\ \A i \in 1 .. n - 1 + 1 : y[i] = f[1 + i - 1]
    <3>1. n \in Nat /\ n =< Len(f) /\ 1 \in Nat /\ 1 > 0
      BY <1>1, <1>3
    <3> QED BY <1>1, <3>1, PlainSlice
  <2> HIDE DEF y
  <2> QED BY <1>3, <2>1
<1> HIDE DEF y
<1>7. x \o y = z
  <2>1. /\ x \o y \in Seq(S) /\ Len(x \o y) = Len(x) + Len(y)
        /\ \A j \in 1 .. Len(x) : (x \o y)[j] = x[j]
        /\ \A j \in 1 .. Len(y) : (x \o y)[Len(x) + j] = y[j]
    <3>1. x \in Seq(S) /\ y \in Seq(S)
      BY <1>2, <1>6
    <3> QED BY <3>1, OneAfterTheOther
  <2> DEFINE u == x \o y
             l == a - k
  <2>2. u \in Seq(S) /\ Len(u) = l + n /\ (\A j \in 1 .. l : u[j] = x[j]) /\ \A j \in 1 .. n : u[l + j] = y[j]
    BY <1>2, <1>6, <2>1
  <2> HIDE DEF u
  <2>3. Len(u) = Len(z) /\ l \in Nat
    BY <1>0, <1>3, <1>4, <2>2
  <2>4. ASSUME NEW j \in 1 .. Len(u) PROVE u[j] = z[j]
    <3>1. j \in Nat /\ j > 0 /\ j =< l + n /\ j \in 1 .. (a + n) - k
      BY <1>0, <1>3, <2>2, <2>3
    <3>2. CASE j =< l
      <4>1. j \in 1 .. l
        BY <2>3, <3>1, <3>2
      <4> QED BY <1>2, <1>4, <2>2, <3>1, <4>1
    <3>3. CASE ~ (j =< l)
      <4> DEFINE i == j - l
      <4>1. i \in 1 .. n /\ l + i = j /\ a + i = k + j /\ i \in 1 .. N - a
        BY <1>0, <1>3, <2>3, <3>1, <3>3
      <4> HIDE DEF i
      <4>2. u[j] = w[a + i]
        <5>1. u[l + i] = y[i] /\ y[i] = f[i] /\ f[i] = w[a + i]
          BY <1>1, <1>6, <2>2, <4>1
        <5> QED BY <4>1, <5>1
      <4> QED BY <1>4, <3>1, <4>1, <4>2
    <3> QED BY <3>2, <3>3
  <2>5. u = z
    BY <1>4, <2>2, <2>3, <2>4, SeqEqual
  <2> QED BY <2>5 DEF u
<1> QED BY <1>3, <1>5, <1>7 DEF f, x, y, z

-----------------------------------------------------------------------------
\* One frame of an intact body, from x to y: what arrives of it up to m, and how it
\* goes on.
FrameAt(all, signed, wire, m, i, x, y) ==
  LET h == HeaderLength(signed)
      d == Len(all[i])
  IN
  /\ x \in Nat /\ y \in Nat /\ y = x + h + d + 2
  /\ x + 1 =< m => wire[x + 1] = Size(d)
  /\ signed /\ x + 2 =< m => wire[x + 2] = Sig(SubSeq(all, 1, i))
  /\ x + h - 1 =< m => wire[x + h - 1] = CR
  /\ x + h =< m => wire[x + h] = LF
  /\ \A j \in 1 .. d : x + h + j =< m => wire[x + h + j] = all[i][j]
  /\ y - 1 =< m => wire[y - 1] = CR
  /\ y =< m => wire[y] = LF
  /\ x =< m => \/ m = Len(wire) \/ m >= y
               \/ m = x /\ wire[m + 1].is # "size"
               \/ m = y - 2 /\ wire[m + 1] # CR
               \/ m = y - 1 /\ wire[m + 1] # LF

LEMMA IntactFrame ==
  ASSUME NEW all, NEW signed, NEW e, NEW wire, NEW m, Intact(all, signed, e, wire, m), NEW i \in 1 .. Len(all)
  PROVE  /\ FrameAt(all, signed, wire, m, i, e[i - 1], e[i])
         /\ e[i] \in Nat /\ e[Len(all)] \in Nat /\ e[i] =< e[Len(all)]
<1> DEFINE F == Framed(all, signed)
           N == Len(all)
           h == HeaderLength(signed)
           d == Len(all[i])
           x == e[i - 1]
           y == e[i]
<1>0. all \in Seq(Seq(Byte)) /\ N \in Nat /\ d \in Nat /\ h \in {3, 4} /\ m \in Nat /\ signed \in BOOLEAN
  BY DEF Intact, Client, HeaderLength
<1>1. /\ e \in [0 .. N -> Nat] /\ (\A j \in 0 .. N : e[j] =< e[N]) /\ y = x + h + d + 2
  BY DEF Intact, Laid
<1>2. i - 1 \in 0 .. N /\ i \in 0 .. N /\ N \in 0 .. N
  BY <1>0
<1>3. x \in Nat /\ y \in Nat /\ e[N] \in Nat /\ y =< e[N]
  <2> HIDE DEF N
  <2> QED BY <1>1, <1>2
<1>4. \A j \in 1 .. m : wire[j] = F[j]
  BY DEF Intact
<1>5. /\ F[x + 1] = Size(d) /\ (signed => F[x + 2] = Sig(SubSeq(all, 1, i)))
      /\ F[x + h - 1] = CR /\ F[x + h] = LF
      /\ (\A j \in 1 .. d : F[x + h + j] = all[i][j])
      /\ F[y - 1] = CR /\ F[y] = LF
  BY DEF Intact, Framing
<1>6. x =< m => \/ m = Len(wire) \/ m >= y
                \/ m = x /\ wire[m + 1].is # "size"
                \/ m = y - 2 /\ wire[m + 1] # CR
                \/ m = y - 1 /\ wire[m + 1] # LF
  BY DEF Intact
<1> HIDE DEF F, h, d, x, y
<1>7. \A j \in Nat \ {0} : j =< m => wire[j] = F[j]
  BY <1>0, <1>4
<1>8. /\ x + 1 \in Nat \ {0} /\ x + 2 \in Nat \ {0} /\ x + h - 1 \in Nat \ {0} /\ x + h \in Nat \ {0}
      /\ (\A j \in 1 .. d : x + h + j \in Nat \ {0}) /\ y - 1 \in Nat \ {0} /\ y \in Nat \ {0}
  BY <1>0, <1>1, <1>3
<1>9. /\ x + 1 =< m => wire[x + 1] = Size(d)
      /\ signed /\ x + 2 =< m => wire[x + 2] = Sig(SubSeq(all, 1, i))
      /\ x + h - 1 =< m => wire[x + h - 1] = CR
      /\ x + h =< m => wire[x + h] = LF
      /\ \A j \in 1 .. d : x + h + j =< m => wire[x + h + j] = all[i][j]
      /\ y - 1 =< m => wire[y - 1] = CR
      /\ y =< m => wire[y] = LF
  BY <1>5, <1>7, <1>8
<1> QED BY <1>1, <1>3, <1>6, <1>9 DEF FrameAt, h, d, x, y

\* Where the first line of what is pending ends.
LEMMA LineEndIsFirst ==
  ASSUME NEW pending \in Seq(Symbol)
  PROVE  \/ /\ LineEnd(pending) = 0
            /\ \A j \in 1 .. Len(pending) - 1 : ~ (pending[j] = CR /\ pending[j + 1] = LF)
         \/ /\ LineEnd(pending) \in 1 .. Len(pending) - 1
            /\ pending[LineEnd(pending)] = CR /\ pending[LineEnd(pending) + 1] = LF
            /\ \A j \in 1 .. Len(pending) - 1 : pending[j] = CR /\ pending[j + 1] = LF => LineEnd(pending) =< j
<1> DEFINE ends == {i \in 1 .. Len(pending) - 1 : pending[i] = CR /\ pending[i + 1] = LF}
           first == CHOOSE i \in ends : \A j \in ends : i =< j
<1>1. Len(pending) \in Nat /\ ends \in SUBSET Nat
  OBVIOUS
<1>2. CASE ends = {}
  BY <1>2 DEF LineEnd
<1>3. CASE ends # {}
  <2>1. first \in ends /\ \A j \in ends : first =< j
    <3> HIDE DEF ends
    <3>1. \E i \in ends : \A j \in ends : i =< j
      BY <1>1, <1>3, LeastNatural
    <3> QED BY <3>1
  <2>2. LineEnd(pending) = first
    BY <1>3 DEF LineEnd
  <2> HIDE DEF first
  <2> QED BY <2>1, <2>2
<1> QED BY <1>2, <1>3

\* The header of a frame is read once it has arrived, and says what the client said.
HeaderRead(all, signed, i, n, pending) ==
  LET h == HeaderLength(signed)
      header == SubSeq(pending, 1, h - 2)
  IN
  /\ n < h => LineEnd(pending) = 0
  /\ n >= h => /\ LineEnd(pending) = h - 1 /\ header # <<>> /\ header[1] = Size(Len(all[i]))
               /\ Signatures(header) = IF signed THEN <<Sig(SubSeq(all, 1, i))>> ELSE <<>>

LEMMA HeaderArrives ==
  ASSUME NEW all, Client(all), NEW signed \in BOOLEAN, NEW wire \in Seq(Symbol), NEW m \in Nat,
         NEW i \in 1 .. Len(all), NEW x, NEW y, FrameAt(all, signed, wire, m, i, x, y),
         NEW a \in 0 .. Len(wire), x =< a, m = Len(wire) \/ x + HeaderLength(signed) =< m
  PROVE  HeaderRead(all, signed, i, a - x, SubSeq(wire, x + 1, a))
<1> DEFINE h == HeaderLength(signed)
           pending == SubSeq(wire, x + 1, a)
           header == SubSeq(pending, 1, h - 2)
           n == a - x
           size == Size(Len(all[i]))
           sig == Sig(SubSeq(all, 1, i))
<1>0. /\ h = (IF signed THEN 4 ELSE 3) /\ x \in Nat /\ a \in Nat /\ n \in Nat /\ x \in 0 .. a /\ Len(wire) \in Nat
      /\ a =< Len(wire)
  BY DEF HeaderLength, FrameAt
<1>1. pending \in Seq(Symbol) /\ Len(pending) = n /\ \A j \in 1 .. n : pending[j] = wire[x + j]
  BY <1>0, PartOfWire
<1>2. /\ x + 1 =< m => wire[x + 1] = size
      /\ signed /\ x + 2 =< m => wire[x + 2] = sig
      /\ x + h - 1 =< m => wire[x + h - 1] = CR
      /\ x + h =< m => wire[x + h] = LF
  BY DEF FrameAt
<1>3. size.is = "size" /\ sig.is = "sig" /\ CR.is = "CR" /\ size # CR /\ sig # CR
  BY DEF Size, Sig, CR
<1> HIDE DEF h, pending, size, sig
<1>4. \A j \in 1 .. n : j =< h => x + j =< m
  BY <1>0 DEF h
<1>5. /\ n >= 1 => pending[1] = size
      /\ signed /\ n >= 2 => pending[2] = sig
      /\ n >= h - 1 => pending[h - 1] = CR
      /\ n >= h => pending[h] = LF
  <2>1. ASSUME n >= 1 PROVE pending[1] = size
    <3>1. 1 \in 1 .. n /\ 1 =< h
      BY <1>0, <2>1
    <3> QED BY <1>1, <1>2, <1>4, <3>1
  <2>2. ASSUME signed, n >= 2 PROVE pending[2] = sig
    <3>1. 2 \in 1 .. n /\ 2 =< h
      BY <1>0, <2>2
    <3> QED BY <1>1, <1>2, <1>4, <2>2, <3>1
  <2>3. ASSUME n >= h - 1 PROVE pending[h - 1] = CR
    <3>1. h - 1 \in 1 .. n /\ h - 1 =< h /\ x + (h - 1) = x + h - 1
      BY <1>0, <2>3
    <3> QED BY <1>1, <1>2, <1>4, <3>1
  <2>4. ASSUME n >= h PROVE pending[h] = LF
    <3>1. h \in 1 .. n /\ h =< h
      BY <1>0, <2>4
    <3> QED BY <1>1, <1>2, <1>4, <3>1
  <2> QED BY <2>1, <2>2, <2>3, <2>4
<1>6. ASSUME NEW j \in 1 .. n, j < h - 1 PROVE pending[j] # CR
  <2>1. (j = 1 /\ n >= 1) \/ (signed /\ j = 2 /\ n >= 2)
    BY <1>0, <1>6
  <2>2. (j = 1 /\ pending[1] = size) \/ (j = 2 /\ pending[2] = sig)
    BY <1>5, <2>1
  <2> QED BY <1>3, <2>2
<1>7. ASSUME n < h PROVE LineEnd(pending) = 0
  <2>1. ASSUME NEW j \in 1 .. n - 1, pending[j] = CR PROVE FALSE
    <3>1. j \in 1 .. n /\ j < h - 1
      BY <1>0, <1>7
    <3> QED BY <1>6, <2>1, <3>1
  <2> QED BY <1>1, <2>1, LineEndIsFirst
<1>8. ASSUME n >= h
      PROVE  /\ LineEnd(pending) = h - 1 /\ header # <<>> /\ header[1] = size
             /\ Signatures(header) = IF signed THEN <<sig>> ELSE <<>>
  <2> DEFINE end == LineEnd(pending)
  <2>1. h - 1 \in 1 .. n - 1 /\ pending[h - 1] = CR /\ pending[(h - 1) + 1] = LF
    <3>1. h - 1 \in 1 .. n - 1 /\ (h - 1) + 1 = h /\ n >= h - 1
      BY <1>0, <1>8
    <3> QED BY <1>5, <1>8, <3>1
  <2>2. end \in 1 .. n - 1 /\ pending[end] = CR /\ end =< h - 1
    BY <1>1, <2>1, LineEndIsFirst
  <2> HIDE DEF end
  <2>3. end = h - 1
    <3>1. ~ (end < h - 1)
      <4>1. end \in 1 .. n
        BY <1>0, <2>2
      <4> QED BY <1>6, <2>2, <4>1
    <3> QED BY <1>0, <2>2, <3>1
  <2>4. /\ header \in Seq(Symbol) /\ Len(header) = h - 2
        /\ \A j \in 1 .. h - 2 : header[j] = pending[j]
    <3> DEFINE l == h - 2
    <3>1. l \in Nat /\ l >= 1 /\ l =< n
      BY <1>0, <1>8
    <3> HIDE DEF l
    <3>2. /\ SubSeq(pending, 1, l) \in Seq(Symbol)
          /\ Len(SubSeq(pending, 1, l)) = IF 1 =< l THEN l - 1 + 1 ELSE 0
          /\ \A j \in 1 .. l - 1 + 1 : SubSeq(pending, 1, l)[j] = pending[1 + j - 1]
      BY <1>1, <3>1, PlainSlice
    <3>3. Len(SubSeq(pending, 1, l)) = l /\ \A j \in 1 .. l : SubSeq(pending, 1, l)[j] = pending[j]
      BY <3>1, <3>2
    <3> QED BY <3>2, <3>3 DEF l
  <2> HIDE DEF header
  <2>5. header[1] = size /\ header # <<>>
    <3>1. 1 \in 1 .. h - 2 /\ n >= 1
      BY <1>0, <1>8
    <3> QED BY <1>5, <2>4, <3>1
  <2>6. Signatures(header) = IF signed THEN <<sig>> ELSE <<>>
    <3>1. CASE signed
      <4>1. 2 \in 2 .. Len(header) /\ 2 \in 1 .. h - 2 /\ n >= 2 /\ \A j \in 2 .. Len(header) : j = 2
        BY <1>0, <1>8, <2>4, <3>1
      <4>2. header[2] = sig /\ header[2].is = "sig"
        BY <1>3, <1>5, <2>4, <3>1, <4>1
      <4> QED BY <2>4, <3>1, <4>1, <4>2, SignatureIsFirst
    <3>2. CASE ~signed
      <4>1. \A j \in 2 .. Len(header) : FALSE
        BY <1>0, <2>4, <3>2
      <4> QED BY <2>4, <3>2, <4>1, SignatureIsFirst
    <3> QED BY <3>1, <3>2
  <2> QED BY <2>3, <2>5, <2>6 DEF end
<1> QED BY <1>7, <1>8 DEF HeaderRead, h, pending, size, sig

-----------------------------------------------------------------------------
\* Where the parser is in frame i, from x to y: the frames before it have been read,
\* up to k.
At(all, signed, p, k, i, x, y) ==
  /\ p.state \in {"header", "data", "terminator"}
  /\ signed => p.chain = SubSeq(all, 1, i - 1)
  /\ p.state = "header" => k = x /\ p.out = Told(all, i - 1)
  /\ p.state # "header" =>
        /\ p.final <=> i = Len(all)
        /\ signed => p.signature = <<Sig(SubSeq(all, 1, i))>>
        /\ p.out = Told(all, i - 1) \o p.chunk
  /\ p.state = "data" =>
        /\ p.remaining > 0 /\ Len(p.chunk) + p.remaining = Len(all[i])
        /\ \A j \in 1 .. Len(p.chunk) : p.chunk[j] = all[i][j]
        /\ k = x + HeaderLength(signed) + Len(p.chunk)
  /\ p.state = "terminator" => k = y - 2 /\ p.chunk = all[i]

\* Where one turn of consume may take it: it stays in the frame, or has read all of
\* it; only a body that does not arrive whole is refused.
Turned(all, signed, wire, m, i, x, y, a, q) ==
  /\ \E k \in 0 .. a :
        /\ q.pending = SubSeq(wire, k + 1, a)
        /\ \/ k =< m /\ At(all, signed, q, k, i, x, y)
           \/ /\ k = y /\ y =< m /\ q.state = IF i = Len(all) THEN "done" ELSE "header"
              /\ q.out = Told(all, i) /\ (signed => q.chain = SubSeq(all, 1, i))
           \/ q.state = "malformed" /\ ~ (m = Len(wire) /\ m >= y - 2)
  /\ q.signed = signed

\* A turn that has all it waits for does something.
GetsOn(wire, m, needed, a, p, q) == a = m /\ m = Len(wire) /\ m >= needed => q # p

\* What has been told is no more than what there is to tell.
LEMMA ToldIsBounded ==
  ASSUME NEW all \in Seq(Seq(Byte))
  PROVE  \A i \in 0 .. Len(all) : Len(Told(all, i)) \in Nat /\ Len(Told(all, i)) =< Len(Plain(all))
<1> DEFINE N == Len(all)
           l(i) == Len(Told(all, i))
<1>0. N \in Nat /\ Told(all, N) = Plain(all) /\ \A i \in 0 .. N : l(i) \in Nat
  <2>0. N \in Nat
    OBVIOUS
  <2>1. Told(all, N) = Plain(all) /\ \A i \in 0 .. N : Told(all, i) \in Seq(Byte)
    BY ToldByChunks
  <2>2. ASSUME NEW i \in 0 .. N PROVE l(i) \in Nat
    <3> DEFINE s == Told(all, i)
    <3>1. s \in Seq(Byte)
      BY <2>1
    <3> HIDE DEF s
    <3>2. Len(s) \in Nat
      BY <3>1
    <3> QED BY <3>2 DEF s
  <2> QED BY <2>0, <2>1, <2>2
<1>1. ASSUME NEW i \in 1 .. N PROVE l(i - 1) =< l(i)
  <2> DEFINE s == Told(all, i - 1)
             t == all[i]
  <2>1. i - 1 \in 0 .. N /\ t \in Seq(Byte) /\ Told(all, i) = s \o t
    <3>1. i - 1 \in 0 .. N
      BY <1>0
    <3>2. t \in Seq(Byte) /\ Told(all, i) = s \o t
      BY ToldByChunks
    <3> QED BY <3>1, <3>2
  <2>2. s \in Seq(Byte)
    BY <2>1, ToldByChunks
  <2> HIDE DEF s, t
  <2>3. Len(s \o t) = Len(s) + Len(t) /\ Len(s) \in Nat /\ Len(t) \in Nat
    BY <2>1, <2>2, OneAfterTheOther
  <2>4. l(i) = Len(s) + Len(t) /\ l(i - 1) = Len(s)
    BY <2>1, <2>3 DEF s
  <2> HIDE DEF l
  <2> QED BY <2>3, <2>4
<1> HIDE DEF N, l
<1> DEFINE T == {n \in Nat : n =< N => l(N - n) =< l(N)}
<1>2. 0 \in T
  <2>1. N - 0 = N /\ l(N) \in Nat
    BY <1>0
  <2> QED BY <2>1
<1>3. ASSUME NEW n \in Nat, n \in T PROVE n + 1 \in T
  <2>1. SUFFICES ASSUME n + 1 =< N PROVE l(N - (n + 1)) =< l(N)
    OBVIOUS
  <2> DEFINE b == l(N - (n + 1))
             c == l(N - n)
             d == l(N)
  <2>2. N - n \in 1 .. N /\ (N - n) - 1 = N - (n + 1) /\ N - n \in 0 .. N /\ N - (n + 1) \in 0 .. N /\ N \in 0 .. N
    BY <1>0, <2>1
  <2>3. b \in Nat /\ c \in Nat /\ d \in Nat
    BY <1>0, <2>2
  <2>4. b =< c
    <3>1. l((N - n) - 1) =< l(N - n)
      BY <1>1, <2>2
    <3> QED BY <2>2, <3>1
  <2>5. c =< d
    BY <1>0, <1>3, <2>2
  <2> HIDE DEF b, c, d
  <2>6. b =< d
    BY <2>3, <2>4, <2>5
  <2> QED BY <2>6 DEF b, d
<1>4. \A n \in 0 .. N : n \in T
  <2>1. T \in SUBSET Nat
    OBVIOUS
  <2> HIDE DEF T
  <2> QED BY <1>0, <1>2, <1>3, <2>1, CountUp
<1>5. ASSUME NEW i \in 0 .. N PROVE l(i) =< l(N)
  <2>1. N - i \in 0 .. N /\ N - (N - i) = i
    BY <1>0
  <2>2. N - i =< N
    BY <1>0
  <2>3. l(N - (N - i)) =< l(N)
    <3> DEFINE n == N - i
    <3>1. n \in 0 .. N /\ n =< N
      BY <2>1, <2>2
    <3> HIDE DEF n
    <3>2. n \in T
      BY <1>4, <3>1
    <3>3. l(N - n) =< l(N)
      BY <3>1, <3>2
    <3> QED BY <3>3 DEF n
  <2> QED BY <2>1, <2>3
<1> QED BY <1>0, <1>5 DEF N, l

\* consumeHeader on an intact body.
LEMMA TurnOfHeader ==
  ASSUME NEW all, Client(all), NEW signed \in BOOLEAN, NEW wire \in Seq(Symbol), NEW m \in Nat, m =< Len(wire),
         NEW i \in 1 .. Len(all), NEW x, NEW y, FrameAt(all, signed, wire, m, i, x, y),
         NEW p, Parser(p), p.signed = signed, p.state = "header",
         NEW a \in 0 .. Len(wire), NEW k \in 0 .. a, k =< m, p.pending = SubSeq(wire, k + 1, a),
         At(all, signed, p, k, i, x, y)
  PROVE  /\ Turned(all, signed, wire, m, i, x, y, a, ConsumeHeader(p)) /\ ConsumeHeader(p).out = p.out
         /\ GetsOn(wire, m, y - 2, a, p, ConsumeHeader(p))
<1> DEFINE h == HeaderLength(signed)
           d == Len(all[i])
           end == LineEnd(p.pending)
           header == SubSeq(p.pending, 1, end - 1)
           found == Signatures(header)
           size == header[1].n
           q == ConsumeHeader(p)
<1>0. /\ h \in {3, 4} /\ d \in Nat /\ Len(wire) \in Nat /\ a \in Nat /\ a =< Len(wire) /\ k \in Nat /\ k =< a
      /\ x \in Nat /\ y = x + h + d + 2 /\ all \in Seq(Seq(Byte)) /\ Len(all) \in Nat /\ MaxHeader \in Nat /\ MaxHeader >= 4
  <2>1. all \in Seq(Seq(Byte)) /\ Len(all) \in Nat
    BY DEF Client
  <2>2. d \in Nat
    BY <2>1
  <2> QED BY <2>1, <2>2, PayloadAssumption DEF HeaderLength, FrameAt
<1>1. k = x /\ p.out = Told(all, i - 1) /\ (signed => p.chain = SubSeq(all, 1, i - 1))
  BY DEF At
<1>2. Len(p.pending) = a - x /\ p.pending \in Seq(Symbol) /\ \A j \in 1 .. a - x : p.pending[j] = wire[x + j]
  BY <1>1, PartOfWire
<1>3. Parser([p EXCEPT !.state = "malformed"])
  BY DEF Parser
<1>4. /\ x =< m => \/ m = Len(wire) \/ m >= y
                   \/ m = x /\ wire[m + 1].is # "size"
                   \/ m = y - 2 /\ wire[m + 1] # CR
                   \/ m = y - 1 /\ wire[m + 1] # LF
  BY DEF FrameAt
<1>5. q = p => Turned(all, signed, wire, m, i, x, y, a, q)
  BY <1>0 DEF Turned
<1> DEFINE failed == [p EXCEPT !.state = "malformed"]
<1>6. ASSUME ~ (m = Len(wire) /\ m >= y - 2) PROVE Turned(all, signed, wire, m, i, x, y, a, failed)
  <2>1. failed.state = "malformed" /\ failed.pending = p.pending /\ failed.signed = p.signed
    BY DEF Parser
  <2> HIDE DEF failed
  <2> QED BY <1>6, <2>1 DEF Turned
<1>7. failed.out = p.out /\ failed # p
  <2>1. failed.out = p.out /\ failed.state = "malformed"
    BY DEF Parser
  <2> QED BY <2>1
<1> HIDE DEF failed, q, h, d
<1>8. CASE m = x /\ m # Len(wire) /\ wire[m + 1].is # "size"
  <2>1. q = p \/ q = failed
    <3>1. CASE end = 0 \/ header = <<>>
      BY <3>1 DEF ConsumeHeader, Fail, q, failed
    <3>2. CASE end # 0 /\ header # <<>>
      <4>1. end \in 1 .. (a - x) - 1
        BY <1>2, <3>2, LineEndIsFirst
      <4> HIDE DEF end
      <4>2. end - 1 \in Nat /\ end - 1 =< a - x /\ a - x >= 1
        BY <1>0, <4>1
      <4>3. /\ header \in Seq(Symbol) /\ Len(header) = IF 1 =< end - 1 THEN (end - 1) - 1 + 1 ELSE 0
            /\ \A j \in 1 .. (end - 1) - 1 + 1 : header[j] = p.pending[1 + j - 1]
        <5> DEFINE l == end - 1
        <5>1. l \in Nat /\ l =< Len(p.pending)
          BY <1>2, <4>2
        <5> HIDE DEF l
        <5>2. /\ SubSeq(p.pending, 1, l) \in Seq(Symbol) /\ Len(SubSeq(p.pending, 1, l)) = IF 1 =< l THEN l - 1 + 1 ELSE 0
              /\ \A j \in 1 .. l - 1 + 1 : SubSeq(p.pending, 1, l)[j] = p.pending[1 + j - 1]
          BY <1>2, <5>1, PlainSlice
        <5> QED BY <5>2 DEF l
      <4>4. header[1] = p.pending[1]
        <5>1. end - 1 >= 1
          <6>1. end - 1 < 1 => Len(header) = 0
            BY <4>1, <4>3
          <6> HIDE DEF header
          <6>2. Len(header) = 0 => header = <<>>
            BY <4>3, EmptySeq
          <6> QED BY <3>2, <4>1, <6>1, <6>2
        <5>2. 1 \in 1 .. (end - 1) - 1 + 1 /\ 1 + 1 - 1 = 1
          BY <4>1, <5>1
        <5> HIDE DEF header
        <5>3. header[1] = p.pending[1 + 1 - 1]
          BY <4>3, <5>2
        <5> QED BY <5>2, <5>3
      <4>5. p.pending[1] = wire[m + 1]
        <5>1. 1 \in 1 .. a - x
          BY <1>0, <4>2
        <5> QED BY <1>2, <1>8, <5>1
      <4>6. header[1].is # "size"
        BY <1>8, <4>4, <4>5
      <4> HIDE DEF header
      <4> QED BY <3>2, <4>6 DEF ConsumeHeader, Fail, q, failed, header, end
    <3> QED BY <3>1, <3>2
  <2>2. ~ (m = Len(wire) /\ m >= y - 2)
    BY <1>8
  <2> QED BY <1>5, <1>6, <1>7, <1>8, <2>1, <2>2 DEF q, GetsOn
<1>9. CASE m = Len(wire) \/ x + h =< m
  <2>1. /\ a - x < h => end = 0
        /\ a - x >= h => /\ end = h - 1 /\ SubSeq(p.pending, 1, h - 2) # <<>> /\ SubSeq(p.pending, 1, h - 2)[1] = Size(d)
                         /\ Signatures(SubSeq(p.pending, 1, h - 2)) = IF signed THEN <<Sig(SubSeq(all, 1, i))>> ELSE <<>>
    <3>1. x =< a /\ p.pending = SubSeq(wire, x + 1, a)
      BY <1>0, <1>1
    <3>2. m = Len(wire) \/ x + HeaderLength(signed) =< m
      BY <1>9 DEF h
    <3>3. HeaderRead(all, signed, i, a - x, SubSeq(wire, x + 1, a))
      BY <3>1, <3>2, HeaderArrives
    <3>4. HeaderRead(all, signed, i, a - x, p.pending)
      BY <3>1, <3>3
    <3> QED BY <3>4 DEF HeaderRead, h, d
  <2>2. CASE a - x < h
    <3>1. end = 0 /\ ~ (Len(p.pending) > MaxHeader)
      BY <1>0, <1>2, <2>1, <2>2
    <3>2. q = p
      BY <3>1 DEF ConsumeHeader, q
    <3>3. ~ (a = m /\ m = Len(wire) /\ m >= y - 2)
      BY <1>0, <2>2
    <3> QED BY <1>5, <3>2, <3>3 DEF q, GetsOn
  <2>3. CASE a - x >= h
    <3>1. end = h - 1 /\ end # 0 /\ end - 1 = h - 2 /\ end + 2 = h + 1
      <4>1. end = h - 1 /\ (h = 3 \/ h = 4)
        BY <1>0, <2>1, <2>3
      <4> HIDE DEF end
      <4> QED BY <4>1
    <3>2. header # <<>> /\ header[1] = Size(d) /\ found = IF signed THEN <<Sig(SubSeq(all, 1, i))>> ELSE <<>>
      BY <2>1, <2>3, <3>1
    <3> HIDE DEF header, found, end
    <3>3. header[1].is = "size" /\ size = d /\ (signed => found # <<>>)
      BY <3>2 DEF Size
    <3> DEFINE rest == From(p.pending, end + 2)
               state == IF size = 0 THEN "terminator" ELSE "data"
    <3>4. q = [p EXCEPT !.pending = rest, !.remaining = size, !.final = size = 0,
                        !.signature = found, !.chunk = <<>>, !.state = state]
      BY <3>1, <3>2, <3>3 DEF ConsumeHeader, end, header, found, q
    <3>5. rest = SubSeq(wire, (x + h) + 1, a)
      <4>1. h \in 0 .. a - x /\ x \in 0 .. a
        <5>1. h \in Nat /\ h =< a - x /\ x \in Nat /\ x =< a /\ a - x \in Nat
          BY <1>0, <1>1, <2>3
        <5> QED BY <1>0, <5>1
      <4>2. From(SubSeq(wire, x + 1, a), h + 1) = SubSeq(wire, (x + h) + 1, a)
        <5> HIDE DEF h
        <5> QED BY <4>1, WindowFrom
      <4> QED BY <1>1, <3>1, <4>2
    <3>6. (size = 0) \in BOOLEAN /\ state = IF d = 0 THEN "terminator" ELSE "data"
      BY <3>3
    <3> HIDE DEF rest, size, state
    <3>7. /\ q.pending = rest /\ q.remaining = size /\ q.final = (size = 0) /\ q.signature = found /\ q.chunk = <<>>
          /\ q.state = state /\ q.signed = p.signed /\ q.chain = p.chain /\ q.out = p.out
      BY <3>4, <3>6 DEF Parser
    <3>8. d = 0 <=> all[i] = <<>>
      <4>1. all[i] \in Seq(Byte)
        BY <1>0
      <4> QED BY <4>1, EmptySeq DEF d
    <3>9. d = 0 <=> i = Len(all)
      BY <3>8 DEF Client
    <3>10. p.out = Told(all, i - 1) \o <<>>
      <4>1. i - 1 \in 0 .. Len(all)
        BY <1>0
      <4>2. Told(all, i - 1) \in Seq(Byte)
        BY <1>0, <4>1, ToldByChunks
      <4> QED BY <1>1, <4>2, ConcatEmptySeq
    <3>11. x + h \in 0 .. a /\ x + h =< m /\ (d = 0 => x + h = y - 2)
      BY <1>0, <1>9, <2>3
    <3>12. Len(<<>>) = 0 /\ x + h + 0 = x + h /\ 0 + d = d /\ \A j \in 1 .. 0 : FALSE
      BY <1>0
    <3>13. At(all, signed, q, x + h, i, x, y)
      <4>1. q.final <=> i = Len(all)
        BY <3>3, <3>7, <3>9
      <4>2. signed => q.signature = <<Sig(SubSeq(all, 1, i))>>
        BY <3>2, <3>7
      <4>3. q.out = Told(all, i - 1) \o q.chunk
        BY <3>7, <3>10
      <4>4. state = "data" => q.remaining > 0 /\ Len(q.chunk) + q.remaining = d
        BY <1>0, <3>3, <3>6, <3>7, <3>12
      <4>5. state = "terminator" => x + h = y - 2 /\ q.chunk = all[i]
        BY <3>6, <3>7, <3>8, <3>11
      <4>6. state \in {"data", "terminator"}
        BY <3>6
      <4>7. (\A j \in 1 .. Len(q.chunk) : q.chunk[j] = all[i][j]) /\ x + h = x + h + Len(q.chunk)
        BY <3>7, <3>12
      <4> QED BY <1>1, <3>7, <4>1, <4>2, <4>3, <4>4, <4>5, <4>6, <4>7 DEF At, h, d
    <3>14. q.pending = SubSeq(wire, (x + h) + 1, a) /\ q.signed = signed
      BY <3>5, <3>7
    <3>15. Turned(all, signed, wire, m, i, x, y, a, q)
      <4> DEFINE l == x + h
      <4> HIDE DEF l
      <4>1. l \in 0 .. a /\ l =< m /\ q.pending = SubSeq(wire, l + 1, a) /\ At(all, signed, q, l, i, x, y)
        BY <3>11, <3>13, <3>14 DEF l
      <4> QED BY <3>14, <4>1 DEF Turned
    <3>16. q # p
      BY <3>6, <3>7
    <3> QED BY <3>7, <3>15, <3>16 DEF q, GetsOn
  <2> QED BY <1>0, <2>2, <2>3
<1>10. (m = x /\ m # Len(wire) /\ wire[m + 1].is # "size") \/ m = Len(wire) \/ x + h =< m
  <2>1. x =< m
    BY <1>1
  <2>3. m >= y => x + h =< m
    BY <1>0
  <2>4. m = y - 2 => x + h =< m
    BY <1>0
  <2>5. m = y - 1 => x + h =< m
    BY <1>0
  <2> QED BY <1>4, <2>1, <2>3, <2>4, <2>5
<1> QED BY <1>8, <1>9, <1>10

\* consumeData on an intact body.
LEMMA TurnOfData ==
  ASSUME NEW all, Client(all), NEW signed \in BOOLEAN, NEW wire \in Seq(Symbol), NEW m \in Nat, m =< Len(wire),
         NEW i \in 1 .. Len(all), NEW x, NEW y, FrameAt(all, signed, wire, m, i, x, y),
         NEW p, Parser(p), p.signed = signed, p.state = "data",
         NEW a \in 0 .. Len(wire), NEW k \in 0 .. a, k =< m, p.pending = SubSeq(wire, k + 1, a),
         At(all, signed, p, k, i, x, y)
  PROVE  /\ Turned(all, signed, wire, m, i, x, y, a, ConsumeData(p)) /\ Len(ConsumeData(p).out) =< Len(Plain(all))
         /\ GetsOn(wire, m, y - 2, a, p, ConsumeData(p))
<1> DEFINE h == HeaderLength(signed)
           d == Len(all[i])
           n == Len(p.chunk)
           r == p.remaining
           take == IF p.remaining < Len(p.pending) THEN p.remaining ELSE Len(p.pending)
           data == SubSeq(p.pending, 1, take)
           rest == From(p.pending, take + 1)
           chunk == p.chunk \o data
           out == p.out \o data
           left == p.remaining - take
           state == IF take = p.remaining THEN "terminator" ELSE "data"
           q == ConsumeData(p)
<1>0. /\ h \in {3, 4} /\ d \in Nat /\ Len(wire) \in Nat /\ a \in Nat /\ a =< Len(wire) /\ k \in Nat /\ k =< a
      /\ x \in Nat /\ y = x + h + d + 2 /\ all \in Seq(Seq(Byte)) /\ Len(all) \in Nat
  <2>1. all \in Seq(Seq(Byte)) /\ Len(all) \in Nat
    BY DEF Client
  <2>2. d \in Nat
    BY <2>1
  <2> QED BY <2>1, <2>2 DEF HeaderLength, FrameAt
<1>1. n \in Nat /\ r \in Nat /\ p.chunk \in Seq(Symbol) /\ p.final \in BOOLEAN
  BY DEF Parser
<1>2. /\ signed => p.chain = SubSeq(all, 1, i - 1) /\ p.signature = <<Sig(SubSeq(all, 1, i))>>
      /\ (p.final <=> i = Len(all)) /\ p.out = Told(all, i - 1) \o p.chunk
      /\ r > 0 /\ n + r = d /\ k = x + h + n /\ \A j \in 1 .. n : p.chunk[j] = all[i][j]
  BY DEF At
<1>3. Len(p.pending) = a - k /\ p.pending \in Seq(Symbol) /\ \A j \in 1 .. a - k : p.pending[j] = wire[k + j]
  BY PartOfWire
<1>4. x =< m => m = Len(wire) \/ m >= y \/ m = x \/ m = y - 2 \/ m = y - 1
  BY DEF FrameAt
<1>5. \A j \in 1 .. d : x + h + j =< m => wire[x + h + j] = all[i][j]
  BY DEF FrameAt
<1>6. q = [p EXCEPT !.pending = rest, !.remaining = left, !.chunk = chunk, !.out = out, !.state = state]
  BY DEF ConsumeData
<1>7. take = (IF r < a - k THEN r ELSE a - k)
  BY <1>3
<1> HIDE DEF h, d, n, r, q
<1>8. take \in Nat /\ take =< r /\ take =< a - k /\ a - k \in Nat /\ (take = r \/ take = a - k)
  BY <1>0, <1>1, <1>7
<1> HIDE DEF take
<1>9. k + take =< y - 2 /\ k + take =< a
  BY <1>0, <1>1, <1>2, <1>8
<1>10. k + take =< m
  <2>1. x =< m /\ m # x
    BY <1>0, <1>1, <1>2
  <2>2. CASE m = Len(wire)
    BY <1>0, <1>8, <1>9, <2>2
  <2>3. CASE m >= y - 2
    BY <1>0, <1>8, <1>9, <2>3
  <2>4. m = Len(wire) \/ m >= y - 2
    BY <1>0, <1>4, <2>1
  <2> QED BY <2>2, <2>3, <2>4
<1>11. data \in Seq(Symbol) /\ Len(data) = take /\ \A j \in 1 .. take : data[j] = all[i][n + j]
  <2>1. /\ data \in Seq(Symbol) /\ Len(data) = IF 1 =< take THEN take - 1 + 1 ELSE 0
        /\ \A j \in 1 .. take - 1 + 1 : data[j] = p.pending[1 + j - 1]
    <3>1. take =< Len(p.pending) /\ 1 \in Nat /\ 1 > 0
      BY <1>3, <1>8
    <3> QED BY <1>3, <1>8, <3>1, PlainSlice
  <2> HIDE DEF data
  <2>2. Len(data) = take /\ \A j \in 1 .. take : data[j] = p.pending[j]
    BY <1>8, <2>1
  <2>3. ASSUME NEW j \in 1 .. take PROVE data[j] = all[i][n + j]
    <3>1. j \in 1 .. a - k /\ n + j \in 1 .. d /\ x + h + (n + j) = k + j /\ k + j =< m
      BY <1>0, <1>1, <1>2, <1>8, <1>10
    <3>2. x + h + (n + j) =< m => wire[x + h + (n + j)] = all[i][n + j]
      BY <1>5, <3>1
    <3> QED BY <1>3, <2>2, <3>1, <3>2
  <2> QED BY <2>1, <2>2, <2>3
<1>12. rest = SubSeq(wire, (k + take) + 1, a)
  <2>1. take \in 0 .. a - k
    BY <1>8
  <2> QED BY <2>1, WindowFrom
<1> HIDE DEF data, rest
<1>13. chunk \in Seq(Symbol) /\ Len(chunk) = n + take /\ \A j \in 1 .. n + take : chunk[j] = all[i][j]
  <2> DEFINE u == p.chunk
  <2>1. u \in Seq(Symbol) /\ data \in Seq(Symbol) /\ Len(u) = n /\ Len(data) = take
    BY <1>1, <1>11 DEF n
  <2> HIDE DEF u
  <2>2. /\ u \o data \in Seq(Symbol) /\ Len(u \o data) = Len(u) + Len(data)
        /\ \A j \in 1 .. Len(u) : (u \o data)[j] = u[j]
        /\ \A j \in 1 .. Len(data) : (u \o data)[Len(u) + j] = data[j]
    <3>1. u \in Seq(Symbol) /\ data \in Seq(Symbol)
      BY <2>1
    <3> QED BY <3>1, OneAfterTheOther
  <2>3. chunk = u \o data
    BY DEF u
  <2> HIDE DEF chunk
  <2>4. /\ chunk \in Seq(Symbol) /\ Len(chunk) = n + take
        /\ (\A j \in 1 .. n : chunk[j] = u[j]) /\ \A j \in 1 .. take : chunk[n + j] = data[j]
    BY <2>1, <2>2, <2>3
  <2>5. ASSUME NEW j \in 1 .. n + take PROVE chunk[j] = all[i][j]
    <3>1. CASE j =< n
      <4>1. j \in 1 .. n
        BY <1>1, <3>1
      <4> QED BY <1>2, <2>4, <4>1 DEF u
    <3>2. CASE ~ (j =< n)
      <4> DEFINE l == j - n
      <4>1. l \in 1 .. take /\ n + l = j
        BY <1>1, <1>8, <3>2
      <4> HIDE DEF l
      <4>2. chunk[n + l] = data[l] /\ data[l] = all[i][n + l]
        BY <1>11, <2>4, <4>1
      <4> QED BY <4>1, <4>2
    <3> QED BY <3>1, <3>2
  <2> QED BY <2>4, <2>5
<1>14. out = Told(all, i - 1) \o chunk /\ Len(out) =< Len(Plain(all)) /\ out \in Seq(Symbol)
  <2> DEFINE s == Told(all, i - 1)
             u == p.chunk
             t == all[i]
  <2>1. i - 1 \in 0 .. Len(all) /\ i \in 0 .. Len(all)
    BY <1>0
  <2>2. s \in Seq(Symbol) /\ t \in Seq(Byte) /\ Told(all, i) = s \o t /\ s \in Seq(Byte)
    <3>1. s \in Seq(Byte) /\ t \in Seq(Byte) /\ Told(all, i) = s \o t
      BY <1>0, <2>1, ToldByChunks
    <3> HIDE DEF s
    <3> QED BY <3>1, LineEndsAreBytes
  <2>3. u \in Seq(Symbol) /\ data \in Seq(Symbol) /\ p.out = s \o u
    BY <1>1, <1>2, <1>11
  <2> HIDE DEF s, u, t
  <2>4. (s \o u) \o data = s \o (u \o data)
    <3>1. s \in Seq(Symbol) /\ u \in Seq(Symbol) /\ data \in Seq(Symbol)
      BY <2>2, <2>3
    <3> QED BY <3>1, SymbolsInOrder
  <2>5. out = s \o chunk
    BY <2>3, <2>4 DEF u
  <2> HIDE DEF chunk, out
  <2>6. s \o chunk \in Seq(Symbol) /\ Len(s \o chunk) = Len(s) + Len(chunk) /\ Len(s) \in Nat
    <3>1. s \in Seq(Symbol) /\ chunk \in Seq(Symbol)
      BY <1>13, <2>2
    <3> QED BY <3>1, OneAfterTheOther
  <2>7. Len(s \o t) = Len(s) + d
    <3>1. s \in Seq(Byte) /\ t \in Seq(Byte) /\ d = Len(t)
      BY <2>2 DEF d, t
    <3> HIDE DEF d
    <3> QED BY <3>1, OneAfterTheOther
  <2>8. Len(Told(all, i)) =< Len(Plain(all)) /\ Len(Told(all, i)) \in Nat /\ Len(Plain(all)) \in Nat
    <3>1. Len(all) \in 0 .. Len(all)
      BY <1>0
    <3> QED BY <1>0, <2>1, <3>1, ToldIsBounded, ToldByChunks
  <2> DEFINE lo == Len(out)
             lp == Len(Plain(all))
  <2>9. lo = Len(s) + (n + take) /\ Len(s) + d =< lp /\ lp \in Nat /\ Len(s) \in Nat
    BY <1>13, <2>2, <2>5, <2>6, <2>7, <2>8
  <2>10. lo =< lp
    <3> DEFINE ls == Len(s)
    <3>1. lo = ls + (n + take) /\ ls + d =< lp /\ lp \in Nat /\ ls \in Nat
      BY <2>9
    <3> HIDE DEF lo, lp, ls
    <3> QED BY <1>0, <1>1, <1>2, <1>8, <3>1
  <2> QED BY <2>5, <2>6, <2>10 DEF s
<1> HIDE DEF chunk, out
<1>15. state \in {"data", "terminator"} /\ left \in Int
  <2>1. p.remaining \in Int /\ take \in Int
    BY <1>1, <1>8 DEF r
  <2>2. left \in Int
    BY <2>1
  <2> QED BY <2>2
<1>16. left = r - take /\ state = IF take = r THEN "terminator" ELSE "data"
  BY DEF r
<1> HIDE DEF left, state
<1>17. /\ q.pending = rest /\ q.remaining = left /\ q.chunk = chunk /\ q.out = out /\ q.state = state
       /\ q.signed = p.signed /\ q.chain = p.chain /\ q.signature = p.signature /\ q.final = p.final
  BY <1>6 DEF Parser
<1>18. At(all, signed, q, k + take, i, x, y)
  <2>1. state = "data" => left > 0 /\ (n + take) + left = d /\ k + take = x + h + (n + take)
    <3>1. state = "data" => take # r
      BY <1>16
    <3>2. k + take = x + h + (n + take) /\ (n + take) + left = d
      <4>1. /\ n \in Nat /\ r \in Nat /\ take \in Nat /\ d \in Nat /\ h \in Nat /\ x \in Nat
            /\ n + r = d /\ k = x + h + n /\ left = r - take
        BY <1>0, <1>1, <1>2, <1>8, <1>16
      <4> QED BY ONLY <4>1
    <3>3. take # r => left > 0
      BY <1>1, <1>8, <1>16
    <3> QED BY <3>1, <3>2, <3>3
  <2>2. state = "terminator" => k + take = y - 2 /\ n + take = d
    <3>1. state = "terminator" => take = r
      BY <1>16
    <3>2. take = r => k + take = y - 2 /\ n + take = d
      <4>1. /\ n \in Nat /\ r \in Nat /\ take \in Nat /\ d \in Nat /\ h \in Nat /\ x \in Nat
            /\ n + r = d /\ k = x + h + n /\ y = x + h + d + 2
        BY <1>0, <1>1, <1>2, <1>8
      <4> QED BY ONLY <4>1
    <3> QED BY <3>1, <3>2
  <2>3. ASSUME state = "terminator" PROVE chunk = all[i]
    <3>1. all[i] \in Seq(Symbol)
      <4>1. all[i] \in Seq(Byte)
        BY <1>0
      <4> QED BY <4>1, LineEndsAreBytes
    <3>2. Len(chunk) = Len(all[i]) /\ \A j \in 1 .. Len(chunk) : chunk[j] = all[i][j]
      BY <1>13, <2>2, <2>3 DEF d
    <3> QED BY <1>13, <3>1, <3>2, SeqEqual
  <2>4. state # "header"
    BY <1>15
  <2>5. q.state = "data" => Len(q.chunk) + q.remaining = Len(all[i]) /\ q.remaining > 0 /\ k + take = x + h + Len(q.chunk)
    BY <1>13, <1>17, <2>1 DEF d
  <2>6. \A j \in 1 .. Len(q.chunk) : q.chunk[j] = all[i][j]
    BY <1>13, <1>17
  <2> QED BY <1>2, <1>14, <1>15, <1>17, <2>2, <2>3, <2>4, <2>5, <2>6 DEF At, h
<1>19. Turned(all, signed, wire, m, i, x, y, a, q)
  <2> DEFINE l == k + take
  <2>1. l \in 0 .. a
    BY <1>0, <1>8, <1>9
  <2> HIDE DEF l
  <2>2. l =< m /\ q.pending = SubSeq(wire, l + 1, a) /\ At(all, signed, q, l, i, x, y)
    BY <1>10, <1>12, <1>17, <1>18 DEF l
  <2> QED BY <1>17, <2>1, <2>2 DEF Turned
<1>20. ASSUME a = m, m = Len(wire), m >= y - 2 PROVE q # p
  <2>1. take = r
    <3>1. a - k >= r
      BY <1>0, <1>1, <1>2, <1>20
    <3> QED BY <1>0, <1>1, <1>8, <3>1
  <2>2. left # r
    BY <1>1, <1>2, <1>16, <2>1
  <2> QED BY <1>17, <2>2 DEF r
<1> QED BY <1>14, <1>17, <1>19, <1>20 DEF q, GetsOn

\* What is signed grows by a chunk.
LEMMA PrefixGrows ==
  ASSUME NEW all \in Seq(Seq(Byte)), NEW i \in 1 .. Len(all)
  PROVE  SubSeq(all, 1, i) = Append(SubSeq(all, 1, i - 1), all[i])
<1> DEFINE D == Seq(Byte)
           x == SubSeq(all, 1, i)
           y == SubSeq(all, 1, i - 1)
           z == Append(y, all[i])
           k == i - 1
<1>0. i \in Nat /\ Len(all) \in Nat /\ i =< Len(all) /\ k \in Nat /\ k =< Len(all) /\ i = k + 1 /\ all[i] \in D /\ all \in Seq(D)
  BY ElementOfSeq
<1> HIDE DEF D
<1>1. x \in Seq(D) /\ Len(x) = i /\ \A j \in 1 .. i : x[j] = all[j]
  <2>1. /\ x \in Seq(D) /\ Len(x) = IF 1 =< i THEN i - 1 + 1 ELSE 0
        /\ \A j \in 1 .. i - 1 + 1 : x[j] = all[1 + j - 1]
    BY <1>0, PlainSlice
  <2> HIDE DEF x
  <2> QED BY <1>0, <2>1
<1>2. y \in Seq(D) /\ Len(y) = k /\ \A j \in 1 .. k : y[j] = all[j]
  <2> HIDE DEF k
  <2>1. /\ SubSeq(all, 1, k) \in Seq(D) /\ Len(SubSeq(all, 1, k)) = IF 1 =< k THEN k - 1 + 1 ELSE 0
        /\ \A j \in 1 .. k - 1 + 1 : SubSeq(all, 1, k)[j] = all[1 + j - 1]
    BY <1>0, PlainSlice
  <2>2. y = SubSeq(all, 1, k)
    BY DEF k
  <2> HIDE DEF y
  <2> QED BY <1>0, <2>1, <2>2
<1> HIDE DEF x, y, k
<1>3. /\ z \in Seq(D) /\ Len(z) = k + 1 /\ (\A j \in 1 .. k : z[j] = y[j]) /\ z[k + 1] = all[i]
  BY <1>0, <1>2, AppendProperties
<1> HIDE DEF z
<1>4. ASSUME NEW j \in 1 .. i PROVE x[j] = z[j]
  <2>1. CASE j = i
    BY <1>0, <1>1, <1>3, <2>1
  <2>2. CASE j # i
    <3>1. j \in 1 .. k
      BY <1>0, <2>2
    <3> QED BY <1>1, <1>2, <1>3, <3>1
  <2> QED BY <2>1, <2>2
<1>5. x = z
  BY <1>0, <1>1, <1>3, <1>4, SeqEqual
<1> QED BY <1>5 DEF x, y, z

\* verifyChunk accepts a chunk that has arrived as the client sent it.
ChunkTaken(all, i, p, next, q) ==
  /\ q.state = next /\ q.pending = p.pending /\ q.signed = p.signed /\ q.out = p.out
  /\ p.signed => q.chain = SubSeq(all, 1, i)

LEMMA ChunkIsRight ==
  ASSUME NEW all, Client(all), NEW i \in 1 .. Len(all), NEW p, Parser(p), NEW next \in {"header", "done"},
         p.signed => p.chain = SubSeq(all, 1, i - 1) /\ p.signature = <<Sig(SubSeq(all, 1, i))>>, p.chunk = all[i]
  PROVE  ChunkTaken(all, i, p, next, VerifyChunk(p, next))
<1> DEFINE q == VerifyChunk(p, next)
<1>1. SubSeq(all, 1, i) = Append(SubSeq(all, 1, i - 1), all[i])
  BY PrefixGrows DEF Client
<1>2. CASE ~p.signed
  <2>1. q = [p EXCEPT !.state = next]
    BY <1>2 DEF VerifyChunk
  <2> HIDE DEF q
  <2>2. q.state = next /\ q.pending = p.pending /\ q.signed = p.signed /\ q.out = p.out
    BY <2>1 DEF Parser
  <2> QED BY <1>2, <2>2 DEF ChunkTaken, q
<1>3. CASE p.signed
  <2> DEFINE over == p.signature[1].over
             sig == Sig(SubSeq(all, 1, i))
  <2>1. p.signature # <<>> /\ over = SubSeq(all, 1, i) /\ over = Append(p.chain, p.chunk)
    <3>1. sig.over = SubSeq(all, 1, i)
      BY DEF Sig
    <3> HIDE DEF sig
    <3>2. p.signature = <<sig>>
      BY <1>3 DEF sig
    <3>3. p.signature # <<>> /\ p.signature[1] = sig
      BY <3>2
    <3> QED BY <1>1, <1>3, <3>1, <3>3
  <2>2. q = [p EXCEPT !.state = next, !.chain = over]
    BY <1>3, <2>1 DEF VerifyChunk
  <2> HIDE DEF q, over
  <2>3. q.state = next /\ q.pending = p.pending /\ q.signed = p.signed /\ q.out = p.out /\ q.chain = over
    BY <2>2 DEF Parser
  <2> QED BY <2>1, <2>3 DEF ChunkTaken, q
<1> QED BY <1>2, <1>3

\* consumeTerminator on an intact body.
LEMMA TurnOfTerminator ==
  ASSUME NEW all, Client(all), NEW signed \in BOOLEAN, NEW wire \in Seq(Symbol), NEW m \in Nat, m =< Len(wire),
         NEW i \in 1 .. Len(all), NEW x, NEW y, FrameAt(all, signed, wire, m, i, x, y),
         NEW p, Parser(p), p.signed = signed, p.state = "terminator",
         NEW a \in 0 .. Len(wire), NEW k \in 0 .. a, k =< m, p.pending = SubSeq(wire, k + 1, a),
         At(all, signed, p, k, i, x, y)
  PROVE  /\ Turned(all, signed, wire, m, i, x, y, a, ConsumeTerminator(p)) /\ ConsumeTerminator(p).out = p.out
         /\ GetsOn(wire, m, y, a, p, ConsumeTerminator(p))
<1> DEFINE q == ConsumeTerminator(p)
           failed == [p EXCEPT !.state = "malformed"]
           rest == From(p.pending, 3)
           fed == [p EXCEPT !.pending = rest]
           next == IF p.final THEN "done" ELSE "header"
           n == a - k
<1>0. /\ Len(wire) \in Nat /\ a \in Nat /\ a =< Len(wire) /\ k \in Nat /\ n \in Nat
      /\ x \in Nat /\ y \in Nat /\ all \in Seq(Seq(Byte)) /\ Len(all) \in Nat
      /\ y >= x + 5
  <2>1. all \in Seq(Seq(Byte)) /\ Len(all) \in Nat
    BY DEF Client
  <2> DEFINE h == HeaderLength(signed)
             d == Len(all[i])
  <2>2. d \in Nat /\ h \in {3, 4}
    BY <2>1 DEF HeaderLength
  <2>3. x \in Nat /\ y \in Nat /\ y = x + h + d + 2
    BY DEF FrameAt
  <2> HIDE DEF h, d
  <2>4. y >= x + 5
    BY <2>2, <2>3
  <2> QED BY <2>1, <2>3, <2>4
<1>1. /\ signed => p.chain = SubSeq(all, 1, i - 1) /\ p.signature = <<Sig(SubSeq(all, 1, i))>>
      /\ (p.final <=> i = Len(all)) /\ p.out = Told(all, i - 1) \o p.chunk
      /\ k = y - 2 /\ p.chunk = all[i]
  BY DEF At
<1>2. Len(p.pending) = n /\ p.pending \in Seq(Symbol) /\ \A j \in 1 .. n : p.pending[j] = wire[k + j]
  BY PartOfWire
<1>3. /\ y - 1 =< m => wire[y - 1] = CR
      /\ y =< m => wire[y] = LF
      /\ x =< m => \/ m = Len(wire) \/ m >= y
                   \/ m = x /\ wire[m + 1].is # "size"
                   \/ m = y - 2 /\ wire[m + 1] # CR
                   \/ m = y - 1 /\ wire[m + 1] # LF
  BY DEF FrameAt
<1> HIDE DEF n
<1>4. n < 2 => q = p
  BY <1>2 DEF ConsumeTerminator
<1>5. n >= 2 => q = IF SubSeq(p.pending, 1, 2) # <<CR, LF>> THEN failed ELSE VerifyChunk(fed, next)
  <2>1. n >= 2 => ~ (Len(p.pending) < 2)
    BY <1>0, <1>2 DEF n
  <2> QED BY <2>1 DEF ConsumeTerminator, Fail
<1>6. failed.state = "malformed" /\ failed.pending = p.pending /\ failed.signed = p.signed /\ failed.out = p.out /\ failed # p
  <2>1. failed.state = "malformed" /\ failed.pending = p.pending /\ failed.signed = p.signed /\ failed.out = p.out
    BY DEF Parser
  <2> QED BY <2>1
<1> HIDE DEF q, failed
<1>7. CASE n < 2
  <2>1. ~ (a = m /\ m = Len(wire) /\ m >= y)
    <3>1. a < y
      <4>1. a \in Nat /\ k \in Nat /\ y \in Nat /\ k = y - 2 /\ a - k < 2
        BY <1>0, <1>1, <1>7 DEF n
      <4> QED BY <4>1
    <3>2. a \in Nat /\ y \in Nat
      BY <1>0
    <3> QED BY <3>1, <3>2
  <2>2. Turned(all, signed, wire, m, i, x, y, a, p)
    BY DEF Turned
  <2> QED BY <1>4, <1>7, <2>1, <2>2 DEF q, GetsOn
<1>8. CASE n >= 2
  <2>1. p.pending[1] = wire[y - 1] /\ p.pending[2] = wire[y] /\ a >= y
    <3>1. 1 \in 1 .. n /\ 2 \in 1 .. n /\ k + 1 = y - 1 /\ k + 2 = y /\ a >= y
      BY <1>0, <1>1, <1>8 DEF n
    <3>2. p.pending[1] = wire[k + 1] /\ p.pending[2] = wire[k + 2]
      BY <1>2, <3>1
    <3> QED BY <3>1, <3>2
  <2>2. SubSeq(p.pending, 1, 2) = <<CR, LF>> <=> p.pending[1] = CR /\ p.pending[2] = LF
    <3> DEFINE u == SubSeq(p.pending, 1, 2)
               v == <<CR, LF>>
    <3>1. /\ u \in Seq(Symbol) /\ Len(u) = IF 1 =< 2 THEN 2 - 1 + 1 ELSE 0
          /\ \A j \in 1 .. 2 - 1 + 1 : u[j] = p.pending[1 + j - 1]
      <4>1. 2 =< Len(p.pending) /\ 1 \in Nat /\ 2 \in Nat /\ 1 > 0
        BY <1>2, <1>8
      <4> QED BY <1>2, <4>1, PlainSlice
    <3>2. v \in Seq(Symbol) /\ Len(v) = 2 /\ v[1] = CR /\ v[2] = LF
      <4>1. CR \in Symbol /\ LF \in Symbol
        BY LineEndsAreBytes
      <4> QED BY <4>1
    <3> HIDE DEF u, v
    <3>3. Len(u) = 2 /\ u[1] = p.pending[1] /\ u[2] = p.pending[2]
      <4>1. 1 \in 1 .. 2 - 1 + 1 /\ 2 \in 1 .. 2 - 1 + 1 /\ 1 + 1 - 1 = 1 /\ 1 + 2 - 1 = 2
        OBVIOUS
      <4>2. u[1] = p.pending[1 + 1 - 1] /\ u[2] = p.pending[1 + 2 - 1]
        BY <3>1, <4>1
      <4> QED BY <3>1, <4>1, <4>2
    <3>4. u[1] = v[1] /\ u[2] = v[2] => u = v
      <4>1. ASSUME u[1] = v[1], u[2] = v[2] PROVE u = v
        <5>1. \A j \in 1 .. Len(u) : u[j] = v[j]
          <6>1. \A j \in 1 .. Len(u) : j = 1 \/ j = 2
            BY <3>3
          <6> QED BY <4>1, <6>1
        <5> QED BY <3>1, <3>2, <3>3, <5>1, SeqEqual
      <4> QED BY <4>1
    <3> QED BY <3>2, <3>3, <3>4 DEF u, v
  <2>3. m >= y \/ (m = y - 2 /\ wire[y - 1] # CR) \/ (m = y - 1 /\ wire[y] # LF)
    <3>1. x =< m /\ m # x
      <4>1. k = y - 2 /\ k =< m /\ k \in Nat /\ m \in Nat /\ x \in Nat /\ y \in Nat /\ y >= x + 5
        BY <1>0, <1>1
      <4> QED BY ONLY <4>1
    <3>2. m = Len(wire) => m >= y
      BY <1>0, <2>1
    <3>3. m = y - 2 => m + 1 = y - 1
      BY <1>0
    <3>4. m = y - 1 => m + 1 = y
      BY <1>0
    <3> QED BY <1>3, <3>1, <3>2, <3>3, <3>4
  <2>4. CASE ~ (m >= y)
    <3>1. q = failed
      BY <1>5, <1>8, <2>1, <2>2, <2>3, <2>4
    <3>2. ~ (m = Len(wire) /\ m >= y - 2)
      BY <1>0, <2>1, <2>4
    <3>3. Turned(all, signed, wire, m, i, x, y, a, failed)
      BY <1>6, <3>2 DEF Turned
    <3> QED BY <1>6, <3>1, <3>3 DEF q, GetsOn
  <2>5. CASE m >= y
    <3>1. p.pending[1] = CR /\ p.pending[2] = LF
      <4>1. y - 1 =< m /\ y =< m
        BY <1>0, <2>5
      <4> QED BY <1>3, <2>1, <4>1
    <3>2. q = VerifyChunk(fed, next)
      BY <1>5, <1>8, <2>2, <3>1
    <3>3. rest = SubSeq(wire, y + 1, a) /\ rest \in Seq(Symbol)
      <4>1. 2 \in 0 .. a - k
        BY <1>0, <1>8 DEF n
      <4>2. From(SubSeq(wire, k + 1, a), 2 + 1) = SubSeq(wire, (k + 2) + 1, a)
        BY <4>1, WindowFrom
      <4>3. k + 2 = y /\ 2 + 1 = 3
        BY <1>0, <1>1
      <4>4. rest \in Seq(Symbol)
        <5> DEFINE u == p.pending
        <5>1. u \in Seq(Symbol) /\ 3 \in Nat \ {0}
          BY <1>2
        <5> HIDE DEF u
        <5>2. From(u, 3) \in Seq(Symbol)
          BY <5>1, FromIsSequence
        <5> QED BY <5>2 DEF u
      <4> QED BY <4>2, <4>3, <4>4
    <3> HIDE DEF rest
    <3>4. Parser(fed)
      BY <3>3 DEF Parser
    <3>5. /\ fed.pending = rest /\ fed.signed = p.signed /\ fed.chain = p.chain /\ fed.signature = p.signature
          /\ fed.chunk = p.chunk /\ fed.out = p.out
      BY DEF Parser
    <3>6. next \in {"header", "done"} /\ next = IF i = Len(all) THEN "done" ELSE "header"
      BY <1>1
    <3> HIDE DEF fed, next
    <3>7. /\ q.state = next /\ q.pending = fed.pending /\ q.signed = fed.signed /\ q.out = fed.out
          /\ fed.signed => q.chain = SubSeq(all, 1, i)
      <4>1. ChunkTaken(all, i, fed, next, VerifyChunk(fed, next))
        BY <1>1, <3>4, <3>5, <3>6, ChunkIsRight
      <4> QED BY <3>2, <4>1 DEF ChunkTaken
    <3>8. p.out = Told(all, i)
      BY <1>0, <1>1, ToldByChunks
    <3>9. Turned(all, signed, wire, m, i, x, y, a, q)
      <4>1. y \in 0 .. a
        BY <1>0, <2>1
      <4>2. /\ q.pending = SubSeq(wire, y + 1, a) /\ q.state = (IF i = Len(all) THEN "done" ELSE "header")
            /\ q.out = Told(all, i) /\ (signed => q.chain = SubSeq(all, 1, i)) /\ q.signed = signed /\ y =< m
        BY <1>0, <2>5, <3>3, <3>5, <3>6, <3>7, <3>8
      <4> QED BY <4>1, <4>2 DEF Turned
    <3>10. q # p /\ q.out = p.out
      BY <3>5, <3>6, <3>7
    <3> QED BY <3>9, <3>10 DEF q, GetsOn
  <2> QED BY <2>4, <2>5
<1> QED BY <1>0, <1>7, <1>8

-----------------------------------------------------------------------------
\* Where the parser is in a body that arrives intact, a symbols of which have
\* arrived and k of which it has dealt with.
Placed(all, signed, e, wire, m, p, k) ==
  \/ k =< m /\ \E i \in 1 .. Len(all) : At(all, signed, p, k, i, e[i - 1], e[i])
  \/ p.state = "done" /\ p.out = Plain(all)
  \/ p.state = "malformed" /\ ~Complete(all, e, wire, m)
Follows(all, signed, e, wire, m, p, left) ==
  /\ Parser(p) /\ p.signed = signed /\ Len(p.out) =< Len(Plain(all))
  /\ \E a \in 0 .. Len(wire) : \E k \in 0 .. a :
        /\ p.pending = SubSeq(wire, k + 1, a) /\ left = From(wire, a + 1)
        /\ Placed(all, signed, e, wire, m, p, k)

\* At first nothing has arrived.
LEMMA FollowsStarts ==
  ASSUME NEW all, NEW signed, NEW e, NEW wire, NEW m, Intact(all, signed, e, wire, m)
  PROVE  Follows(all, signed, e, wire, m, NewParser(signed), wire)
<1> DEFINE p == NewParser(signed)
           N == Len(all)
<1>0. /\ Client(all) /\ signed \in BOOLEAN /\ wire \in Seq(Symbol) /\ m \in Nat /\ e[0] = 0
      /\ all \in Seq(Seq(Byte)) /\ N \in Nat /\ N > 0 /\ Len(wire) \in Nat
  BY DEF Intact, Laid, Client
<1>1. Parser(p) /\ p.out = <<>>
  BY <1>0, ParserStarts
<1>2. p.signed = signed /\ p.state = "header" /\ p.pending = <<>> /\ p.chain = <<>>
  BY DEF NewParser
<1> HIDE DEF p
<1>3. Len(p.out) =< Len(Plain(all))
  <2>1. 0 \in 0 .. Len(all)
    BY <1>0
  <2>2. Len(Told(all, 0)) =< Len(Plain(all)) /\ Told(all, 0) = <<>>
    BY <1>0, <2>1, ToldIsBounded, ToldByChunks
  <2> QED BY <1>1, <2>2
<1>4. SubSeq(wire, 0 + 1, 0) = <<>> /\ From(wire, 0 + 1) = wire
  <2>1. 0 \in 0 .. Len(wire) /\ 0 \in 0 .. 0 /\ 0 - 0 = 0 /\ 0 + 1 = 1
    BY <1>0
  <2>2. SubSeq(wire, 0 + 1, 0) \in Seq(Symbol) /\ Len(SubSeq(wire, 0 + 1, 0)) = 0
    BY <1>0, <2>1, PartOfWire
  <2>3. SubSeq(wire, 1, Len(wire)) = wire
    BY <1>0, WholeSequence
  <2> QED BY <2>1, <2>2, <2>3, EmptySeq DEF From
<1>5. SubSeq(all, 1, 0) = <<>> /\ Told(all, 0) = <<>>
  <2>1. /\ SubSeq(all, 1, 0) \in Seq(Seq(Byte)) /\ Len(SubSeq(all, 1, 0)) = 0
    BY <1>0, PlainSlice
  <2>2. Told(all, 0) = <<>>
    BY <1>0, ToldByChunks
  <2> QED BY <2>1, <2>2, EmptySeq
<1>6. At(all, signed, p, 0, 1, e[1 - 1], e[1])
  <2>1. 1 - 1 = 0
    OBVIOUS
  <2> QED BY <1>0, <1>1, <1>2, <1>5, <2>1 DEF At
<1>7. Placed(all, signed, e, wire, m, p, 0)
  <2>1. 0 =< m /\ 1 \in 1 .. Len(all)
    BY <1>0
  <2> QED BY <1>6, <2>1 DEF Placed
<1>8. 0 \in 0 .. Len(wire) /\ 0 \in 0 .. 0
  BY <1>0
<1> QED BY <1>1, <1>2, <1>3, <1>4, <1>7, <1>8 DEF Follows, p

\* A piece of the body arrives.
LEMMA FollowsIsFed ==
  ASSUME NEW all, NEW signed, NEW e, NEW wire, NEW m, Intact(all, signed, e, wire, m),
         NEW p, NEW left, Follows(all, signed, e, wire, m, p, left), NEW n \in 1 .. Len(left)
  PROVE  Follows(all, signed, e, wire, m, [p EXCEPT !.pending = @ \o SubSeq(left, 1, n)], From(left, n + 1))
<1>0. wire \in Seq(Symbol) /\ Parser(p)
  BY DEF Intact, Follows
<1>1. PICK a \in 0 .. Len(wire) : \E k \in 0 .. a :
          /\ p.pending = SubSeq(wire, k + 1, a) /\ left = From(wire, a + 1)
          /\ Placed(all, signed, e, wire, m, p, k)
  BY DEF Follows
<1>2. PICK k \in 0 .. a :
          /\ p.pending = SubSeq(wire, k + 1, a) /\ left = From(wire, a + 1)
          /\ Placed(all, signed, e, wire, m, p, k)
  BY <1>1
<1> DEFINE piece == SubSeq(left, 1, n)
           y == p.pending \o piece
           q == [p EXCEPT !.pending = y]
           b == a + n
<1>3. b \in 0 .. Len(wire) /\ y = SubSeq(wire, k + 1, b) /\ From(left, n + 1) = From(wire, b + 1)
  <2>1. n \in 1 .. Len(From(wire, a + 1))
    BY <1>2
  <2>2. /\ a + n \in 0 .. Len(wire)
        /\ SubSeq(wire, k + 1, a) \o SubSeq(From(wire, a + 1), 1, n) = SubSeq(wire, k + 1, a + n)
        /\ From(From(wire, a + 1), n + 1) = From(wire, (a + n) + 1)
    BY <1>0, <2>1, WindowGrows
  <2> QED BY <1>2, <2>2
<1>4. k \in 0 .. b
  BY <1>0
<1> HIDE DEF b
<1>5. y \in Seq(Symbol)
  <2>1. SubSeq(wire, k + 1, b) \in Seq(Symbol)
    BY <1>0, <1>3, <1>4, PartOfWire
  <2> QED BY <1>3, <2>1
<1> HIDE DEF y
<1>6. Parser(q)
  BY <1>0, <1>5 DEF Parser
<1>7. /\ q.pending = y /\ q.state = p.state /\ q.final = p.final /\ q.signed = p.signed /\ q.signature = p.signature
      /\ q.chunk = p.chunk /\ q.chain = p.chain /\ q.out = p.out /\ q.remaining = p.remaining
  BY <1>0 DEF Parser
<1> HIDE DEF q
<1>8. Placed(all, signed, e, wire, m, q, k)
  <2>1. ASSUME NEW i, At(all, signed, p, k, i, e[i - 1], e[i]) PROVE At(all, signed, q, k, i, e[i - 1], e[i])
    BY <1>7, <2>1 DEF At
  <2> QED BY <1>2, <1>7, <2>1 DEF Placed
<1>9. p.signed = signed /\ Len(p.out) =< Len(Plain(all))
  BY DEF Follows
<1>10. Follows(all, signed, e, wire, m, q, From(left, n + 1))
  BY <1>3, <1>4, <1>6, <1>7, <1>8, <1>9 DEF Follows
<1> QED BY <1>10 DEF q, y

\* One turn of consume goes on in the frame, or with the next one.
LEMMA FollowsGoesOn ==
  ASSUME NEW all, NEW signed, NEW e, NEW wire, NEW m, Intact(all, signed, e, wire, m),
         NEW p, NEW left, Follows(all, signed, e, wire, m, p, left)
  PROVE  Follows(all, signed, e, wire, m, ConsumeOnce(p), left)
<1> DEFINE q == ConsumeOnce(p)
           N == Len(all)
<1>0. /\ Client(all) /\ signed \in BOOLEAN /\ wire \in Seq(Symbol) /\ m \in Nat /\ m =< Len(wire)
      /\ all \in Seq(Seq(Byte)) /\ N \in Nat /\ Len(wire) \in Nat
  BY DEF Intact, Client
<1>1. Parser(p) /\ p.signed = signed /\ Len(p.out) =< Len(Plain(all)) /\ Parser(q)
  BY ParserGoesOn DEF Follows
<1>2. PICK a \in 0 .. Len(wire) : \E k \in 0 .. a :
          /\ p.pending = SubSeq(wire, k + 1, a) /\ left = From(wire, a + 1)
          /\ Placed(all, signed, e, wire, m, p, k)
  BY DEF Follows
<1>3. PICK k \in 0 .. a :
          /\ p.pending = SubSeq(wire, k + 1, a) /\ left = From(wire, a + 1)
          /\ Placed(all, signed, e, wire, m, p, k)
  BY <1>2
<1>4. SUFFICES /\ q.signed = signed /\ Len(q.out) =< Len(Plain(all))
               /\ \E l \in 0 .. a : q.pending = SubSeq(wire, l + 1, a) /\ Placed(all, signed, e, wire, m, q, l)
  BY <1>1, <1>2, <1>3 DEF Follows
<1>5. ASSUME k =< m, NEW i \in 1 .. N, At(all, signed, p, k, i, e[i - 1], e[i])
      PROVE  /\ q.signed = signed /\ Len(q.out) =< Len(Plain(all))
             /\ \E l \in 0 .. a : q.pending = SubSeq(wire, l + 1, a) /\ Placed(all, signed, e, wire, m, q, l)
  <2> DEFINE x == e[i - 1]
             y == e[i]
  <2>1. FrameAt(all, signed, wire, m, i, x, y) /\ y \in Nat /\ e[N] \in Nat /\ y =< e[N]
    BY IntactFrame
  <2>2. At(all, signed, p, k, i, x, y)
    BY <1>5
  <2> HIDE DEF x, y
  <2>3. Turned(all, signed, wire, m, i, x, y, a, q) /\ Len(q.out) =< Len(Plain(all))
    <3>1. CASE p.state = "header"
      <4>1. q = ConsumeHeader(p)
        BY <3>1 DEF ConsumeOnce
      <4> HIDE DEF q
      <4>2. Turned(all, signed, wire, m, i, x, y, a, ConsumeHeader(p)) /\ ConsumeHeader(p).out = p.out
        BY <1>0, <1>1, <1>3, <1>5, <2>1, <2>2, <3>1, TurnOfHeader, SMTT(60)
      <4> QED BY <1>1, <4>1, <4>2
    <3>2. CASE p.state = "data"
      <4>1. q = ConsumeData(p)
        BY <3>2 DEF ConsumeOnce
      <4> HIDE DEF q
      <4>2. Turned(all, signed, wire, m, i, x, y, a, ConsumeData(p)) /\ Len(ConsumeData(p).out) =< Len(Plain(all))
        BY <1>0, <1>1, <1>3, <1>5, <2>1, <2>2, <3>2, TurnOfData
      <4> QED BY <4>1, <4>2
    <3>3. CASE p.state = "terminator"
      <4>1. q = ConsumeTerminator(p)
        BY <3>3 DEF ConsumeOnce
      <4> HIDE DEF q
      <4>2. Turned(all, signed, wire, m, i, x, y, a, ConsumeTerminator(p)) /\ ConsumeTerminator(p).out = p.out
        BY <1>0, <1>1, <1>3, <1>5, <2>1, <2>2, <3>3, TurnOfTerminator, SMTT(60)
      <4> QED BY <1>1, <4>1, <4>2
    <3> QED BY <2>2, <3>1, <3>2, <3>3 DEF At
  <2> HIDE DEF q
  <2>4. q.signed = signed
    BY <2>3 DEF Turned
  <2>5. PICK l \in 0 .. a :
            /\ q.pending = SubSeq(wire, l + 1, a)
            /\ \/ l =< m /\ At(all, signed, q, l, i, x, y)
               \/ /\ l = y /\ y =< m /\ q.state = IF i = Len(all) THEN "done" ELSE "header"
                  /\ q.out = Told(all, i) /\ (signed => q.chain = SubSeq(all, 1, i))
               \/ q.state = "malformed" /\ ~ (m = Len(wire) /\ m >= y - 2)
    BY <2>3 DEF Turned
  <2>6. Placed(all, signed, e, wire, m, q, l)
    <3>1. CASE l =< m /\ At(all, signed, q, l, i, x, y)
      BY <3>1 DEF Placed, x, y
    <3>2. CASE /\ l = y /\ y =< m /\ q.state = IF i = Len(all) THEN "done" ELSE "header"
               /\ q.out = Told(all, i) /\ (signed => q.chain = SubSeq(all, 1, i))
      <4>1. CASE i = Len(all)
        <5>1. Told(all, Len(all)) = Plain(all)
          BY <1>0, ToldByChunks
        <5> QED BY <3>2, <4>1, <5>1 DEF Placed
      <4>2. CASE i # Len(all)
        <5> DEFINE j == i + 1
        <5>1. j \in 1 .. Len(all) /\ j - 1 = i
          BY <1>0, <4>2
        <5> HIDE DEF j
        <5>2. q.state = "header" /\ l = e[j - 1] /\ q.out = Told(all, j - 1) /\ (signed => q.chain = SubSeq(all, 1, j - 1))
          BY <3>2, <4>2, <5>1 DEF y
        <5>3. At(all, signed, q, l, j, e[j - 1], e[j])
          BY <5>2 DEF At
        <5>4. l =< m
          BY <3>2
        <5> QED BY <5>1, <5>3, <5>4 DEF Placed
      <4> QED BY <4>1, <4>2
    <3>3. CASE q.state = "malformed" /\ ~ (m = Len(wire) /\ m >= y - 2)
      <4>1. ~Complete(all, e, wire, m)
        <5> DEFINE z == e[Len(all)]
        <5>1. z \in Nat /\ y \in Nat /\ y =< z
          BY <2>1
        <5> HIDE DEF z
        <5>2. m = z \/ m = z - 2 => m >= y - 2
          BY <1>0, <5>1
        <5> QED BY <3>3, <5>2 DEF Complete, z
      <4> QED BY <3>3, <4>1 DEF Placed
    <3> QED BY <2>5, <3>1, <3>2, <3>3
  <2> QED BY <2>3, <2>4, <2>5, <2>6
<1>6. CASE p.state = "done" /\ p.out = Plain(all)
  <2>1. <<>> \in Seq(Symbol)
    BY EmptySeq
  <2>2. q = [p EXCEPT !.pending = <<>>]
    BY <1>6 DEF ConsumeOnce
  <2> HIDE DEF q
  <2>3. q.pending = <<>> /\ q.state = "done" /\ q.out = p.out /\ q.signed = p.signed
    BY <1>1, <1>6, <2>2 DEF Parser
  <2>4. SubSeq(wire, a + 1, a) = <<>>
    <3>1. a \in 0 .. a /\ a - a = 0
      BY <1>0
    <3>2. SubSeq(wire, a + 1, a) \in Seq(Symbol) /\ Len(SubSeq(wire, a + 1, a)) = a - a
      BY <1>0, <3>1, PartOfWire
    <3> QED BY <3>1, <3>2, EmptySeq
  <2>5. a \in 0 .. a
    BY <1>0
  <2>6. Placed(all, signed, e, wire, m, q, a)
    BY <1>6, <2>3 DEF Placed
  <2> QED BY <1>1, <2>3, <2>4, <2>5, <2>6
<1>7. CASE p.state = "malformed" /\ ~Complete(all, e, wire, m)
  <2>1. q = p
    BY <1>7 DEF ConsumeOnce
  <2> HIDE DEF q
  <2> QED BY <1>1, <1>3, <2>1
<1> QED BY <1>3, <1>5, <1>6, <1>7 DEF Placed

\* What has been read when the body ends is what the client meant.
LEMMA FollowsEnds ==
  ASSUME NEW all, NEW signed, NEW e, NEW wire, NEW m, Intact(all, signed, e, wire, m),
         NEW p, NEW left, Follows(all, signed, e, wire, m, p, left), Flush(p).state = "done"
  PROVE  Flush(p).out = Plain(all)
<1> DEFINE over == p.state = "terminator" /\ p.final /\ p.pending = <<>>
           q == IF over THEN VerifyChunk(p, "done") ELSE p
<1>0. /\ Client(all) /\ signed \in BOOLEAN /\ all \in Seq(Seq(Byte)) /\ Len(all) \in Nat
  BY DEF Intact, Client
<1>1. Parser(p) /\ p.signed = signed
  BY DEF Follows
<1>2. PICK k : Placed(all, signed, e, wire, m, p, k)
  BY DEF Follows
<1>3. Flush(p) = IF q.state \in {"done", "mismatch"} THEN q ELSE [q EXCEPT !.state = "malformed"]
  BY DEF Flush, Fail
<1>4. Parser(q)
  BY <1>1, ChunksAreVerified
<1>5. CASE over
  <2>1. PICK i \in 1 .. Len(all) : At(all, signed, p, k, i, e[i - 1], e[i])
    BY <1>2, <1>5 DEF Placed
  <2>2. /\ signed => p.chain = SubSeq(all, 1, i - 1) /\ p.signature = <<Sig(SubSeq(all, 1, i))>>
        /\ i = Len(all) /\ p.out = Told(all, i - 1) \o p.chunk /\ p.chunk = all[i]
    BY <1>5, <2>1 DEF At
  <2>3. p.out = Plain(all)
    <3>1. Told(all, i) = Told(all, i - 1) \o all[i] /\ Told(all, Len(all)) = Plain(all)
      BY <1>0, ToldByChunks
    <3> QED BY <2>2, <3>1
  <2>4. ChunkTaken(all, i, p, "done", VerifyChunk(p, "done"))
    BY <1>0, <1>1, <2>2, ChunkIsRight
  <2>5. q.state = "done" /\ q.out = p.out
    BY <1>5, <2>4 DEF ChunkTaken
  <2> HIDE DEF q
  <2> QED BY <1>3, <2>3, <2>5
<1>6. CASE ~over
  <2>1. q = p
    BY <1>6
  <2> HIDE DEF q, over
  <2>2. p.state = "done"
    <3>1. [p EXCEPT !.state = "malformed"].state = "malformed"
      BY <1>1 DEF Parser
    <3> QED BY <1>3, <2>1, <3>1
  <2>3. p.out = Plain(all)
    BY <1>2, <2>2 DEF Placed, At
  <2> QED BY <1>3, <2>1, <2>2, <2>3
<1> QED BY <1>5, <1>6

\* A body that arrives whole is never refused,
LEMMA WholeIsNotRefused ==
  ASSUME NEW all, NEW signed, NEW e, NEW wire, NEW m, Complete(all, e, wire, m),
         NEW p, NEW left, Follows(all, signed, e, wire, m, p, left)
  PROVE  p.state \notin {"malformed", "mismatch"} /\ Len(p.out) =< Len(Plain(all))
BY DEF Follows, Placed, At

\* and when all of it has been dealt with, it has been read to its end.
LEMMA WholeIsReadToItsEnd ==
  ASSUME NEW all, NEW signed, NEW e, NEW wire, NEW m, Intact(all, signed, e, wire, m), Complete(all, e, wire, m),
         NEW p, Follows(all, signed, e, wire, m, p, <<>>), Stalled(p)
  PROVE  Flush(p).state = "done"
<1> DEFINE N == Len(all)
           z == e[N]
<1>0. /\ Client(all) /\ signed \in BOOLEAN /\ wire \in Seq(Symbol) /\ m \in Nat /\ m =< Len(wire)
      /\ all \in Seq(Seq(Byte)) /\ N \in Nat /\ N > 0 /\ Len(wire) \in Nat /\ Laid(all, signed, e)
      /\ m = Len(wire) /\ (m = z \/ m = z - 2)
  BY DEF Intact, Client, Complete
<1>1. Parser(p) /\ p.signed = signed /\ ConsumeOnce(p) = p
  BY DEF Follows, Stalled
<1>2. PICK a \in 0 .. Len(wire) : \E k \in 0 .. a :
          /\ p.pending = SubSeq(wire, k + 1, a) /\ <<>> = From(wire, a + 1)
          /\ Placed(all, signed, e, wire, m, p, k)
  BY DEF Follows
<1>3. PICK k \in 0 .. a :
          /\ p.pending = SubSeq(wire, k + 1, a) /\ <<>> = From(wire, a + 1)
          /\ Placed(all, signed, e, wire, m, p, k)
  BY <1>2
<1>4. a = m
  <2>1. a \in Nat /\ a =< Len(wire) /\ Len(wire) \in 0 .. Len(wire) /\ a \in 0 .. Len(wire)
    BY <1>0
  <2>2. Len(SubSeq(wire, a + 1, Len(wire))) = Len(wire) - a
    BY <1>0, <2>1, PartOfWire
  <2>3. Len(SubSeq(wire, a + 1, Len(wire))) = 0
    <3>1. SubSeq(wire, a + 1, Len(wire)) = <<>>
      BY <1>3 DEF From
    <3>2. Len(<<>>) = 0
      OBVIOUS
    <3> QED BY <3>1, <3>2, Zenon
  <2> QED BY <1>0, <2>1, <2>2, <2>3
<1> HIDE DEF N, z
<1>5. CASE p.state = "done"
  <2>1. Flush(p) = p
    BY <1>5 DEF Flush
  <2> QED BY <1>5, <2>1
<1>6. ASSUME k =< m, NEW i \in 1 .. Len(all), At(all, signed, p, k, i, e[i - 1], e[i])
      PROVE  Flush(p).state = "done"
  <2> DEFINE x == e[i - 1]
             y == e[i]
  <2>1. FrameAt(all, signed, wire, m, i, x, y) /\ y \in Nat /\ z \in Nat /\ y =< z
    BY IntactFrame DEF z, N
  <2>2. At(all, signed, p, k, i, x, y)
    BY <1>6
  <2> HIDE DEF x, y
  <2>3. /\ Client(all) /\ signed \in BOOLEAN /\ wire \in Seq(Symbol) /\ m \in Nat /\ m =< Len(wire)
        /\ Parser(p) /\ p.signed = signed /\ k =< m /\ p.pending = SubSeq(wire, k + 1, a)
    BY <1>0, <1>1, <1>3, <1>6
  <2>4. m >= y - 2
    <3>1. z - 2 >= y - 2 /\ z >= y - 2
      BY <2>1
    <3> QED BY <1>0, <3>1
  <2>5. a = m /\ m = Len(wire) /\ m >= y - 2
    BY <1>0, <1>4, <2>4
  <2>6. p.state # "header"
    <3>1. ASSUME p.state = "header" PROVE FALSE
      <4>1. ConsumeOnce(p) = ConsumeHeader(p)
        BY <3>1 DEF ConsumeOnce
      <4>2. GetsOn(wire, m, y - 2, a, p, ConsumeHeader(p))
        BY <2>3, <2>1, <2>2, <3>1, TurnOfHeader
      <4>3. ConsumeHeader(p) # p
        BY <2>5, <4>2, Zenon DEF GetsOn
      <4> QED BY <1>1, <4>1, <4>3, Zenon
    <3> QED BY <3>1
  <2>7. p.state # "data"
    <3>1. ASSUME p.state = "data" PROVE FALSE
      <4>1. ConsumeOnce(p) = ConsumeData(p)
        BY <3>1 DEF ConsumeOnce
      <4>2. GetsOn(wire, m, y - 2, a, p, ConsumeData(p))
        BY <2>3, <2>1, <2>2, <3>1, TurnOfData
      <4>3. ConsumeData(p) # p
        BY <2>5, <4>2, Zenon DEF GetsOn
      <4> QED BY <1>1, <4>1, <4>3, Zenon
    <3> QED BY <3>1
  <2>8. p.state = "terminator" /\ ~ (m >= y)
    <3>1. p.state = "terminator"
      BY <2>2, <2>6, <2>7 DEF At
    <3>2. ConsumeOnce(p) = ConsumeTerminator(p)
      BY <3>1 DEF ConsumeOnce
    <3>3. GetsOn(wire, m, y, a, p, ConsumeTerminator(p))
      BY <2>3, <2>1, <2>2, <3>1, TurnOfTerminator
    <3>4. m >= y => ConsumeTerminator(p) # p
      BY <2>5, <3>3, Zenon DEF GetsOn
    <3> QED BY <1>1, <3>1, <3>2, <3>4, Zenon
  <2>9. i = N
    <3>1. SUFFICES ASSUME i # N PROVE FALSE
      OBVIOUS
    <3> DEFINE w == e[N - 1]
               d == Len(all[N])
               h == HeaderLength(signed)
    <3>2. N \in 1 .. Len(all) /\ N - 1 \in 0 .. Len(all) /\ i \in 0 .. Len(all) /\ i =< N - 1
      BY <1>0, <3>1 DEF N
    <3>3. z = w + h + d + 2
      BY <1>0, <3>2 DEF Laid, z
    <3>4. d \in Nat /\ h \in Nat
      <4>1. all[N] \in Seq(Byte)
        BY <1>0, <3>2
      <4>2. h \in Nat
        BY <1>0 DEF HeaderLength
      <4> QED BY <4>1, <4>2
    <3>5. y =< w /\ w \in Nat
      <4>1. e \in [0 .. Len(all) -> Nat]
        BY <1>0 DEF Laid
      <4>2. w \in Nat
        BY <3>2, <4>1
      <4> DEFINE j == N - 1
      <4>3. j \in 0 .. Len(all) /\ i =< j
        BY <3>2
      <4> HIDE DEF j
      <4>4. e[i] =< e[j]
        BY <1>0, <3>2, <4>3, FramesFollow
      <4> QED BY <4>2, <4>4 DEF y, j
    <3> HIDE DEF w, d, h
    <3>6. z - 2 >= y
      BY <2>1, <3>3, <3>4, <3>5
    <3> QED BY <1>0, <2>1, <2>8, <3>6
  <2>10. y = z
    BY <2>9 DEF y, z
  <2>11. p.final /\ p.pending = <<>>
    <3>1. k = y - 2 /\ (p.final <=> i = Len(all))
      BY <2>2, <2>8 DEF At
    <3>2. m = y - 2
      BY <1>0, <2>1, <2>8, <2>10
    <3>3. a - k = 0
      BY <1>0, <1>4, <2>1, <3>1, <3>2
    <3>4. Len(p.pending) = a - k /\ p.pending \in Seq(Symbol)
      BY <1>0, <1>3, PartOfWire
    <3>5. p.pending = <<>>
      <4> DEFINE u == p.pending
      <4>1. Len(u) = 0 /\ u \in Seq(Symbol)
        BY <3>3, <3>4
      <4> HIDE DEF u
      <4>2. u = <<>>
        BY <4>1, EmptySeq
      <4> QED BY <4>2 DEF u
    <3> QED BY <2>9, <3>1, <3>5 DEF N
  <2>12. ChunkTaken(all, i, p, "done", VerifyChunk(p, "done"))
    <3>1. /\ signed => p.chain = SubSeq(all, 1, i - 1) /\ p.signature = <<Sig(SubSeq(all, 1, i))>>
          /\ p.chunk = all[i]
      BY <2>2, <2>8 DEF At
    <3> QED BY <1>0, <1>1, <3>1, ChunkIsRight
  <2>13. Flush(p) = VerifyChunk(p, "done") /\ VerifyChunk(p, "done").state = "done"
    <3>1. VerifyChunk(p, "done").state = "done"
      BY <2>12 DEF ChunkTaken
    <3> QED BY <2>8, <2>11, <3>1 DEF Flush
  <2> QED BY <2>13
<1> QED BY <1>3, <1>5, <1>6 DEF Placed, Complete
=============================================================================
