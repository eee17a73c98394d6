-------------------------- MODULE Workspace_proofs --------------------------
(***************************************************************************)
(* What calls leave in buckets, whatever buckets, keys and payloads there  *)
(* are and however many calls are at work: what a listing gives, what a    *)
(* folder's deletion and a move leave behind, what a deleted bucket holds, *)
(* and when a quota is overshot.                                           *)
(***************************************************************************)
EXTENDS Workspace, Listings_proofs, SequenceTheorems

-----------------------------------------------------------------------------
(* Sums. *)

\* g sums up f over the subsets of S: whatever is taken out first.
Adds(g, f, S) ==
    /\ g \in [SUBSET S -> Nat] /\ g[{}] = 0
    /\ \A s \in SUBSET S : \A a \in s : g[s] = f[a] + g[s \ {a}]

\* One term after the other, in the order of the library's fold.
Term(g, f, s) == IF s = {} THEN 0 ELSE f[CHOOSE x \in s : TRUE] + g[s \ {CHOOSE x \in s : TRUE}]

\* A set without one of its elements has one element less.
LEMMA OneLess ==
  ASSUME NEW S, IsFiniteSet(S), NEW s \in SUBSET S, NEW a \in s
  PROVE  /\ IsFiniteSet(s) /\ Cardinality(s) \in Nat /\ Cardinality(s \ {a}) \in Nat
         /\ Cardinality(s) = Cardinality(s \ {a}) + 1
         /\ s \ {a} \in SUBSET S
<1>1. IsFiniteSet(s)
  BY FS_Subset
<1>2. Cardinality(s) \in Nat /\ IsFiniteSet(s \ {a}) /\ Cardinality(s \ {a}) = Cardinality(s) - 1
  BY <1>1, FS_CardinalityType, FS_RemoveElement
<1>3. Cardinality(s \ {a}) \in Nat
  BY <1>2, FS_CardinalityType
<1> QED BY <1>1, <1>2, <1>3

\* A sum of finitely many terms is well defined.
LEMMA SumsExist ==
  ASSUME NEW S, IsFiniteSet(S), NEW f \in [S -> Nat]
  PROVE  \E g \in [SUBSET S -> Nat] : \A s \in SUBSET S : g[s] = Term(g, f, s)
<1> DEFINE Small(g, n) == g \in [SUBSET S -> Nat] /\ \A s \in SUBSET S : Cardinality(s) =< n => g[s] = Term(g, f, s)
           Bad == {n \in Nat : ~ \E g : Small(g, n)}
<1>0. \A s \in SUBSET S : s # {} => (CHOOSE x \in s : TRUE) \in s /\ f[CHOOSE x \in s : TRUE] \in Nat
  <2> TAKE s \in SUBSET S
  <2>1. ASSUME s # {} PROVE (CHOOSE x \in s : TRUE) \in s
    BY <2>1
  <2> QED BY <2>1
<1>1. Bad = {}
  <2> SUFFICES ASSUME Bad # {} PROVE FALSE
    OBVIOUS
  <2>1. PICK n \in Bad : \A m \in Bad : n =< m
    <3>1. Bad \in SUBSET Nat
      OBVIOUS
    <3> HIDE DEF Bad
    <3> QED BY <3>1, LeastOfNumbers
  <2>2. CASE n = 0
    <3> DEFINE g == [s \in SUBSET S |-> 0]
    <3>1. \A s \in SUBSET S : Cardinality(s) =< 0 => s = {}
      <4> TAKE s \in SUBSET S
      <4>1. IsFiniteSet(s)
        BY FS_Subset
      <4>2. Cardinality(s) \in Nat
        BY <4>1, FS_CardinalityType
      <4> QED BY <4>1, <4>2, FS_EmptySet
    <3>2. Small(g, 0)
      BY <3>1 DEF Term
    <3> HIDE DEF g, Small
    <3> QED BY <2>2, <3>2
  <2>3. CASE n # 0
    <3>0. n \in Nat /\ n - 1 \in Nat /\ ~ (n =< n - 1)
      BY <2>3
    <3>1. n - 1 \in Nat /\ n - 1 \notin Bad /\ n \in Nat
      <4> HIDE DEF Bad
      <4> QED BY <2>1, <3>0
    <3>2. PICK g : Small(g, n - 1)
      BY <3>1
    <3> DEFINE h == [s \in SUBSET S |-> IF Cardinality(s) =< n - 1 THEN g[s] ELSE Term(g, f, s)]
    <3>3. \A s \in SUBSET S : Term(g, f, s) \in Nat
      <4> TAKE s \in SUBSET S
      <4>1. CASE s = {}
        BY <4>1 DEF Term
      <4>2. CASE s # {}
        <5> DEFINE x == CHOOSE x \in s : TRUE
        <5>1. x \in s /\ f[x] \in Nat
          BY <1>0, <4>2
        <5> HIDE DEF x
        <5>2. s \ {x} \in SUBSET S
          OBVIOUS
        <5>3. f[x] + g[s \ {x}] \in Nat
          BY <3>2, <5>1, <5>2
        <5> QED BY <4>2, <5>3 DEF Term, x
      <4> QED BY <4>1, <4>2
    <3>4. h \in [SUBSET S -> Nat]
      BY <3>2, <3>3
    <3>5. ASSUME NEW s \in SUBSET S, Cardinality(s) =< n PROVE h[s] = Term(h, f, s)
      <4>1. h[s] = Term(g, f, s)
        BY <3>2
      <4>2. CASE s = {}
        BY <4>1, <4>2 DEF Term
      <4>3. CASE s # {}
        <5> DEFINE x == CHOOSE x \in s : TRUE
        <5>1. x \in s
          BY <1>0, <4>3
        <5> HIDE DEF x
        <5>2. s \ {x} \in SUBSET S /\ Cardinality(s \ {x}) =< n - 1
          BY <3>1, <3>5, <5>1, OneLess
        <5>3. h[s \ {x}] = g[s \ {x}]
          BY <5>2
        <5> HIDE DEF h
        <5> QED BY <4>1, <4>3, <5>3 DEF Term, x
      <4> QED BY <4>2, <4>3
    <3>6. Small(h, n)
      BY <3>4, <3>5
    <3> HIDE DEF h, Small
    <3> QED BY <2>1, <3>6
  <2> QED BY <2>2, <2>3
<1>2. Cardinality(S) \in Nat
  BY FS_CardinalityType
<1>3. PICK g : Small(g, Cardinality(S))
  BY <1>1, <1>2
<1>4. \A s \in SUBSET S : Cardinality(s) =< Cardinality(S)
  BY FS_Subset
<1> QED BY <1>3, <1>4

\* Which term comes first does not matter.
LEMMA TermsCommute ==
  ASSUME NEW S, IsFiniteSet(S), NEW f \in [S -> Nat], NEW g \in [SUBSET S -> Nat],
         \A s \in SUBSET S : g[s] = Term(g, f, s)
  PROVE  Adds(g, f, S)
<1> DEFINE Odd == {n \in Nat : \E s \in SUBSET S : Cardinality(s) = n /\ \E a \in s : g[s] # f[a] + g[s \ {a}]}
<1>1. Odd = {}
  <2> SUFFICES ASSUME Odd # {} PROVE FALSE
    OBVIOUS
  <2>1. PICK n \in Odd : \A m \in Odd : n =< m
    <3>1. Odd \in SUBSET Nat
      OBVIOUS
    <3> HIDE DEF Odd
    <3> QED BY <3>1, LeastOfNumbers
  <2>a. PICK s \in SUBSET S : Cardinality(s) = n /\ \E a \in s : g[s] # f[a] + g[s \ {a}]
    OBVIOUS
  <2>2. PICK a \in s : Cardinality(s) = n /\ g[s] # f[a] + g[s \ {a}]
    BY <2>a
  <2>3. \A r \in SUBSET S : Cardinality(r) \in Nat /\ Cardinality(r) < n => \A b \in r : g[r] = f[b] + g[r \ {b}]
    <3> SUFFICES ASSUME NEW r \in SUBSET S, Cardinality(r) \in Nat, Cardinality(r) < n,
                        NEW b \in r, g[r] # f[b] + g[r \ {b}]
                 PROVE  FALSE
      OBVIOUS
    <3>1. Cardinality(r) \in Odd
      OBVIOUS
    <3>2. n \in Nat
      OBVIOUS
    <3> HIDE DEF Odd
    <3>3. n =< Cardinality(r)
      BY <2>1, <3>1
    <3> QED BY <3>2, <3>3
  <2> HIDE DEF Odd
  <2> DEFINE x == CHOOSE x \in s : TRUE
  <2>4. x \in s /\ g[s] = f[x] + g[s \ {x}]
    BY <2>2 DEF Term
  <2> HIDE DEF x
  <2>5. x # a
    BY <2>2, <2>4
  <2>6. /\ s \ {x} \in SUBSET S /\ s \ {a} \in SUBSET S /\ n \in Nat
        /\ Cardinality(s \ {x}) \in Nat /\ Cardinality(s \ {a}) \in Nat
        /\ Cardinality(s \ {x}) < n /\ Cardinality(s \ {a}) < n
    BY <2>2, <2>4, OneLess
  <2>7. g[s \ {x}] = f[a] + g[(s \ {x}) \ {a}]
    BY <2>3, <2>5, <2>6
  <2>8. g[s \ {a}] = f[x] + g[(s \ {a}) \ {x}]
    BY <2>3, <2>4, <2>5, <2>6
  <2>9. (s \ {x}) \ {a} = (s \ {a}) \ {x} /\ (s \ {x}) \ {a} \in SUBSET S
    OBVIOUS
  <2>10. f[a] \in Nat /\ f[x] \in Nat /\ g[(s \ {x}) \ {a}] \in Nat
    BY <2>4, <2>9
  <2>11. g[s] = f[x] + (f[a] + g[(s \ {x}) \ {a}])
    BY <2>4, <2>7
  <2>12. g[s \ {a}] = f[x] + g[(s \ {x}) \ {a}]
    BY <2>8, <2>9
  <2> QED BY <2>2, <2>10, <2>11, <2>12
<1>2. ASSUME NEW s \in SUBSET S, NEW a \in s PROVE g[s] = f[a] + g[s \ {a}]
  <2>1. Cardinality(s) \in Nat
    BY OneLess
  <2> QED BY <1>1, <2>1
<1>3. g[{}] = 0
  BY DEF Term
<1> QED BY <1>2, <1>3 DEF Adds

\* The library's fold sums up.
LEMMA TotalAdds ==
  ASSUME NEW S, IsFiniteSet(S), NEW f \in [S -> Nat]
  PROVE  \E g : Adds(g, f, S) /\ SumFunction(f) = g[S]
<1> DEFINE Is(g) == g = [s \in SUBSET S |-> IF s = {} THEN 0 ELSE LET x == CHOOSE x \in s : TRUE IN f[x] + g[s \ {x}]]
           iter == CHOOSE g : Is(g)
<1>1. SumFunction(f) = iter[S]
  <2>1. DOMAIN f = S
    OBVIOUS
  <2> QED BY <2>1 DEF SumFunction, SumFunctionOnSet, FoldFunctionOnSet, MapThenFoldSet
<1>2. PICK g \in [SUBSET S -> Nat] : \A s \in SUBSET S : g[s] = Term(g, f, s)
  BY SumsExist, ZenonT(60)
<1>3. Is(g)
  <2>1. g = [s \in SUBSET S |-> Term(g, f, s)]
    BY <1>2
  <2> QED BY <2>1 DEF Term
<1>4. Is(iter)
  <2> HIDE DEF Is
  <2> QED BY <1>3
<1>5. iter = g
  <2> HIDE DEF iter
  <2>1. \A s \in SUBSET S : iter[s] = Term(iter, f, s)
    BY <1>4 DEF Term
  <2> DEFINE Odd == {n \in Nat : \E s \in SUBSET S : Cardinality(s) = n /\ iter[s] # g[s]}
  <2>2. Odd = {}
    <3> SUFFICES ASSUME Odd # {} PROVE FALSE
      OBVIOUS
    <3>1. PICK n \in Odd : \A m \in Odd : n =< m
      <4>1. Odd \in SUBSET Nat
        OBVIOUS
      <4> HIDE DEF Odd
      <4> QED BY <4>1, LeastOfNumbers
    <3>2. PICK s \in SUBSET S : Cardinality(s) = n /\ iter[s] # g[s]
      OBVIOUS
    <3>3. \A r \in SUBSET S : Cardinality(r) \in Nat /\ Cardinality(r) < n => iter[r] = g[r]
      BY <3>1
    <3> HIDE DEF Odd
    <3>4. CASE s = {}
      BY <1>2, <2>1, <3>2, <3>4 DEF Term
    <3>5. CASE s # {}
      <4> DEFINE x == CHOOSE x \in s : TRUE
      <4>1. x \in s
        BY <3>5
      <4>2. g[s] = f[x] + g[s \ {x}] /\ iter[s] = f[x] + iter[s \ {x}]
        BY <1>2, <2>1, <3>5 DEF Term
      <4> HIDE DEF x
      <4>3. s \ {x} \in SUBSET S /\ Cardinality(s \ {x}) \in Nat /\ Cardinality(s \ {x}) < n
        BY <3>2, <4>1, OneLess
      <4> QED BY <3>2, <3>3, <4>2, <4>3
    <3> QED BY <3>4, <3>5
  <2>3. \A s \in SUBSET S : Cardinality(s) \in Nat
    <3> TAKE s \in SUBSET S
    <3>1. IsFiniteSet(s)
      BY FS_Subset
    <3> QED BY <3>1, FS_CardinalityType
  <2>4. \A s \in SUBSET S : iter[s] = g[s]
    BY <2>2, <2>3
  <2>5. iter = [s \in SUBSET S |-> Term(iter, f, s)]
    BY <1>4 DEF Term
  <2> HIDE DEF Odd
  <2> QED BY <2>4, <2>5
<1>6. Adds(g, f, S)
  BY <1>2, TermsCommute
<1> HIDE DEF iter
<1> QED BY <1>1, <1>5, <1>6

\* A sum is a number.
LEMMA SumsAreNumbers ==
  ASSUME NEW S, IsFiniteSet(S), NEW f \in [S -> Nat]
  PROVE  SumFunction(f) \in Nat
<1>1. PICK g : Adds(g, f, S) /\ SumFunction(f) = g[S]
  BY TotalAdds
<1>2. g[S] \in Nat
  BY <1>1 DEF Adds
<1> QED BY <1>1, <1>2

\* Fewer terms, each no greater than one of its own in the other sum.
LEMMA TermsBelow ==
  ASSUME NEW S, NEW f \in [S -> Nat], NEW g, Adds(g, f, S), NEW s0 \in SUBSET S,
         NEW R, IsFiniteSet(R), NEW h \in [R -> Nat], NEW i, Adds(i, h, R), NEW r0 \in SUBSET R,
         NEW m \in [r0 -> s0], \A x, y \in r0 : m[x] = m[y] => x = y, \A x \in r0 : h[x] =< f[m[x]]
  PROVE  i[r0] =< g[s0]
<1> DEFINE Into(r, s) == \A x \in r : m[x] \in s
           Odd == {n \in Nat : \E r \in SUBSET r0 : Cardinality(r) = n /\ \E s \in SUBSET s0 : Into(r, s) /\ ~ (i[r] =< g[s])}
<1>1. Odd = {}
  <2> SUFFICES ASSUME Odd # {} PROVE FALSE
    OBVIOUS
  <2>1. PICK n \in Odd : \A k \in Odd : n =< k
    <3>1. Odd \in SUBSET Nat
      OBVIOUS
    <3> HIDE DEF Odd
    <3> QED BY <3>1, LeastOfNumbers
  <2>a. PICK r \in SUBSET r0 : Cardinality(r) = n /\ \E s \in SUBSET s0 : Into(r, s) /\ ~ (i[r] =< g[s])
    OBVIOUS
  <2>2. PICK s \in SUBSET s0 : Into(r, s) /\ ~ (i[r] =< g[s])
    BY <2>a
  <2>3. CASE r = {}
    <3>1. i[r] = 0 /\ g[s] \in Nat
      BY <2>3 DEF Adds
    <3> QED BY <2>2, <3>1
  <2>4. CASE r # {}
    <3>1. PICK a \in r : TRUE
      BY <2>4
    <3> DEFINE q == r \ {a}
               t == s \ {m[a]}
    <3>2. m[a] \in s /\ q \in SUBSET r0 /\ t \in SUBSET s0 /\ Into(q, t)
      BY <2>2
    <3>3. Cardinality(q) \in Nat /\ Cardinality(q) < n /\ n \in Nat
      <4>1. r \in SUBSET R
        OBVIOUS
      <4> QED BY <2>a, <4>1, OneLess
    <3>4. Cardinality(q) \notin Odd
      <4> HIDE DEF Odd, q
      <4> QED BY <2>1, <3>3
    <3>5. i[q] =< g[t]
      <4> HIDE DEF Into, q, t
      <4> QED BY <3>2, <3>3, <3>4
    <3>6. i[r] = h[a] + i[q] /\ g[s] = f[m[a]] + g[t]
      BY <3>2 DEF Adds
    <3>7. h[a] \in Nat /\ f[m[a]] \in Nat /\ i[q] \in Nat /\ g[t] \in Nat /\ h[a] =< f[m[a]]
      BY <3>2 DEF Adds
    <3> HIDE DEF q, t
    <3> QED BY <2>2, <3>5, <3>6, <3>7
  <2> QED BY <2>3, <2>4
<1>2. Cardinality(r0) \in Nat
  BY FS_Subset, FS_CardinalityType
<1>3. Into(r0, s0)
  OBVIOUS
<1> QED BY <1>1, <1>2, <1>3

\* The terms of a sum, and those of one that has another term: each of the others is no
\* greater than one of its own.
Fits(f, S, h, R, a, m) ==
    /\ IsFiniteSet(S) /\ f \in [S -> Nat] /\ IsFiniteSet(R) /\ h \in [R -> Nat]
    /\ a \in R /\ m \in [R \ {a} -> S] /\ \A x, y \in R \ {a} : m[x] = m[y] => x = y
    /\ \A x \in R \ {a} : h[x] =< f[m[x]]

\* One more term, and each of the others no greater than one of its own in the other sum.
LEMMA SumsGrowByOne ==
  ASSUME NEW f, NEW S, NEW h, NEW R, NEW a, NEW m, Fits(f, S, h, R, a, m)
  PROVE  SumFunction(h) =< SumFunction(f) + h[a]
<1>1. /\ IsFiniteSet(S) /\ f \in [S -> Nat] /\ IsFiniteSet(R) /\ h \in [R -> Nat]
      /\ a \in R /\ m \in [R \ {a} -> S] /\ \A x, y \in R \ {a} : m[x] = m[y] => x = y
      /\ \A x \in R \ {a} : h[x] =< f[m[x]]
  BY DEF Fits
<1>2. PICK g : Adds(g, f, S) /\ SumFunction(f) = g[S]
  BY <1>1, TotalAdds
<1>3. PICK i : Adds(i, h, R) /\ SumFunction(h) = i[R]
  BY <1>1, TotalAdds
<1>4. i[R \ {a}] =< g[S]
  BY <1>1, <1>2, <1>3, TermsBelow
<1>5. i[R] = h[a] + i[R \ {a}] /\ i[R \ {a}] \in Nat /\ g[S] \in Nat /\ h[a] \in Nat
  BY <1>1, <1>2, <1>3 DEF Adds
<1> QED BY <1>2, <1>3, <1>4, <1>5

\* One term that grew.
LEMMA SumsGrow ==
  ASSUME NEW S, IsFiniteSet(S), NEW f \in [S -> Nat], NEW h \in [S -> Nat], NEW a, NEW d \in Nat,
         \A x \in S : x # a => h[x] =< f[x], a \in S => h[a] =< f[a] + d
  PROVE  SumFunction(h) =< SumFunction(f) + d
<1>1. PICK g : Adds(g, f, S) /\ SumFunction(f) = g[S]
  BY TotalAdds
<1>2. PICK i : Adds(i, h, S) /\ SumFunction(h) = i[S]
  BY TotalAdds
<1>3. i[S \ {a}] =< g[S \ {a}]
  <2> DEFINE m == [x \in S \ {a} |-> x]
  <2>1. /\ m \in [S \ {a} -> S \ {a}] /\ \A x, y \in S \ {a} : m[x] = m[y] => x = y
        /\ \A x \in S \ {a} : h[x] =< f[m[x]]
    OBVIOUS
  <2> HIDE DEF m
  <2> QED BY <1>1, <1>2, <2>1, TermsBelow
<1>4. i[S \ {a}] \in Nat /\ g[S \ {a}] \in Nat
  BY <1>1, <1>2 DEF Adds
<1>5. CASE a \in S
  <2>1. i[S] = h[a] + i[S \ {a}] /\ g[S] = f[a] + g[S \ {a}] /\ h[a] \in Nat /\ f[a] \in Nat
    BY <1>1, <1>2, <1>5 DEF Adds
  <2> QED BY <1>1, <1>2, <1>3, <1>4, <1>5, <2>1
<1>6. CASE a \notin S
  <2>1. S \ {a} = S
    BY <1>6
  <2>2. i[S] =< g[S] /\ i[S] \in Nat /\ g[S] \in Nat
    BY <1>3, <1>4, <2>1, Zenon
  <2>3. i[S] =< g[S] + d
    BY <2>2
  <2> QED BY <1>1, <1>2, <2>3
<1> QED BY <1>5, <1>6

-----------------------------------------------------------------------------
(* The versions of a key. *)

\* What is left when versions are taken away, in whatever order.
Thins(r, s) ==
    \E m \in [DOMAIN r -> DOMAIN s] :
        /\ \A i, j \in DOMAIN r : m[i] = m[j] => i = j
        /\ \A i \in DOMAIN r : r[i] = s[m[i]]

\* Versions are finitely many, and each has a place.
LEMMA VersionsHavePlaces ==
  ASSUME NEW s \in Versions
  PROVE  /\ s \in Seq(Version) /\ Len(s) \in Nat /\ DOMAIN s = 1 .. Len(s) /\ IsFiniteSet(DOMAIN s)
         /\ \A i \in DOMAIN s : s[i] \in Version /\ s[i].id \in Nat /\ s[i].payload \in Payload \cup {None}
         /\ \A i, j \in DOMAIN s : s[i].id = s[j].id => i = j
         /\ Range(s) \subseteq Version
         /\ \A v \in Range(s) : \E i \in DOMAIN s : v = s[i]
         /\ s # <<>> => Len(s) > 0 /\ 1 \in DOMAIN s /\ Head(s) = s[1]
         /\ <<>> \in Versions
<1>1. s \in Seq(Version) /\ \A i, j \in DOMAIN s : s[i].id = s[j].id => i = j
  BY DEF Versions
<1>2. Len(s) \in Nat /\ DOMAIN s = 1 .. Len(s) /\ \A i \in DOMAIN s : s[i] \in Version
  BY <1>1
<1>3. IsFiniteSet(DOMAIN s)
  BY <1>2, FS_Interval
<1>4. \A i \in DOMAIN s : s[i].id \in Nat /\ s[i].payload \in Payload \cup {None}
  BY <1>2 DEF Version
<1>5. s # <<>> => Len(s) > 0 /\ 1 \in DOMAIN s /\ Head(s) = s[1]
  BY <1>1, <1>2
<1>6. Range(s) \subseteq Version /\ \A v \in Range(s) : \E i \in DOMAIN s : v = s[i]
  BY <1>2 DEF Range
<1>7. <<>> \in Versions
  BY DEF Versions
<1> QED BY <1>1, <1>2, <1>3, <1>4, <1>5, <1>6, <1>7

\* A list without its k-th row.
TakenOut(s, k) == SubSeq(s, 1, k - 1) \o SubSeq(s, k + 1, Len(s))

\* A row is taken out of a list: those before it keep their places, those after it move up.
LEMMA OneTakenOut ==
  ASSUME NEW S, NEW s \in Seq(S), NEW k \in 1 .. Len(s)
  PROVE  /\ TakenOut(s, k) \in Seq(S) /\ Len(TakenOut(s, k)) = Len(s) - 1
         /\ \A i \in 1 .. k - 1 : TakenOut(s, k)[i] = s[i]
         /\ \A i \in k .. Len(s) - 1 : TakenOut(s, k)[i] = s[i + 1]
<1> DEFINE n == Len(s)
           front == SubSeq(s, 1, k - 1)
           back == SubSeq(s, k + 1, n)
           rest == TakenOut(s, k)
<1>0. rest = front \o back
  BY DEF TakenOut
<1>1. n \in Nat /\ k \in 1 .. n /\ \A i \in 1 .. n : s[i] \in S
  BY ElementOfSeq
<1> HIDE DEF n
<1>2. front \in Seq(S) /\ Len(front) = k - 1 /\ \A i \in 1 .. k - 1 : front[i] = s[i]
  <2>1. /\ 1 \in Int /\ k - 1 \in Int /\ (\A i \in 1 .. k - 1 : s[i] \in S)
        /\ (IF 1 <= k - 1 THEN (k - 1) - 1 + 1 ELSE 0) = k - 1 /\ (k - 1) - 1 + 1 = k - 1
    BY <1>1
  <2>2. /\ front \in Seq(S) /\ Len(front) = IF 1 <= k - 1 THEN (k - 1) - 1 + 1 ELSE 0
        /\ \A i \in 1 .. (k - 1) - 1 + 1 : front[i] = s[1 + i - 1]
    BY <2>1, SubSeqProperties
  <2>3. \A i \in 1 .. k - 1 : 1 + i - 1 = i
    BY <1>1
  <2> HIDE DEF front
  <2> QED BY <2>1, <2>2, <2>3
<1>3. back \in Seq(S) /\ Len(back) = n - k /\ \A i \in 1 .. n - k : back[i] = s[k + i]
  <2>1. /\ k + 1 \in Int /\ n \in Int /\ (\A i \in k + 1 .. n : s[i] \in S)
        /\ (IF k + 1 <= n THEN n - (k + 1) + 1 ELSE 0) = n - k /\ n - (k + 1) + 1 = n - k
    BY <1>1
  <2>2. /\ back \in Seq(S) /\ Len(back) = IF k + 1 <= n THEN n - (k + 1) + 1 ELSE 0
        /\ \A i \in 1 .. n - (k + 1) + 1 : back[i] = s[(k + 1) + i - 1]
    BY <2>1, SubSeqProperties
  <2>3. \A i \in 1 .. n - k : (k + 1) + i - 1 = k + i
    BY <1>1
  <2> HIDE DEF back
  <2> QED BY <2>1, <2>2, <2>3
<1> HIDE DEF front, back, rest
<1>4. /\ rest \in Seq(S) /\ Len(rest) = Len(front) + Len(back)
      /\ \A i \in 1 .. Len(front) + Len(back) : rest[i] = IF i <= Len(front) THEN front[i] ELSE back[i - Len(front)]
  <2>1. front \in Seq(S) /\ back \in Seq(S)
    BY <1>2, <1>3
  <2>2. /\ front \o back \in Seq(S) /\ Len(front \o back) = Len(front) + Len(back)
        /\ \A i \in 1 .. Len(front) + Len(back) :
              (front \o back)[i] = IF i <= Len(front) THEN front[i] ELSE back[i - Len(front)]
    BY <2>1, ConcatProperties
  <2> QED BY <1>0, <2>2, Zenon
<1>5. Len(front) = k - 1 /\ Len(front) + Len(back) = n - 1
  BY <1>1, <1>2, <1>3
<1>6. \A i \in 1 .. k - 1 : rest[i] = s[i]
  <2> TAKE i \in 1 .. k - 1
  <2>1. i \in 1 .. n - 1 /\ i <= k - 1
    BY <1>1
  <2>2. rest[i] = front[i]
    BY <1>4, <1>5, <2>1
  <2> QED BY <1>2, <2>2
<1>7. \A i \in k .. n - 1 : rest[i] = s[i + 1]
  <2> TAKE i \in k .. n - 1
  <2>1. i \in 1 .. n - 1 /\ ~ (i <= k - 1)
    BY <1>1
  <2>2. rest[i] = back[i - (k - 1)]
    BY <1>4, <1>5, <2>1
  <2>3. i - (k - 1) \in 1 .. n - k /\ k + (i - (k - 1)) = i + 1
    BY <1>1
  <2> QED BY <1>3, <2>2, <2>3
<1>8. rest \in Seq(S) /\ Len(rest) = n - 1
  BY <1>4, <1>5
<1> QED BY <1>6, <1>7, <1>8 DEF n, rest

\* deleteVersion, commitVersion: a version is taken away, and the others stay in their order.
LEMMA RemovedThins ==
  ASSUME NEW s \in Versions, NEW id
  PROVE  /\ Removed(s, id) \in Versions /\ Thins(Removed(s, id), s)
         /\ \A i \in DOMAIN Removed(s, id) : Removed(s, id)[i].id # id
<1> DEFINE r == Removed(s, id)
           k == CHOOSE i \in DOMAIN s : s[i].id = id
<1>1. /\ s \in Seq(Version) /\ Len(s) \in Nat /\ DOMAIN s = 1 .. Len(s)
      /\ \A i, j \in DOMAIN s : s[i].id = s[j].id => i = j
      /\ \A i \in DOMAIN s : s[i] \in Version
  BY VersionsHavePlaces
<1>2. CASE ~ \E v \in Range(s) : v.id = id
  <2>1. r = s
    BY <1>2 DEF Removed
  <2>2. Thins(s, s)
    <3> DEFINE m == [i \in DOMAIN s |-> i]
    <3>1. m \in [DOMAIN s -> DOMAIN s] /\ \A i \in DOMAIN s : m[i] = i
      OBVIOUS
    <3> HIDE DEF m
    <3> QED BY <3>1 DEF Thins
  <2>3. \A i \in DOMAIN s : s[i].id # id
    BY <1>2 DEF Range
  <2> QED BY <2>1, <2>2, <2>3
<1>3. CASE \E v \in Range(s) : v.id = id
  <2>1. k \in DOMAIN s /\ s[k].id = id
    <3>1. \E i \in DOMAIN s : s[i].id = id
      BY <1>3, VersionsHavePlaces
    <3> QED BY <3>1
  <2>2. r = TakenOut(s, k)
    BY <1>3, Zenon DEF Removed, TakenOut
  <2> HIDE DEF r, k
  <2>3. k \in 1 .. Len(s)
    BY <1>1, <2>1
  <2>4. /\ r \in Seq(Version) /\ Len(r) = Len(s) - 1
        /\ \A i \in 1 .. k - 1 : r[i] = s[i]
        /\ \A i \in k .. Len(s) - 1 : r[i] = s[i + 1]
    <3>1. s \in Seq(Version)
      BY <1>1
    <3> QED BY <2>2, <2>3, <3>1, OneTakenOut
  <2>5. r \in Seq(Version) /\ Len(r) = Len(s) - 1
    BY <2>4
  <2>6. /\ \A i \in 1 .. k - 1 : r[i] = s[i]
        /\ \A i \in k .. Len(s) - 1 : r[i] = s[i + 1]
    BY <2>4
  <2> DEFINE m == [i \in DOMAIN r |-> IF i < k THEN i ELSE i + 1]
  <2>7. DOMAIN r = 1 .. Len(s) - 1
    BY <2>5
  <2>8. m \in [DOMAIN r -> DOMAIN s] /\ (\A i, j \in DOMAIN r : m[i] = m[j] => i = j) /\ \A i \in DOMAIN r : m[i] # k
    BY <1>1, <2>3, <2>7
  <2>9. \A i \in DOMAIN r : r[i] = s[m[i]]
    BY <1>1, <2>3, <2>6, <2>7
  <2> HIDE DEF m
  <2>10. Thins(r, s)
    BY <2>8, <2>9 DEF Thins
  <2>11. \A i, j \in DOMAIN r : r[i].id = r[j].id => i = j
    BY <1>1, <2>8, <2>9
  <2>12. \A i \in DOMAIN r : r[i].id # id
    BY <1>1, <2>1, <2>8, <2>9
  <2>13. r \in Versions
    BY <2>5, <2>11 DEF Versions
  <2> QED BY <2>10, <2>12, <2>13 DEF r
<1> QED BY <1>2, <1>3

\* commitVersion: the new version is the latest; the others stay, but for the null version
\* that it replaces.
LEMMA WithVersionAdds ==
  ASSUME NEW s \in Versions, NEW v \in Version, \A w \in Range(s) : w.id = v.id => v.id = NullId
  PROVE  /\ WithVersion(s, v) \in Versions /\ WithVersion(s, v) # <<>> /\ Head(WithVersion(s, v)) = v
         /\ \A w \in Range(WithVersion(s, v)) : w = v \/ w \in Range(s)
         /\ \E m \in [DOMAIN WithVersion(s, v) \ {1} -> DOMAIN s] :
              /\ \A i, j \in DOMAIN WithVersion(s, v) \ {1} : m[i] = m[j] => i = j
              /\ \A i \in DOMAIN WithVersion(s, v) \ {1} : WithVersion(s, v)[i] = s[m[i]]
         /\ 1 \in DOMAIN WithVersion(s, v) /\ WithVersion(s, v)[1] = v
<1> DEFINE r == WithVersion(s, v)
           rest == IF v.id = NullId THEN Removed(s, NullId) ELSE s
<1>1. rest \in Versions /\ Thins(rest, s) /\ \A i \in DOMAIN rest : rest[i].id # v.id
  <2>1. CASE v.id = NullId
    BY <2>1, RemovedThins
  <2>2. CASE v.id # NullId
    <3>1. \A i \in DOMAIN s : s[i].id # v.id
      BY <2>2 DEF Range
    <3>2. Thins(s, s)
      <4> DEFINE m == [i \in DOMAIN s |-> i]
      <4>1. m \in [DOMAIN s -> DOMAIN s] /\ \A i \in DOMAIN s : m[i] = i
        OBVIOUS
      <4> HIDE DEF m
      <4> QED BY <4>1 DEF Thins
    <3> QED BY <2>2, <3>1, <3>2
  <2> QED BY <2>1, <2>2
<1>2. r = <<v>> \o rest
  BY DEF WithVersion
<1> HIDE DEF r, rest
<1>3. /\ rest \in Seq(Version) /\ Len(rest) \in Nat /\ DOMAIN rest = 1 .. Len(rest)
      /\ \A i, j \in DOMAIN rest : rest[i].id = rest[j].id => i = j
  BY <1>1, VersionsHavePlaces
<1>4. /\ r \in Seq(Version) /\ Len(r) = Len(rest) + 1 /\ DOMAIN r = 1 .. Len(rest) + 1 /\ r[1] = v
      /\ \A i \in DOMAIN r \ {1} : i - 1 \in DOMAIN rest /\ r[i] = rest[i - 1]
  <2>1. r \in Seq(Version) /\ Len(r) = Len(rest) + 1 /\ r[1] = v
    BY <1>2, <1>3
  <2>2. DOMAIN r = 1 .. Len(rest) + 1
    BY <1>3, <2>1
  <2>3. ASSUME NEW i \in DOMAIN r \ {1} PROVE i - 1 \in DOMAIN rest /\ r[i] = rest[i - 1]
    BY <1>2, <1>3, <2>2
  <2> QED BY <2>1, <2>2, <2>3
<1>5. \A i, j \in DOMAIN r : r[i].id = r[j].id => i = j
  <2> SUFFICES ASSUME NEW i \in DOMAIN r, NEW j \in DOMAIN r, r[i].id = r[j].id PROVE i = j
    OBVIOUS
  <2>1. CASE i = 1 /\ j # 1
    BY <1>1, <1>4, <2>1
  <2>2. CASE i # 1 /\ j = 1
    BY <1>1, <1>4, <2>2
  <2>3. CASE i # 1 /\ j # 1
    <3>1. i - 1 = j - 1
      BY <1>3, <1>4, <2>3
    <3>2. i \in Nat /\ j \in Nat
      BY <1>3, <1>4
    <3> QED BY <3>1, <3>2
  <2> QED BY <2>1, <2>2, <2>3
<1>6. r \in Versions /\ r # <<>> /\ Head(r) = v /\ 1 \in DOMAIN r
  <2>1. r \in Versions /\ 1 \in DOMAIN r
    BY <1>3, <1>4, <1>5 DEF Versions
  <2>2. r # <<>>
    BY <1>3, <1>4
  <2> QED BY <1>4, <2>1, <2>2, VersionsHavePlaces
<1>7. PICK m \in [DOMAIN rest -> DOMAIN s] :
        /\ \A i, j \in DOMAIN rest : m[i] = m[j] => i = j
        /\ \A i \in DOMAIN rest : rest[i] = s[m[i]]
  BY <1>1 DEF Thins
<1>8. \E n \in [DOMAIN r \ {1} -> DOMAIN s] :
        /\ \A i, j \in DOMAIN r \ {1} : n[i] = n[j] => i = j
        /\ \A i \in DOMAIN r \ {1} : r[i] = s[n[i]]
  <2> DEFINE n == [i \in DOMAIN r \ {1} |-> m[i - 1]]
  <2>1. n \in [DOMAIN r \ {1} -> DOMAIN s]
    BY <1>4, <1>7
  <2>2. \A i \in DOMAIN r \ {1} : n[i] = m[i - 1] /\ i - 1 \in DOMAIN rest /\ i \in Nat
    BY <1>3, <1>4
  <2> HIDE DEF n
  <2>3. ASSUME NEW i \in DOMAIN r \ {1}, NEW j \in DOMAIN r \ {1}, n[i] = n[j] PROVE i = j
    <3>1. i - 1 = j - 1
      BY <1>7, <2>2, <2>3
    <3> QED BY <2>2, <3>1
  <2>4. \A i \in DOMAIN r \ {1} : r[i] = s[n[i]]
    BY <1>4, <1>7, <2>2
  <2> QED BY <2>1, <2>3, <2>4
<1>9. \A w \in Range(r) : w = v \/ w \in Range(s)
  <2> TAKE w \in Range(r)
  <2>1. PICK i \in DOMAIN r : w = r[i]
    BY DEF Range
  <2>2. ASSUME i # 1 PROVE w \in Range(s)
    <3>1. i - 1 \in DOMAIN rest /\ w = s[m[i - 1]] /\ m[i - 1] \in DOMAIN s
      BY <1>4, <1>7, <2>1, <2>2
    <3> QED BY <3>1 DEF Range
  <2> QED BY <1>4, <2>1, <2>2
<1> QED BY <1>4, <1>6, <1>8, <1>9 DEF r

-----------------------------------------------------------------------------
(* Where a call stands. *)

Writing == {"bucket", "bucketParts", "owner", "ownerParts", "commit"}
Underway(x) == x.at \notin Ended \cup {"start"}

\* What a call of each kind has passed when it is where it is.
Placed(j, x) ==
    /\ Underway(x) => x.ctx \in BucketRow /\ x.source \in BucketRow
    /\ x.at \in Writing => j.op \in Writes \cup {"uploadPart", "complete"} /\ x.key \in Key
    /\ j.op = "complete" => x.at \notin Writing \ {"commit"}
    /\ x.at = "exists" => j.op = "createFolder"
    /\ x.at = "keys" => j.op \in {"copy", "move", "delete", "deleteVersion", "deletePrefix", "deleteObjects"}
    /\ x.at = "next" => j.op \in {"copy", "move"} /\ x.keys # {}
    /\ x.at = "delete" => j.op \in {"move", "delete", "deleteVersion", "deletePrefix", "deleteObjects"} /\ x.doomed # {}
    /\ x.at = "parts" => j.op = "complete"
    /\ x.at \in {"retire", "dropParts"} => j.op \in {"complete", "abort"}
    /\ x.at \in {"count", "drop"} => j.op = "deleteBucket"
    /\ j.op \in {"copy", "move"} =>
         /\ x.keys \subseteq x.doomed /\ x.doomed \subseteq Sources(j)
         /\ Underway(x) /\ x.at # "keys" => ~Refused(j)
         /\ x.at \in Writing \cup {"next"} => x.doomed # {}
         /\ x.at = "delete" => x.keys = {}
    /\ j.op \notin {"copy", "move"} => x.key = j.key

\* No version has an id that is still to be given.
Fresh ==
    /\ nextId > NullId
    /\ \A b \in Bucket, k \in Key : \A v \in Range(table[b][k]) : v.id < nextId

SpaceInv ==
    /\ TypeOK /\ Fresh
    /\ \A w \in Walker : Walked(w)
    /\ \A c \in Call : WellAsked(job[c]) /\ Placed(job[c], call[c])

\* The invariant of the listings is part of it.
LEMMA SpaceListings == SpaceInv => WalksInv
BY DEF SpaceInv, TypeOK, WalksInv

\* A call goes on.
LEMMA CallsMove ==
  ASSUME SpaceInv, NEW c \in Call, NEW y \in CallState, Placed(job[c], y),
         call' = [call EXCEPT ![c] = y], UNCHANGED job
  PROVE  /\ call' \in [Call -> CallState] /\ job' \in [Call -> Job] /\ call'[c] = y
         /\ \A d \in Call : d # c => call'[d] = call[d]
         /\ \A d \in Call : WellAsked(job[d])' /\ Placed(job[d], call[d])'
<1>1. call \in [Call -> CallState] /\ job \in [Call -> Job]
  BY DEF SpaceInv, TypeOK
<1>2. call'[c] = y /\ \A d \in Call : d # c => call'[d] = call[d]
  BY <1>1
<1>3. \A d \in Call : WellAsked(job'[d])
  BY DEF SpaceInv
<1>4. \A d \in Call : Placed(job'[d], call'[d])
  BY <1>2 DEF SpaceInv
<1> QED BY <1>1, <1>2, <1>3, <1>4

\* A call that reads changes its own state only.
LEMMA ReadKeeps ==
  ASSUME SpaceInv, NEW c \in Call, NEW y \in CallState, Placed(job[c], y),
         call' = [call EXCEPT ![c] = y], UNCHANGED unchangedByReads
  PROVE  SpaceInv'
<1>1. UNCHANGED <<listingVars, settings, nextId, job, history, failures>>
  BY DEF unchangedByReads
<1>2. /\ call' \in [Call -> CallState] /\ job' \in [Call -> Job]
      /\ \A d \in Call : WellAsked(job[d])' /\ Placed(job[d], call[d])'
  BY <1>1, CallsMove
<1>3. WalksInv'
  BY <1>1, SpaceListings, RestKeeps
<1>4. UNCHANGED <<table, uploads, parts, buckets, ownerQuota, nextId, excused, late, lost, failures>>
  BY <1>1 DEF listingVars, tables, settings, history
<1>5. TypeOK'
  BY <1>2, <1>3, <1>4 DEF SpaceInv, TypeOK, WalksInv
<1>6. Fresh'
  BY <1>4 DEF SpaceInv, Fresh
<1> QED BY <1>2, <1>3, <1>5, <1>6 DEF SpaceInv, WalksInv

\* What a call is and has is of its type.
LEMMA CallsAreTyped ==
  ASSUME SpaceInv, NEW c \in Call
  PROVE  /\ call[c] \in CallState /\ job[c] \in Job /\ call \in [Call -> CallState]
         /\ job[c].op \in Ops /\ job[c].bucket \in Bucket /\ job[c].into \in Bucket /\ job[c].key \in Name
         /\ job[c].onto \in Name /\ job[c].payload \in Payload \cup {None} /\ job[c].value \in Nat \cup {None}
         /\ call[c].at \in Label /\ call[c].key \in Name /\ call[c].payload \in Payload \cup {None}
         /\ call[c].written \in BOOLEAN /\ call[c].quota \in Quota
         /\ call[c].bucketSum \in Nat /\ call[c].ownerSum \in Nat
         /\ call[c].keys \in SUBSET Key /\ call[c].doomed \in SUBSET Key
         /\ call[c].ctx \in BucketRow \cup {None} /\ call[c].source \in BucketRow \cup {None}
         /\ WellAsked(job[c]) /\ Placed(job[c], call[c])
<1>1. call \in [Call -> CallState] /\ job \in [Call -> Job] /\ WellAsked(job[c]) /\ Placed(job[c], call[c])
  BY DEF SpaceInv, TypeOK
<1>2. call[c] \in CallState /\ job[c] \in Job
  BY <1>1
<1>3. /\ job[c].op \in Ops /\ job[c].bucket \in Bucket /\ job[c].into \in Bucket /\ job[c].key \in Name
      /\ job[c].onto \in Name /\ job[c].payload \in Payload \cup {None} /\ job[c].value \in Nat \cup {None}
  BY <1>2 DEF Job
<1>4. /\ call[c].at \in Label /\ call[c].key \in Name /\ call[c].payload \in Payload \cup {None}
      /\ call[c].written \in BOOLEAN /\ call[c].quota \in Quota
      /\ call[c].bucketSum \in Nat /\ call[c].ownerSum \in Nat
      /\ call[c].keys \in SUBSET Key /\ call[c].doomed \in SUBSET Key
      /\ call[c].ctx \in BucketRow \cup {None} /\ call[c].source \in BucketRow \cup {None}
  BY <1>2 DEF CallState
<1> QED BY <1>1, <1>2, <1>3, <1>4

\* A call goes to another place, if it may be there.
LEMMA GotoKeeps ==
  ASSUME SpaceInv, NEW c \in Call, NEW label \in Label, Goto(c, label), UNCHANGED unchangedByReads,
         \A y : /\ y.at = label /\ y.ctx = call[c].ctx /\ y.source = call[c].source /\ y.key = call[c].key
                /\ y.keys = call[c].keys /\ y.doomed = call[c].doomed
                => Placed(job[c], y)
  PROVE  SpaceInv'
<1> DEFINE y == [call[c] EXCEPT !.at = label]
<1>1. call[c] \in CallState /\ call \in [Call -> CallState]
  BY CallsAreTyped
<1>2. y \in CallState
  BY <1>1 DEF CallState
<1>3. call' = [call EXCEPT ![c] = y]
  BY <1>1 DEF Goto
<1>4. /\ y.at = label /\ y.ctx = call[c].ctx /\ y.source = call[c].source /\ y.key = call[c].key
      /\ y.keys = call[c].keys /\ y.doomed = call[c].doomed
  BY <1>1 DEF CallState
<1> HIDE DEF y
<1>5. Placed(job[c], y)
  BY <1>4
<1> QED BY <1>2, <1>3, <1>5, ReadKeeps

-----------------------------------------------------------------------------
(* What buckets hold. *)

Held(t, b) == UNION {{k} \X DOMAIN t[b][k] : k \in Key}
Weights(t, b) == [r \in Held(t, b) |-> Weight(t[b][r[1]][r[2]].payload)]

\* A bucket holds finitely many versions, and each has its size.
LEMMA VersionsHaveSizes ==
  ASSUME NEW t \in [Bucket -> [Key -> Versions]], NEW b \in Bucket
  PROVE  /\ IsFiniteSet(Held(t, b)) /\ Weights(t, b) \in [Held(t, b) -> Nat]
         /\ \A r : r \in Held(t, b) <=> \E k \in Key : \E i \in DOMAIN t[b][k] : r = <<k, i>>
<1> DEFINE s(k) == t[b][k]
<1>1. \A k \in Key : s(k) \in Versions
  OBVIOUS
<1>2. \A k \in Key : IsFiniteSet({k} \X DOMAIN s(k))
  <2> TAKE k \in Key
  <2>1. IsFiniteSet(DOMAIN s(k)) /\ IsFiniteSet({k})
    BY <1>1, VersionsHavePlaces, FS_Singleton
  <2> HIDE DEF s
  <2> QED BY <2>1, FS_Product
<1>3. IsFiniteSet({{k} \X DOMAIN s(k) : k \in Key})
  <2> HIDE DEF s
  <2> DEFINE f == [k \in Key |-> {k} \X DOMAIN s(k)]
             S == {{k} \X DOMAIN s(k) : k \in Key}
  <2>1. f \in Surjection(Key, S)
    BY DEF Surjection
  <2>2. IsFiniteSet(Key)
    BY NamesAssumption
  <2> HIDE DEF f, S
  <2>3. IsFiniteSet(S)
    BY <2>1, <2>2, FS_Surjection
  <2> QED BY <2>3 DEF S
<1>4. IsFiniteSet(Held(t, b))
  <2> DEFINE S == {{k} \X DOMAIN s(k) : k \in Key}
  <2>1. \A T \in S : IsFiniteSet(T)
    BY <1>2
  <2>2. Held(t, b) = UNION S
    BY DEF Held
  <2> HIDE DEF S
  <2> QED BY <1>3, <2>1, <2>2, FS_UNION DEF S
<1>5. \A r : r \in Held(t, b) <=> \E k \in Key : \E i \in DOMAIN t[b][k] : r = <<k, i>>
  BY DEF Held
<1>6. ASSUME NEW r \in Held(t, b) PROVE Weight(t[b][r[1]][r[2]].payload) \in Nat
  <2>1. PICK k \in Key : \E i \in DOMAIN t[b][k] : r = <<k, i>>
    BY <1>5
  <2>2. PICK i \in DOMAIN t[b][k] : r = <<k, i>>
    BY <2>1
  <2>3. t[b][k] \in Versions
    OBVIOUS
  <2>4. t[b][k][i].payload \in Payload \cup {None}
    BY <2>2, <2>3, VersionsHavePlaces
  <2>5. t[b][r[1]][r[2]].payload \in Payload \cup {None}
    BY <2>2, <2>4
  <2> QED BY <2>5, SpaceAssumption DEF Weight
<1> QED BY <1>4, <1>5, <1>6 DEF Weights

\* Every sum that a quota is checked against is a number.
LEMMA BytesAreNumbers ==
  ASSUME table \in [Bucket -> [Key -> Versions]], parts \in SUBSET Part
  PROVE  /\ \A b \in Bucket : VersionBytes(b) = SumFunction(Weights(table, b))
         /\ \A b \in Bucket : VersionBytes(b) \in Nat /\ PartBytes(b) \in Nat /\ Usage(b) \in Nat
         /\ \A u : Owned(u) \in SUBSET Bucket /\ IsFiniteSet(Owned(u))
         /\ \A u : SumFunction([b \in Owned(u) |-> VersionBytes(b)]) \in Nat
         /\ \A u : SumFunction([b \in Owned(u) |-> PartBytes(b)]) \in Nat
         /\ \A u : OwnersUsage(u) \in Nat
<1>1. \A b \in Bucket : VersionBytes(b) = SumFunction(Weights(table, b))
  BY DEF VersionBytes, Weights, Held
<1>2. \A b \in Bucket : VersionBytes(b) \in Nat
  <2> TAKE b \in Bucket
  <2>1. IsFiniteSet(Held(table, b)) /\ Weights(table, b) \in [Held(table, b) -> Nat]
    BY VersionsHaveSizes
  <2>2. SumFunction(Weights(table, b)) \in Nat
    BY <2>1, SumsAreNumbers
  <2> QED BY <1>1, <2>2
<1>3. \A b \in Bucket : PartBytes(b) \in Nat
  <2>1. IsFiniteSet(parts)
    BY PartsAssumption, FS_Subset
  <2>2. [n \in parts |-> Size[n]] \in [parts -> Nat]
    BY SpaceAssumption
  <2>3. SumFunction([n \in parts |-> Size[n]]) \in Nat
    BY <2>1, <2>2, SumsAreNumbers
  <2> QED BY <2>3 DEF PartBytes
<1>4. \A b \in Bucket : Usage(b) \in Nat
  BY <1>2, <1>3 DEF Usage
<1>5. \A u : Owned(u) \in SUBSET Bucket /\ IsFiniteSet(Owned(u))
  <2> TAKE u
  <2>1. Owned(u) \in SUBSET Bucket
    BY DEF Owned
  <2> QED BY <2>1, SpaceAssumption, FS_Subset
<1>6. \A u : SumFunction([b \in Owned(u) |-> VersionBytes(b)]) \in Nat
  <2> TAKE u
  <2>1. [b \in Owned(u) |-> VersionBytes(b)] \in [Owned(u) -> Nat]
    BY <1>2, <1>5
  <2> QED BY <1>5, <2>1, SumsAreNumbers
<1>7. \A u : SumFunction([b \in Owned(u) |-> PartBytes(b)]) \in Nat
  <2> TAKE u
  <2>1. [b \in Owned(u) |-> PartBytes(b)] \in [Owned(u) -> Nat]
    BY <1>3, <1>5
  <2> QED BY <1>5, <2>1, SumsAreNumbers
<1>8. \A u : OwnersUsage(u) \in Nat
  <2> TAKE u
  <2>1. [b \in Owned(u) |-> Usage(b)] \in [Owned(u) -> Nat]
    BY <1>4, <1>5
  <2>2. SumFunction([b \in Owned(u) |-> Usage(b)]) \in Nat
    BY <1>5, <2>1, SumsAreNumbers
  <2> QED BY <2>2 DEF OwnersUsage
<1> QED BY <1>1, <1>2, <1>3, <1>4, <1>5, <1>6, <1>7, <1>8

-----------------------------------------------------------------------------
(* The steps that read. *)

\* Keys are numbered, and the first of some is one of them.
LEMMA FirstOfKeys ==
  ASSUME NEW K \in SUBSET Key, K # {}
  PROVE  Min(K) \in K
<1>1. K \in SUBSET Nat
  BY NamesAssumption
<1>2. \E x \in K : \A y \in K : x =< y
  BY <1>1, LeastOfNumbers
<1> QED BY <1>2 DEF Min

\* getByName, requireUpload
LEMMA ResolveKeeps ==
  ASSUME SpaceInv, NEW c \in Call, Resolve(c)
  PROVE  SpaceInv'
<1> DEFINE j == job[c]
           x == call[c]
           y == [x EXCEPT !.at = FirstLabel(j.op), !.source = buckets[j.bucket],
                          !.ctx = buckets[IF j.op \in {"copy", "move"} THEN j.into ELSE j.bucket]]
<1>1. x.at = "start" /\ j.op \notin Settings \cup {"createBucket"} /\ UNCHANGED unchangedByReads
  BY DEF Resolve
<1>2. CASE Goto(c, "failed")
  <2>1. "failed" \in Label
    BY DEF Label, Ended
  <2>2. ASSUME NEW y1, y1.at = "failed", y1.ctx = x.ctx, y1.source = x.source, y1.key = x.key, y1.keys = x.keys,
               y1.doomed = x.doomed
        PROVE  Placed(j, y1)
    <3>1. Placed(j, x)
      BY CallsAreTyped
    <3> HIDE DEF x, j
    <3> QED BY <2>2, <3>1 DEF Placed, Underway, Ended, Writing
  <2> QED BY <1>1, <1>2, <2>1, <2>2, GotoKeeps
<1>3. ASSUME Alive(j.bucket), j.op \in {"copy", "move"} => Alive(j.into),
             call' = [call EXCEPT ![c].at = FirstLabel(j.op), ![c].source = buckets[j.bucket],
               ![c].ctx = buckets[IF j.op \in {"copy", "move"} THEN j.into ELSE j.bucket]]
      PROVE  SpaceInv'
  <2>1. /\ x \in CallState /\ j.op \in Ops /\ j.bucket \in Bucket /\ j.into \in Bucket /\ call \in [Call -> CallState]
        /\ WellAsked(j) /\ Placed(j, x)
    BY CallsAreTyped
  <2>2. buckets \in [Bucket -> BucketRow \cup {None}]
    BY DEF SpaceInv, TypeOK
  <2>3. buckets[j.bucket] \in BucketRow /\ buckets[IF j.op \in {"copy", "move"} THEN j.into ELSE j.bucket] \in BucketRow
    BY <1>3, <2>1, <2>2 DEF Alive
  <2>4. /\ j.op \in {"put", "uploadPart"} => FirstLabel(j.op) = "bucket"
        /\ j.op = "createFolder" => FirstLabel(j.op) = "exists"
        /\ j.op \in {"copy", "move", "delete", "deleteVersion", "deletePrefix", "deleteObjects"} => FirstLabel(j.op) = "keys"
        /\ j.op = "complete" => FirstLabel(j.op) = "parts"
        /\ j.op = "abort" => FirstLabel(j.op) = "dropParts"
        /\ j.op = "deleteBucket" => FirstLabel(j.op) = "count"
    <3> HIDE DEF j
    <3> QED BY DEF FirstLabel
  <2>5. j.op \in {"put", "uploadPart", "createFolder", "copy", "move", "delete", "deleteVersion", "deletePrefix",
                  "deleteObjects", "complete", "abort", "deleteBucket"}
    BY <1>1, <2>1 DEF Ops, Writes, Uploads, Settings
  <2>6. FirstLabel(j.op) \in {"bucket", "exists", "keys", "parts", "dropParts", "count"}
    <3> HIDE DEF j
    <3> QED BY <2>4, <2>5
  <2>7. FirstLabel(j.op) \in Label
    BY <2>6 DEF Label
  <2>8. y \in CallState
    BY <2>1, <2>3, <2>7 DEF CallState
  <2>9. call' = [call EXCEPT ![c] = y]
    BY <1>3, <2>1 DEF CallState
  <2>10. /\ y.at = FirstLabel(j.op) /\ y.source \in BucketRow /\ y.ctx \in BucketRow
         /\ y.key = x.key /\ y.keys = x.keys /\ y.doomed = x.doomed
    BY <2>1, <2>3 DEF CallState
  <2> HIDE DEF y
  <2>11. Placed(j, y)
    <3>1. j.op \in {"put", "uploadPart"} => y.key \in Key
      <4>1. j.op \in {"put", "uploadPart"} => j.key \in Key
        BY <2>1 DEF WellAsked, Uploads
      <4> QED BY <2>1, <2>10, <4>1 DEF Placed
    <3>2. /\ j.op \in {"copy", "move"} => y.keys \subseteq y.doomed /\ y.doomed \subseteq Sources(j) /\ y.at = "keys"
          /\ j.op \notin {"copy", "move"} => y.key = j.key
      BY <2>1, <2>4, <2>10 DEF Placed
    <3> HIDE DEF j, x
    <3> QED BY <2>4, <2>5, <2>6, <2>10, <3>1, <3>2 DEF Placed, Underway, Writing, Writes, Ended
  <2> QED BY <1>1, <2>8, <2>9, <2>11, ReadKeeps
<1> QED BY <1>2, <1>3 DEF Resolve

\* A call that writes goes on towards its commit.
LEMMA WritersStay ==
  ASSUME NEW j, NEW x, NEW y, Placed(j, x), x.at \in Writing \ {"commit"}, y.at \in Writing,
         y.ctx = x.ctx, y.source = x.source, y.key = x.key, y.keys = x.keys, y.doomed = x.doomed
  PROVE  Placed(j, y)
<1>1. /\ x.at \notin Ended \cup {"start"} /\ Underway(x) /\ j.op # "complete"
      /\ y.at \notin {"exists", "keys", "next", "delete", "parts", "retire", "dropParts", "count", "drop"}
  BY DEF Placed, Writing, Underway, Ended
<1>2. x.at # "keys"
  BY DEF Writing
<1> QED BY <1>1, <1>2 DEF Placed, Writing

\* assertQuota
LEMMA CheckOwnerKeeps ==
  ASSUME SpaceInv, NEW c \in Call, NEW sum \in Nat, call[c].at \in {"bucket", "bucketParts"},
         CheckOwner(c, sum), UNCHANGED unchangedByReads
  PROVE  SpaceInv'
<1> DEFINE quota == ownerQuota[call[c].ctx.owner]
           x == [call[c] EXCEPT !.quota = quota, !.bucketSum = sum]
           y == IF quota = None THEN Passed(x) ELSE [x EXCEPT !.at = "owner"]
<1>1. call[c] \in CallState /\ Placed(job[c], call[c]) /\ call \in [Call -> CallState]
  BY CallsAreTyped
<1>2. quota \in Quota
  <2>1. call[c].ctx \in BucketRow
    BY <1>1 DEF Placed, Underway, Ended
  <2>2. call[c].ctx.owner \in User
    BY <2>1 DEF BucketRow
  <2> QED BY <2>2 DEF SpaceInv, TypeOK
<1> HIDE DEF quota
<1>3. x \in CallState
  BY <1>1, <1>2 DEF CallState
<1>4. /\ x.ctx = call[c].ctx /\ x.source = call[c].source /\ x.key = call[c].key /\ x.keys = call[c].keys
      /\ x.doomed = call[c].doomed
  BY <1>1 DEF CallState
<1>5. call' = [call EXCEPT ![c] = y]
  BY DEF CheckOwner, quota
<1> HIDE DEF x
<1>6. y \in CallState
  BY <1>3, ZenonT(60) DEF Passed, CallState, Label
<1>7. y.at \in Writing /\ y.ctx = x.ctx /\ y.source = x.source /\ y.key = x.key /\ y.keys = x.keys /\ y.doomed = x.doomed
  BY <1>3 DEF Passed, CallState, Writing
<1> HIDE DEF y
<1>8. Placed(job[c], y)
  <2>1. call[c].at \in Writing \ {"commit"}
    BY DEF Writing
  <2>2. y.ctx = call[c].ctx /\ y.source = call[c].source /\ y.key = call[c].key /\ y.keys = call[c].keys /\ y.doomed = call[c].doomed
    BY <1>4, <1>7
  <2> HIDE DEF y
  <2> QED BY <1>1, <1>7, <2>1, <2>2, WritersStay
<1> QED BY <1>5, <1>6, <1>8, ReadKeeps

\* A bucket's usage is a number.
LEMMA UsageIsANumber ==
  ASSUME SpaceInv
  PROVE  /\ \A b \in Bucket : VersionBytes(b) \in Nat /\ PartBytes(b) \in Nat /\ Usage(b) \in Nat
         /\ \A u : SumFunction([b \in Owned(u) |-> VersionBytes(b)]) \in Nat
         /\ \A u : SumFunction([b \in Owned(u) |-> PartBytes(b)]) \in Nat
         /\ \A c \in Call : Target(c) \in Bucket
<1>1. table \in [Bucket -> [Key -> Versions]] /\ parts \in SUBSET Part
  BY DEF SpaceInv, TypeOK, ListingsTypeOK
<1>2. \A c \in Call : Target(c) \in Bucket
  BY CallsAreTyped DEF Target
<1> QED BY <1>1, <1>2, BytesAreNumbers

\* assertQuota: the bucket's own limit.
LEMMA CheckBucketKeeps ==
  ASSUME SpaceInv, NEW c \in Call, CheckBucket(c) \/ CheckBucketParts(c)
  PROVE  SpaceInv'
<1>1. /\ \A b \in Bucket : VersionBytes(b) \in Nat /\ PartBytes(b) \in Nat
      /\ Target(c) \in Bucket
  BY UsageIsANumber
<1>2. call[c] \in CallState /\ Placed(job[c], call[c]) /\ call \in [Call -> CallState] /\ call[c].bucketSum \in Nat
  BY CallsAreTyped
<1>3. CASE CheckBucket(c)
  <2>1. call[c].at = "bucket" /\ UNCHANGED unchangedByReads
    BY <1>3 DEF CheckBucket
  <2>2. CASE CheckOwner(c, 0)
    BY <2>1, <2>2, CheckOwnerKeeps
  <2>3. CASE call' = [call EXCEPT ![c].at = "bucketParts", ![c].bucketSum = VersionBytes(Target(c))]
    <3> DEFINE y == [call[c] EXCEPT !.at = "bucketParts", !.bucketSum = VersionBytes(Target(c))]
    <3>1. call' = [call EXCEPT ![c] = y]
      BY <1>2, <2>3
    <3>2. y \in CallState
      BY <1>1, <1>2 DEF CallState, Label
    <3>3. /\ y.at \in Writing /\ y.ctx = call[c].ctx /\ y.source = call[c].source /\ y.key = call[c].key
          /\ y.keys = call[c].keys /\ y.doomed = call[c].doomed
      BY <1>2 DEF CallState, Writing
    <3> HIDE DEF y
    <3>4. call[c].at \in Writing \ {"commit"}
      BY <2>1 DEF Writing
    <3>5. Placed(job[c], y)
      BY <1>2, <3>3, <3>4, WritersStay
    <3> QED BY <2>1, <3>1, <3>2, <3>5, ReadKeeps
  <2> QED BY <1>3, <2>2, <2>3 DEF CheckBucket
<1>4. CASE CheckBucketParts(c)
  <2> DEFINE bytes == call[c].bucketSum + PartBytes(Target(c))
  <2>1. call[c].at = "bucketParts" /\ UNCHANGED unchangedByReads /\ bytes \in Nat
    BY <1>1, <1>2, <1>4 DEF CheckBucketParts
  <2>2. CASE Goto(c, "refused")
    <3>1. "refused" \in Label
      BY DEF Label, Ended
    <3>2. ASSUME NEW y, y.at = "refused", y.ctx = call[c].ctx, y.source = call[c].source, y.key = call[c].key,
                 y.keys = call[c].keys, y.doomed = call[c].doomed
          PROVE  Placed(job[c], y)
      BY <1>2, <3>2 DEF Placed, Underway, Writing, Ended
    <3> QED BY <2>1, <2>2, <3>1, <3>2, GotoKeeps
  <2>3. CASE CheckOwner(c, bytes)
    <3> HIDE DEF bytes
    <3> QED BY <2>1, <2>3, CheckOwnerKeeps
  <2> QED BY <1>4, <2>2, <2>3 DEF CheckBucketParts
<1> QED BY <1>3, <1>4

\* userUsage
LEMMA CheckOwnersKeeps ==
  ASSUME SpaceInv, NEW c \in Call, ReadOwnersVersions(c) \/ CheckOwnersParts(c)
  PROVE  SpaceInv'
<1> DEFINE u == call[c].ctx.owner
           versions == SumFunction([b \in Owned(u) |-> VersionBytes(b)])
           partly == SumFunction([b \in Owned(u) |-> PartBytes(b)])
<1>1. versions \in Nat /\ partly \in Nat
  BY UsageIsANumber
<1>2. call[c] \in CallState /\ Placed(job[c], call[c]) /\ call \in [Call -> CallState] /\ call[c].ownerSum \in Nat
  BY CallsAreTyped
<1>3. CASE ReadOwnersVersions(c)
  <2>1. /\ call[c].at = "owner" /\ UNCHANGED unchangedByReads
        /\ call' = [call EXCEPT ![c].at = "ownerParts", ![c].ownerSum = versions]
    BY <1>3 DEF ReadOwnersVersions
  <2> HIDE DEF versions
  <2> DEFINE y == [call[c] EXCEPT !.at = "ownerParts", !.ownerSum = versions]
  <2>2. call' = [call EXCEPT ![c] = y]
    BY <1>2, <2>1
  <2>3. y \in CallState
    BY <1>1, <1>2 DEF CallState, Label
  <2>4. /\ y.at \in Writing /\ y.ctx = call[c].ctx /\ y.source = call[c].source /\ y.key = call[c].key
        /\ y.keys = call[c].keys /\ y.doomed = call[c].doomed
    BY <1>2 DEF CallState, Writing
  <2> HIDE DEF y
  <2>5. call[c].at \in Writing \ {"commit"}
    BY <2>1 DEF Writing
  <2>6. Placed(job[c], y)
    BY <1>2, <2>4, <2>5, WritersStay
  <2> QED BY <2>1, <2>2, <2>3, <2>6, ReadKeeps
<1>4. CASE CheckOwnersParts(c)
  <2> DEFINE bytes == call[c].ownerSum + partly
             x == [call[c] EXCEPT !.ownerSum = bytes]
  <2>1. call[c].at = "ownerParts" /\ UNCHANGED unchangedByReads
    BY <1>4 DEF CheckOwnersParts
  <2>2. bytes \in Nat
    BY <1>1, <1>2
  <2>3. Goto(c, "refused") \/ call' = [call EXCEPT ![c] = Passed(x)]
    BY <1>4 DEF CheckOwnersParts
  <2>4. CASE Goto(c, "refused")
    <3>1. "refused" \in Label
      BY DEF Label, Ended
    <3>2. ASSUME NEW y, y.at = "refused", y.ctx = call[c].ctx, y.source = call[c].source, y.key = call[c].key,
                 y.keys = call[c].keys, y.doomed = call[c].doomed
          PROVE  Placed(job[c], y)
      BY <1>2, <3>2 DEF Placed, Underway, Writing, Ended
    <3> QED BY <2>1, <2>4, <3>1, <3>2, GotoKeeps
  <2>5. CASE call' = [call EXCEPT ![c] = Passed(x)]
    <3> HIDE DEF bytes
    <3>1. Passed(x) \in CallState
      BY <1>2, <2>2 DEF CallState, Passed, Label
    <3>2. /\ Passed(x).at \in Writing /\ Passed(x).ctx = call[c].ctx /\ Passed(x).source = call[c].source
          /\ Passed(x).key = call[c].key /\ Passed(x).keys = call[c].keys /\ Passed(x).doomed = call[c].doomed
      BY <1>2 DEF CallState, Passed, Writing
    <3> HIDE DEF x
    <3>3. call[c].at \in Writing \ {"commit"}
      BY <2>1 DEF Writing
    <3>4. Placed(job[c], Passed(x))
      BY <1>2, <3>2, <3>3, WritersStay
    <3> QED BY <2>1, <2>5, <3>1, <3>4, ReadKeeps
  <2> QED BY <2>3, <2>4, <2>5
<1> QED BY <1>3, <1>4

\* createFolder, completeMultipartUpload, BucketsService.delete: what they look at first.
LEMMA LooksKeep ==
  ASSUME SpaceInv, NEW c \in Call, FindFolder(c) \/ JoinParts(c) \/ CountObjects(c)
  PROVE  SpaceInv'
<1>1. /\ call[c] \in CallState /\ Placed(job[c], call[c]) /\ call \in [Call -> CallState]
      /\ WellAsked(job[c]) /\ job[c].op \in Ops
  BY CallsAreTyped
<1>2. {"failed", "bucket", "commit", "drop"} \subseteq Label
  BY DEF Label, Ended
<1>3. ASSUME UNCHANGED unchangedByReads, Goto(c, "failed")
      PROVE  SpaceInv'
  <2>1. ASSUME NEW y, y.at = "failed", y.ctx = call[c].ctx, y.source = call[c].source, y.key = call[c].key,
               y.keys = call[c].keys, y.doomed = call[c].doomed
        PROVE  Placed(job[c], y)
    BY <1>1, <2>1 DEF Placed, Underway, Writing, Ended
  <2> QED BY <1>2, <1>3, <2>1, GotoKeeps
<1>4. CASE FindFolder(c)
  <2>1. /\ call[c].at = "exists" /\ UNCHANGED unchangedByReads
        /\ Goto(c, "bucket") \/ Goto(c, "failed")
    BY <1>4 DEF FindFolder
  <2>2. ASSUME Goto(c, "bucket") PROVE SpaceInv'
    <3>1. job[c].op = "createFolder" /\ job[c].key \in Key
      BY <1>1, <2>1 DEF Placed, WellAsked
    <3>2. ASSUME NEW y, y.at = "bucket", y.ctx = call[c].ctx, y.source = call[c].source, y.key = call[c].key,
                 y.keys = call[c].keys, y.doomed = call[c].doomed
          PROVE  Placed(job[c], y)
      <4>1. Underway(call[c])
        BY <2>1 DEF Underway, Ended
      <4> QED BY <1>1, <3>1, <3>2, <4>1 DEF Placed, Writing, Writes
    <3> QED BY <1>2, <2>1, <2>2, <3>2, GotoKeeps
  <2> QED BY <1>3, <2>1, <2>2
<1>5. CASE CountObjects(c)
  <2>1. /\ call[c].at = "count" /\ UNCHANGED unchangedByReads
        /\ Goto(c, "drop") \/ Goto(c, "failed")
    BY <1>5 DEF CountObjects
  <2>2. ASSUME Goto(c, "drop") PROVE SpaceInv'
    <3>1. ASSUME NEW y, y.at = "drop", y.ctx = call[c].ctx, y.source = call[c].source, y.key = call[c].key,
                 y.keys = call[c].keys, y.doomed = call[c].doomed
          PROVE  Placed(job[c], y)
      <4>1. Underway(call[c]) /\ job[c].op = "deleteBucket"
        BY <1>1, <2>1 DEF Underway, Ended, Placed
      <4> QED BY <1>1, <3>1, <4>1 DEF Placed, Writing
    <3> QED BY <1>2, <2>1, <2>2, <3>1, GotoKeeps
  <2> QED BY <1>3, <2>1, <2>2
<1>6. CASE JoinParts(c)
  <2> DEFINE y == [call[c] EXCEPT !.at = "commit", !.payload = Joined]
  <2>1. /\ call[c].at = "parts" /\ UNCHANGED unchangedByReads
        /\ call' = [call EXCEPT ![c].at = "commit", ![c].payload = Joined] \/ Goto(c, "failed")
    BY <1>6 DEF JoinParts
  <2>2. ASSUME call' = [call EXCEPT ![c].at = "commit", ![c].payload = Joined] PROVE SpaceInv'
    <3>1. call' = [call EXCEPT ![c] = y]
      BY <1>1, <2>2
    <3>2. y \in CallState
      BY <1>1, <1>2, SpaceAssumption DEF CallState
    <3>3. /\ y.at = "commit" /\ y.ctx = call[c].ctx /\ y.source = call[c].source /\ y.key = call[c].key
          /\ y.keys = call[c].keys /\ y.doomed = call[c].doomed
      BY <1>1 DEF CallState
    <3> HIDE DEF y
    <3>4. Placed(job[c], y)
      <4>1. Underway(call[c]) /\ job[c].op = "complete"
        BY <1>1, <2>1 DEF Underway, Ended, Placed
      <4>2. job[c].key \in Key /\ call[c].key = job[c].key
        BY <1>1, <4>1 DEF WellAsked, Placed, Uploads
      <4> QED BY <1>1, <3>3, <4>1, <4>2 DEF Placed, Writing
    <3> QED BY <2>1, <3>1, <3>2, <3>4, ReadKeeps
  <2> QED BY <1>3, <2>1, <2>2
<1> QED BY <1>4, <1>5, <1>6

\* keysUnder, deleteByPrefix, deleteMany: the keys that a call goes through.
LEMMA ListKeysKeeps ==
  ASSUME SpaceInv, NEW c \in Call, ListKeys(c)
  PROVE  SpaceInv'
<1> DEFINE j == job[c]
           x == call[c]
           keys == IF j.op = "deletePrefix" \/ (j.op \in {"copy", "move"} /\ j.key \in Folders)
                   THEN KeysUnder(j.bucket, j.key)
                   ELSE IF j.op = "deleteObjects" THEN NamedKeys(j) ELSE {j.key}
           at == IF j.op \in {"copy", "move"} THEN "next" ELSE IF keys = {} THEN "done" ELSE "delete"
           y == [x EXCEPT !.keys = keys, !.doomed = keys, !.at = at]
<1>1. /\ x \in CallState /\ Placed(j, x) /\ call \in [Call -> CallState] /\ WellAsked(j) /\ j.op \in Ops /\ j.key \in Name
  BY CallsAreTyped
<1>2. /\ x.at = "keys" /\ UNCHANGED unchangedByReads
      /\ \/ /\ ~Refused(j) /\ (keys # {} \/ j.op = "deletePrefix")
            /\ call' = [call EXCEPT ![c].keys = keys, ![c].doomed = keys, ![c].at = at]
         \/ Goto(c, "failed")
  BY DEF ListKeys
<1>3. Underway(x) /\ x.ctx \in BucketRow /\ x.source \in BucketRow
      /\ j.op \in {"copy", "move", "delete", "deleteVersion", "deletePrefix", "deleteObjects"}
  BY <1>1, <1>2 DEF Placed, Underway, Ended
<1>4. CASE Goto(c, "failed")
  <2>1. "failed" \in Label
    BY DEF Label, Ended
  <2>2. ASSUME NEW z, z.at = "failed", z.ctx = x.ctx, z.source = x.source, z.key = x.key, z.keys = x.keys,
               z.doomed = x.doomed
        PROVE  Placed(j, z)
    BY <1>1, <2>2 DEF Placed, Underway, Writing, Ended
  <2> QED BY <1>2, <1>4, <2>1, <2>2, GotoKeeps
<1>5. ASSUME ~Refused(j), keys # {} \/ j.op = "deletePrefix",
             call' = [call EXCEPT ![c].keys = keys, ![c].doomed = keys, ![c].at = at]
      PROVE  SpaceInv'
  <2>1. keys \in SUBSET Key
    <3>1. Under[j.key] \in SUBSET Key
      BY <1>1, NamesAssumption
    <3>2. KeysUnder(j.bucket, j.key) \in SUBSET Key
      BY <3>1 DEF KeysUnder
    <3>3. j.op = "deleteObjects" => NamedKeys(j) \in SUBSET Key
      BY <1>1 DEF WellAsked
    <3>4. j.op \in {"delete", "deleteVersion"} => j.key \in Key
      BY <1>1 DEF WellAsked
    <3>5. j.op \in {"copy", "move"} /\ j.key \notin Folders => j.key \in Key
      BY <1>1 DEF WellAsked, Sources
    <3> QED BY <1>3, <3>2, <3>3, <3>4, <3>5
  <2>2. j.op \in {"copy", "move"} => keys \subseteq Sources(j)
    BY DEF KeysUnder, Sources
  <2>3. keys = {} => j.op = "deletePrefix"
    BY <1>5
  <2> HIDE DEF keys
  <2>4. at \in Label /\ at \in {"next", "done", "delete"}
    BY DEF Label, Ended
  <2>5. /\ at = "next" <=> j.op \in {"copy", "move"}
        /\ at = "delete" => keys # {}
    OBVIOUS
  <2> HIDE DEF at
  <2>6. y \in CallState
    BY <1>1, <2>1, <2>4 DEF CallState
  <2>7. /\ y.at = at /\ y.keys = keys /\ y.doomed = keys /\ y.key = x.key /\ y.ctx = x.ctx /\ y.source = x.source
    BY <1>1 DEF CallState
  <2>8. call' = [call EXCEPT ![c] = y]
    BY <1>1, <1>5
  <2> HIDE DEF y
  <2>9. j.op \notin {"copy", "move"} => y.key = j.key
    BY <1>1, <2>7 DEF Placed
  <2>10. Placed(j, y)
    <3> HIDE DEF j, x
    <3> QED BY <1>3, <1>5, <2>2, <2>3, <2>4, <2>5, <2>7, <2>9 DEF Placed, Writing, Underway, Ended
  <2> QED BY <1>2, <2>6, <2>8, <2>10, ReadKeeps
<1> QED BY <1>2, <1>4, <1>5

\* copyKeys: the next key.
LEMMA CopyNextKeeps ==
  ASSUME SpaceInv, NEW c \in Call, CopyNext(c)
  PROVE  SpaceInv'
<1> DEFINE j == job[c]
           x == call[c]
           k == Min(x.keys)
           versions == table[j.bucket][k]
           rest == x.keys \ {k}
           at == IF rest # {} THEN "next" ELSE IF j.op = "move" THEN "delete" ELSE "done"
<1>1. /\ x \in CallState /\ Placed(j, x) /\ call \in [Call -> CallState] /\ WellAsked(j) /\ j.bucket \in Bucket
      /\ x.keys \in SUBSET Key /\ x.doomed \in SUBSET Key
  BY CallsAreTyped
<1>2. /\ x.at = "next" /\ UNCHANGED unchangedByReads
      /\ \/ versions = <<>> /\ Goto(c, "failed")
         \/ /\ versions # <<>> /\ Head(versions).payload = None
            /\ call' = [call EXCEPT ![c].keys = rest, ![c].at = at]
         \/ /\ versions # <<>> /\ Head(versions).payload # None
            /\ call' = [call EXCEPT ![c].keys = rest, ![c].at = "bucket",
                 ![c].key = Destination(j, k), ![c].payload = Head(versions).payload]
  BY DEF CopyNext
<1>3. /\ Underway(x) /\ x.ctx \in BucketRow /\ x.source \in BucketRow
      /\ j.op \in {"copy", "move"} /\ x.keys # {} /\ x.keys \subseteq x.doomed /\ x.doomed \subseteq Sources(j)
      /\ ~Refused(j) /\ x.doomed # {}
  BY <1>1, <1>2 DEF Placed, Underway, Ended
<1>4. k \in x.keys
  BY <1>1, <1>3, FirstOfKeys
<1> HIDE DEF k
<1>5. CASE Goto(c, "failed")
  <2>1. "failed" \in Label
    BY DEF Label, Ended
  <2>2. ASSUME NEW z, z.at = "failed", z.ctx = x.ctx, z.source = x.source, z.key = x.key, z.keys = x.keys,
               z.doomed = x.doomed
        PROVE  Placed(j, z)
    BY <1>1, <2>2 DEF Placed, Underway, Writing, Ended
  <2> QED BY <1>2, <1>5, <2>1, <2>2, GotoKeeps
<1>6. ASSUME call' = [call EXCEPT ![c].keys = rest, ![c].at = at] PROVE SpaceInv'
  <2> DEFINE y == [x EXCEPT !.keys = rest, !.at = at]
  <2>1. at \in Label /\ at \in {"next", "done", "delete"}
    BY DEF Label, Ended
  <2>2. /\ at = "next" => rest # {}
        /\ at = "delete" => j.op = "move" /\ rest = {}
    OBVIOUS
  <2> HIDE DEF at
  <2>3. y \in CallState
    BY <1>1, <2>1 DEF CallState
  <2>4. /\ y.at = at /\ y.keys = rest /\ y.doomed = x.doomed /\ y.key = x.key /\ y.ctx = x.ctx /\ y.source = x.source
    BY <1>1 DEF CallState
  <2>5. call' = [call EXCEPT ![c] = y]
    BY <1>1, <1>6
  <2> HIDE DEF y
  <2>6. Placed(j, y)
    <3> HIDE DEF j, x
    <3> QED BY <1>3, <1>4, <2>1, <2>2, <2>4 DEF Placed, Writing, Underway, Ended
  <2> QED BY <1>2, <2>3, <2>5, <2>6, ReadKeeps
<1>7. ASSUME versions # <<>>,
             call' = [call EXCEPT ![c].keys = rest, ![c].at = "bucket",
                 ![c].key = Destination(j, k), ![c].payload = Head(versions).payload]
      PROVE  SpaceInv'
  <2> DEFINE y == [x EXCEPT !.keys = rest, !.at = "bucket", !.key = Destination(j, k), !.payload = Head(versions).payload]
  <2>1. Destination(j, k) \in Key /\ Key \subseteq Name
    BY <1>1, <1>3, <1>4, NamesAssumption DEF WellAsked
  <2>2. Head(versions).payload \in Payload \cup {None}
    <3>1. table \in [Bucket -> [Key -> Versions]]
      BY DEF SpaceInv, TypeOK, ListingsTypeOK
    <3>2. versions \in Versions
      BY <1>1, <1>4, <3>1
    <3> HIDE DEF versions
    <3>3. Head(versions) = versions[1] /\ 1 \in DOMAIN versions
      BY <1>7, <3>2, VersionsHavePlaces
    <3> QED BY <3>2, <3>3, VersionsHavePlaces
  <2> HIDE DEF versions
  <2>3. y \in CallState
    BY <1>1, <2>1, <2>2 DEF CallState, Label
  <2>4. /\ y.at = "bucket" /\ y.keys = rest /\ y.doomed = x.doomed /\ y.key = Destination(j, k) /\ y.ctx = x.ctx
        /\ y.source = x.source
    BY <1>1 DEF CallState
  <2>5. call' = [call EXCEPT ![c] = y]
    BY <1>1, <1>7
  <2> HIDE DEF y
  <2>6. Placed(j, y)
    <3> HIDE DEF j, x
    <3> QED BY <1>3, <1>4, <2>1, <2>4 DEF Placed, Writing, Writes, Underway, Ended
  <2> QED BY <1>2, <2>3, <2>5, <2>6, ReadKeeps
<1> QED BY <1>2, <1>5, <1>6, <1>7

-----------------------------------------------------------------------------
(* The steps that write. *)

\* Whose keys are written while a call looks at them.
LEMMA ExcusesAreKeys ==
  ASSUME SpaceInv, NEW d \in Call, NEW b \in Bucket, NEW k \in Key
  PROVE  Excuses(d, b, k) \in SUBSET Key
<1> DEFINE j == job[d]
           others == {i \in Sources(j) \ call[d].keys : (b = j.bucket /\ i = k) \/ (b = j.into /\ Destination(j, i) = k)}
<1>1. WellAsked(job[d])
  BY CallsAreTyped
<1>2. job[d].op = "move" => others \in SUBSET Key
  BY <1>1 DEF WellAsked
<1> HIDE DEF others
<1>3. \/ Excuses(d, b, k) = {}
      \/ Excuses(d, b, k) = {k} \ call[d].doomed
      \/ job[d].op = "move" /\ Excuses(d, b, k) = others
  BY DEF Excuses, others
<1> QED BY <1>2, <1>3

\* A statement that leaves other versions of a key keeps the walks and the history in order.
LEMMA LeavesKeeps ==
  ASSUME SpaceInv, NEW c \in Call, NEW b \in Bucket, NEW k \in Key, NEW versions \in Versions,
         Leaves(c, b, k, versions)
  PROVE  /\ table' = [table EXCEPT ![b][k] = versions] /\ table' \in [Bucket -> [Key -> Versions]]
         /\ table'[b][k] = versions
         /\ \A a \in Bucket, i \in Key : a # b \/ i # k => table'[a][i] = table[a][i]
         /\ UNCHANGED <<uploads, parts>> /\ WalksInv'
         /\ excused' \in [Call -> SUBSET Key] /\ late' \in SUBSET (Bucket \X Key)
         /\ lost' \in SUBSET (Payload \X BOOLEAN)
<1> DEFINE t == [table EXCEPT ![b][k] = versions]
           gone == {p \in Payloads(table) \ Payloads(t) :
                      /\ job[c].op = "move" /\ b = job[c].bucket /\ k \in call[c].doomed
                      /\ p = Head(table[b][k]).payload}
<1>1. /\ Becomes(t, uploads, parts)
      /\ excused' = [d \in Call |-> IF d = c THEN excused[d] ELSE excused[d] \cup Excuses(d, b, k)]
      /\ late' = IF Going(b) THEN late \cup {<<b, k>>} ELSE late
      /\ lost' = lost \cup (gone \X {k \in excused[c]})
  BY DEF Leaves
<1>2. /\ table \in [Bucket -> [Key -> Versions]] /\ uploads \in SUBSET (Key \X Upload) /\ parts \in SUBSET Part
      /\ excused \in [Call -> SUBSET Key] /\ late \in SUBSET (Bucket \X Key) /\ lost \in SUBSET (Payload \X BOOLEAN)
  BY DEF SpaceInv, TypeOK, ListingsTypeOK
<1>3. /\ t \in [Bucket -> [Key -> Versions]] /\ t[b][k] = versions
      /\ \A a \in Bucket, i \in Key : a # b \/ i # k => t[a][i] = table[a][i]
  <2>1. t = [table EXCEPT ![b] = [table[b] EXCEPT ![k] = versions]]
    BY <1>2
  <2>2. [table[b] EXCEPT ![k] = versions] \in [Key -> Versions]
    BY <1>2
  <2>3. t \in [Bucket -> [Key -> Versions]]
    BY <1>2, <2>1, <2>2
  <2>4. t[b][k] = versions /\ \A i \in Key : i # k => t[b][i] = table[b][i]
    BY <1>2, <2>1
  <2>5. \A a \in Bucket : a # b => t[a] = table[a]
    BY <1>2, <2>1
  <2> QED BY <2>3, <2>4, <2>5
<1>4. Payloads(table) \in SUBSET Payload
  <2>1. ASSUME NEW p \in Payloads(table) PROVE p \in Payload
    <3>1. p # None /\ \E a \in Bucket, i \in Key : \E v \in Range(table[a][i]) : p = v.payload
      BY <2>1 DEF Payloads
    <3>2. PICK a \in Bucket, i \in Key : \E v \in Range(table[a][i]) : p = v.payload
      BY <3>1
    <3>3. PICK v \in Range(table[a][i]) : p = v.payload
      BY <3>2
    <3>4. table[a][i] \in Versions
      BY <1>2
    <3>5. PICK n \in DOMAIN table[a][i] : v = table[a][i][n]
      BY <3>3, <3>4, VersionsHavePlaces
    <3>6. v.payload \in Payload \cup {None}
      BY <3>4, <3>5, VersionsHavePlaces
    <3> QED BY <3>1, <3>3, <3>6
  <2> QED BY <2>1
<1>5. gone \in SUBSET Payload
  BY <1>4
<1> HIDE DEF t, gone
<1>6. WalksInv'
  BY <1>1, <1>2, <1>3, SpaceListings, BecomesKeeps
<1>7. table' = t /\ UNCHANGED <<uploads, parts>>
  BY <1>1 DEF Becomes
<1>8. excused' \in [Call -> SUBSET Key]
  <2>1. \A d \in Call : Excuses(d, b, k) \in SUBSET Key
    BY ExcusesAreKeys
  <2> QED BY <1>1, <1>2, <2>1
<1>9. late' \in SUBSET (Bucket \X Key)
  BY <1>1, <1>2
<1>10. lost' \in SUBSET (Payload \X BOOLEAN)
  <2>1. (k \in excused[c]) \in BOOLEAN
    OBVIOUS
  <2> QED BY <1>1, <1>2, <1>5, <2>1
<1> QED BY <1>3, <1>6, <1>7, <1>8, <1>9, <1>10 DEF t

\* A call writes the versions of a key, with ids that are not given again.
LEMMA WriteKeeps ==
  ASSUME SpaceInv, NEW c \in Call, NEW y \in CallState, Placed(job[c], y), call' = [call EXCEPT ![c] = y],
         NEW b \in Bucket, NEW k \in Key, NEW versions \in Versions, Leaves(c, b, k, versions),
         nextId' \in Nat, nextId' >= nextId, \A v \in Range(versions) : v.id < nextId',
         UNCHANGED <<settings, job, failures>>
  PROVE  SpaceInv'
<1>1. /\ table' \in [Bucket -> [Key -> Versions]] /\ table'[b][k] = versions
      /\ \A a \in Bucket, i \in Key : a # b \/ i # k => table'[a][i] = table[a][i]
      /\ WalksInv' /\ excused' \in [Call -> SUBSET Key] /\ late' \in SUBSET (Bucket \X Key)
      /\ lost' \in SUBSET (Payload \X BOOLEAN)
  BY LeavesKeeps
<1>2. /\ call' \in [Call -> CallState] /\ job' \in [Call -> Job]
      /\ \A d \in Call : WellAsked(job[d])' /\ Placed(job[d], call[d])'
  BY CallsMove
<1>3. TypeOK'
  <2>1. UNCHANGED <<buckets, ownerQuota, failures>>
    BY DEF settings
  <2> QED BY <1>1, <1>2, <2>1 DEF SpaceInv, TypeOK, WalksInv
<1>4. Fresh'
  <2>1. nextId' > NullId
    BY DEF SpaceInv, Fresh, NullId, TypeOK
  <2>2. ASSUME NEW a \in Bucket, NEW i \in Key, NEW v \in Range(table'[a][i]) PROVE v.id < nextId'
    <3>1. CASE a = b /\ i = k
      BY <1>1, <2>2, <3>1
    <3>2. CASE a # b \/ i # k
      <4>1. v \in Range(table[a][i]) /\ table[a][i] \in Versions
        BY <1>1, <2>2, <3>2 DEF SpaceInv, TypeOK, ListingsTypeOK
      <4>2. v.id < nextId /\ nextId \in Nat
        BY <4>1 DEF SpaceInv, Fresh, TypeOK
      <4>3. v.id \in Nat
        <5>1. v \in Version
          BY <4>1, VersionsHavePlaces
        <5> QED BY <5>1 DEF Version
      <4> QED BY <4>2, <4>3
    <3> QED BY <3>1, <3>2
  <2> QED BY <2>1, <2>2 DEF Fresh
<1> QED BY <1>1, <1>2, <1>3, <1>4 DEF SpaceInv, WalksInv

\* nextVersionId: no other version of the key has the new id, and none gets it again.
LEMMA NewIdsAreNew ==
  ASSUME SpaceInv, NEW b \in Bucket, NEW k \in Key, NEW row, NEW p \in Payload \cup {None}, Numbered(row)
  PROVE  LET v == [id |-> NewId(row), payload |-> p]
             versions == WithVersion(table[b][k], v) IN
         /\ v \in Version /\ \A w \in Range(table[b][k]) : w.id = v.id => v.id = NullId
         /\ versions \in Versions /\ \A w \in Range(versions) : w.id < nextId'
         /\ nextId' \in Nat /\ nextId' >= nextId
<1> DEFINE v == [id |-> NewId(row), payload |-> p]
<1>1. /\ nextId \in Nat /\ nextId > NullId /\ table[b][k] \in Versions
      /\ \A w \in Range(table[b][k]) : w.id < nextId
  BY DEF SpaceInv, TypeOK, ListingsTypeOK, Fresh
<1>2. /\ nextId' \in Nat /\ nextId' >= nextId /\ v.id \in Nat /\ v.id < nextId'
      /\ v.id = nextId \/ v.id = NullId
  BY <1>1 DEF Numbered, NewId, NullId
<1>3. v \in Version
  BY <1>2 DEF Version
<1>4. \A w \in Range(table[b][k]) : w.id \in Nat
  BY <1>1, VersionsHavePlaces DEF Version
<1> HIDE DEF v
<1>5. \A w \in Range(table[b][k]) : w.id = v.id => v.id = NullId
  BY <1>1, <1>2, <1>4
<1>6. /\ WithVersion(table[b][k], v) \in Versions
      /\ \A w \in Range(WithVersion(table[b][k], v)) : w = v \/ w \in Range(table[b][k])
  BY <1>1, <1>3, <1>5, WithVersionAdds
<1>7. \A w \in Range(WithVersion(table[b][k], v)) : w.id < nextId'
  BY <1>1, <1>2, <1>4, <1>6
<1> QED BY <1>2, <1>3, <1>5, <1>6, <1>7 DEF v

\* commitVersion
LEMMA CommitKeeps ==
  ASSUME SpaceInv, NEW c \in Call, Commit(c)
  PROVE  SpaceInv'
<1> DEFINE j == job[c]
           x == call[c]
           b == Target(c)
           v == [id |-> NewId(x.ctx), payload |-> x.payload]
           at == IF j.op \in {"copy", "move"} /\ x.keys # {} THEN "next"
                 ELSE IF j.op = "move" THEN "delete"
                 ELSE IF j.op = "complete" THEN "retire" ELSE "done"
           y == [x EXCEPT !.written = FALSE, !.quota = None, !.bucketSum = 0, !.ownerSum = 0, !.at = at]
<1>1. /\ x \in CallState /\ Placed(j, x) /\ call \in [Call -> CallState] /\ j.op \in Ops
      /\ x.payload \in Payload \cup {None}
  BY CallsAreTyped
<1>2. /\ x.at = "commit" /\ j.op # "uploadPart"
      /\ Leaves(c, b, x.key, WithVersion(table[b][x.key], v))
      /\ Numbered(x.ctx)
      /\ call' = [call EXCEPT ![c].written = FALSE, ![c].quota = None, ![c].bucketSum = 0, ![c].ownerSum = 0,
                              ![c].at = at]
      /\ UNCHANGED <<settings, job, failures>>
  BY DEF Commit
<1>3. /\ Underway(x) /\ x.ctx \in BucketRow /\ x.source \in BucketRow /\ x.key \in Key
      /\ j.op \in Writes \cup {"uploadPart", "complete"}
      /\ j.op \in {"copy", "move"} => x.keys \subseteq x.doomed /\ x.doomed \subseteq Sources(j) /\ ~Refused(j) /\ x.doomed # {}
      /\ j.op \notin {"copy", "move"} => x.key = j.key
  BY <1>1, <1>2 DEF Placed, Underway, Writing, Ended
<1>4. /\ at \in Label /\ at \in {"next", "delete", "retire", "done"}
      /\ at = "next" => j.op \in {"copy", "move"} /\ x.keys # {}
      /\ at = "delete" => j.op = "move" /\ x.keys = {}
      /\ at = "retire" => j.op = "complete"
  BY DEF Label, Ended
<1> HIDE DEF at
<1>5. y \in CallState
  BY <1>1, <1>4 DEF CallState, Quota
<1>6. call' = [call EXCEPT ![c] = y]
  BY <1>1, <1>2
<1>7. y.at = at /\ y.keys = x.keys /\ y.doomed = x.doomed /\ y.key = x.key /\ y.ctx = x.ctx /\ y.source = x.source
  BY <1>1 DEF CallState
<1> HIDE DEF y
<1>8. Placed(j, y)
  <2> HIDE DEF j, x
  <2> QED BY <1>3, <1>4, <1>7 DEF Placed, Writing, Underway, Ended
<1>9. b \in Bucket
  BY UsageIsANumber
<1> HIDE DEF b
<1>10. LET w == [id |-> NewId(x.ctx), payload |-> x.payload]
           versions == WithVersion(table[b][x.key], w) IN
       /\ versions \in Versions /\ \A z \in Range(versions) : z.id < nextId'
       /\ nextId' \in Nat /\ nextId' >= nextId
  BY <1>1, <1>2, <1>3, <1>9, NewIdsAreNew
<1>11. /\ WithVersion(table[b][x.key], v) \in Versions /\ \A z \in Range(WithVersion(table[b][x.key], v)) : z.id < nextId'
       /\ nextId' \in Nat /\ nextId' >= nextId
  BY <1>10
<1> HIDE DEF v
<1> QED BY <1>2, <1>3, <1>5, <1>6, <1>8, <1>9, <1>11, WriteKeeps

\* commitVersion: what a commit writes.
LEMMA CommitWrites ==
  ASSUME SpaceInv, NEW c \in Call, Commit(c)
  PROVE  LET x == call[c]
             b == Target(c)
             v == [id |-> NewId(x.ctx), payload |-> x.payload]
             versions == WithVersion(table[b][x.key], v) IN
         /\ b \in Bucket /\ x.key \in Key /\ v \in Version /\ versions \in Versions
         /\ \A w \in Range(table[b][x.key]) : w.id = v.id => v.id = NullId
         /\ Leaves(c, b, x.key, versions)
<1> DEFINE x == call[c]
           b == Target(c)
<1>1. x.at = "commit" /\ Numbered(x.ctx)
      /\ Leaves(c, b, x.key, WithVersion(table[b][x.key], [id |-> NewId(x.ctx), payload |-> x.payload]))
  BY DEF Commit
<1>2. x.key \in Key /\ x.payload \in Payload \cup {None}
  BY <1>1, CallsAreTyped DEF Placed, Writing
<1>3. b \in Bucket
  BY UsageIsANumber
<1> HIDE DEF b
<1>4. LET w == [id |-> NewId(x.ctx), payload |-> x.payload]
          versions == WithVersion(table[b][x.key], w) IN
      /\ w \in Version /\ \A z \in Range(table[b][x.key]) : z.id = w.id => w.id = NullId
      /\ versions \in Versions /\ \A z \in Range(versions) : z.id < nextId'
      /\ nextId' \in Nat /\ nextId' >= nextId
  BY <1>1, <1>2, <1>3, NewIdsAreNew
<1> QED BY <1>1, <1>2, <1>3, <1>4 DEF b

\* deleteMany: what is left of a key are versions.
LEMMA WithoutLeavesVersions ==
  ASSUME SpaceInv, NEW c \in Call, DeleteNext(c)
  PROVE  LET k == Min(call[c].doomed) IN
         /\ k \in call[c].doomed /\ k \in Key
         /\ Without(c, k) \in Versions /\ \A z \in Range(Without(c, k)) : z.id < nextId'
         /\ nextId' \in Nat /\ nextId' >= nextId
         /\ job[c].op # "deleteVersion" => Without(c, k) = <<>> \/ Head(Without(c, k)).payload = None
<1> DEFINE j == job[c]
           x == call[c]
           k == Min(x.doomed)
           versions == table[j.bucket][k]
           v == [id |-> NewId(x.source), payload |-> None]
<1>1. /\ x \in CallState /\ Placed(j, x) /\ j.bucket \in Bucket /\ x.doomed \in SUBSET Key
  BY CallsAreTyped
<1>2. x.at = "delete" /\ IF j.op = "deleteVersion" \/ versions = <<>> THEN UNCHANGED nextId ELSE Numbered(x.source)
  BY DEF DeleteNext
<1>3. k \in x.doomed
  <2>1. x.doomed # {}
    BY <1>1, <1>2 DEF Placed
  <2> QED BY <1>1, <2>1, FirstOfKeys
<1> HIDE DEF k
<1>4. /\ nextId \in Nat /\ versions \in Versions /\ \A z \in Range(versions) : z.id < nextId
  BY <1>1, <1>3 DEF SpaceInv, TypeOK, ListingsTypeOK, Fresh
<1>5. <<>> \in Versions /\ Range(<<>>) = {}
  BY <1>4, VersionsHavePlaces DEF Range
<1>6. CASE j.op = "deleteVersion" \/ versions = <<>>
  <2>1. nextId' = nextId
    BY <1>2, <1>6
  <2>2. Removed(versions, j.value) \in Versions /\ Thins(Removed(versions, j.value), versions)
    BY <1>4, RemovedThins
  <2>3. \A z \in Range(Removed(versions, j.value)) : z \in Range(versions)
    BY <2>2, SMTT(60) DEF Thins, Range
  <2>4. Without(c, k) = IF versions = <<>> THEN <<>> ELSE Removed(versions, j.value)
    BY <1>6 DEF Without
  <2>5. Without(c, k) \in Versions /\ \A z \in Range(Without(c, k)) : z.id < nextId'
    BY <1>4, <1>5, <2>1, <2>2, <2>3, <2>4
  <2>6. j.op # "deleteVersion" => Without(c, k) = <<>>
    BY <1>6, <2>4
  <2> QED BY <1>1, <1>3, <1>4, <2>1, <2>5, <2>6 DEF k
<1>7. CASE ~(j.op = "deleteVersion" \/ versions = <<>>)
  <2>1. Numbered(x.source)
    BY <1>2, <1>7
  <2>2. LET w == [id |-> NewId(x.source), payload |-> None]
            now == WithVersion(table[j.bucket][k], w) IN
        /\ w \in Version /\ \A z \in Range(table[j.bucket][k]) : z.id = w.id => w.id = NullId
        /\ now \in Versions /\ \A z \in Range(now) : z.id < nextId'
        /\ nextId' \in Nat /\ nextId' >= nextId
    BY <1>1, <1>3, <2>1, NewIdsAreNew
  <2>3. v.payload = None
    OBVIOUS
  <2>4. /\ v \in Version /\ \A z \in Range(versions) : z.id = v.id => v.id = NullId
        /\ WithVersion(versions, v) \in Versions /\ \A z \in Range(WithVersion(versions, v)) : z.id < nextId'
        /\ nextId' \in Nat /\ nextId' >= nextId
    BY <2>2
  <2>5. Without(c, k) = IF x.source.versioning = "disabled" THEN <<>> ELSE WithVersion(versions, v)
    BY <1>7 DEF Without
  <2> HIDE DEF v
  <2>6. Head(WithVersion(versions, v)) = v
    BY <1>4, <2>4, WithVersionAdds
  <2>7. Without(c, k) \in Versions /\ \A z \in Range(Without(c, k)) : z.id < nextId'
    BY <1>5, <2>4, <2>5
  <2>8. Without(c, k) = <<>> \/ Head(Without(c, k)).payload = None
    BY <2>3, <2>5, <2>6
  <2> QED BY <1>1, <1>3, <2>4, <2>7, <2>8 DEF k
<1> QED BY <1>6, <1>7

\* One key is done with, its deletion carried out or not.
LEMMA DeletersStay ==
  ASSUME SpaceInv, NEW c \in Call, NEW k, call[c].at = "delete"
  PROVE  LET y == [call[c] EXCEPT !.doomed = @ \ {k}, !.at = IF call[c].doomed = {k} THEN "done" ELSE @] IN
         y \in CallState /\ Placed(job[c], y)
<1> DEFINE j == job[c]
           x == call[c]
           at == IF x.doomed = {k} THEN "done" ELSE "delete"
           y == [x EXCEPT !.doomed = @ \ {k}, !.at = IF x.doomed = {k} THEN "done" ELSE @]
<1>1. x \in CallState /\ Placed(j, x) /\ x.keys \in SUBSET Key /\ x.doomed \in SUBSET Key
  BY CallsAreTyped
<1>2. /\ Underway(x) /\ x.ctx \in BucketRow /\ x.source \in BucketRow /\ x.doomed # {}
      /\ j.op \in {"move", "delete", "deleteVersion", "deletePrefix", "deleteObjects"}
      /\ j.op \in {"copy", "move"} => x.keys = {} /\ x.doomed \subseteq Sources(j) /\ ~Refused(j)
      /\ j.op \notin {"copy", "move"} => x.key = j.key
  BY <1>1 DEF Placed, Underway, Ended
<1>3. at \in Label /\ at \in {"done", "delete"} /\ (at = "delete" => x.doomed \ {k} # {})
  BY <1>2 DEF Label, Ended
<1>4. y.at = at /\ y.doomed = x.doomed \ {k} /\ y.keys = x.keys /\ y.key = x.key /\ y.ctx = x.ctx /\ y.source = x.source
  BY <1>1 DEF CallState
<1>5. y \in CallState
  BY <1>1, <1>3 DEF CallState
<1> HIDE DEF at, y
<1>6. Placed(j, y)
  <2> HIDE DEF j, x
  <2> QED BY <1>2, <1>3, <1>4 DEF Placed, Writing, Underway, Ended
<1> QED BY <1>5, <1>6 DEF y

\* deleteMany, deleteVersion
LEMMA DeleteNextKeeps ==
  ASSUME SpaceInv, NEW c \in Call, DeleteNext(c)
  PROVE  SpaceInv'
<1> DEFINE x == call[c]
           k == Min(x.doomed)
           y == [x EXCEPT !.doomed = @ \ {k}, !.at = IF x.doomed = {k} THEN "done" ELSE @]
<1>1. /\ x.at = "delete" /\ Leaves(c, job[c].bucket, k, Without(c, k))
      /\ call' = [call EXCEPT ![c].doomed = @ \ {k}, ![c].at = IF x.doomed = {k} THEN "done" ELSE @]
      /\ UNCHANGED <<settings, job, failures>>
  BY DEF DeleteNext
<1>2. /\ x \in CallState /\ call \in [Call -> CallState] /\ job[c].bucket \in Bucket
  BY CallsAreTyped
<1>3. /\ k \in Key /\ Without(c, k) \in Versions /\ \A z \in Range(Without(c, k)) : z.id < nextId'
      /\ nextId' \in Nat /\ nextId' >= nextId
  BY WithoutLeavesVersions
<1> HIDE DEF k
<1>4. y \in CallState /\ Placed(job[c], y)
  BY <1>1, DeletersStay
<1>5. call' = [call EXCEPT ![c] = y]
  BY <1>1, <1>2
<1> HIDE DEF y, x
<1> QED BY <1>1, <1>2, <1>3, <1>4, <1>5, WriteKeeps

\* A statement that fails changes no table.
LEMMA FailKeeps ==
  ASSUME SpaceInv, NEW c \in Call, Fail(c)
  PROVE  SpaceInv'
<1> DEFINE x == call[c]
           k == Min(x.doomed)
           y == [x EXCEPT !.doomed = @ \ {k}, !.at = IF x.doomed = {k} THEN "done" ELSE @]
           z == [x EXCEPT !.at = "failed"]
<1>1. /\ x.at \notin Ended \cup {"start"} /\ failures < MaxFailures /\ failures' = failures + 1
      /\ \/ x.at # "delete" /\ Goto(c, "failed") /\ UNCHANGED excused
         \/ /\ x.at = "delete"
            /\ call' = [call EXCEPT ![c].doomed = @ \ {k}, ![c].at = IF x.doomed = {k} THEN "done" ELSE @]
            /\ excused' = [excused EXCEPT ![c] = @ \cup {k}]
      /\ UNCHANGED <<listingVars, settings, nextId, job, late, lost>>
  BY DEF Fail
<1>2. /\ x \in CallState /\ call \in [Call -> CallState] /\ Placed(job[c], x) /\ x.doomed \in SUBSET Key
  BY CallsAreTyped
<1>3. x.at = "delete" => k \in Key
  <2>1. x.at = "delete" => x.doomed # {}
    BY <1>2 DEF Placed
  <2> QED BY <1>2, <2>1, FirstOfKeys
<1> HIDE DEF k
<1>4. \E n \in CallState : Placed(job[c], n) /\ call' = [call EXCEPT ![c] = n]
  <2>1. CASE x.at # "delete" /\ Goto(c, "failed") /\ UNCHANGED excused
    <3>1. z \in CallState
      BY <1>2 DEF CallState, Label, Ended
    <3>2. /\ z.at = "failed" /\ z.ctx = x.ctx /\ z.source = x.source /\ z.key = x.key /\ z.keys = x.keys
          /\ z.doomed = x.doomed
      BY <1>2 DEF CallState
    <3>3. call' = [call EXCEPT ![c] = z]
      BY <1>2, <2>1 DEF Goto
    <3> HIDE DEF z, x
    <3>4. Placed(job[c], z)
      BY <1>2, <3>2 DEF Placed, Underway, Writing, Ended
    <3> QED BY <3>1, <3>3, <3>4
  <2>2. ASSUME x.at = "delete",
               call' = [call EXCEPT ![c].doomed = @ \ {k}, ![c].at = IF x.doomed = {k} THEN "done" ELSE @]
        PROVE  \E n \in CallState : Placed(job[c], n) /\ call' = [call EXCEPT ![c] = n]
    <3>1. y \in CallState /\ Placed(job[c], y)
      BY <2>2, DeletersStay
    <3>2. call' = [call EXCEPT ![c] = y]
      BY <1>2, <2>2
    <3> HIDE DEF y, x
    <3> QED BY <3>1, <3>2
  <2> QED BY <1>1, <2>1, <2>2
<1>5. PICK n \in CallState : Placed(job[c], n) /\ call' = [call EXCEPT ![c] = n]
  BY <1>4
<1>6. /\ call' \in [Call -> CallState] /\ job' \in [Call -> Job]
      /\ \A d \in Call : WellAsked(job[d])' /\ Placed(job[d], call[d])'
  BY <1>1, <1>5, CallsMove
<1>7. WalksInv'
  BY <1>1, SpaceListings, RestKeeps
<1>8. UNCHANGED <<table, uploads, parts, buckets, ownerQuota, nextId, late, lost>>
  BY <1>1 DEF listingVars, tables, settings
<1>9. excused' \in [Call -> SUBSET Key] /\ failures' \in 0 .. MaxFailures
  <2>1. excused \in [Call -> SUBSET Key] /\ failures \in 0 .. MaxFailures
    BY DEF SpaceInv, TypeOK
  <2>2. excused' \in [Call -> SUBSET Key]
    BY <1>1, <1>3, <2>1
  <2>3. failures' \in 0 .. MaxFailures
    BY <1>1, <2>1, SpaceAssumption
  <2> QED BY <2>2, <2>3
<1>10. TypeOK'
  BY <1>6, <1>7, <1>8, <1>9 DEF SpaceInv, TypeOK, WalksInv
<1>11. Fresh'
  BY <1>8 DEF SpaceInv, Fresh
<1> QED BY <1>6, <1>7, <1>10, <1>11 DEF SpaceInv, WalksInv

\* The parts and the uploads change, and no object does.
LEMMA PartsKeep ==
  ASSUME SpaceInv, NEW c \in Call, NEW u \in SUBSET (Key \X Upload), NEW p \in SUBSET Part, Becomes(table, u, p),
         NEW label \in {"done", "dropParts", "retire"}, Goto(c, label), Underway(call[c]),
         label = "done" \/ job[c].op \in {"complete", "abort"}, UNCHANGED <<settings, nextId, job, history, failures>>
  PROVE  SpaceInv'
<1> DEFINE x == call[c]
           y == [x EXCEPT !.at = label]
<1>1. x \in CallState /\ call \in [Call -> CallState] /\ Placed(job[c], x)
  BY CallsAreTyped
<1>2. y \in CallState
  BY <1>1 DEF CallState, Label, Ended
<1>3. y.at = label /\ y.ctx = x.ctx /\ y.source = x.source /\ y.key = x.key /\ y.keys = x.keys /\ y.doomed = x.doomed
  BY <1>1 DEF CallState
<1>4. call' = [call EXCEPT ![c] = y]
  BY <1>1 DEF Goto
<1> HIDE DEF y
<1>5. Placed(job[c], y)
  BY <1>1, <1>3 DEF Placed, Underway, Writing, Ended
<1>6. /\ call' \in [Call -> CallState] /\ job' \in [Call -> Job]
      /\ \A d \in Call : WellAsked(job[d])' /\ Placed(job[d], call[d])'
  BY <1>2, <1>4, <1>5, CallsMove
<1>7. table \in [Bucket -> [Key -> Versions]]
  BY DEF SpaceInv, TypeOK, ListingsTypeOK
<1>8. WalksInv'
  BY <1>7, SpaceListings, BecomesKeeps
<1>9. UNCHANGED <<table, buckets, ownerQuota, nextId, excused, late, lost, failures>>
  BY DEF Becomes, settings, history
<1>10. TypeOK'
  BY <1>6, <1>8, <1>9 DEF SpaceInv, TypeOK, WalksInv
<1>11. Fresh'
  BY <1>9 DEF SpaceInv, Fresh
<1> QED BY <1>6, <1>8, <1>10, <1>11 DEF SpaceInv, WalksInv

\* uploadPart, completeMultipartUpload, abortMultipartUpload
LEMMA UploadsKeep ==
  ASSUME SpaceInv, NEW c \in Call, StorePart(c) \/ RetireUpload(c) \/ DropParts(c)
  PROVE  SpaceInv'
<1>1. Placed(job[c], call[c]) /\ WellAsked(job[c])
  BY CallsAreTyped
<1>2. uploads \in SUBSET (Key \X Upload) /\ parts \in SUBSET Part
  BY DEF SpaceInv, TypeOK, ListingsTypeOK
<1>3. CASE StorePart(c)
  <2>1. /\ call[c].at = "commit" /\ job[c].op = "uploadPart" /\ Becomes(table, uploads, parts \cup {job[c].value})
        /\ Goto(c, "done") /\ UNCHANGED <<settings, nextId, job, history, failures>>
    BY <1>3 DEF StorePart
  <2>2. Underway(call[c]) /\ parts \cup {job[c].value} \in SUBSET Part
    BY <1>1, <1>2, <2>1 DEF Underway, Ended, WellAsked
  <2> QED BY <1>2, <2>1, <2>2, PartsKeep
<1>4. CASE RetireUpload(c)
  <2> DEFINE u == uploads \ {<<job[c].key, TheUpload>>}
             label == IF job[c].op = "complete" THEN "dropParts" ELSE "done"
  <2>1. /\ call[c].at = "retire" /\ Becomes(table, u, parts)
        /\ Goto(c, label) /\ UNCHANGED <<settings, nextId, job, history, failures>>
    BY <1>4 DEF RetireUpload
  <2>2. Underway(call[c]) /\ job[c].op \in {"complete", "abort"}
    BY <1>1, <2>1 DEF Underway, Ended, Placed
  <2>3. u \in SUBSET (Key \X Upload) /\ label \in {"done", "dropParts", "retire"}
    BY <1>2
  <2> HIDE DEF u, label
  <2> QED BY <1>2, <2>1, <2>2, <2>3, PartsKeep
<1>5. CASE DropParts(c)
  <2> DEFINE label == IF job[c].op = "complete" THEN "done" ELSE "retire"
  <2>1. /\ call[c].at = "dropParts" /\ Becomes(table, uploads, {})
        /\ Goto(c, label) /\ UNCHANGED <<settings, nextId, job, history, failures>>
    BY <1>5 DEF DropParts
  <2>2. Underway(call[c]) /\ job[c].op \in {"complete", "abort"}
    BY <1>1, <2>1 DEF Underway, Ended, Placed
  <2>3. {} \in SUBSET Part /\ label \in {"done", "dropParts", "retire"}
    OBVIOUS
  <2> HIDE DEF label
  <2> QED BY <1>2, <2>1, <2>2, <2>3, PartsKeep
<1> QED BY <1>3, <1>4, <1>5

\* copyKeys: what a key that is read does to the call.
LEMMA WhatCopyNextReads ==
  ASSUME NEW c \in Call, CopyNext(c)
  PROVE  /\ call[c].at = "next" /\ UNCHANGED unchangedByReads
         /\ \/ Goto(c, "failed")
            \/ \E keys, at : /\ call' = [call EXCEPT ![c].keys = keys, ![c].at = at]
                             /\ at \in {"next", "delete", "done"}
            \/ \E keys, key, payload :
                   call' = [call EXCEPT ![c].keys = keys, ![c].at = "bucket", ![c].key = key, ![c].payload = payload]
<1> DEFINE j == job[c]
           x == call[c]
           k == Min(x.keys)
           versions == table[j.bucket][k]
           rest == x.keys \ {k}
           at == IF rest # {} THEN "next" ELSE IF j.op = "move" THEN "delete" ELSE "done"
           key == Destination(j, k)
           payload == Head(versions).payload
<1>1. /\ call[c].at = "next" /\ UNCHANGED unchangedByReads
      /\ \/ Goto(c, "failed")
         \/ call' = [call EXCEPT ![c].keys = rest, ![c].at = at]
         \/ call' = [call EXCEPT ![c].keys = rest, ![c].at = "bucket", ![c].key = key, ![c].payload = payload]
  BY Zenon DEF CopyNext
<1>2. at \in {"next", "delete", "done"}
  OBVIOUS
<1> HIDE DEF rest, at, key, payload
<1> QED BY <1>1, <1>2

\* A step is a step of one call, and only getByName tells it its bucket.
LEMMA StepsAreOnesOwn ==
  ASSUME SpaceInv, NEW c \in Call, CallStep(c) \/ Fail(c)
  PROVE  /\ UNCHANGED job /\ \A d \in Call : d # c => call'[d] = call[d]
         /\ ~Resolve(c) => call'[c].source = call[c].source
<1>1. call \in [Call -> CallState] /\ call[c] \in CallState
  BY CallsAreTyped
<1>2. DOMAIN call[c] = {"at", "ctx", "source", "key", "payload", "written", "quota", "bucketSum", "ownerSum", "keys", "doomed"}
  BY <1>1 DEF CallState
<1>3. CASE Resolve(c)
  BY <1>1, <1>3 DEF Resolve, Goto, unchangedByReads
<1>4. CASE CheckBucket(c) \/ CheckBucketParts(c)
  <2>1. UNCHANGED job
    BY <1>4 DEF CheckBucket, CheckBucketParts, unchangedByReads
  <2>2. ASSUME NEW sum, CheckOwner(c, sum)
        PROVE  call'[c].source = call[c].source /\ \A d \in Call : d # c => call'[d] = call[d]
    <3> DEFINE quota == ownerQuota[call[c].ctx.owner]
    <3>1. call' = [call EXCEPT ![c] = IF quota = None THEN Passed([call[c] EXCEPT !.quota = quota, !.bucketSum = sum])
                                      ELSE [[call[c] EXCEPT !.quota = quota, !.bucketSum = sum] EXCEPT !.at = "owner"]]
      BY <2>2 DEF CheckOwner
    <3> HIDE DEF quota
    <3> QED BY <1>1, <1>2, <3>1 DEF Passed
  <2>3. \/ CheckOwner(c, 0) \/ CheckOwner(c, call[c].bucketSum + PartBytes(Target(c))) \/ Goto(c, "refused")
        \/ call' = [call EXCEPT ![c].at = "bucketParts", ![c].bucketSum = VersionBytes(Target(c))]
    BY <1>4 DEF CheckBucket, CheckBucketParts
  <2>4. ASSUME Goto(c, "refused") \/ call' = [call EXCEPT ![c].at = "bucketParts", ![c].bucketSum = VersionBytes(Target(c))]
        PROVE  call'[c].source = call[c].source /\ \A d \in Call : d # c => call'[d] = call[d]
    BY <1>1, <1>2, <2>4 DEF Goto
  <2> QED BY <2>1, <2>2, <2>3, <2>4
<1>5. CASE ReadOwnersVersions(c) \/ FindFolder(c) \/ ListKeys(c) \/ JoinParts(c) \/ CountObjects(c)
  <2>1. CASE ReadOwnersVersions(c)
    BY <1>1, <1>2, <2>1 DEF ReadOwnersVersions, Goto, unchangedByReads
  <2>2. CASE FindFolder(c) \/ CountObjects(c)
    BY <1>1, <1>2, <2>2 DEF FindFolder, CountObjects, Goto, unchangedByReads
  <2>3. CASE ListKeys(c)
    <3>1. UNCHANGED job
      BY <2>3 DEF ListKeys, unchangedByReads
    <3>2. Goto(c, "failed") \/ \E keys, at : call' = [call EXCEPT ![c].keys = keys, ![c].doomed = keys, ![c].at = at]
      <4> DEFINE j == job[c]
                 keys == IF j.op = "deletePrefix" \/ (j.op \in {"copy", "move"} /\ j.key \in Folders)
                         THEN KeysUnder(j.bucket, j.key)
                         ELSE IF j.op = "deleteObjects" THEN NamedKeys(j) ELSE {j.key}
                 at == IF j.op \in {"copy", "move"} THEN "next" ELSE IF keys = {} THEN "done" ELSE "delete"
      <4>1. Goto(c, "failed") \/ call' = [call EXCEPT ![c].keys = keys, ![c].doomed = keys, ![c].at = at]
        BY <2>3, Zenon DEF ListKeys
      <4> HIDE DEF keys, at
      <4> QED BY <4>1
    <3>3. CASE Goto(c, "failed")
      BY <1>1, <1>2, <3>1, <3>3 DEF Goto
    <3>4. CASE \E keys, at : call' = [call EXCEPT ![c].keys = keys, ![c].doomed = keys, ![c].at = at]
      BY <1>1, <1>2, <3>1, <3>4
    <3> QED BY <3>2, <3>3, <3>4
  <2>4. CASE JoinParts(c)
    BY <1>1, <1>2, <2>4 DEF JoinParts, Goto, unchangedByReads
  <2> QED BY <1>5, <2>1, <2>2, <2>3, <2>4
<1>6. CASE CheckOwnersParts(c)
  <2>1. UNCHANGED job
    BY <1>6 DEF CheckOwnersParts, unchangedByReads
  <2>2. PICK bytes : Goto(c, "refused") \/ call' = [call EXCEPT ![c] = Passed([call[c] EXCEPT !.ownerSum = bytes])]
    BY <1>6 DEF CheckOwnersParts
  <2> QED BY <1>1, <1>2, <2>1, <2>2 DEF Passed, Goto
<1>7. CASE Commit(c) \/ DeleteNext(c)
  BY <1>1, <1>2, <1>7 DEF Commit, DeleteNext
<1>8. CASE CopyNext(c)
  <2>1. UNCHANGED job
    BY <1>8, WhatCopyNextReads DEF unchangedByReads
  <2>2. CASE Goto(c, "failed")
    BY <1>1, <1>2, <2>1, <2>2 DEF Goto
  <2>3. CASE \E keys, at : /\ call' = [call EXCEPT ![c].keys = keys, ![c].at = at]
                           /\ at \in {"next", "delete", "done"}
    BY <1>1, <1>2, <2>1, <2>3
  <2>4. CASE \E keys, key, payload :
                call' = [call EXCEPT ![c].keys = keys, ![c].at = "bucket", ![c].key = key, ![c].payload = payload]
    BY <1>1, <1>2, <2>1, <2>4
  <2> QED BY <1>8, <2>2, <2>3, <2>4, WhatCopyNextReads, Zenon
<1>9. CASE StorePart(c) \/ RetireUpload(c) \/ DropParts(c) \/ CreateBucket(c) \/ DropBucket(c) \/ Set(c)
  BY <1>1, <1>2, <1>9 DEF StorePart, RetireUpload, DropParts, CreateBucket, DropBucket, Set, Goto
<1>10. CASE Fail(c)
  BY <1>1, <1>2, <1>10 DEF Fail, Goto
<1> QED BY <1>3, <1>4, <1>5, <1>6, <1>7, <1>8, <1>9, <1>10 DEF CallStep

\* Rows of buckets and limits change, and no object does.
LEMMA RowsKeep ==
  ASSUME SpaceInv, NEW c \in Call, NEW label \in {"done", "failed"}, Goto(c, label),
         buckets' \in [Bucket -> BucketRow \cup {None}], ownerQuota' \in [User -> Quota],
         UNCHANGED <<listingVars, nextId, job, history, failures>>
  PROVE  SpaceInv'
<1> DEFINE x == call[c]
           y == [x EXCEPT !.at = label]
<1>1. x \in CallState /\ call \in [Call -> CallState] /\ Placed(job[c], x)
  BY CallsAreTyped
<1>2. y \in CallState
  BY <1>1 DEF CallState, Label, Ended
<1>3. y.at = label /\ y.ctx = x.ctx /\ y.source = x.source /\ y.key = x.key /\ y.keys = x.keys /\ y.doomed = x.doomed
  BY <1>1 DEF CallState
<1>4. call' = [call EXCEPT ![c] = y]
  BY <1>1 DEF Goto
<1> HIDE DEF y
<1>5. Placed(job[c], y)
  BY <1>1, <1>3 DEF Placed, Underway, Writing, Ended
<1>6. /\ call' \in [Call -> CallState] /\ job' \in [Call -> Job]
      /\ \A d \in Call : WellAsked(job[d])' /\ Placed(job[d], call[d])'
  BY <1>2, <1>4, <1>5, CallsMove
<1>7. WalksInv'
  BY SpaceListings, RestKeeps
<1>8. UNCHANGED <<table, nextId, excused, late, lost, failures>>
  BY DEF listingVars, tables, history
<1>9. TypeOK'
  BY <1>6, <1>7, <1>8 DEF SpaceInv, TypeOK, WalksInv
<1>10. Fresh'
  BY <1>8 DEF SpaceInv, Fresh
<1> QED BY <1>6, <1>7, <1>9, <1>10 DEF SpaceInv, WalksInv

\* The bucket that a call has found has a row: rows are marked, and stay.
Found == \A c \in Call : call[c].source # None => buckets[job[c].bucket] # None

\* BucketsService: create, update, delete
LEMMA BucketsKeep ==
  ASSUME SpaceInv, Found, NEW c \in Call, CreateBucket(c) \/ DropBucket(c) \/ Set(c)
  PROVE  SpaceInv' /\ \A b \in Bucket : buckets[b] # None => buckets'[b] # None
<1>1. buckets \in [Bucket -> BucketRow \cup {None}] /\ ownerQuota \in [User -> Quota]
  BY DEF SpaceInv, TypeOK
<1>2. job[c] \in Job /\ job[c].bucket \in Bucket /\ Placed(job[c], call[c])
  BY CallsAreTyped
<1>3. None \notin BucketRow
  BY SpaceAssumption
<1>4. CASE CreateBucket(c)
  <2>1. /\ Goto(c, "done") \/ Goto(c, "failed")
        /\ UNCHANGED <<listingVars, ownerQuota, nextId, job, history, failures>>
        /\ \/ UNCHANGED buckets
           \/ buckets[job[c].bucket] = None /\ \E u \in User : buckets' = [buckets EXCEPT ![job[c].bucket] =
               [deleted |-> FALSE, versioning |-> "disabled", quota |-> None, owner |-> u]]
    BY <1>4 DEF CreateBucket
  <2>2. /\ buckets' \in [Bucket -> BucketRow \cup {None}] /\ ownerQuota' \in [User -> Quota]
        /\ \A b \in Bucket : buckets[b] # None => buckets'[b] # None
    <3>1. CASE UNCHANGED buckets
      BY <1>1, <2>1, <3>1
    <3>2. ASSUME NEW u \in User, buckets' = [buckets EXCEPT ![job[c].bucket] =
               [deleted |-> FALSE, versioning |-> "disabled", quota |-> None, owner |-> u]]
          PROVE  /\ buckets' \in [Bucket -> BucketRow \cup {None}]
                 /\ \A b \in Bucket : buckets[b] # None => buckets'[b] # None
      <4> DEFINE row == [deleted |-> FALSE, versioning |-> "disabled", quota |-> None, owner |-> u]
      <4>1. row \in BucketRow
        BY DEF BucketRow, Versioning, Quota
      <4> HIDE DEF row
      <4>2. buckets' = [buckets EXCEPT ![job[c].bucket] = row]
        BY <3>2 DEF row
      <4> QED BY <1>1, <1>3, <4>1, <4>2
    <3> QED BY <1>1, <2>1, <3>1, <3>2
  <2> QED BY <2>1, <2>2, RowsKeep
<1>5. CASE DropBucket(c)
  <2>1. /\ call[c].at = "drop" /\ Goto(c, "done")
        /\ UNCHANGED <<listingVars, ownerQuota, nextId, job, history, failures>>
        /\ buckets' = [buckets EXCEPT ![job[c].bucket].deleted = TRUE]
    BY <1>5 DEF DropBucket
  <2>2. buckets[job[c].bucket] \in BucketRow
    <3>1. call[c].source \in BucketRow
      BY <1>2, <2>1 DEF Placed, Underway, Ended
    <3> QED BY <1>1, <1>2, <1>3, <3>1 DEF Found
  <2>3. [buckets[job[c].bucket] EXCEPT !.deleted = TRUE] \in BucketRow
    BY <2>2 DEF BucketRow
  <2>4. /\ buckets' \in [Bucket -> BucketRow \cup {None}] /\ ownerQuota' \in [User -> Quota]
        /\ \A b \in Bucket : buckets[b] # None => buckets'[b] # None
    BY <1>1, <1>3, <2>1, <2>3
  <2> QED BY <2>1, <2>4, RowsKeep
<1>6. CASE Set(c)
  <2> DEFINE j == job[c]
  <2>1. /\ call[c].at = "start" /\ j.op \in Settings /\ UNCHANGED <<listingVars, nextId, job, history, failures>>
        /\ \/ Goto(c, "failed") /\ UNCHANGED settings
           \/ /\ Alive(j.bucket) /\ Goto(c, "done")
              /\ \/ UNCHANGED buckets
                 \/ buckets' = [buckets EXCEPT ![j.bucket].versioning = j.versioning]
                 \/ buckets' = [buckets EXCEPT ![j.bucket].quota = j.value]
              /\ \/ UNCHANGED ownerQuota
                 \/ ownerQuota' = [ownerQuota EXCEPT ![buckets[j.bucket].owner] = j.value]
    <3>1. CASE ~Alive(j.bucket)
      BY <1>6, <3>1 DEF Set
    <3>2. CASE Alive(j.bucket)
      <4>1. /\ Goto(c, "done")
            /\ buckets' = CASE j.op = "setVersioning" -> [buckets EXCEPT ![j.bucket].versioning = j.versioning]
                          [] j.op = "setQuota" -> [buckets EXCEPT ![j.bucket].quota = j.value]
                          [] OTHER -> buckets
            /\ ownerQuota' = IF j.op = "setOwnerQuota"
                             THEN [ownerQuota EXCEPT ![buckets[j.bucket].owner] = j.value] ELSE ownerQuota
        BY <1>6, <3>2 DEF Set
      <4>2. /\ call[c].at = "start" /\ j.op \in Settings /\ UNCHANGED <<listingVars, nextId, job, history, failures>>
        BY <1>6 DEF Set
      <4> HIDE DEF j
      <4>3. \/ UNCHANGED buckets
            \/ buckets' = [buckets EXCEPT ![j.bucket].versioning = j.versioning]
            \/ buckets' = [buckets EXCEPT ![j.bucket].quota = j.value]
        BY <4>1
      <4> QED BY <3>2, <4>1, <4>2, <4>3
    <3> QED BY <3>1, <3>2
  <2>2. CASE Goto(c, "failed") /\ UNCHANGED settings
    <3>1. UNCHANGED <<buckets, ownerQuota>>
      BY <2>2 DEF settings
    <3> QED BY <1>1, <2>1, <2>2, <3>1, RowsKeep
  <2>3. ASSUME Alive(j.bucket), Goto(c, "done"),
               \/ UNCHANGED buckets
               \/ buckets' = [buckets EXCEPT ![j.bucket].versioning = j.versioning]
               \/ buckets' = [buckets EXCEPT ![j.bucket].quota = j.value],
               UNCHANGED ownerQuota \/ ownerQuota' = [ownerQuota EXCEPT ![buckets[j.bucket].owner] = j.value]
        PROVE  SpaceInv' /\ \A b \in Bucket : buckets[b] # None => buckets'[b] # None
    <3>1. buckets[j.bucket] \in BucketRow /\ j.versioning \in Versioning /\ j.value \in Quota
      BY <1>1, <1>2, <2>3 DEF Alive, Job, Quota
    <3>2. /\ [buckets[j.bucket] EXCEPT !.versioning = j.versioning] \in BucketRow
          /\ [buckets[j.bucket] EXCEPT !.quota = j.value] \in BucketRow
          /\ buckets[j.bucket].owner \in User
      BY <3>1 DEF BucketRow
    <3>3. /\ buckets' \in [Bucket -> BucketRow \cup {None}]
          /\ \A b \in Bucket : buckets[b] # None => buckets'[b] # None
      BY <1>1, <1>2, <1>3, <2>3, <3>2
    <3>4. ownerQuota' \in [User -> Quota]
      BY <1>1, <2>3, <3>1
    <3> QED BY <2>1, <2>3, <3>3, <3>4, RowsKeep
  <2> QED BY <2>1, <2>2, <2>3
<1> QED BY <1>4, <1>5, <1>6

\* A listing goes on, or nothing happens.
LEMMA OnlookersKeep ==
  ASSUME SpaceInv, (\E w \in Walker : Walks(w)) \/ UNCHANGED vars
  PROVE  SpaceInv' /\ UNCHANGED <<settings, nextId, callVars, history, failures>>
<1>1. UNCHANGED <<settings, nextId, callVars, history, failures>>
  BY DEF Walks, vars
<1>2. UNCHANGED <<buckets, ownerQuota, nextId, job, call, excused, late, lost, failures>>
  BY <1>1 DEF settings, callVars, history
<1>3. WalksInv' /\ UNCHANGED table
  <2>1. CASE UNCHANGED vars
    <3>1. UNCHANGED listingVars
      BY <2>1 DEF vars
    <3> QED BY <3>1, SpaceListings, RestKeeps DEF listingVars, tables
  <2>2. ASSUME NEW w \in Walker, WalkStep(w) PROVE WalksInv' /\ UNCHANGED table
    <3>1. WalksInv'
      BY <2>2, SpaceListings, WalkStepKeeps
    <3>2. UNCHANGED table
      BY <2>2 DEF WalkStep, ListObjects, Peek, NextPage, ListWindow, ListParts, tables
    <3> QED BY <3>1, <3>2
  <2> QED BY <2>1, <2>2 DEF Walks
<1>4. TypeOK'
  BY <1>2, <1>3 DEF SpaceInv, TypeOK, WalksInv
<1>5. Fresh'
  BY <1>2, <1>3 DEF SpaceInv, Fresh
<1>6. \A d \in Call : WellAsked(job[d])' /\ Placed(job[d], call[d])'
  BY <1>2 DEF SpaceInv
<1> QED BY <1>1, <1>3, <1>4, <1>5, <1>6 DEF SpaceInv, WalksInv

\* No step disturbs the tables' order, and none loses a bucket's row.
LEMMA StepKeeps ==
  ASSUME SpaceInv, Found, [Next]_vars
  PROVE  SpaceInv' /\ Found'
<1>1. ASSUME NEW c \in Call, CallStep(c) \/ Fail(c)
      PROVE  SpaceInv' /\ Found'
  <2>1. /\ UNCHANGED job /\ \A d \in Call : d # c => call'[d] = call[d]
        /\ ~Resolve(c) => call'[c].source = call[c].source
    BY <1>1, StepsAreOnesOwn
  <2>2. ASSUME UNCHANGED buckets, ~Resolve(c) PROVE Found'
    BY <2>1, <2>2 DEF Found
  <2>3. CASE Resolve(c)
    <3>1. SpaceInv'
      BY <2>3, ResolveKeeps
    <3>2. UNCHANGED buckets /\ (call'[c].source # None => buckets[job[c].bucket] # None)
      <4>1. UNCHANGED buckets
        BY <2>3 DEF Resolve, unchangedByReads, settings
      <4>2. call[c] \in CallState /\ call \in [Call -> CallState]
        BY CallsAreTyped
      <4>3. CASE Alive(job[c].bucket)
        BY <4>1, <4>3 DEF Alive
      <4>4. CASE ~Alive(job[c].bucket)
        <5>1. Goto(c, "failed")
          BY <2>3, <4>4 DEF Resolve
        <5>2. call'[c].source = call[c].source
          BY <4>2, <5>1 DEF Goto, CallState
        <5> QED BY <4>1, <5>2 DEF Found
      <4> QED BY <4>1, <4>3, <4>4
    <3> QED BY <2>1, <3>1, <3>2 DEF Found
  <2>4. CASE /\ ~Resolve(c)
             /\ \/ CheckBucket(c) \/ CheckBucketParts(c) \/ ReadOwnersVersions(c) \/ CheckOwnersParts(c)
                \/ FindFolder(c) \/ ListKeys(c) \/ CopyNext(c) \/ JoinParts(c) \/ CountObjects(c)
    <3>1. SpaceInv'
      BY <2>4, CheckBucketKeeps, CheckOwnersKeeps, LooksKeep, ListKeysKeeps, CopyNextKeeps
    <3>2. UNCHANGED unchangedByReads
      BY <2>4 DEF CheckBucket, CheckBucketParts, ReadOwnersVersions, CheckOwnersParts, FindFolder, ListKeys, CopyNext,
                  JoinParts, CountObjects
    <3>3. UNCHANGED buckets
      BY <3>2 DEF unchangedByReads, settings
    <3> QED BY <2>2, <2>4, <3>1, <3>3
  <2>5. CASE ~Resolve(c) /\ (Commit(c) \/ DeleteNext(c) \/ StorePart(c) \/ RetireUpload(c) \/ DropParts(c) \/ Fail(c))
    <3>1. SpaceInv'
      BY <2>5, CommitKeeps, DeleteNextKeeps, UploadsKeep, FailKeeps
    <3>2. UNCHANGED buckets
      BY <2>5 DEF Commit, DeleteNext, StorePart, RetireUpload, DropParts, Fail, settings
    <3> QED BY <2>2, <2>5, <3>1, <3>2
  <2>6. CASE ~Resolve(c) /\ (CreateBucket(c) \/ DropBucket(c) \/ Set(c))
    <3>1. SpaceInv' /\ \A b \in Bucket : buckets[b] # None => buckets'[b] # None
      BY <2>6, BucketsKeep
    <3>2. \A d \in Call : job[d].bucket \in Bucket
      BY CallsAreTyped
    <3> QED BY <2>1, <2>6, <3>1, <3>2 DEF Found
  <2> QED BY <1>1, <2>3, <2>4, <2>5, <2>6 DEF CallStep
<1>2. CASE (\E w \in Walker : Walks(w)) \/ UNCHANGED vars
  <2>1. SpaceInv' /\ UNCHANGED <<settings, nextId, callVars, history, failures>>
    BY <1>2, OnlookersKeep
  <2> QED BY <2>1 DEF Found, settings, callVars
<1> QED BY <1>1, <1>2 DEF Next, Run

\* The tables are in order, and the calls at their start.
LEMMA SpaceBegins ==
  ASSUME Init
  PROVE  SpaceInv /\ Found
<1>1. PICK start \in Starts :
         /\ buckets = start.buckets /\ ownerQuota = start.ownerQuota
         /\ table = start.table /\ nextId = start.nextId /\ uploads = start.uploads /\ parts = start.parts
         /\ job = start.job /\ failures = start.failures
         /\ WalkInit(start.queries, start.walkers)
  BY DEF Init
<1>2. /\ call = [c \in Call |->
           [at |-> "start", ctx |-> None, source |-> None, key |-> job[c].key,
            payload |-> job[c].payload, written |-> FALSE, quota |-> None,
            bucketSum |-> 0, ownerSum |-> 0, keys |-> {}, doomed |-> {}]]
      /\ excused = [c \in Call |-> {}] /\ late = {} /\ lost = {}
  BY DEF Init
<1>3. /\ start \in Start
      /\ \A c \in Call : WellAsked(start.job[c])
      /\ \A b \in Bucket, k \in Key : \A v \in Range(start.table[b][k]) : v.id < start.nextId
  BY StartsAssumption
<1>4. /\ buckets \in [Bucket -> BucketRow \cup {None}] /\ ownerQuota \in [User -> Quota]
      /\ table \in [Bucket -> [Key -> Versions]] /\ nextId \in Nat \ 0 .. NullId
      /\ uploads \in SUBSET (Key \X Upload) /\ parts \in SUBSET Part /\ job \in [Call -> Job]
      /\ failures \in 0 .. MaxFailures /\ start.queries \in [Walker -> Query]
  BY <1>1, <1>3 DEF Start
<1>5. WalksInv
  BY <1>1, <1>4, WalksBegin
<1>6. nextId \in Nat /\ nextId > NullId
  BY <1>4 DEF NullId
<1>7. Fresh
  BY <1>1, <1>3, <1>6 DEF Fresh
<1>8. call \in [Call -> CallState]
  <2>1. \A c \in Call : job[c].key \in Name /\ job[c].payload \in Payload \cup {None}
    BY <1>4 DEF Job
  <2> QED BY <1>2, <2>1 DEF CallState, Label, Quota
<1>9. TypeOK
  BY <1>2, <1>4, <1>5, <1>6, <1>8 DEF TypeOK, WalksInv
<1>10. ASSUME NEW c \in Call PROVE WellAsked(job[c]) /\ Placed(job[c], call[c]) /\ call[c].source = None
  <2>1. /\ call[c].at = "start" /\ call[c].key = job[c].key /\ call[c].source = None
        /\ call[c].keys = {} /\ call[c].doomed = {}
    BY <1>2
  <2>2. Placed(job[c], call[c])
    BY <2>1 DEF Placed, Underway, Writing
  <2> QED BY <1>1, <1>3, <2>1, <2>2
<1>11. Found
  BY <1>10 DEF Found
<1> QED BY <1>5, <1>7, <1>9, <1>10, <1>11 DEF SpaceInv, WalksInv

-----------------------------------------------------------------------------
(* The theorems. *)

\* The inductive invariant: types, ids that are not given again, where each call and each
\* client stands.
THEOREM InvariantOfSpace == Spec => [](SpaceInv /\ Found)
<1>1. Init => SpaceInv /\ Found
  BY SpaceBegins
<1>2. (SpaceInv /\ Found) /\ [Next]_vars => (SpaceInv /\ Found)'
  BY StepKeeps
<1> QED BY <1>1, <1>2, PTL DEF Spec

\* ObjectsService, BucketsService: the tables and what the calls have read are of their
\* types, the versions of a key with ids of their own among them.
THEOREM SpaceTypes == Spec => []TypeOK
<1>1. SpaceInv => TypeOK
  BY DEF SpaceInv
<1> QED BY <1>1, InvariantOfSpace, PTL

\* ObjectsService.list, listParts, listObjectsV1: the pages are complete whatever writes,
\* copies, moves and deletions of this service go on between them.
THEOREM ObjectPagesSurviveWrites == Spec => []ObjectWalksAreComplete
<1>1. SpaceInv => ObjectWalksAreComplete
  BY SpaceListings, WalksTell
<1> QED BY <1>1, InvariantOfSpace, PTL

\* ObjectsService.listAllVersions, listMultipartUploads: so are theirs, unless the client
\* was led astray.
THEOREM VersionPagesSurviveWrites == Spec => []VersionWalksAreComplete
<1>1. SpaceInv => VersionWalksAreComplete
  BY SpaceListings, WalksTell
<1> QED BY <1>1, InvariantOfSpace, PTL

-----------------------------------------------------------------------------
(* What steps change. *)

\* Objects are written by commits and by deletions, and only these and a deletion that
\* fails add to the history.
LEMMA OnlyWritersWrite ==
  ASSUME SpaceInv, NEW c \in Call, CallStep(c) \/ Fail(c), ~Commit(c), ~DeleteNext(c)
  PROVE  /\ UNCHANGED <<table, late, lost>> /\ (~Fail(c) => UNCHANGED excused)
         /\ ~StorePart(c) /\ ~RetireUpload(c) /\ ~DropParts(c) => UNCHANGED <<uploads, parts>>
<1>1. CASE UNCHANGED unchangedByReads
  BY <1>1 DEF unchangedByReads, listingVars, tables, history
<1>2. CASE StorePart(c) \/ RetireUpload(c) \/ DropParts(c)
  BY <1>2 DEF StorePart, RetireUpload, DropParts, Becomes, history
<1>3. CASE CreateBucket(c) \/ DropBucket(c) \/ Set(c)
  BY <1>3 DEF CreateBucket, DropBucket, Set, listingVars, tables, history
<1>4. CASE Fail(c)
  BY <1>4 DEF Fail, listingVars, tables
<1>5. CASE \/ Resolve(c) \/ CheckBucket(c) \/ CheckBucketParts(c) \/ ReadOwnersVersions(c) \/ CheckOwnersParts(c)
           \/ FindFolder(c) \/ ListKeys(c) \/ CopyNext(c) \/ JoinParts(c) \/ CountObjects(c)
  BY <1>1, <1>5 DEF Resolve, CheckBucket, CheckBucketParts, ReadOwnersVersions, CheckOwnersParts, FindFolder, ListKeys,
                    CopyNext, JoinParts, CountObjects
<1> QED BY <1>2, <1>3, <1>4, <1>5 DEF CallStep

\* getByName: where a call goes on once its bucket is found.
LEMMA FirstLabels ==
  ASSUME NEW op \in Ops, op \notin Settings \cup {"createBucket"}
  PROVE  FirstLabel(op) \in {"bucket", "exists", "keys", "parts", "dropParts", "count"}
<1>1. op \in {"put", "uploadPart", "createFolder", "copy", "move", "delete", "deleteVersion", "deletePrefix",
              "deleteObjects", "complete", "abort", "deleteBucket"}
  BY DEF Ops, Writes, Uploads, Settings
<1> QED BY <1>1 DEF FirstLabel

\* BucketsService.delete: a call is about to delete a bucket when it has counted its objects.
LEMMA OnlyCountsDoom ==
  ASSUME SpaceInv, NEW c \in Call, CallStep(c) \/ Fail(c), ~CountObjects(c)
  PROVE  call'[c].at # "drop"
<1>1. call \in [Call -> CallState] /\ call[c] \in CallState /\ job[c].op \in Ops
  BY CallsAreTyped
<1>2. DOMAIN call[c] = {"at", "ctx", "source", "key", "payload", "written", "quota", "bucketSum", "ownerSum", "keys", "doomed"}
  BY <1>1 DEF CallState
<1>3. CASE Resolve(c)
  <2>1. job[c].op \notin Settings \cup {"createBucket"}
    BY <1>3 DEF Resolve
  <2>2. FirstLabel(job[c].op) # "drop"
    BY <1>1, <2>1, FirstLabels
  <2> QED BY <1>1, <1>2, <1>3, <2>2 DEF Resolve, Goto
<1>4. CASE CheckBucket(c) \/ CheckBucketParts(c)
  <2>1. ASSUME NEW sum, CheckOwner(c, sum)
        PROVE  call'[c].at # "drop"
    <3> DEFINE quota == ownerQuota[call[c].ctx.owner]
    <3>1. call' = [call EXCEPT ![c] = IF quota = None THEN Passed([call[c] EXCEPT !.quota = quota, !.bucketSum = sum])
                                      ELSE [[call[c] EXCEPT !.quota = quota, !.bucketSum = sum] EXCEPT !.at = "owner"]]
      BY <2>1 DEF CheckOwner
    <3> HIDE DEF quota
    <3> QED BY <1>1, <1>2, <3>1 DEF Passed
  <2>2. \/ CheckOwner(c, 0) \/ CheckOwner(c, call[c].bucketSum + PartBytes(Target(c))) \/ Goto(c, "refused")
        \/ call' = [call EXCEPT ![c].at = "bucketParts", ![c].bucketSum = VersionBytes(Target(c))]
    BY <1>4 DEF CheckBucket, CheckBucketParts
  <2>3. ASSUME Goto(c, "refused") \/ call' = [call EXCEPT ![c].at = "bucketParts", ![c].bucketSum = VersionBytes(Target(c))]
        PROVE  call'[c].at # "drop"
    BY <1>1, <1>2, <2>3 DEF Goto
  <2> QED BY <2>1, <2>2, <2>3
<1>5. CASE ReadOwnersVersions(c) \/ FindFolder(c) \/ JoinParts(c)
  BY <1>1, <1>2, <1>5 DEF ReadOwnersVersions, FindFolder, JoinParts, Goto
<1>6. CASE CheckOwnersParts(c)
  <2>1. PICK bytes : Goto(c, "refused") \/ call' = [call EXCEPT ![c] = Passed([call[c] EXCEPT !.ownerSum = bytes])]
    BY <1>6 DEF CheckOwnersParts
  <2>2. CASE Goto(c, "refused")
    BY <1>1, <1>2, <2>2 DEF Goto
  <2>3. CASE call' = [call EXCEPT ![c] = Passed([call[c] EXCEPT !.ownerSum = bytes])]
    BY <1>1, <1>2, <2>3 DEF Passed
  <2> QED BY <2>1, <2>2, <2>3
<1>7. CASE ListKeys(c)
  <2>1. Goto(c, "failed") \/ \E keys : call' = [call EXCEPT ![c].keys = keys, ![c].doomed = keys,
               ![c].at = IF job[c].op \in {"copy", "move"} THEN "next" ELSE IF keys = {} THEN "done" ELSE "delete"]
    BY <1>7 DEF ListKeys
  <2>2. CASE Goto(c, "failed")
    BY <1>1, <1>2, <2>2 DEF Goto
  <2>3. ASSUME NEW keys, call' = [call EXCEPT ![c].keys = keys, ![c].doomed = keys,
               ![c].at = IF job[c].op \in {"copy", "move"} THEN "next" ELSE IF keys = {} THEN "done" ELSE "delete"]
        PROVE  call'[c].at # "drop"
    BY <1>1, <1>2, <2>3
  <2> QED BY <2>1, <2>2, <2>3
<1>8. CASE Commit(c)
  BY <1>1, <1>2, <1>8 DEF Commit
<1>9. CASE DeleteNext(c)
  <2>1. call[c].at = "delete"
    BY <1>9 DEF DeleteNext
  <2> QED BY <1>1, <1>2, <1>9, <2>1 DEF DeleteNext
<1>10. CASE CopyNext(c)
  BY <1>1, <1>2, <1>10, ZenonT(60) DEF CopyNext, Goto
<1>11. CASE StorePart(c) \/ RetireUpload(c) \/ DropParts(c) \/ CreateBucket(c) \/ DropBucket(c) \/ Set(c)
  BY <1>1, <1>2, <1>11 DEF StorePart, RetireUpload, DropParts, CreateBucket, DropBucket, Set, Goto
<1>12. CASE Fail(c)
  BY <1>1, <1>2, <1>12 DEF Fail, Goto
<1> QED BY <1>3, <1>4, <1>5, <1>6, <1>7, <1>8, <1>9, <1>10, <1>11, <1>12 DEF CallStep

-----------------------------------------------------------------------------
(* Buckets that are deleted. *)

\* What is in a bucket that goes was written since it was found empty.
Emptied == \A b \in Bucket, k \in Key : Going(b) /\ table[b][k] # <<>> => <<b, k>> \in late

\* No row is marked but that of a bucket which was about to go.
LEMMA GoingWasGoing ==
  ASSUME SpaceInv, NEW c \in Call, CallStep(c) \/ Fail(c), NEW b \in Bucket, Going(b)'
  PROVE  \/ Going(b)
         \/ CountObjects(c) /\ b = job[c].bucket /\ \A k \in Key : table[b][k] = <<>>
<1>1. /\ UNCHANGED job /\ \A d \in Call : d # c => call'[d] = call[d]
  BY StepsAreOnesOwn
<1>2. /\ call \in [Call -> CallState] /\ job \in [Call -> Job] /\ buckets \in [Bucket -> BucketRow \cup {None}]
      /\ job[c].bucket \in Bucket
  BY CallsAreTyped DEF SpaceInv, TypeOK
<1>3. CASE buckets'[b] # None /\ buckets'[b].deleted
  <2>1. CASE UNCHANGED buckets
    BY <1>3, <2>1 DEF Going
  <2>2. CASE DropBucket(c)
    BY <1>2, <1>3, <2>2 DEF DropBucket, Going
  <2>3. CASE CreateBucket(c)
    <3>1. CASE UNCHANGED buckets
      BY <2>1, <3>1
    <3>2. ASSUME NEW u \in User, buckets' = [buckets EXCEPT ![job[c].bucket] =
               [deleted |-> FALSE, versioning |-> "disabled", quota |-> None, owner |-> u]]
          PROVE  Going(b)
      <4>1. b # job[c].bucket
        BY <1>2, <1>3, <3>2
      <4>2. buckets'[b] = buckets[b]
        BY <1>2, <3>2, <4>1
      <4> QED BY <1>3, <4>2 DEF Going
    <3> QED BY <2>3, <3>1, <3>2 DEF CreateBucket
  <2>4. CASE Set(c)
    <3> DEFINE j == job[c]
    <3>1. CASE UNCHANGED settings
      BY <2>1, <3>1 DEF settings
    <3>2. ASSUME Alive(j.bucket),
                 buckets' = CASE j.op = "setVersioning" -> [buckets EXCEPT ![j.bucket].versioning = j.versioning]
                              [] j.op = "setQuota" -> [buckets EXCEPT ![j.bucket].quota = j.value]
                              [] OTHER -> buckets
          PROVE  Going(b)
      <4>1. buckets[j.bucket] \in BucketRow
        BY <1>2, <3>2 DEF Alive
      <4>2. \/ UNCHANGED buckets
            \/ buckets' = [buckets EXCEPT ![j.bucket].versioning = j.versioning]
            \/ buckets' = [buckets EXCEPT ![j.bucket].quota = j.value]
        <5> HIDE DEF j
        <5> QED BY <3>2
      <4>3. CASE b = j.bucket
        <5>1. buckets'[b].deleted = buckets[b].deleted
          BY <1>2, <4>1, <4>2, <4>3 DEF BucketRow
        <5> QED BY <1>3, <3>2, <4>3, <5>1 DEF Alive
      <4>4. CASE b # j.bucket
        <5>1. buckets'[b] = buckets[b]
          BY <1>2, <4>2, <4>4
        <5> QED BY <1>3, <5>1 DEF Going
      <4> QED BY <4>3, <4>4
    <3> QED BY <2>4, <3>1, <3>2 DEF Set
  <2>5. CASE UNCHANGED unchangedByReads
    BY <2>1, <2>5 DEF unchangedByReads, settings
  <2>6. UNCHANGED buckets \/ UNCHANGED unchangedByReads \/ DropBucket(c) \/ CreateBucket(c) \/ Set(c)
    BY DEF CallStep, Resolve, CheckBucket, CheckBucketParts, ReadOwnersVersions, CheckOwnersParts, FindFolder, ListKeys,
           CopyNext, JoinParts, CountObjects, Commit, DeleteNext, StorePart, RetireUpload, DropParts, Fail, settings
  <2> QED BY <2>1, <2>2, <2>3, <2>4, <2>5, <2>6
<1>4. ASSUME NEW d \in Call, call'[d].at = "drop", job[d].bucket = b
      PROVE  \/ Going(b)
             \/ CountObjects(c) /\ b = job[c].bucket /\ \A k \in Key : table[b][k] = <<>>
  <2>1. CASE d # c
    <3>1. d \in Call /\ call[d].at = "drop" /\ job[d].bucket = b
      BY <1>1, <1>4, <2>1
    <3>2. \E e \in Call : call[e].at = "drop" /\ job[e].bucket = b
      BY <3>1
    <3>3. Going(b)
      BY <3>2 DEF Going
    <3> QED BY <3>3
  <2>2. CASE d = c
    <3>1. CountObjects(c)
      BY <1>4, <2>2, OnlyCountsDoom
    <3>2. ~ \E k \in Key : table[b][k] # <<>>
      <4>1. CASE \E k \in Key : table[job[c].bucket][k] # <<>>
        <5>1. Goto(c, "failed")
          BY <3>1, <4>1 DEF CountObjects
        <5>2. call'[c].at = "failed"
          BY <1>2, <5>1 DEF Goto, CallState
        <5> QED BY <1>4, <2>2, <5>2
      <4> QED BY <1>4, <2>2, <4>1
    <3> QED BY <1>4, <2>2, <3>1, <3>2
  <2> QED BY <2>1, <2>2
<1> QED BY <1>1, <1>3, <1>4 DEF Going

\* BucketsService.delete: nothing is put into a bucket that goes without being known as late.
LEMMA EmptiedKeeps ==
  ASSUME SpaceInv, Emptied, [Next]_vars
  PROVE  Emptied'
<1>1. ASSUME NEW c \in Call, CallStep(c) \/ Fail(c)
      PROVE  Emptied'
  <2> SUFFICES ASSUME NEW b \in Bucket, NEW k \in Key, Going(b)', table'[b][k] # <<>> PROVE <<b, k>> \in late'
    BY DEF Emptied
  <2>1. \/ Going(b)
        \/ CountObjects(c) /\ table[b][k] = <<>>
    BY <1>1, GoingWasGoing
  <2>2. CASE ~Commit(c) /\ ~DeleteNext(c)
    <3>1. UNCHANGED <<table, late>>
      BY <1>1, <2>2, OnlyWritersWrite
    <3> QED BY <2>1, <3>1 DEF Emptied
  <2>3. ASSUME NEW a \in Bucket, NEW i \in Key, NEW versions \in Versions, Leaves(c, a, i, versions), Going(b)
        PROVE  <<b, k>> \in late'
    <3>1. \A e \in Bucket, n \in Key : e # a \/ n # i => table'[e][n] = table[e][n]
      BY <2>3, LeavesKeeps
    <3>2. late' = IF Going(a) THEN late \cup {<<a, i>>} ELSE late
      BY <2>3 DEF Leaves
    <3> QED BY <2>3, <3>1, <3>2 DEF Emptied
  <2>4. CASE Commit(c)
    <3>1. /\ call[c].at = "commit" /\ ~CountObjects(c)
      BY <2>4 DEF Commit, CountObjects
    <3>2. PICK versions \in Versions : Leaves(c, Target(c), call[c].key, versions) /\ call[c].key \in Key /\ Target(c) \in Bucket
      BY <2>4, CommitWrites
    <3> QED BY <2>1, <2>3, <3>1, <3>2
  <2>5. CASE DeleteNext(c)
    <3>1. call[c].at = "delete" /\ ~CountObjects(c) /\ Leaves(c, job[c].bucket, Min(call[c].doomed), Without(c, Min(call[c].doomed)))
      BY <2>5 DEF DeleteNext, CountObjects
    <3>2. Min(call[c].doomed) \in Key /\ Without(c, Min(call[c].doomed)) \in Versions
      BY <2>5, WithoutLeavesVersions
    <3>3. job[c].bucket \in Bucket
      BY CallsAreTyped
    <3> QED BY <2>1, <2>3, <3>1, <3>2, <3>3
  <2> QED BY <2>2, <2>4, <2>5
<1>2. CASE (\E w \in Walker : Walks(w)) \/ UNCHANGED vars
  <2>1. UNCHANGED <<settings, nextId, callVars, history, failures>>
    BY <1>2, OnlookersKeep
  <2>2. UNCHANGED table
    BY <1>2, ZenonT(60) DEF Walks, WalkStep, ListObjects, Peek, NextPage, ListWindow, ListParts, tables, vars, listingVars
  <2> QED BY <2>1, <2>2 DEF Emptied, Going, settings, callVars, history
<1> QED BY <1>1, <1>2 DEF Next, Run

-----------------------------------------------------------------------------
(* Folders that are deleted. *)

Aims(j) == IF j.op = "deletePrefix" THEN Under[j.key] ELSE NamedKeys(j)

\* A call that deletes many keys has those before it that are visible yet, but for what others
\* wrote and what it reports.
Accounted(c) ==
    job[c].op \in {"deletePrefix", "deleteObjects"} /\ call[c].at \in {"delete", "done"} =>
        /\ \A k \in Aims(job[c]) : Visible(table, job[c].bucket, k) => k \in call[c].doomed \cup excused[c]
        /\ call[c].at = "done" => call[c].doomed = {}

\* The steps of such a call.
LEMMA DeletersSteps ==
  ASSUME SpaceInv, NEW c \in Call, CallStep(c) \/ Fail(c), job[c].op \in {"deletePrefix", "deleteObjects"}
  PROVE  Resolve(c) \/ ListKeys(c) \/ DeleteNext(c) \/ Fail(c)
<1>1. call[c].at \notin Writing \cup {"exists", "next", "parts", "retire", "dropParts", "count", "drop"}
  BY CallsAreTyped DEF Placed, Writes
<1>2. job[c].op \notin Settings \cup {"createBucket"}
  BY DEF Settings
<1> QED BY <1>1, <1>2 DEF CallStep, Writing, CheckBucket, CheckBucketParts, ReadOwnersVersions, CheckOwnersParts, Commit,
                  FindFolder, CopyNext, StorePart, JoinParts, RetireUpload, DropParts, CreateBucket, CountObjects, DropBucket, Set

\* The keys a call aims at are keys.
LEMMA AimsAreKeys ==
  ASSUME SpaceInv, NEW c \in Call, job[c].op \in {"deletePrefix", "deleteObjects"}
  PROVE  Aims(job[c]) \in SUBSET Key /\ job[c].bucket \in Bucket
<1>1. WellAsked(job[c]) /\ job[c].key \in Name /\ job[c].bucket \in Bucket
  BY CallsAreTyped
<1>2. Under[job[c].key] \in SUBSET Key
  BY <1>1, NamesAssumption
<1> QED BY <1>1, <1>2 DEF Aims, WellAsked

\* What others write is excused.
LEMMA OthersAreExcused ==
  ASSUME SpaceInv, NEW d \in Call, Accounted(d), NEW c \in Call, c # d, NEW b \in Bucket, NEW k \in Key,
         NEW versions \in Versions, Leaves(c, b, k, versions), UNCHANGED job, call'[d] = call[d]
  PROVE  Accounted(d)'
<1> SUFFICES ASSUME job[d].op \in {"deletePrefix", "deleteObjects"}, call[d].at \in {"delete", "done"}
             PROVE  /\ \A i \in Aims(job[d]) : Visible(table', job[d].bucket, i) => i \in call[d].doomed \cup excused'[d]
                    /\ call[d].at = "done" => call[d].doomed = {}
  BY DEF Accounted, Aims, NamedKeys
<1>1. excused' = [e \in Call |-> IF e = c THEN excused[e] ELSE excused[e] \cup Excuses(e, b, k)]
  BY DEF Leaves
<1>2. excused'[d] = excused[d] \cup Excuses(d, b, k)
  BY <1>1
<1>3. Excuses(d, b, k) = IF b = job[d].bucket THEN {k} \ call[d].doomed ELSE {}
  BY DEF Excuses
<1>4. \A a \in Bucket, i \in Key : a # b \/ i # k => table'[a][i] = table[a][i]
  BY LeavesKeeps
<1>5. ASSUME NEW i \in Aims(job[d]), Visible(table', job[d].bucket, i)
      PROVE  i \in call[d].doomed \cup excused'[d]
  <2>1. i \in Key /\ job[d].bucket \in Bucket
    BY AimsAreKeys
  <2>2. CASE b = job[d].bucket /\ i = k
    BY <1>2, <1>3, <2>2
  <2>3. CASE ~(b = job[d].bucket /\ i = k)
    <3>1. Visible(table, job[d].bucket, i)
      BY <1>4, <1>5, <2>1, <2>3 DEF Visible
    <3> QED BY <1>2, <3>1 DEF Accounted
  <2> QED BY <2>2, <2>3
<1> QED BY <1>5 DEF Accounted

\* The call itself takes one key after the other.
LEMMA AccountedKeeps ==
  ASSUME SpaceInv, NEW c \in Call, Accounted(c), CallStep(c) \/ Fail(c)
  PROVE  Accounted(c)'
<1> DEFINE j == job[c]
           x == call[c]
           b == j.bucket
<1>1. UNCHANGED job
  BY StepsAreOnesOwn
<1> SUFFICES ASSUME j.op \in {"deletePrefix", "deleteObjects"}, call'[c].at \in {"delete", "done"}
             PROVE  /\ \A i \in Aims(j) : Visible(table', b, i) => i \in call'[c].doomed \cup excused'[c]
                    /\ call'[c].at = "done" => call'[c].doomed = {}
  BY <1>1 DEF Accounted, Aims, NamedKeys
<1>2. /\ x \in CallState /\ call \in [Call -> CallState] /\ Placed(j, x) /\ x.doomed \in SUBSET Key
      /\ excused \in [Call -> SUBSET Key] /\ j.op \in Ops
  BY CallsAreTyped DEF SpaceInv, TypeOK
<1>3. Aims(j) \in SUBSET Key /\ b \in Bucket
  BY AimsAreKeys
<1>4. Resolve(c) \/ ListKeys(c) \/ DeleteNext(c) \/ Fail(c)
  BY DeletersSteps
<1>5. CASE Resolve(c)
  <2>1. FirstLabel(j.op) = "keys"
    BY DEF FirstLabel
  <2>2. call'[c].at \in {"keys", "failed"}
    BY <1>2, <1>5, <2>1 DEF Resolve, Goto, CallState
  <2> QED BY <2>2
<1>6. CASE ListKeys(c)
  <2> DEFINE keys == IF j.op = "deletePrefix" THEN KeysUnder(b, j.key) ELSE NamedKeys(j)
  <2>1. \/ Goto(c, "failed")
        \/ call' = [call EXCEPT ![c].keys = keys, ![c].doomed = keys, ![c].at = IF keys = {} THEN "done" ELSE "delete"]
    BY <1>6 DEF ListKeys
  <2>2. call'[c].at # "failed"
    OBVIOUS
  <2>3. ~Goto(c, "failed")
    BY <1>2, <2>2 DEF Goto, CallState
  <2>4. \A i \in Aims(j) : Visible(table, b, i) => i \in keys
    BY DEF Aims, KeysUnder, Visible
  <2> HIDE DEF keys
  <2>5. call'[c].doomed = keys /\ call'[c].at = IF keys = {} THEN "done" ELSE "delete"
    BY <1>2, <2>1, <2>3 DEF CallState
  <2>6. UNCHANGED table
    BY <1>6 DEF ListKeys, unchangedByReads, listingVars, tables
  <2> QED BY <2>4, <2>5, <2>6 DEF Visible
<1>7. CASE DeleteNext(c)
  <2> DEFINE k == Min(x.doomed)
  <2>1. /\ x.at = "delete" /\ Leaves(c, b, k, Without(c, k))
        /\ call' = [call EXCEPT ![c].doomed = @ \ {k}, ![c].at = IF x.doomed = {k} THEN "done" ELSE @]
    BY <1>7 DEF DeleteNext
  <2>2. /\ k \in x.doomed /\ k \in Key /\ Without(c, k) \in Versions
        /\ Without(c, k) = <<>> \/ Head(Without(c, k)).payload = None
    BY <1>7, WithoutLeavesVersions
  <2> HIDE DEF k
  <2>3. /\ table'[b][k] = Without(c, k)
        /\ \A a \in Bucket, i \in Key : a # b \/ i # k => table'[a][i] = table[a][i]
    BY <1>3, <2>1, <2>2, LeavesKeeps
  <2>4. call'[c].doomed = x.doomed \ {k} /\ (call'[c].at = "done" => x.doomed = {k})
    BY <1>2, <2>1 DEF CallState
  <2>5. excused'[c] = excused[c]
    BY <2>1 DEF Leaves
  <2>6. ASSUME NEW i \in Aims(j), Visible(table', b, i) PROVE i \in call'[c].doomed \cup excused'[c]
    <3>1. i # k
      BY <2>2, <2>3, <2>6 DEF Visible
    <3>2. Visible(table, b, i)
      BY <1>3, <2>3, <2>6, <3>1 DEF Visible
    <3> QED BY <2>1, <2>4, <2>5, <3>1, <3>2 DEF Accounted
  <2> QED BY <2>4, <2>6
<1>8. CASE Fail(c)
  <2> DEFINE k == Min(x.doomed)
  <2>1. \/ Goto(c, "failed")
        \/ /\ x.at = "delete"
           /\ call' = [call EXCEPT ![c].doomed = @ \ {k}, ![c].at = IF x.doomed = {k} THEN "done" ELSE @]
           /\ excused' = [excused EXCEPT ![c] = @ \cup {k}]
    BY <1>8 DEF Fail
  <2>2. ~Goto(c, "failed")
    BY <1>2 DEF Goto, CallState
  <2>3. UNCHANGED table
    BY <1>8 DEF Fail, listingVars, tables
  <2> HIDE DEF k
  <2>4. call'[c].doomed = x.doomed \ {k} /\ (call'[c].at = "done" => x.doomed = {k}) /\ excused'[c] = excused[c] \cup {k}
        /\ x.at = "delete"
    BY <1>2, <2>1, <2>2 DEF CallState
  <2>5. \A i \in Aims(j) : Visible(table', b, i) => i \in x.doomed \cup excused[c]
    BY <2>3, <2>4 DEF Accounted, Visible
  <2> QED BY <2>4, <2>5
<1> QED BY <1>4, <1>5, <1>6, <1>7, <1>8

\* deleteByPrefix, deleteMany: every call stays accountable, whoever takes a step.
LEMMA AllAccountedKeep ==
  ASSUME SpaceInv, \A c \in Call : Accounted(c), [Next]_vars
  PROVE  \A c \in Call : Accounted(c)'
<1>1. ASSUME NEW c \in Call, CallStep(c) \/ Fail(c), NEW d \in Call
      PROVE  Accounted(d)'
  <2>1. CASE d = c
    BY <1>1, <2>1, AccountedKeeps
  <2>2. CASE d # c
    <3>1. UNCHANGED job /\ call'[d] = call[d]
      BY <1>1, <2>2, StepsAreOnesOwn
    <3>2. CASE Commit(c)
      <4>1. PICK versions \in Versions : Leaves(c, Target(c), call[c].key, versions) /\ call[c].key \in Key /\ Target(c) \in Bucket
        BY <3>2, CommitWrites
      <4> QED BY <2>2, <3>1, <4>1, OthersAreExcused
    <3>3. CASE DeleteNext(c)
      <4>1. Leaves(c, job[c].bucket, Min(call[c].doomed), Without(c, Min(call[c].doomed)))
        BY <3>3 DEF DeleteNext
      <4>2. Min(call[c].doomed) \in Key /\ Without(c, Min(call[c].doomed)) \in Versions
        BY <3>3, WithoutLeavesVersions
      <4>3. job[c].bucket \in Bucket
        BY CallsAreTyped
      <4> QED BY <2>2, <3>1, <4>1, <4>2, <4>3, OthersAreExcused
    <3>4. CASE ~Commit(c) /\ ~DeleteNext(c)
      <4>1. UNCHANGED table /\ excused'[d] = excused[d]
        <5>1. UNCHANGED table /\ (~Fail(c) => UNCHANGED excused)
          BY <1>1, <3>4, OnlyWritersWrite
        <5>2. excused \in [Call -> SUBSET Key]
          BY DEF SpaceInv, TypeOK
        <5>3. Fail(c) => excused'[d] = excused[d]
          BY <2>2, <5>2 DEF Fail
        <5> QED BY <5>1, <5>3
      <4> QED BY <3>1, <4>1 DEF Accounted, Visible, Aims, NamedKeys
    <3> QED BY <3>2, <3>3, <3>4
  <2> QED BY <2>1, <2>2
<1>2. CASE (\E w \in Walker : Walks(w)) \/ UNCHANGED vars
  <2>1. UNCHANGED <<settings, nextId, callVars, history, failures>>
    BY <1>2, OnlookersKeep
  <2>2. UNCHANGED table
    BY <1>2, ZenonT(60) DEF Walks, WalkStep, ListObjects, Peek, NextPage, ListWindow, ListParts, tables, vars, listingVars
  <2> QED BY <2>1, <2>2 DEF Accounted, callVars, history, Visible, Aims, NamedKeys
<1> QED BY <1>1, <1>2 DEF Next, Run

-----------------------------------------------------------------------------
(* Quotas. *)

\* What a call has been let in for: the bytes it brings fit, by the sums it has read, into
\* the limits it has read.
Admitted(c) ==
    LET x == call[c] IN
    /\ job[c].op = "complete" => ~x.written
    /\ x.written /\ x.at \in {"owner", "ownerParts", "commit"} =>
         x.ctx.quota = None \/ x.bucketSum + Bytes(c) =< x.ctx.quota
    /\ x.written /\ x.at = "commit" => x.quota = None \/ x.ownerSum + Bytes(c) =< x.quota

\* The bytes that a call brings are a number.
LEMMA BytesAreANumber ==
  ASSUME SpaceInv, NEW c \in Call
  PROVE  Bytes(c) \in Nat
<1>1. WellAsked(job[c]) /\ call[c].payload \in Payload \cup {None}
  BY CallsAreTyped
<1>2. job[c].op = "uploadPart" => Size[job[c].value] \in Nat
  BY <1>1, SpaceAssumption DEF WellAsked
<1>3. Weight(call[c].payload) \in Nat
  BY <1>1, SpaceAssumption DEF Weight
<1> QED BY <1>2, <1>3 DEF Bytes

\* The other steps let nothing in.
LEMMA RestAdmitsNothing ==
  ASSUME SpaceInv, NEW c \in Call, CallStep(c) \/ Fail(c), ~CheckBucket(c), ~CheckBucketParts(c),
         ~ReadOwnersVersions(c), ~CheckOwnersParts(c)
  PROVE  /\ call'[c].written => call[c].written
         /\ call'[c].at \in {"owner", "ownerParts", "commit"} => job[c].op = "complete"
<1>1. call \in [Call -> CallState] /\ call[c] \in CallState /\ job[c].op \in Ops /\ Placed(job[c], call[c])
  BY CallsAreTyped
<1>2. DOMAIN call[c] = {"at", "ctx", "source", "key", "payload", "written", "quota", "bucketSum", "ownerSum", "keys", "doomed"}
  BY <1>1 DEF CallState
<1>3. CASE Resolve(c)
  <2>1. job[c].op \notin Settings \cup {"createBucket"}
    BY <1>3 DEF Resolve
  <2>2. FirstLabel(job[c].op) \notin {"owner", "ownerParts", "commit"}
    BY <1>1, <2>1, FirstLabels
  <2> QED BY <1>1, <1>2, <1>3, <2>2 DEF Resolve, Goto
<1>4. CASE FindFolder(c) \/ CountObjects(c)
  BY <1>1, <1>2, <1>4 DEF FindFolder, CountObjects, Goto
<1>5. CASE JoinParts(c)
  <2>1. job[c].op = "complete"
    BY <1>1, <1>5 DEF Placed, JoinParts
  <2> QED BY <1>1, <1>2, <1>5, <2>1 DEF JoinParts, Goto
<1>6. CASE ListKeys(c)
  <2>1. Goto(c, "failed") \/ \E keys : call' = [call EXCEPT ![c].keys = keys, ![c].doomed = keys,
               ![c].at = IF job[c].op \in {"copy", "move"} THEN "next" ELSE IF keys = {} THEN "done" ELSE "delete"]
    BY <1>6 DEF ListKeys
  <2>2. CASE Goto(c, "failed")
    BY <1>1, <1>2, <2>2 DEF Goto
  <2>3. ASSUME NEW keys, call' = [call EXCEPT ![c].keys = keys, ![c].doomed = keys,
               ![c].at = IF job[c].op \in {"copy", "move"} THEN "next" ELSE IF keys = {} THEN "done" ELSE "delete"]
        PROVE  call'[c].written = call[c].written /\ call'[c].at \notin {"owner", "ownerParts", "commit"}
    BY <1>1, <1>2, <2>3
  <2> QED BY <2>1, <2>2, <2>3
<1>7. CASE Commit(c)
  BY <1>1, <1>2, <1>7 DEF Commit
<1>8. CASE DeleteNext(c)
  <2>1. call[c].at = "delete"
    BY <1>8 DEF DeleteNext
  <2> QED BY <1>1, <1>2, <1>8, <2>1 DEF DeleteNext
<1>9. CASE CopyNext(c)
  <2>1. CASE Goto(c, "failed")
    BY <1>1, <1>2, <2>1 DEF Goto
  <2>2. CASE \E keys, at : /\ call' = [call EXCEPT ![c].keys = keys, ![c].at = at]
                           /\ at \in {"next", "delete", "done"}
    BY <1>1, <1>2, <2>2
  <2>3. CASE \E keys, key, payload :
                call' = [call EXCEPT ![c].keys = keys, ![c].at = "bucket", ![c].key = key, ![c].payload = payload]
    BY <1>1, <1>2, <2>3
  <2> QED BY <1>9, <2>1, <2>2, <2>3, WhatCopyNextReads, Zenon
<1>10. CASE StorePart(c) \/ RetireUpload(c) \/ DropParts(c) \/ CreateBucket(c) \/ DropBucket(c) \/ Set(c)
  BY <1>1, <1>2, <1>10 DEF StorePart, RetireUpload, DropParts, CreateBucket, DropBucket, Set, Goto
<1>11. CASE Fail(c)
  BY <1>1, <1>2, <1>11 DEF Fail, Goto
<1> QED BY <1>3, <1>4, <1>5, <1>6, <1>7, <1>8, <1>9, <1>10, <1>11 DEF CallStep

\* assertQuota, when the bucket has room.
LEMMA OwnerIsAskedNext ==
  ASSUME SpaceInv, NEW c \in Call, NEW sum \in Nat, CheckOwner(c, sum), UNCHANGED job, job[c].op # "complete",
         call[c].ctx.quota = None \/ sum + Bytes(c) =< call[c].ctx.quota
  PROVE  Admitted(c)'
<1> DEFINE quota == ownerQuota[call[c].ctx.owner]
           x == [call[c] EXCEPT !.quota = quota, !.bucketSum = sum]
           y == IF quota = None THEN Passed(x) ELSE [x EXCEPT !.at = "owner"]
<1>1. call[c] \in CallState /\ call \in [Call -> CallState]
  BY CallsAreTyped
<1>2. DOMAIN call[c] = {"at", "ctx", "source", "key", "payload", "written", "quota", "bucketSum", "ownerSum", "keys", "doomed"}
  BY <1>1 DEF CallState
<1> HIDE DEF quota
<1>3. call' = [call EXCEPT ![c] = y]
  BY DEF CheckOwner, quota
<1>4. call'[c] = y
  BY <1>1, <1>3
<1>5. /\ y.ctx = call[c].ctx /\ y.payload = call[c].payload /\ y.bucketSum = sum /\ y.quota = quota
      /\ y.written /\ y.at \in {"owner", "ownerParts", "commit"} => call[c].written
      /\ y.at = "commit" => quota = None
  BY <1>1, <1>2 DEF Passed
<1> HIDE DEF y, x
<1>6. call'[c].written /\ call'[c].at \in {"owner", "ownerParts", "commit"} => Bytes(c)' = Bytes(c)
  BY <1>4, <1>5 DEF Bytes
<1> QED BY <1>4, <1>5, <1>6 DEF Admitted

\* assertQuota: whoever is let in has been found room for.
LEMMA AdmittedKeeps ==
  ASSUME SpaceInv, NEW c \in Call, Admitted(c), CallStep(c) \/ Fail(c)
  PROVE  Admitted(c)'
<1>1. UNCHANGED job
  BY StepsAreOnesOwn
<1>2. /\ call[c] \in CallState /\ call \in [Call -> CallState] /\ Placed(job[c], call[c]) /\ call[c].quota \in Quota
      /\ call[c].bucketSum \in Nat /\ call[c].ownerSum \in Nat
  BY CallsAreTyped
<1>3. DOMAIN call[c] = {"at", "ctx", "source", "key", "payload", "written", "quota", "bucketSum", "ownerSum", "keys", "doomed"}
  BY <1>2 DEF CallState
<1>4. Bytes(c) \in Nat
  BY BytesAreANumber
<1>5. call[c].at \in Writing \ {"commit"} => job[c].op # "complete" /\ call[c].ctx.quota \in Quota
  <2>1. call[c].at \in Writing \ {"commit"} => job[c].op # "complete" /\ call[c].ctx \in BucketRow
    BY <1>2 DEF Placed, Underway, Writing, Ended
  <2> QED BY <2>1 DEF BucketRow
<1>6. CASE CheckBucket(c)
  <2>1. call[c].at \in Writing \ {"commit"}
    BY <1>6 DEF CheckBucket, Writing
  <2>2. CASE call[c].ctx.quota = None /\ CheckOwner(c, 0)
    BY <1>1, <1>5, <2>1, <2>2, OwnerIsAskedNext
  <2>3. CASE call' = [call EXCEPT ![c].at = "bucketParts", ![c].bucketSum = VersionBytes(Target(c))]
    <3>1. call'[c].at = "bucketParts"
      BY <1>2, <1>3, <2>3
    <3> QED BY <1>1, <1>5, <2>1, <3>1 DEF Admitted
  <2> QED BY <1>6, <2>2, <2>3 DEF CheckBucket
<1>7. CASE CheckBucketParts(c)
  <2> DEFINE bytes == call[c].bucketSum + PartBytes(Target(c))
  <2>1. call[c].at \in Writing \ {"commit"} /\ call[c].at = "bucketParts"
    BY <1>7 DEF CheckBucketParts, Writing
  <2>2. bytes \in Nat
    BY <1>2, UsageIsANumber
  <2>3. CASE Goto(c, "refused")
    <3>1. call'[c].at = "refused"
      BY <1>2, <1>3, <2>3 DEF Goto
    <3> QED BY <1>1, <1>5, <2>1, <3>1 DEF Admitted
  <2>4. CASE ~Over(c, bytes, call[c].ctx.quota) /\ CheckOwner(c, bytes)
    <3> HIDE DEF bytes
    <3>1. call[c].ctx.quota = None \/ bytes + Bytes(c) =< call[c].ctx.quota
      BY <1>4, <1>5, <2>1, <2>2, <2>4 DEF Over, Quota
    <3> QED BY <1>1, <1>5, <2>1, <2>2, <2>4, <3>1, OwnerIsAskedNext
  <2> QED BY <1>7, <2>3, <2>4 DEF CheckBucketParts
<1>8. CASE ReadOwnersVersions(c)
  <2>1. call[c].at \in Writing \ {"commit"} /\ call[c].at = "owner"
    BY <1>8 DEF ReadOwnersVersions, Writing
  <2>2. /\ call'[c].at = "ownerParts" /\ call'[c].ctx = call[c].ctx /\ call'[c].written = call[c].written
        /\ call'[c].payload = call[c].payload /\ call'[c].bucketSum = call[c].bucketSum
    BY <1>2, <1>3, <1>8 DEF ReadOwnersVersions
  <2>3. Bytes(c)' = Bytes(c)
    BY <1>1, <2>2 DEF Bytes
  <2> QED BY <1>1, <1>5, <2>1, <2>2, <2>3 DEF Admitted
<1>9. CASE CheckOwnersParts(c)
  <2> DEFINE bytes == call[c].ownerSum + SumFunction([b \in Owned(call[c].ctx.owner) |-> PartBytes(b)])
             x == [call[c] EXCEPT !.ownerSum = bytes]
  <2>1. call[c].at \in Writing \ {"commit"} /\ call[c].at = "ownerParts"
    BY <1>9 DEF CheckOwnersParts, Writing
  <2>2. bytes \in Nat
    BY <1>2, UsageIsANumber
  <2>3. Goto(c, "refused") \/ (~Over(c, bytes, call[c].quota) /\ call' = [call EXCEPT ![c] = Passed(x)])
    BY <1>9 DEF CheckOwnersParts
  <2>4. CASE Goto(c, "refused")
    <3>1. call'[c].at = "refused"
      BY <1>2, <1>3, <2>4 DEF Goto
    <3> QED BY <1>1, <1>5, <2>1, <3>1 DEF Admitted
  <2>5. CASE ~Over(c, bytes, call[c].quota) /\ call' = [call EXCEPT ![c] = Passed(x)]
    <3> HIDE DEF bytes
    <3>1. call[c].quota = None \/ bytes + Bytes(c) =< call[c].quota
      BY <1>2, <1>4, <2>2, <2>5 DEF Over, Quota
    <3>2. /\ call'[c].ctx = call[c].ctx /\ call'[c].payload = call[c].payload /\ call'[c].bucketSum = call[c].bucketSum
          /\ call'[c].ownerSum = bytes /\ call'[c].quota = call[c].quota
          /\ call'[c].at \in {"owner", "ownerParts", "commit"} => call[c].written /\ call'[c].written
      BY <1>2, <1>3, <2>5 DEF Passed
    <3>3. call'[c].at \in {"owner", "ownerParts", "commit"} => Bytes(c)' = Bytes(c)
      BY <1>1, <3>2 DEF Bytes
    <3> QED BY <1>1, <1>5, <2>1, <3>1, <3>2, <3>3 DEF Admitted
  <2> QED BY <2>3, <2>4, <2>5
<1>10. CASE ~CheckBucket(c) /\ ~CheckBucketParts(c) /\ ~ReadOwnersVersions(c) /\ ~CheckOwnersParts(c)
  <2>1. /\ call'[c].written => call[c].written
        /\ call'[c].at \in {"owner", "ownerParts", "commit"} => job[c].op = "complete"
    BY <1>10, RestAdmitsNothing
  <2> QED BY <1>1, <2>1 DEF Admitted
<1> QED BY <1>6, <1>7, <1>8, <1>9, <1>10

\* A version before those that were there, in other words.
Precedes(v, s, r) ==
    /\ 1 \in DOMAIN r /\ r[1] = v
    /\ \E m \in [DOMAIN r \ {1} -> DOMAIN s] :
         /\ \A i, j \in DOMAIN r \ {1} : m[i] = m[j] => i = j
         /\ \A i \in DOMAIN r \ {1} : r[i] = s[m[i]]

\* commitVersion: the versions that were there follow the new one, the null version perhaps not.
LEMMA WithVersionPrecedes ==
  ASSUME NEW s \in Versions, NEW v \in Version, \A w \in Range(s) : w.id = v.id => v.id = NullId
  PROVE  Precedes(v, s, WithVersion(s, v))
<1>1. /\ \E m \in [DOMAIN WithVersion(s, v) \ {1} -> DOMAIN s] :
           /\ \A i, j \in DOMAIN WithVersion(s, v) \ {1} : m[i] = m[j] => i = j
           /\ \A i \in DOMAIN WithVersion(s, v) \ {1} : WithVersion(s, v)[i] = s[m[i]]
      /\ 1 \in DOMAIN WithVersion(s, v) /\ WithVersion(s, v)[1] = v
  BY WithVersionAdds, ZenonT(60)
<1> QED BY <1>1 DEF Precedes

\* commitVersion: a bucket grows by the new version at most.
LEMMA OneVersionMore ==
  ASSUME NEW t \in [Bucket -> [Key -> Versions]], NEW now \in [Bucket -> [Key -> Versions]], NEW b \in Bucket,
         NEW k \in Key, NEW v \in Version, \A w \in Range(t[b][k]) : w.id = v.id => v.id = NullId,
         now[b][k] = WithVersion(t[b][k], v), \A i \in Key : i # k => now[b][i] = t[b][i]
  PROVE  SumFunction(Weights(now, b)) =< SumFunction(Weights(t, b)) + Weight(v.payload)
<1> DEFINE S == Held(t, b)
           R == Held(now, b)
           a == <<k, 1>>
<1>1. /\ IsFiniteSet(S) /\ Weights(t, b) \in [S -> Nat]
      /\ \A r : r \in S <=> \E i \in Key : \E n \in DOMAIN t[b][i] : r = <<i, n>>
  BY VersionsHaveSizes
<1>2. /\ IsFiniteSet(R) /\ Weights(now, b) \in [R -> Nat]
      /\ \A r : r \in R <=> \E i \in Key : \E n \in DOMAIN now[b][i] : r = <<i, n>>
  BY VersionsHaveSizes
<1>3. /\ \E m \in [DOMAIN now[b][k] \ {1} -> DOMAIN t[b][k]] :
           /\ \A i, j \in DOMAIN now[b][k] \ {1} : m[i] = m[j] => i = j
           /\ \A i \in DOMAIN now[b][k] \ {1} : now[b][k][i] = t[b][k][m[i]]
      /\ 1 \in DOMAIN now[b][k] /\ now[b][k][1] = v
  <2>1. t[b][k] \in Versions
    OBVIOUS
  <2>2. Precedes(v, t[b][k], WithVersion(t[b][k], v))
    BY <2>1, WithVersionPrecedes
  <2> QED BY <2>2 DEF Precedes
<1>4. PICK m \in [DOMAIN now[b][k] \ {1} -> DOMAIN t[b][k]] :
           /\ \A i, j \in DOMAIN now[b][k] \ {1} : m[i] = m[j] => i = j
           /\ \A i \in DOMAIN now[b][k] \ {1} : now[b][k][i] = t[b][k][m[i]]
  BY <1>3
<1> DEFINE n == [r \in R \ {a} |-> IF r[1] = k THEN <<k, m[r[2]]>> ELSE r]
<1>5. \A r \in R \ {a} : \E i \in Key : \E p \in DOMAIN now[b][i] : r = <<i, p>> /\ (i = k => p # 1)
  BY <1>2
<1>6. ASSUME NEW r \in R \ {a}
      PROVE  n[r] \in S /\ Weights(now, b)[r] = Weights(t, b)[n[r]]
  <2>1. PICK i \in Key : \E p \in DOMAIN now[b][i] : r = <<i, p>> /\ (i = k => p # 1)
    BY <1>5
  <2>2. PICK p \in DOMAIN now[b][i] : r = <<i, p>> /\ (i = k => p # 1)
    BY <2>1
  <2>3. r[1] = i /\ r[2] = p /\ Weights(now, b)[r] = Weight(now[b][i][p].payload)
    BY <2>2 DEF Weights
  <2>4. CASE i = k
    <3>1. n[r] = <<k, m[p]>> /\ p \in DOMAIN now[b][k] \ {1}
      BY <2>2, <2>3, <2>4
    <3>2. m[p] \in DOMAIN t[b][k] /\ now[b][k][p] = t[b][k][m[p]]
      BY <1>4, <3>1
    <3> HIDE DEF n
    <3>3. n[r] \in S
      BY <1>1, <3>1, <3>2
    <3>4. Weights(t, b)[n[r]] = Weight(t[b][k][m[p]].payload)
      BY <3>1, <3>3 DEF Weights
    <3> QED BY <2>3, <2>4, <3>2, <3>3, <3>4
  <2>5. CASE i # k
    <3>1. n[r] = r /\ now[b][i] = t[b][i]
      BY <2>3, <2>5
    <3> HIDE DEF n
    <3>2. r \in S
      BY <1>1, <2>2, <3>1
    <3>3. Weights(t, b)[r] = Weight(t[b][i][p].payload)
      BY <2>3, <3>2 DEF Weights
    <3> QED BY <2>3, <3>1, <3>2, <3>3
  <2> QED BY <2>4, <2>5
<1>7. \A r, s \in R \ {a} : n[r] = n[s] => r = s
  <2> TAKE r, s \in R \ {a}
  <2> HAVE n[r] = n[s]
  <2>1. PICK i \in Key : \E p \in DOMAIN now[b][i] : r = <<i, p>> /\ (i = k => p # 1)
    BY <1>5
  <2>2. PICK p \in DOMAIN now[b][i] : r = <<i, p>> /\ (i = k => p # 1)
    BY <2>1
  <2>3. PICK j \in Key : \E q \in DOMAIN now[b][j] : s = <<j, q>> /\ (j = k => q # 1)
    BY <1>5
  <2>4. PICK q \in DOMAIN now[b][j] : s = <<j, q>> /\ (j = k => q # 1)
    BY <2>3
  <2>5. n[r] = IF i = k THEN <<k, m[p]>> ELSE <<i, p>>
    BY <2>2
  <2>6. n[s] = IF j = k THEN <<k, m[q]>> ELSE <<j, q>>
    BY <2>4
  <2> HIDE DEF n
  <2>7. i = j
    <3>1. n[r][1] = i
      BY <2>5
    <3>2. n[s][1] = j
      BY <2>6
    <3> QED BY <3>1, <3>2
  <2>8. CASE i = k
    <3>1. m[p] = m[q] /\ p \in DOMAIN now[b][k] \ {1} /\ q \in DOMAIN now[b][k] \ {1}
      BY <2>2, <2>4, <2>5, <2>6, <2>7, <2>8
    <3> QED BY <1>4, <2>2, <2>4, <2>7, <3>1
  <2>9. CASE i # k
    BY <2>2, <2>4, <2>5, <2>6, <2>7, <2>9
  <2> QED BY <2>8, <2>9
<1>8. a \in R /\ Weights(now, b)[a] = Weight(v.payload)
  <2>1. a \in R
    BY <1>2, <1>3
  <2> QED BY <1>3, <2>1 DEF Weights
<1>9. n \in [R \ {a} -> S]
  BY <1>6
<1>10. \A r \in R \ {a} : Weights(now, b)[r] =< Weights(t, b)[n[r]]
  <2> TAKE r \in R \ {a}
  <2>1. Weights(now, b)[r] = Weights(t, b)[n[r]] /\ Weights(now, b)[r] \in Nat
    BY <1>2, <1>6
  <2> QED BY <2>1
<1> HIDE DEF S, R, a, n
<1>11. SumFunction(Weights(now, b)) =< SumFunction(Weights(t, b)) + Weights(now, b)[a]
  <2>1. Fits(Weights(t, b), S, Weights(now, b), R, a, n)
    BY <1>1, <1>2, <1>7, <1>8, <1>9, <1>10 DEF Fits
  <2> QED BY <2>1, SumsGrowByOne
<1> QED BY <1>8, <1>11

\* uploadPart: the parts grow by the new one at most.
LEMMA OnePartMore ==
  ASSUME NEW p \in SUBSET Part, NEW n \in Part
  PROVE  /\ SumFunction([i \in p \cup {n} |-> Size[i]]) =< SumFunction([i \in p |-> Size[i]]) + Size[n]
         /\ SumFunction([i \in p |-> Size[i]]) \in Nat /\ SumFunction([i \in p \cup {n} |-> Size[i]]) \in Nat
<1> DEFINE R == p \cup {n}
           f == [i \in p |-> Size[i]]
           h == [i \in R |-> Size[i]]
           m == [i \in R \ {n} |-> i]
<1>1. /\ IsFiniteSet(p) /\ IsFiniteSet(R)
  BY PartsAssumption, FS_Subset
<1>2. f \in [p -> Nat] /\ h \in [R -> Nat] /\ h[n] = Size[n] /\ n \in R
  BY SpaceAssumption
<1>3. m \in [R \ {n} -> p] /\ \A i, j \in R \ {n} : m[i] = m[j] => i = j
  OBVIOUS
<1>4. \A i \in R \ {n} : h[i] =< f[m[i]]
  BY <1>2
<1>5. SumFunction(f) \in Nat /\ SumFunction(h) \in Nat
  <2> HIDE DEF f, h, R
  <2> QED BY <1>1, <1>2, SumsAreNumbers
<1>6. SumFunction(h) =< SumFunction(f) + h[n]
  <2> HIDE DEF f, h, R, m
  <2>1. Fits(f, p, h, R, n, m)
    BY <1>1, <1>2, <1>3, <1>4 DEF Fits
  <2> QED BY <2>1, SumsGrowByOne
<1> QED BY <1>2, <1>5, <1>6

\* The bytes of a bucket are those of the tables.
LEMMA SameTables ==
  ASSUME NEW b, UNCHANGED <<uploads, parts>>
  PROVE  PartBytes(b)' = PartBytes(b)
BY DEF PartBytes, InProgress

\* A write adds to one bucket the bytes that the call brings, and to the others nothing.
LEMMA WritesGrow ==
  ASSUME SpaceInv, SpaceInv', NEW c \in Call, call[c].written, Commit(c) \/ StorePart(c)
  PROVE  \E a \in Bucket :
           /\ Usage(a)' =< Usage(a) + Bytes(c)
           /\ \A b \in Bucket : b # a => Usage(b)' = Usage(b)
<1>1. /\ table \in [Bucket -> [Key -> Versions]] /\ parts \in SUBSET Part
      /\ table' \in [Bucket -> [Key -> Versions]] /\ parts' \in SUBSET Part
  BY DEF SpaceInv, TypeOK, ListingsTypeOK
<1>2. /\ \A b \in Bucket : VersionBytes(b) = SumFunction(Weights(table, b))
      /\ \A b \in Bucket : VersionBytes(b) \in Nat /\ PartBytes(b) \in Nat /\ Bytes(c) \in Nat
  BY <1>1, BytesAreNumbers, BytesAreANumber
<1>3. \A b \in Bucket : VersionBytes(b)' = SumFunction(Weights(table', b)) /\ VersionBytes(b)' \in Nat
  <2> TAKE b \in Bucket
  <2>1. VersionBytes(b)' = SumFunction(Weights(table', b))
    BY DEF VersionBytes, Weights, Held
  <2>2. IsFiniteSet(Held(table', b)) /\ Weights(table', b) \in [Held(table', b) -> Nat]
    BY <1>1, VersionsHaveSizes
  <2>3. SumFunction(Weights(table', b)) \in Nat
    BY <2>2, SumsAreNumbers
  <2> QED BY <2>1, <2>3
<1>4. CASE Commit(c)
  <2>0. PICK a \in Bucket : a = Target(c)
    BY UsageIsANumber
  <2> DEFINE x == call[c]
             v == [id |-> NewId(x.ctx), payload |-> x.payload]
  <2>1. /\ x.key \in Key /\ v \in Version /\ WithVersion(table[a][x.key], v) \in Versions
        /\ \A w \in Range(table[a][x.key]) : w.id = v.id => v.id = NullId
        /\ Leaves(c, a, x.key, WithVersion(table[a][x.key], v))
    BY <1>4, <2>0, CommitWrites
  <2>2. Bytes(c) = Weight(x.payload) /\ v.payload = x.payload
    BY <1>4 DEF Commit, Bytes
  <2> HIDE DEF v, x
  <2>3. /\ table'[a][x.key] = WithVersion(table[a][x.key], v)
        /\ \A b \in Bucket, i \in Key : b # a \/ i # x.key => table'[b][i] = table[b][i]
        /\ UNCHANGED <<uploads, parts>>
    BY <2>1, LeavesKeeps
  <2>4. SumFunction(Weights(table', a)) =< SumFunction(Weights(table, a)) + Weight(v.payload)
    BY <1>1, <2>1, <2>3, OneVersionMore
  <2>5. \A b \in Bucket : PartBytes(b)' = PartBytes(b)
    BY <2>3, SameTables
  <2>6. Usage(a)' =< Usage(a) + Bytes(c)
    <3>1. VersionBytes(a)' =< VersionBytes(a) + Bytes(c)
      BY <1>2, <1>3, <2>1, <2>2, <2>4
    <3>2. Usage(a)' = VersionBytes(a)' + PartBytes(a)'
      BY DEF Usage
    <3> QED BY <1>2, <1>3, <2>1, <2>5, <3>1, <3>2 DEF Usage
  <2>7. ASSUME NEW b \in Bucket, b # a PROVE Usage(b)' = Usage(b)
    <3>1. table'[b] = table[b]
      BY <1>1, <2>3, <2>7
    <3>2. Weights(table', b) = Weights(table, b)
      BY <3>1 DEF Weights, Held
    <3>3. VersionBytes(b)' = VersionBytes(b)
      BY <1>2, <1>3, <3>2
    <3> QED BY <2>5, <3>3 DEF Usage
  <2> QED BY <2>1, <2>6, <2>7
<1>5. CASE StorePart(c)
  <2> DEFINE n == job[c].value
             a == UploadBucket
  <2>1. /\ job[c].op = "uploadPart" /\ n \in Part
        /\ UNCHANGED <<table, uploads>> /\ parts' = parts \cup {n}
    BY <1>5, CallsAreTyped DEF StorePart, Becomes, WellAsked
  <2>2. Bytes(c) = Size[n]
    BY <2>1 DEF Bytes
  <2>3. a \in Bucket
    BY SpaceAssumption
  <2>4. \A b \in Bucket : VersionBytes(b)' = VersionBytes(b)
    BY <1>2, <1>3, <2>1
  <2>5. ASSUME NEW b \in Bucket, b # a PROVE Usage(b)' = Usage(b)
    <3>1. PartBytes(b)' = 0 /\ PartBytes(b) = 0
      BY <2>5 DEF PartBytes
    <3> QED BY <2>4, <3>1 DEF Usage
  <2> HIDE DEF n
  <2>6. PartBytes(a)' =< PartBytes(a) + Size[n] /\ PartBytes(a)' \in Nat /\ Size[n] \in Nat
    <3>1. /\ SumFunction([i \in parts \cup {n} |-> Size[i]]) =< SumFunction([i \in parts |-> Size[i]]) + Size[n]
          /\ SumFunction([i \in parts |-> Size[i]]) \in Nat /\ SumFunction([i \in parts \cup {n} |-> Size[i]]) \in Nat
      BY <1>1, <2>1, OnePartMore
    <3>2. PartBytes(a) = IF InProgress THEN SumFunction([i \in parts |-> Size[i]]) ELSE 0
      BY DEF PartBytes
    <3>3. PartBytes(a)' = IF InProgress' THEN SumFunction([i \in parts' |-> Size[i]]) ELSE 0
      BY DEF PartBytes
    <3>4. InProgress' = InProgress
      BY <2>1 DEF InProgress
    <3>5. Size[n] \in Nat
      BY <2>1, SpaceAssumption
    <3>6. SumFunction([i \in parts' |-> Size[i]]) = SumFunction([i \in parts \cup {n} |-> Size[i]])
      BY <2>1
    <3> QED BY <3>1, <3>2, <3>3, <3>4, <3>5, <3>6
  <2>7. Usage(a)' =< Usage(a) + Bytes(c)
    <3>1. Usage(a)' = VersionBytes(a)' + PartBytes(a)'
      BY DEF Usage
    <3> QED BY <1>2, <2>2, <2>3, <2>4, <2>6, <3>1 DEF Usage
  <2> QED BY <2>3, <2>5, <2>7
<1> QED BY <1>4, <1>5

\* Usage after a step is a number too.
LEMMA UsagesAreNumbersThen ==
  ASSUME SpaceInv', NEW b \in Bucket
  PROVE  Usage(b)' \in Nat
<1>1. table' \in [Bucket -> [Key -> Versions]] /\ parts' \in SUBSET Part
  BY DEF SpaceInv, TypeOK, ListingsTypeOK
<1>2. VersionBytes(b)' = SumFunction(Weights(table', b))
  BY DEF VersionBytes, Weights, Held
<1>3. IsFiniteSet(Held(table', b)) /\ Weights(table', b) \in [Held(table', b) -> Nat]
  BY <1>1, VersionsHaveSizes
<1>4. VersionBytes(b)' \in Nat
  BY <1>2, <1>3, SumsAreNumbers
<1>5. PartBytes(b)' \in Nat
  <2>1. IsFiniteSet(parts')
    BY <1>1, PartsAssumption, FS_Subset
  <2>2. [n \in parts' |-> Size[n]] \in [parts' -> Nat]
    BY <1>1, SpaceAssumption
  <2>3. SumFunction([n \in parts' |-> Size[n]]) \in Nat
    BY <2>1, <2>2, SumsAreNumbers
  <2>4. PartBytes(b)' = IF b = UploadBucket /\ InProgress' THEN SumFunction([n \in parts' |-> Size[n]]) ELSE 0
    BY DEF PartBytes
  <2> QED BY <2>3, <2>4
<1>6. Usage(b)' = VersionBytes(b)' + PartBytes(b)'
  BY DEF Usage
<1> QED BY <1>4, <1>5, <1>6

\* The owner's buckets grow by no more.
LEMMA OwnersGrow ==
  ASSUME SpaceInv, SpaceInv', NEW c \in Call, UNCHANGED buckets, NEW u, NEW more \in Nat,
         \E a \in Bucket : /\ Usage(a)' =< Usage(a) + more
                           /\ \A b \in Bucket : b # a => Usage(b)' = Usage(b)
  PROVE  OwnersUsage(u)' =< OwnersUsage(u) + more /\ OwnersUsage(u) \in Nat /\ OwnersUsage(u)' \in Nat
<1>1. PICK a \in Bucket : /\ Usage(a)' =< Usage(a) + more
                          /\ \A b \in Bucket : b # a => Usage(b)' = Usage(b)
  OBVIOUS
<1> DEFINE S == Owned(u)
           f == [b \in S |-> Usage(b)]
           h == [b \in S |-> Usage(b)']
<1>2. table \in [Bucket -> [Key -> Versions]] /\ parts \in SUBSET Part
  BY DEF SpaceInv, TypeOK, ListingsTypeOK
<1>3. /\ \A b \in Bucket : Usage(b) \in Nat
      /\ S \in SUBSET Bucket /\ IsFiniteSet(S) /\ OwnersUsage(u) \in Nat
  BY <1>2, BytesAreNumbers
<1>4. \A b \in Bucket : Usage(b)' \in Nat
  BY UsagesAreNumbersThen
<1>5. OwnersUsage(u) = SumFunction(f)
  BY DEF OwnersUsage
<1>6. OwnersUsage(u)' = SumFunction(h)
  <2>1. Owned(u)' = S
    BY DEF Owned
  <2>2. OwnersUsage(u)' = SumFunction([b \in Owned(u)' |-> Usage(b)'])
    BY DEF OwnersUsage
  <2> QED BY <2>1, <2>2
<1>7. f \in [S -> Nat] /\ h \in [S -> Nat]
  BY <1>3, <1>4
<1>8. /\ \A b \in S : b # a => h[b] =< f[b]
      /\ a \in S => h[a] =< f[a] + more
  <2>1. ASSUME NEW b \in S, b # a PROVE h[b] =< f[b]
    <3>1. Usage(b)' = Usage(b) /\ Usage(b) \in Nat
      BY <1>1, <1>3, <2>1
    <3> QED BY <3>1
  <2> QED BY <1>1, <2>1
<1> HIDE DEF S, f, h
<1>9. SumFunction(h) =< SumFunction(f) + more
  BY <1>3, <1>7, <1>8, SumsGrow
<1>10. SumFunction(h) \in Nat
  BY <1>3, <1>7, SumsAreNumbers
<1> QED BY <1>3, <1>5, <1>6, <1>9, <1>10

\* A commit that fails adds nothing.
LEMMA FailuresAddNothing ==
  ASSUME SpaceInv, SpaceInv', NEW c \in Call, Fail(c)
  PROVE  UNCHANGED buckets /\ \A a \in Bucket : Usage(a)' = Usage(a) /\ Usage(a) \in Nat
<1>1. UNCHANGED <<buckets, table, uploads, parts>>
  BY DEF Fail, settings, listingVars, tables
<1>2. \A a \in Bucket : Usage(a) \in Nat
  BY UsageIsANumber
<1>3. ASSUME NEW a \in Bucket PROVE Usage(a)' = Usage(a)
  <2>1. VersionBytes(a)' = VersionBytes(a)
    BY <1>1 DEF VersionBytes
  <2>2. PartBytes(a)' = PartBytes(a)
    BY <1>1, SameTables
  <2> QED BY <2>1, <2>2 DEF Usage
<1> QED BY <1>1, <1>2, <1>3

\* What a step of a call at its commit may do to a bucket and to an owner's buckets.
LEMMA CommitsOvershootByStaleSums ==
  ASSUME SpaceInv, SpaceInv', NEW c \in Call, Admitted(c), Commit(c) \/ StorePart(c) \/ Fail(c),
         call[c].at = "commit", call[c].written, NEW b \in Bucket, b = Target(c), NEW u, u = call[c].ctx.owner,
         Alive(b)
  PROVE  /\ Exceeds(Usage(b)', Usage(b), buckets[b].quota) =>
              call[c].ctx.quota # buckets[b].quota \/ call[c].bucketSum # Usage(b)
         /\ Exceeds(OwnersUsage(u)', OwnersUsage(u), ownerQuota[u]) =>
              call[c].quota # ownerQuota[u] \/ call[c].ownerSum # OwnersUsage(u)
<1> DEFINE x == call[c]
<1>1. /\ x.ctx.quota = None \/ x.bucketSum + Bytes(c) =< x.ctx.quota
      /\ x.quota = None \/ x.ownerSum + Bytes(c) =< x.quota
  BY DEF Admitted
<1>2. /\ x.ctx \in BucketRow /\ x.quota \in Quota /\ x.bucketSum \in Nat /\ x.ownerSum \in Nat /\ Bytes(c) \in Nat
      /\ Placed(job[c], x)
  <2>1. Placed(job[c], x) /\ Underway(x) /\ x.quota \in Quota /\ x.bucketSum \in Nat /\ x.ownerSum \in Nat
    BY CallsAreTyped DEF Underway, Ended
  <2>2. x.ctx \in BucketRow
    BY <2>1 DEF Placed
  <2> QED BY <2>1, <2>2, BytesAreANumber
<1>3. x.ctx.quota \in Quota
  BY <1>2 DEF BucketRow
<1>4. UNCHANGED buckets
  BY DEF Commit, StorePart, Fail, settings
<1>5. \E a \in Bucket :
        /\ Usage(a)' =< Usage(a) + Bytes(c)
        /\ \A d \in Bucket : d # a => Usage(d)' = Usage(d)
  <2>1. CASE Commit(c) \/ StorePart(c)
    BY <2>1, WritesGrow
  <2>2. CASE Fail(c)
    <3>1. \A a \in Bucket : Usage(a)' = Usage(a) /\ Usage(a) \in Nat
      BY <2>2, FailuresAddNothing
    <3>2. Usage(b)' =< Usage(b) + Bytes(c)
      BY <1>2, <3>1
    <3> QED BY <3>1, <3>2
  <2> QED BY <2>1, <2>2
<1>6. /\ OwnersUsage(u)' =< OwnersUsage(u) + Bytes(c) /\ OwnersUsage(u) \in Nat /\ OwnersUsage(u)' \in Nat
  BY <1>2, <1>4, <1>5, OwnersGrow
<1>7. Usage(b) \in Nat /\ Usage(b)' \in Nat /\ Usage(b)' =< Usage(b) + Bytes(c)
  <2>1. Usage(b) \in Nat
    BY UsageIsANumber
  <2>2. Usage(b)' \in Nat
    BY UsagesAreNumbersThen
  <2>3. Usage(b)' =< Usage(b) + Bytes(c)
    <3>1. PICK a \in Bucket : /\ Usage(a)' =< Usage(a) + Bytes(c)
                              /\ \A d \in Bucket : d # a => Usage(d)' = Usage(d)
      BY <1>5
    <3> QED BY <1>2, <2>1, <3>1
  <2> QED BY <2>1, <2>2, <2>3
<1>8. ASSUME Exceeds(Usage(b)', Usage(b), buckets[b].quota), x.ctx.quota = buckets[b].quota, x.bucketSum = Usage(b)
      PROVE  FALSE
  <2>1. x.ctx.quota # None /\ Usage(b)' > x.ctx.quota
    BY <1>8 DEF Exceeds
  <2>2. x.ctx.quota \in Nat /\ Usage(b) + Bytes(c) =< x.ctx.quota
    BY <1>1, <1>3, <1>8, <2>1 DEF Quota
  <2> HIDE DEF x
  <2> QED BY <1>2, <1>7, <2>1, <2>2
<1>9. ASSUME Exceeds(OwnersUsage(u)', OwnersUsage(u), ownerQuota[u]), x.quota = ownerQuota[u],
             x.ownerSum = OwnersUsage(u)
      PROVE  FALSE
  <2>1. x.quota # None /\ OwnersUsage(u)' > x.quota
    BY <1>9 DEF Exceeds
  <2>2. x.quota \in Nat /\ OwnersUsage(u) + Bytes(c) =< x.quota
    BY <1>1, <1>2, <1>9, <2>1 DEF Quota
  <2> HIDE DEF x
  <2> QED BY <1>2, <1>6, <2>1, <2>2
<1> QED BY <1>8, <1>9

\* Whoever leaves its commit has committed, stored a part, or failed.
LEMMA CommitsEndSo ==
  ASSUME SpaceInv, NEW c \in Call, NEW d \in Call, CallStep(d) \/ Fail(d), call[c].at = "commit", call'[c].at # "commit"
  PROVE  c = d /\ (Commit(c) \/ StorePart(c) \/ Fail(c)) /\ call'[c].ctx = call[c].ctx
<1>1. c = d
  BY StepsAreOnesOwn
<1>2. call \in [Call -> CallState] /\ call[c] \in CallState
  BY CallsAreTyped
<1>3. Commit(c) \/ StorePart(c) \/ Fail(c)
  BY <1>1 DEF CallStep, Resolve, CheckBucket, CheckBucketParts, ReadOwnersVersions, CheckOwnersParts, FindFolder,
              ListKeys, CopyNext, DeleteNext, JoinParts, RetireUpload, DropParts, CreateBucket, CountObjects, DropBucket, Set
<1>4. call'[c].ctx = call[c].ctx
  BY <1>2, <1>3 DEF Commit, StorePart, Fail, Goto, CallState
<1> QED BY <1>1, <1>3, <1>4

-----------------------------------------------------------------------------
(* Moves. *)

\* What is latest at a key is latest at its destination, or the call has it in its hands.
Moved(c, k) ==
    LET j == job[c]
        x == call[c]
        from == table[j.bucket][k]
        to == table[j.into][Destination(j, k)] IN
    \/ x.at \in Writing /\ x.key = Destination(j, k) /\ x.payload = Head(from).payload
    \/ ~(x.at \in Writing /\ x.key = Destination(j, k)) /\ to # <<>> /\ Head(to).payload = Head(from).payload

\* A move has copied the keys it has read, but for those that others wrote.
Moving(c) ==
    LET j == job[c]
        x == call[c] IN
    j.op = "move" /\ x.at \in Writing \cup {"next", "delete"} =>
      /\ x.at \in Writing => \E k \in x.doomed \ x.keys : x.key = Destination(j, k)
      /\ \A k \in (x.doomed \ x.keys) \ excused[c] : Visible(table, j.bucket, k) => Moved(c, k)

\* Where the keys of a move are and go.
LEMMA MovesHavePlaces ==
  ASSUME SpaceInv, NEW c \in Call, LeadsAway(job[c]), job[c].op = "move", call[c].at \in Writing \cup {"next", "delete"}
  PROVE  /\ call[c].keys \subseteq call[c].doomed /\ call[c].doomed \subseteq Sources(job[c]) /\ Sources(job[c]) \subseteq Key
         /\ \A k \in Sources(job[c]) : Destination(job[c], k) \in Key
         /\ \A i, k \in Sources(job[c]) : /\ job[c].bucket = job[c].into => Destination(job[c], i) # k
                                          /\ Destination(job[c], i) = Destination(job[c], k) => i = k
         /\ job[c].bucket \in Bucket /\ job[c].into \in Bucket
         /\ call[c].at = "delete" => call[c].keys = {}
<1>1. /\ WellAsked(job[c]) /\ Placed(job[c], call[c]) /\ job[c].bucket \in Bucket /\ job[c].into \in Bucket
  BY CallsAreTyped
<1>2. Underway(call[c]) /\ call[c].at # "keys"
  BY DEF Underway, Ended, Writing
<1>3. ~Refused(job[c])
  BY <1>1, <1>2 DEF Placed
<1>4. /\ Sources(job[c]) \subseteq Key /\ \A k \in Sources(job[c]) : Destination(job[c], k) \in Key
  BY <1>1, <1>3 DEF WellAsked
<1>5. \A i, k \in Sources(job[c]) : /\ job[c].bucket = job[c].into => Destination(job[c], i) # k
                                    /\ Destination(job[c], i) = Destination(job[c], k) => i = k
  BY <1>3 DEF LeadsAway
<1>6. /\ call[c].keys \subseteq call[c].doomed /\ call[c].doomed \subseteq Sources(job[c])
      /\ call[c].at = "delete" => call[c].keys = {}
  BY <1>1 DEF Placed
<1> QED BY <1>1, <1>4, <1>5, <1>6

\* What others write to a key or to its destination is excused.
LEMMA OthersLeaveMoves ==
  ASSUME SpaceInv, NEW d \in Call, LeadsAway(job[d]), Moving(d), NEW c \in Call, c # d, NEW b \in Bucket, NEW k \in Key,
         NEW versions \in Versions, Leaves(c, b, k, versions), UNCHANGED job, call'[d] = call[d]
  PROVE  Moving(d)'
<1> DEFINE j == job[d]
           x == call[d]
<1> SUFFICES ASSUME j.op = "move", x.at \in Writing \cup {"next", "delete"}
             PROVE  \A i \in (x.doomed \ x.keys) \ excused'[d] : Visible(table', j.bucket, i) => Moved(d, i)'
  BY DEF Moving
<1>1. excused'[d] = excused[d] \cup Excuses(d, b, k)
  BY DEF Leaves
<1>2. Excuses(d, b, k) = {i \in Sources(j) \ x.keys : (b = j.bucket /\ i = k) \/ (b = j.into /\ Destination(j, i) = k)}
  <2>1. x.at \notin {"start", "keys"}
    BY DEF Writing
  <2> QED BY <2>1 DEF Excuses
<1>3. \A a \in Bucket, i \in Key : a # b \/ i # k => table'[a][i] = table[a][i]
  BY LeavesKeeps
<1>4. /\ x.doomed \subseteq Sources(j) /\ Sources(j) \subseteq Key /\ \A i \in Sources(j) : Destination(j, i) \in Key
      /\ j.bucket \in Bucket /\ j.into \in Bucket
  BY MovesHavePlaces
<1>5. ASSUME NEW i \in (x.doomed \ x.keys) \ excused'[d], Visible(table', j.bucket, i)
      PROVE  Moved(d, i)'
  <2>1. ~((b = j.bucket /\ i = k) \/ (b = j.into /\ Destination(j, i) = k)) /\ i \notin excused[d]
    BY <1>1, <1>2, <1>4
  <2>2. table'[j.bucket][i] = table[j.bucket][i] /\ table'[j.into][Destination(j, i)] = table[j.into][Destination(j, i)]
    BY <1>3, <1>4, <2>1
  <2>3. Visible(table, j.bucket, i)
    BY <1>5, <2>2 DEF Visible
  <2>4. Moved(d, i)
    BY <2>1, <2>3 DEF Moving
  <2>5. Destination(j, i)' = Destination(j, i)
    BY DEF Destination
  <2> QED BY <2>2, <2>4, <2>5 DEF Moved
<1> QED BY <1>5

\* A key is written at its destination.
LEMMA CommitMoves ==
  ASSUME SpaceInv, NEW c \in Call, LeadsAway(job[c]), Moving(c), Commit(c)
  PROVE  Moving(c)' /\ lost' = lost
<1> DEFINE j == job[c]
           x == call[c]
<1>1. PICK b \in Bucket : b = Target(c)
  BY UsageIsANumber
<1>2. PICK v \in Version, versions \in Versions :
        /\ v.payload = x.payload /\ versions = WithVersion(table[b][x.key], v) /\ x.key \in Key
        /\ \A w \in Range(table[b][x.key]) : w.id = v.id => v.id = NullId
        /\ Leaves(c, b, x.key, versions)
  <2> DEFINE v == [id |-> NewId(x.ctx), payload |-> x.payload]
  <2>1. /\ x.key \in Key /\ v \in Version /\ WithVersion(table[b][x.key], v) \in Versions
        /\ \A w \in Range(table[b][x.key]) : w.id = v.id => v.id = NullId
        /\ Leaves(c, b, x.key, WithVersion(table[b][x.key], v))
    BY <1>1, CommitWrites
  <2>2. v.payload = x.payload
    OBVIOUS
  <2> HIDE DEF v, x
  <2> QED BY <2>1, <2>2
<1>3. /\ table'[b][x.key] = versions
      /\ \A a \in Bucket, i \in Key : a # b \/ i # x.key => table'[a][i] = table[a][i]
  BY <1>2, LeavesKeeps
<1>4. versions # <<>> /\ Head(versions).payload = x.payload
  <2>1. table[b][x.key] \in Versions
    BY <1>2 DEF SpaceInv, TypeOK, ListingsTypeOK
  <2>2. versions # <<>> /\ Head(versions) = v
    BY <1>2, <2>1, WithVersionAdds, ZenonT(60)
  <2> QED BY <1>2, <2>2
<1>5. CASE j.op # "move"
  <2>1. UNCHANGED job
    BY DEF Commit
  <2>2. lost' = lost
    BY <1>2, <1>5 DEF Leaves
  <2> QED BY <1>5, <2>1, <2>2 DEF Moving
<1>6. CASE j.op = "move"
  <2>1. x.at = "commit" /\ b = j.into /\ UNCHANGED job
    BY <1>1, <1>6 DEF Commit, Target
  <2>2. x.at \in Writing /\ x \in CallState /\ call \in [Call -> CallState]
    BY <2>1, CallsAreTyped DEF Writing
  <2>3. call'[c].keys = x.keys /\ call'[c].doomed = x.doomed /\ call'[c].at \in {"next", "delete"}
    BY <1>6, <2>2 DEF Commit, CallState
  <2>4. /\ x.keys \subseteq x.doomed /\ x.doomed \subseteq Sources(j) /\ Sources(j) \subseteq Key
        /\ \A k \in Sources(j) : Destination(j, k) \in Key
        /\ \A i, k \in Sources(j) : /\ j.bucket = j.into => Destination(j, i) # k
                                    /\ Destination(j, i) = Destination(j, k) => i = k
        /\ j.bucket \in Bucket /\ j.into \in Bucket
    BY <1>6, <2>2, MovesHavePlaces
  <2>5. PICK n \in x.doomed \ x.keys : x.key = Destination(j, n)
    BY <1>6, <2>2 DEF Moving
  <2>6. \A k \in x.doomed : ~(b = j.bucket /\ k = x.key)
    BY <2>1, <2>4, <2>5
  <2>7. lost' = lost
    <3>1. ~(b = j.bucket /\ x.key \in x.doomed)
      BY <2>6
    <3> QED BY <1>2, <3>1 DEF Leaves
  <2>8. excused'[c] = excused[c]
    BY <1>2 DEF Leaves
  <2>9. ASSUME NEW k \in (x.doomed \ x.keys) \ excused[c], Visible(table', j.bucket, k)
        PROVE  table'[j.into][Destination(j, k)] # <<>>
               /\ Head(table'[j.into][Destination(j, k)]).payload = Head(table'[j.bucket][k]).payload
    <3>1. k \in Key /\ table'[j.bucket][k] = table[j.bucket][k]
      BY <1>3, <2>4, <2>6
    <3>2. Moved(c, k)
      BY <1>6, <2>2, <2>9, <3>1 DEF Moving, Visible
    <3>3. CASE Destination(j, k) = x.key
      <4>1. x.payload = Head(table[j.bucket][k]).payload
        BY <2>2, <3>2, <3>3 DEF Moved
      <4> QED BY <1>3, <1>4, <2>1, <3>1, <3>3, <4>1
    <3>4. CASE Destination(j, k) # x.key
      <4>1. table'[j.into][Destination(j, k)] = table[j.into][Destination(j, k)]
        BY <1>3, <2>4, <3>4
      <4>2. table[j.into][Destination(j, k)] # <<>>
            /\ Head(table[j.into][Destination(j, k)]).payload = Head(table[j.bucket][k]).payload
        BY <3>2, <3>4 DEF Moved
      <4> QED BY <3>1, <4>1, <4>2
    <3> QED BY <3>3, <3>4
  <2>10. \A k : Destination(j, k)' = Destination(j, k)
    BY <2>1 DEF Destination
  <2>11. call'[c].at \notin Writing
    BY <2>3 DEF Writing
  <2>12. Moving(c)'
    <3>1. ASSUME NEW k \in (call'[c].doomed \ call'[c].keys) \ excused'[c], Visible(table', j.bucket, k)
          PROVE  Moved(c, k)'
      <4>1. table'[j.into][Destination(j, k)] # <<>>
            /\ Head(table'[j.into][Destination(j, k)]).payload = Head(table'[j.bucket][k]).payload
        BY <2>3, <2>8, <2>9, <3>1
      <4> QED BY <2>1, <2>10, <2>11, <4>1 DEF Moved
    <3> QED BY <2>1, <2>11, <3>1 DEF Moving
  <2> QED BY <2>7, <2>12
<1> QED BY <1>5, <1>6

\* A payload that is latest somewhere is one of those that are stored.
LEMMA LatestIsStored ==
  ASSUME NEW t \in [Bucket -> [Key -> Versions]], NEW b \in Bucket, NEW k \in Key, t[b][k] # <<>>,
         Head(t[b][k]).payload # None
  PROVE  Head(t[b][k]).payload \in Payloads(t)
<1>1. t[b][k] \in Versions
  OBVIOUS
<1>2. 1 \in DOMAIN t[b][k] /\ Head(t[b][k]) = t[b][k][1]
  BY <1>1, VersionsHavePlaces
<1>3. Head(t[b][k]) \in Range(t[b][k])
  BY <1>2 DEF Range
<1> QED BY <1>3 DEF Payloads

\* A key is taken away once it has been written at its destination.
LEMMA DeleteMoves ==
  ASSUME SpaceInv, NEW c \in Call, LeadsAway(job[c]), Moving(c), DeleteNext(c)
  PROVE  Moving(c)' /\ \A l \in lost' : l \in lost \/ l[2]
<1> DEFINE j == job[c]
           x == call[c]
           b == j.bucket
<1>1. PICK k \in Key : k = Min(x.doomed) /\ k \in x.doomed /\ Without(c, k) \in Versions
  BY WithoutLeavesVersions
<1>2. /\ x.at = "delete" /\ UNCHANGED job /\ Leaves(c, b, k, Without(c, k)) /\ b \in Bucket
      /\ call' = [call EXCEPT ![c].doomed = @ \ {k}, ![c].at = IF x.doomed = {k} THEN "done" ELSE @]
  BY <1>1, CallsAreTyped DEF DeleteNext
<1> DEFINE t == [table EXCEPT ![b][k] = Without(c, k)]
           gone == {p \in Payloads(table) \ Payloads(t) :
                      /\ j.op = "move" /\ b = j.bucket /\ k \in x.doomed
                      /\ p = Head(table[b][k]).payload}
<1>3. lost' = lost \cup (gone \X {k \in excused[c]}) /\ excused'[c] = excused[c]
  BY <1>2 DEF Leaves
<1>4. CASE j.op # "move"
  <2>1. gone = {}
    BY <1>4
  <2> HIDE DEF gone
  <2>2. lost' = lost
    BY <1>3, <2>1
  <2> QED BY <1>2, <1>4, <2>2 DEF Moving
<1>5. CASE j.op = "move"
  <2>1. /\ table' = t /\ table' \in [Bucket -> [Key -> Versions]] /\ table'[b][k] = Without(c, k)
        /\ \A a \in Bucket, i \in Key : a # b \/ i # k => table'[a][i] = table[a][i]
    BY <1>1, <1>2, LeavesKeeps
  <2>2. /\ x.keys = {} /\ x.doomed \subseteq Sources(j) /\ Sources(j) \subseteq Key
        /\ \A i \in Sources(j) : Destination(j, i) \in Key
        /\ \A i \in Sources(j) : b = j.into => Destination(j, i) # k
        /\ j.into \in Bucket
    BY <1>1, <1>2, <1>5, MovesHavePlaces
  <2>3. ASSUME NEW i \in x.doomed \ excused[c], Visible(table, b, i)
        PROVE  table'[j.into][Destination(j, i)] # <<>>
               /\ Head(table'[j.into][Destination(j, i)]).payload = Head(table[b][i]).payload
    <3>1. Moved(c, i)
      BY <1>2, <1>5, <2>2, <2>3 DEF Moving
    <3>2. table[j.into][Destination(j, i)] # <<>>
          /\ Head(table[j.into][Destination(j, i)]).payload = Head(table[b][i]).payload
      BY <1>2, <3>1 DEF Moved, Writing
    <3>3. table'[j.into][Destination(j, i)] = table[j.into][Destination(j, i)]
      BY <2>1, <2>2
    <3> QED BY <3>2, <3>3
  <2>4. k \notin excused[c] => gone = {}
    <3> SUFFICES ASSUME k \notin excused[c], NEW p \in gone PROVE FALSE
      OBVIOUS
    <3>1. p # None /\ p \in Payloads(table) /\ p \notin Payloads(table') /\ p = Head(table[b][k]).payload
      BY <2>1 DEF Payloads
    <3> HIDE DEF gone, t
    <3>2. table[b][k] # <<>>
      <4> SUFFICES ASSUME table[b][k] = <<>> PROVE FALSE
        OBVIOUS
      <4>1. Without(c, k) = <<>>
        BY DEF Without
      <4>2. table' = table
        <5>1. table \in [Bucket -> [Key -> Versions]]
          BY DEF SpaceInv, TypeOK, ListingsTypeOK
        <5>2. \A a \in Bucket, i \in Key : table'[a][i] = table[a][i]
          BY <2>1, <4>1
        <5>3. \A a \in Bucket : table'[a] = table[a]
          BY <2>1, <5>1, <5>2
        <5> QED BY <2>1, <5>1, <5>3
      <4> QED BY <3>1, <4>2
    <3>3. Visible(table, b, k)
      BY <3>1, <3>2 DEF Visible
    <3>4. /\ table'[j.into][Destination(j, k)] # <<>>
          /\ Head(table'[j.into][Destination(j, k)]).payload = p
      BY <1>1, <2>3, <3>1, <3>3
    <3>5. Destination(j, k) \in Key
      BY <1>1, <2>2
    <3>6. p \in Payloads(table')
      <4> DEFINE a == j.into
                 i == Destination(j, k)
      <4>1. /\ a \in Bucket /\ i \in Key /\ p # None /\ table' \in [Bucket -> [Key -> Versions]]
            /\ table'[a][i] # <<>> /\ Head(table'[a][i]).payload = p
        BY <2>1, <2>2, <3>1, <3>4, <3>5
      <4> HIDE DEF a, i
      <4> QED BY <4>1, LatestIsStored, Zenon
    <3> QED BY <3>1, <3>6
  <2>5. \A l \in lost' : l \in lost \/ l[2]
    <3> HIDE DEF gone
    <3>1. CASE k \in excused[c]
      BY <1>3, <3>1
    <3>2. CASE k \notin excused[c]
      BY <1>3, <2>4, <3>2
    <3> QED BY <3>1, <3>2
  <2>6. Moving(c)'
    <3>1. call'[c].doomed = x.doomed \ {k} /\ call'[c].keys = x.keys /\ call'[c].at \in {"delete", "done"}
      BY <1>2, CallsAreTyped DEF CallState
    <3>2. call'[c].at \notin Writing
      BY <3>1 DEF Writing
    <3>3. ASSUME NEW i \in (call'[c].doomed \ call'[c].keys) \ excused'[c], Visible(table', b, i)
          PROVE  Moved(c, i)'
      <4>1. i \in x.doomed \ excused[c] /\ i # k
        BY <1>3, <3>1, <3>3
      <4>2. table'[b][i] = table[b][i]
        BY <1>2, <2>1, <2>2, <4>1
      <4>3. table'[j.into][Destination(j, i)] # <<>>
            /\ Head(table'[j.into][Destination(j, i)]).payload = Head(table'[b][i]).payload
        BY <2>3, <3>3, <4>1, <4>2 DEF Visible
      <4>4. Destination(j, i)' = Destination(j, i)
        BY <1>2 DEF Destination
      <4> QED BY <1>2, <3>2, <4>3, <4>4 DEF Moved
    <3> QED BY <1>2, <3>2, <3>3 DEF Moving
  <2> QED BY <2>5, <2>6
<1> QED BY <1>4, <1>5

\* A key is read, and its payload is in the hands of the call.
LEMMA CopyMoves ==
  ASSUME SpaceInv, NEW c \in Call, LeadsAway(job[c]), Moving(c), CopyNext(c)
  PROVE  Moving(c)'
<1> DEFINE j == job[c]
           x == call[c]
           versions == table[j.bucket][Min(x.keys)]
<1>1. /\ x.at = "next" /\ UNCHANGED <<job, table, excused>>
  BY DEF CopyNext, unchangedByReads, listingVars, tables, history
<1> SUFFICES ASSUME j.op = "move", call'[c].at \in Writing \cup {"next", "delete"} PROVE Moving(c)'
  BY <1>1 DEF Moving
<1>2. /\ x \in CallState /\ call \in [Call -> CallState] /\ x.keys # {} /\ x.keys \in SUBSET Key
  BY <1>1, CallsAreTyped DEF Placed
<1>3. /\ x.keys \subseteq x.doomed /\ x.doomed \subseteq Sources(j) /\ Sources(j) \subseteq Key
      /\ \A i, k \in Sources(j) : Destination(j, i) = Destination(j, k) => i = k
  BY <1>1, MovesHavePlaces
<1>4. PICK k \in x.keys : k = Min(x.keys)
  BY <1>2, FirstOfKeys
<1>5. x.at \notin Writing
  BY <1>1 DEF Writing
<1>6. \A i \in (x.doomed \ x.keys) \ excused[c] : Visible(table, j.bucket, i) =>
        /\ table[j.into][Destination(j, i)] # <<>>
        /\ Head(table[j.into][Destination(j, i)]).payload = Head(table[j.bucket][i]).payload
  BY <1>1, <1>5 DEF Moving, Moved
<1>7. \A i : Destination(j, i)' = Destination(j, i)
  BY <1>1 DEF Destination
<1>8. ~Goto(c, "failed")
  BY <1>2 DEF Goto, CallState, Writing
<1>9. CASE versions # <<>> /\ Head(versions).payload = None
  <2>1. call'[c].keys = x.keys \ {k} /\ call'[c].doomed = x.doomed /\ call'[c].at \in {"next", "delete", "done"}
    <3> DEFINE rest == x.keys \ {Min(x.keys)}
               at == IF rest # {} THEN "next" ELSE IF j.op = "move" THEN "delete" ELSE "done"
    <3>1. call' = [call EXCEPT ![c].keys = rest, ![c].at = at]
      BY <1>9, Zenon DEF CopyNext
    <3>2. at \in {"next", "delete", "done"}
      OBVIOUS
    <3>3. rest = x.keys \ {k}
      BY <1>4
    <3> HIDE DEF rest, at
    <3> QED BY <1>2, <3>1, <3>2, <3>3 DEF CallState
  <2>2. call'[c].at \notin Writing
    BY <2>1 DEF Writing
  <2>3. ASSUME NEW i \in (call'[c].doomed \ call'[c].keys) \ excused'[c], Visible(table', j.bucket, i)
        PROVE  Moved(c, i)'
    <3>1. i # k /\ Visible(table, j.bucket, i)
      BY <1>1, <1>4, <1>9, <2>3 DEF Visible
    <3>2. i \in (x.doomed \ x.keys) \ excused[c]
      BY <1>1, <2>1, <2>3, <3>1
    <3> QED BY <1>1, <1>6, <1>7, <2>2, <3>1, <3>2 DEF Moved
  <2> QED BY <1>1, <2>2, <2>3 DEF Moving
<1>10. CASE versions # <<>> /\ Head(versions).payload # None
  <2>1. /\ call'[c].keys = x.keys \ {k} /\ call'[c].doomed = x.doomed /\ call'[c].at = "bucket"
        /\ call'[c].key = Destination(j, k) /\ call'[c].payload = Head(table[j.bucket][k]).payload
    <3> DEFINE rest == x.keys \ {Min(x.keys)}
               key == Destination(j, Min(x.keys))
               payload == Head(versions).payload
    <3>1. call' = [call EXCEPT ![c].keys = rest, ![c].at = "bucket", ![c].key = key, ![c].payload = payload]
      BY <1>10, Zenon DEF CopyNext
    <3>2. rest = x.keys \ {k} /\ key = Destination(j, k) /\ payload = Head(table[j.bucket][k]).payload
      BY <1>4
    <3> HIDE DEF rest, key, payload
    <3> QED BY <1>2, <3>1, <3>2 DEF CallState
  <2>2. call'[c].at \in Writing /\ k \in call'[c].doomed \ call'[c].keys
    BY <1>3, <2>1 DEF Writing
  <2>3. ASSUME NEW i \in (call'[c].doomed \ call'[c].keys) \ excused'[c], Visible(table', j.bucket, i)
        PROVE  Moved(c, i)'
    <3>1. CASE i = k
      BY <1>1, <1>7, <2>1, <2>2, <3>1 DEF Moved
    <3>2. CASE i # k
      <4>1. i \in (x.doomed \ x.keys) \ excused[c] /\ Visible(table, j.bucket, i)
        BY <1>1, <2>1, <2>3, <3>2 DEF Visible
      <4>2. Destination(j, i) # Destination(j, k)
        BY <1>3, <1>4, <3>2, <4>1
      <4> QED BY <1>1, <1>6, <1>7, <2>1, <4>1, <4>2 DEF Moved
    <3> QED BY <3>1, <3>2
  <2>4. \E i \in call'[c].doomed \ call'[c].keys : call'[c].key = Destination(j, i)'
    BY <1>7, <2>1, <2>2
  <2> QED BY <1>1, <2>3, <2>4 DEF Moving
<1>11. versions # <<>>
  BY <1>8 DEF CopyNext
<1> QED BY <1>9, <1>10, <1>11

\* assertQuota: what a call that is let in has in its hands stays there.
LEMMA ChecksHoldOn ==
  ASSUME SpaceInv, NEW c \in Call, CheckBucket(c) \/ CheckBucketParts(c) \/ ReadOwnersVersions(c) \/ CheckOwnersParts(c)
  PROVE  /\ call[c].at \in Writing /\ call'[c].at \in Writing \cup {"refused"}
         /\ call'[c].key = call[c].key /\ call'[c].payload = call[c].payload /\ call'[c].keys = call[c].keys
         /\ call'[c].doomed = call[c].doomed /\ UNCHANGED unchangedByReads
<1>1. call \in [Call -> CallState] /\ call[c] \in CallState
  BY CallsAreTyped
<1>2. DOMAIN call[c] = {"at", "ctx", "source", "key", "payload", "written", "quota", "bucketSum", "ownerSum", "keys", "doomed"}
  BY <1>1 DEF CallState
<1>3. call[c].at \in Writing /\ UNCHANGED unchangedByReads
  BY DEF CheckBucket, CheckBucketParts, ReadOwnersVersions, CheckOwnersParts, Writing
<1>4. ASSUME NEW sum, CheckOwner(c, sum)
      PROVE  /\ call'[c].at \in Writing /\ call'[c].key = call[c].key /\ call'[c].payload = call[c].payload
             /\ call'[c].keys = call[c].keys /\ call'[c].doomed = call[c].doomed
  <2> DEFINE quota == ownerQuota[call[c].ctx.owner]
  <2>1. call' = [call EXCEPT ![c] = IF quota = None THEN Passed([call[c] EXCEPT !.quota = quota, !.bucketSum = sum])
                                    ELSE [[call[c] EXCEPT !.quota = quota, !.bucketSum = sum] EXCEPT !.at = "owner"]]
    BY <1>4 DEF CheckOwner
  <2> HIDE DEF quota
  <2> QED BY <1>1, <1>2, <2>1 DEF Passed, Writing
<1>5. CASE CheckBucket(c) \/ CheckBucketParts(c)
  <2>1. \/ CheckOwner(c, 0) \/ CheckOwner(c, call[c].bucketSum + PartBytes(Target(c))) \/ Goto(c, "refused")
        \/ call' = [call EXCEPT ![c].at = "bucketParts", ![c].bucketSum = VersionBytes(Target(c))]
    BY <1>5 DEF CheckBucket, CheckBucketParts
  <2>2. CASE Goto(c, "refused") \/ call' = [call EXCEPT ![c].at = "bucketParts", ![c].bucketSum = VersionBytes(Target(c))]
    BY <1>1, <1>2, <1>3, <2>2 DEF Goto, Writing
  <2> QED BY <1>3, <1>4, <2>1, <2>2
<1>6. CASE ReadOwnersVersions(c)
  BY <1>1, <1>2, <1>3, <1>6 DEF ReadOwnersVersions, Writing
<1>7. CASE CheckOwnersParts(c)
  <2>1. PICK bytes : Goto(c, "refused") \/ call' = [call EXCEPT ![c] = Passed([call[c] EXCEPT !.ownerSum = bytes])]
    BY <1>7 DEF CheckOwnersParts
  <2> DEFINE x == [call[c] EXCEPT !.ownerSum = bytes]
  <2>2. CASE Goto(c, "refused")
    BY <1>1, <1>2, <1>3, <2>2 DEF Goto
  <2>3. CASE call' = [call EXCEPT ![c] = Passed(x)]
    <3>1. call'[c] = Passed(x)
      BY <1>1, <2>3
    <3>2. /\ DOMAIN x = DOMAIN call[c] /\ x.key = call[c].key /\ x.payload = call[c].payload
          /\ x.keys = call[c].keys /\ x.doomed = call[c].doomed
      BY <1>2
    <3> HIDE DEF x
    <3>3. /\ Passed(x).at \in {"commit", "bucket"} /\ Passed(x).key = x.key /\ Passed(x).payload = x.payload
          /\ Passed(x).keys = x.keys /\ Passed(x).doomed = x.doomed
      BY <1>2, <3>2 DEF Passed
    <3> QED BY <1>3, <3>1, <3>2, <3>3 DEF Writing
  <2> QED BY <2>1, <2>2, <2>3
<1> QED BY <1>5, <1>6, <1>7

\* copyKeys, moveKey: every step of a move keeps what it is about.
LEMMA MovingKeeps ==
  ASSUME SpaceInv, NEW c \in Call, LeadsAway(job[c]), Moving(c), CallStep(c) \/ Fail(c)
  PROVE  Moving(c)' /\ \A l \in lost' : l \in lost \/ l[2]
<1> DEFINE j == job[c]
           x == call[c]
<1>1. UNCHANGED job /\ (~Commit(c) /\ ~DeleteNext(c) => UNCHANGED <<table, lost>> /\ (~Fail(c) => UNCHANGED excused))
  BY StepsAreOnesOwn, OnlyWritersWrite
<1>2. CASE Commit(c)
  BY <1>2, CommitMoves
<1>3. CASE DeleteNext(c)
  BY <1>3, DeleteMoves
<1>4. ASSUME ~Commit(c), ~DeleteNext(c)
      PROVE  Moving(c)'
  <2> SUFFICES ASSUME j.op = "move", call'[c].at \in Writing \cup {"next", "delete"} PROVE Moving(c)'
    BY <1>1 DEF Moving
  <2>1. /\ x \in CallState /\ call \in [Call -> CallState] /\ Placed(j, x)
        /\ excused \in [Call -> SUBSET Key]
    BY CallsAreTyped DEF SpaceInv, TypeOK
  <2>2. \A i : Destination(j, i)' = Destination(j, i)
    BY <1>1 DEF Destination
  <2>3. CASE CopyNext(c)
    BY <2>3, CopyMoves
  <2>4. CASE CheckBucket(c) \/ CheckBucketParts(c) \/ ReadOwnersVersions(c) \/ CheckOwnersParts(c)
    <3>1. /\ x.at \in Writing /\ call'[c].at \in Writing \cup {"refused"} /\ call'[c].key = x.key
          /\ call'[c].payload = x.payload /\ call'[c].keys = x.keys /\ call'[c].doomed = x.doomed
          /\ UNCHANGED unchangedByReads
      BY <2>4, ChecksHoldOn
    <3>2. call'[c].at \in Writing
      BY <3>1
    <3>3. UNCHANGED <<table, excused>>
      BY <3>1 DEF unchangedByReads, listingVars, tables, history
    <3>4. /\ \E k \in x.doomed \ x.keys : x.key = Destination(j, k)
          /\ \A k \in (x.doomed \ x.keys) \ excused[c] : Visible(table, j.bucket, k) => Moved(c, k)
      BY <3>1 DEF Moving
    <3>5. \A k : Moved(c, k) => Moved(c, k)'
      BY <1>1, <2>2, <3>1, <3>2, <3>3 DEF Moved
    <3> QED BY <1>1, <2>2, <3>1, <3>2, <3>3, <3>4, <3>5 DEF Moving, Visible
  <2>5. CASE ListKeys(c)
    <3>1. ~Goto(c, "failed")
      BY <2>1 DEF Goto, CallState, Writing
    <3>2. PICK keys : call' = [call EXCEPT ![c].keys = keys, ![c].doomed = keys, ![c].at = "next"]
      BY <2>5, <3>1 DEF ListKeys
    <3>3. call'[c].keys = keys /\ call'[c].doomed = keys /\ call'[c].at = "next"
      BY <2>1, <3>2 DEF CallState
    <3> QED BY <3>3 DEF Moving, Writing
  <2>6. CASE Resolve(c)
    <3>1. FirstLabel(j.op) = "keys"
      BY DEF FirstLabel
    <3>2. call'[c].at \in {"keys", "failed"}
      BY <2>1, <2>6, <3>1 DEF Resolve, Goto, CallState
    <3> QED BY <3>2 DEF Writing
  <2>7. CASE Fail(c)
    <3>1. ~Goto(c, "failed")
      BY <2>1 DEF Goto, CallState, Writing
    <3>2. PICK k : /\ x.at = "delete"
                   /\ call' = [call EXCEPT ![c].doomed = @ \ {k}, ![c].at = IF x.doomed = {k} THEN "done" ELSE @]
                   /\ excused' = [excused EXCEPT ![c] = @ \cup {k}]
      BY <2>7, <3>1 DEF Fail
    <3>3. /\ call'[c].doomed = x.doomed \ {k} /\ call'[c].keys = x.keys /\ call'[c].at \in {"delete", "done"}
          /\ excused'[c] = excused[c] \cup {k} /\ call'[c].key = x.key /\ call'[c].payload = x.payload
      BY <2>1, <3>2 DEF CallState
    <3>4. UNCHANGED table
      BY <1>1, <1>4
    <3>5. x.at \notin Writing /\ call'[c].at \notin Writing
      BY <3>2, <3>3 DEF Writing
    <3>6. \A i \in (x.doomed \ x.keys) \ excused[c] : Visible(table, j.bucket, i) => Moved(c, i)
      BY <3>2 DEF Moving
    <3>7. \A i : Moved(c, i) => Moved(c, i)'
      BY <1>1, <2>2, <3>4, <3>5 DEF Moved
    <3> QED BY <1>1, <3>3, <3>4, <3>5, <3>6, <3>7 DEF Moving, Visible
  <2>8. Resolve(c) \/ ListKeys(c) \/ CheckBucket(c) \/ CheckBucketParts(c) \/ ReadOwnersVersions(c) \/ CheckOwnersParts(c)
        \/ CopyNext(c) \/ Fail(c)
    <3>1. x.at \notin {"exists", "parts", "retire", "dropParts", "count", "drop"}
      BY <2>1 DEF Placed
    <3>2. j.op \notin Settings \cup {"createBucket", "uploadPart"}
      BY DEF Settings
    <3> QED BY <1>4, <3>1, <3>2 DEF CallStep, FindFolder, StorePart, JoinParts, RetireUpload, DropParts, CreateBucket,
                    CountObjects, DropBucket, Set
  <2> QED BY <2>3, <2>4, <2>5, <2>6, <2>7, <2>8
<1> QED BY <1>1, <1>2, <1>3, <1>4

\* All moves, and what is lost.
LEMMA MovesKeep ==
  ASSUME SpaceInv, \A c \in Call : LeadsAway(job[c]), \A c \in Call : Moving(c), MovesLoseNothing, [Next]_vars
  PROVE  /\ \A c \in Call : LeadsAway(job[c])' /\ Moving(c)'
         /\ MovesLoseNothing'
<1>1. ASSUME NEW c \in Call, CallStep(c) \/ Fail(c)
      PROVE  /\ \A d \in Call : LeadsAway(job[d])' /\ Moving(d)'
             /\ MovesLoseNothing'
  <2>1. UNCHANGED job
    BY <1>1, StepsAreOnesOwn
  <2>2. \A d \in Call : LeadsAway(job'[d])
    BY <2>1
  <2>3. Moving(c)' /\ \A l \in lost' : l \in lost \/ l[2]
    BY <1>1, MovingKeeps
  <2>4. ASSUME NEW d \in Call, d # c PROVE Moving(d)'
    <3>1. UNCHANGED job /\ call'[d] = call[d]
      BY <1>1, <2>4, StepsAreOnesOwn
    <3>2. CASE Commit(c)
      <4>1. PICK versions \in Versions : Leaves(c, Target(c), call[c].key, versions) /\ call[c].key \in Key /\ Target(c) \in Bucket
        BY <3>2, CommitWrites
      <4> QED BY <2>4, <3>1, <4>1, OthersLeaveMoves
    <3>3. CASE DeleteNext(c)
      <4>1. Leaves(c, job[c].bucket, Min(call[c].doomed), Without(c, Min(call[c].doomed)))
        BY <3>3 DEF DeleteNext
      <4>2. Min(call[c].doomed) \in Key /\ Without(c, Min(call[c].doomed)) \in Versions
        BY <3>3, WithoutLeavesVersions
      <4>3. job[c].bucket \in Bucket
        BY CallsAreTyped
      <4> QED BY <2>4, <3>1, <4>1, <4>2, <4>3, OthersLeaveMoves
    <3>4. CASE ~Commit(c) /\ ~DeleteNext(c)
      <4>1. UNCHANGED table /\ excused'[d] = excused[d]
        <5>1. UNCHANGED table /\ (~Fail(c) => UNCHANGED excused)
          BY <1>1, <3>4, OnlyWritersWrite
        <5>2. excused \in [Call -> SUBSET Key]
          BY DEF SpaceInv, TypeOK
        <5>3. Fail(c) => excused'[d] = excused[d]
          BY <2>4, <5>2 DEF Fail
        <5> QED BY <5>1, <5>3
      <4>2. Moving(d)
        OBVIOUS
      <4>3. \A k : Moved(d, k) => Moved(d, k)'
        BY <3>1, <4>1 DEF Moved, Destination
      <4> QED BY <3>1, <4>1, <4>2, <4>3 DEF Moving, Visible, Destination
    <3> QED BY <3>2, <3>3, <3>4
  <2>5. MovesLoseNothing'
    BY <2>3 DEF MovesLoseNothing
  <2> QED BY <2>2, <2>3, <2>4, <2>5
<1>2. CASE (\E w \in Walker : Walks(w)) \/ UNCHANGED vars
  <2>1. UNCHANGED <<settings, nextId, callVars, history, failures>>
    BY <1>2, OnlookersKeep
  <2>2. UNCHANGED <<table, job, call, excused, lost>>
    BY <1>2, <2>1, ZenonT(60) DEF Walks, WalkStep, ListObjects, Peek, NextPage, ListWindow, ListParts, tables, vars, listingVars,
                      callVars, history
  <2>3. ASSUME NEW c \in Call PROVE LeadsAway(job[c])' /\ Moving(c)'
    <3>1. LeadsAway(job'[c])
      BY <2>2
    <3>2. \A k : Moved(c, k) => Moved(c, k)'
      BY <2>2 DEF Moved, Destination
    <3>3. Moving(c)
      OBVIOUS
    <3> QED BY <2>2, <3>1, <3>2, <3>3 DEF Moving, Visible, Destination
  <2> QED BY <2>2, <2>3 DEF MovesLoseNothing
<1> QED BY <1>1, <1>2 DEF Next, Run


-----------------------------------------------------------------------------
(* What holds of buckets, folders, quotas and moves. *)

\* Where a run starts.
LEMMA Beginnings ==
  ASSUME Init
  PROVE  /\ \A c \in Call : call[c].at = "start" /\ ~call[c].written
         /\ \A b \in Bucket, k \in Key : buckets[b] # None /\ buckets[b].deleted => table[b][k] = <<>>
         /\ lost = {}
         /\ \E start \in Starts : job = start.job
<1>1. PICK start \in Starts : buckets = start.buckets /\ table = start.table /\ job = start.job
  BY DEF Init
<1>2. \A b \in Bucket, k \in Key : start.buckets[b] # None /\ start.buckets[b].deleted => start.table[b][k] = <<>>
  BY StartsAssumption
<1> QED BY <1>1, <1>2 DEF Init

\* BucketsService.delete: countObjects sees delete markers and old versions too, so what a
\* deleted bucket holds was committed after it was counted.
THEOREM DeletedBucketsAreEmpty == Spec => []DeletedBucketsHoldLateWrites
<1>1. Init => Emptied
  BY Beginnings DEF Emptied, Going
<1>2. SpaceInv /\ Found /\ Emptied /\ [Next]_vars => Emptied'
  BY EmptiedKeeps
<1>3. Emptied => DeletedBucketsHoldLateWrites
  BY DEF Emptied, DeletedBucketsHoldLateWrites, Going
<1> QED BY <1>1, <1>2, <1>3, InvariantOfSpace, PTL DEF Spec

\* ObjectsService.deleteByPrefix, deleteMany: a call that is done has left no key of its
\* folder, or of those it was named, but what others wrote since and what it reports.
THEOREM DeletedFoldersLeaveNothing == Spec => []DeletedFoldersAreEmpty
<1> DEFINE AllAccounted == \A c \in Call : Accounted(c)
<1>1. Init => AllAccounted
  BY Beginnings DEF Accounted
<1>2. SpaceInv /\ Found /\ AllAccounted /\ [Next]_vars => AllAccounted'
  <2> SUFFICES ASSUME SpaceInv, \A c \in Call : Accounted(c), [Next]_vars PROVE \A c \in Call : Accounted(c)'
    OBVIOUS
  <2> QED BY AllAccountedKeep
<1>3. AllAccounted => DeletedFoldersAreEmpty
  <2> SUFFICES ASSUME \A c \in Call : Accounted(c), NEW c \in Call, call[c].at = "done",
                      job[c].op \in {"deletePrefix", "deleteObjects"},
                      NEW k \in Aims(job[c]), Visible(table, job[c].bucket, k)
               PROVE  k \in excused[c]
    BY DEF DeletedFoldersAreEmpty, Aims
  <2>1. Accounted(c)
    OBVIOUS
  <2> QED BY <2>1 DEF Accounted
<1> HIDE DEF AllAccounted
<1> QED BY <1>1, <1>2, <1>3, InvariantOfSpace, PTL DEF Spec

\* assertQuota: all that calls have been let in for.
LEMMA AllAdmittedKeep ==
  ASSUME SpaceInv, \A c \in Call : Admitted(c), [Next]_vars
  PROVE  \A c \in Call : Admitted(c)'
<1>1. ASSUME NEW c \in Call, CallStep(c) \/ Fail(c), NEW d \in Call
      PROVE  Admitted(d)'
  <2>1. CASE d = c
    BY <1>1, <2>1, AdmittedKeeps
  <2>2. CASE d # c
    <3>1. UNCHANGED job /\ call'[d] = call[d]
      BY <1>1, <2>2, StepsAreOnesOwn
    <3>2. Admitted(d)
      OBVIOUS
    <3> QED BY <3>1, <3>2 DEF Admitted, Bytes
  <2> QED BY <2>1, <2>2
<1>2. CASE (\E w \in Walker : Walks(w)) \/ UNCHANGED vars
  <2>1. UNCHANGED <<job, call>>
    BY <1>2, OnlookersKeep DEF callVars
  <2> QED BY <2>1 DEF Admitted, Bytes
<1> QED BY <1>1, <1>2 DEF Next, Run

\* One step, and every call.
LEMMA StepsOvershootByStaleSums ==
  ASSUME SpaceInv, SpaceInv', \A c \in Call : Admitted(c), [Next]_vars, NEW c \in Call,
         call[c].at = "commit", call'[c].at # "commit", call[c].written, Alive(Target(c))
  PROVE  LET x == call[c]
             b == Target(c)
             u == x.ctx.owner IN
           /\ Exceeds(Usage(b)', Usage(b), buckets[b].quota) =>
                x.ctx.quota # buckets[b].quota \/ x.bucketSum # Usage(b)
           /\ Exceeds(OwnersUsage(u)', OwnersUsage(u), ownerQuota[u]) =>
                x.quota # ownerQuota[u] \/ x.ownerSum # OwnersUsage(u)
<1>1. PICK d \in Call : CallStep(d) \/ Fail(d)
  <2>1. CASE (\E w \in Walker : Walks(w)) \/ UNCHANGED vars
    <3>1. UNCHANGED call
      BY <2>1, OnlookersKeep DEF callVars
    <3> QED BY <3>1
  <2> QED BY <2>1 DEF Next, Run
<1>2. c = d /\ (Commit(c) \/ StorePart(c) \/ Fail(c)) /\ call'[c].ctx = call[c].ctx
  BY <1>1, CommitsEndSo
<1>3. UNCHANGED job
  BY <1>1, StepsAreOnesOwn
<1>4. PICK a \in Bucket : a = Target(c)
  BY CallsAreTyped DEF Target
<1>5. PICK v : v = call[c].ctx.owner
  OBVIOUS
<1>6. /\ Exceeds(Usage(a)', Usage(a), buckets[a].quota) =>
           call[c].ctx.quota # buckets[a].quota \/ call[c].bucketSum # Usage(a)
      /\ Exceeds(OwnersUsage(v)', OwnersUsage(v), ownerQuota[v]) =>
           call[c].quota # ownerQuota[v] \/ call[c].ownerSum # OwnersUsage(v)
  BY <1>2, <1>4, <1>5, CommitsOvershootByStaleSums
<1>7. Target(c)' = a
  BY <1>3, <1>4 DEF Target
<1>8. Usage(Target(c))' = Usage(a)'
  BY <1>7 DEF Usage, VersionBytes, PartBytes
<1>9. OwnersUsage(call[c].ctx.owner)' = OwnersUsage(v)'
  BY <1>2, <1>5 DEF OwnersUsage, Owned
<1> QED BY <1>4, <1>5, <1>6, <1>8, <1>9

\* UsageService.assertQuota: whoever commits a write past the limit that holds then was let
\* in by sums or by a limit that had changed by that time.
THEOREM OvershootsNeedStaleSums == Spec => OvershootsGoByStaleSums
<1> DEFINE AllAdmitted == \A c \in Call : Admitted(c)
           Overshoots(c) ==
             LET x == call[c]
                 b == Target(c)
                 u == x.ctx.owner IN
             x.at = "commit" /\ call'[c].at # "commit" /\ x.written /\ Alive(b) =>
               /\ Exceeds(Usage(b)', Usage(b), buckets[b].quota) =>
                    x.ctx.quota # buckets[b].quota \/ x.bucketSum # Usage(b)
               /\ Exceeds(OwnersUsage(u)', OwnersUsage(u), ownerQuota[u]) =>
                    x.quota # ownerQuota[u] \/ x.ownerSum # OwnersUsage(u)
<1>1. Init => AllAdmitted
  BY Beginnings DEF Admitted
<1>2. SpaceInv /\ Found /\ AllAdmitted /\ [Next]_vars => AllAdmitted'
  <2> SUFFICES ASSUME SpaceInv, \A c \in Call : Admitted(c), [Next]_vars PROVE \A c \in Call : Admitted(c)'
    OBVIOUS
  <2> QED BY AllAdmittedKeep
<1>3. SpaceInv /\ Found /\ (SpaceInv /\ Found)' /\ AllAdmitted /\ [Next]_vars => [\A c \in Call : Overshoots(c)]_vars
  <2> SUFFICES ASSUME SpaceInv, SpaceInv', \A c \in Call : Admitted(c), [Next]_vars, NEW c \in Call,
                      call[c].at = "commit", call'[c].at # "commit", call[c].written, Alive(Target(c))
               PROVE  Overshoots(c)
    OBVIOUS
  <2> QED BY StepsOvershootByStaleSums
<1>4. Spec => [][\A c \in Call : Overshoots(c)]_vars
  <2> HIDE DEF AllAdmitted, Overshoots
  <2> QED BY <1>1, <1>2, <1>3, InvariantOfSpace, PTL DEF Spec
<1> QED BY <1>4 DEF OvershootsGoByStaleSums

\* ObjectsService.copyKeys, moveKey: moves that lead away from where they start lose nothing
\* by themselves.  A folder moved onto its own name does not, nor one moved into the folder
\* around it that holds another of its name: run folderMove shows what the code does then.
THEOREM MovesAreWhole ==
  ASSUME \A start \in Starts, c \in Call : LeadsAway(start.job[c])
  PROVE  Spec => []MovesLoseNothing
<1> DEFINE Whole == (\A c \in Call : LeadsAway(job[c]) /\ Moving(c)) /\ MovesLoseNothing
<1>1. Init => Whole
  <2> SUFFICES ASSUME Init PROVE Whole
    OBVIOUS
  <2>1. PICK start \in Starts : job = start.job
    BY Beginnings
  <2>2. \A c \in Call : LeadsAway(job[c])
    BY <2>1
  <2>3. \A c \in Call : Moving(c)
    BY Beginnings DEF Moving, Writing
  <2> QED BY <2>2, <2>3, Beginnings DEF MovesLoseNothing
<1>2. SpaceInv /\ Found /\ Whole /\ [Next]_vars => Whole'
  <2> SUFFICES ASSUME SpaceInv, \A c \in Call : LeadsAway(job[c]), \A c \in Call : Moving(c), MovesLoseNothing, [Next]_vars
               PROVE  (\A c \in Call : LeadsAway(job[c])' /\ Moving(c)') /\ MovesLoseNothing'
    OBVIOUS
  <2> QED BY MovesKeep
<1>3. Whole => MovesLoseNothing
  OBVIOUS
<1> HIDE DEF Whole
<1> QED BY <1>1, <1>2, <1>3, InvariantOfSpace, PTL DEF Spec

=============================================================================
