-------------------------- MODULE Listings_proofs --------------------------
(***************************************************************************)
(* What the listings give to a client that walks through their pages,      *)
(* however the tables change meanwhile and whatever keys, uploads and      *)
(* parts there are.                                                        *)
(*                                                                         *)
(* The invariant says, of every client, that what it has not been given    *)
(* and was there all the time lies ahead of the place where it stands, and *)
(* that what it was given lies behind.                                     *)
(***************************************************************************)
EXTENDS Listings, TLAPS, WellFoundedInduction, FiniteSetTheorems

-----------------------------------------------------------------------------
(* Where a client stands. *)

Leaf(q, k) == k \in Under[q.prefix] /\ Folder(q, k) = None
AFolder(q, f) == f # None /\ \E k \in Under[q.prefix] : Folder(q, k) = f

\* list: what the query of the next batch leaves to come.
Ahead(x, k) ==
    /\ x.cursor = None \/ k > x.cursor
    /\ x.exclude = None \/ k \notin Under[x.exclude]

Untouched(x) ==
    /\ x.cursor = x.query.after /\ x.exclude = None /\ x.marker = None /\ x.leaf = None
    /\ ~x.onFolder /\ x.count = 0

Stands(x) ==
    /\ x.at = "fetch" => x.count < x.query.limit
    /\ x.at \in {"peek", "between", "stuck"} => x.count >= x.query.limit
    /\ x.at \in {"peek", "between"} => x.onFolder \/ Leaf(x.query, x.cursor)
    /\ x.at = "stuck" => x.query.limit = 1 /\ x.onFolder
    /\ x.exclude # None =>
         /\ AFolder(x.query, x.exclude)
         /\ x.cursor = x.exclude \/ (Leaf(x.query, x.cursor) /\ x.exclude < x.cursor)
    /\ x.onFolder => x.cursor # None /\ x.exclude = x.cursor
    /\ x.leaf # None => Leaf(x.query, x.leaf) /\ x.cursor # None /\ x.leaf =< x.cursor

\* listObjectsV1: a page goes beyond the marker it was asked with, except that it
\* may begin with the folder that the marker names.
Passes(x) ==
    x.marker # None =>
        /\ x.cursor # None /\ x.marker =< x.cursor
        /\ x.leaf # None => x.marker < x.leaf
        /\ x.leaf = None /\ x.cursor = x.marker => x.count = 0 \/ (x.count = 1 /\ x.onFolder)

ObjectWalk(x, given, twice, there) ==
    /\ Stands(x)
    /\ (Untouched(x) /\ given = {}) \/ Leaf(x.query, x.cursor) \/ AFolder(x.query, x.cursor)
    /\ x.at = "ended" => there \subseteq given
    /\ \A k \in Under[x.query.prefix] : ItemOf(x.query, k, 0) \in there \ given => Ahead(x, k)
    /\ x.query.kind = "objects" =>
         /\ \A k \in Under[x.query.prefix] : ItemOf(x.query, k, 0) \in given => ~Ahead(x, k)
         /\ twice = {}
    /\ x.query.kind = "marked" =>
         /\ Passes(x)
         /\ \A k \in Under[x.query.prefix] : Leaf(x.query, k) /\ <<k, 0>> \in given =>
              /\ x.cursor # None /\ k =< x.cursor
              /\ x.leaf # None => k =< x.leaf
         /\ \A item \in twice : item[2] = None

PartWalk(x, given, twice, there) ==
    /\ x.at \in {"fetch", "between", "ended"} /\ ~x.onFolder
    /\ x.at = "ended" => there \subseteq given
    /\ \A item \in there \ given : x.cursor = None \/ item[1] > x.cursor
    /\ x.at # "ended" => \A item \in given : x.cursor # None /\ item[1] =< x.cursor
    /\ twice = {}

\* listAllVersions, listMultipartUploads: what is left of a window once the
\* markers are passed.
Beyond(x, t, k, id) ==
    \/ x.cursor = None
    \/ k > x.cursor
    \/ /\ k = x.cursor
       /\ IF x.query.kind = "versions" THEN x.marker # None /\ id \in Older(t[x.query.bucket][k], x.marker)
          ELSE x.marker = None \/ id > x.marker

VersionPlace(x) ==
    /\ x.at \in {"fetch", "between", "ended"} /\ ~x.onFolder
    /\ x.marker # None => Leaf(x.query, x.cursor)

VersionWalk(x, given, twice, there, t) ==
    /\ x.at = "ended" => there \subseteq given
    /\ x.at # "ended" =>
         /\ \A k \in Under[x.query.prefix], id \in Nat :
              ItemOf(x.query, k, id) \in there \ given => Beyond(x, t, k, id)
         /\ \A item \in given : item[2] # None => ~Beyond(x, t, item[1], item[2])
    /\ \A item \in twice : item[2] = None

Walked(w) ==
    LET x == walk[w] IN
    /\ steady[w] \subseteq Items(x.query, table, uploads, parts)
    /\ x.query.kind \in ObjectKinds => ObjectWalk(x, listed[w], repeated[w], steady[w])
    /\ x.query.kind = "parts" => PartWalk(x, listed[w], repeated[w], steady[w])
    /\ x.query.kind \in {"versions", "uploads"} =>
         /\ VersionPlace(x)
         /\ ~astray[w] => VersionWalk(x, listed[w], repeated[w], steady[w], table)

WalksInv == ListingsTypeOK /\ \A w \in Walker : Walked(w)

-----------------------------------------------------------------------------
(* Finite sets of numbers. *)

\* Among natural numbers there is a least.
LEMMA LeastOfNumbers ==
  ASSUME NEW T \in SUBSET Nat, T # {}
  PROVE  \E x \in T : \A y \in T : x =< y
<1>1. PICK x \in T : \A y \in T : ~ (<<y, x>> \in OpToRel(<, Nat))
  BY NatLessThanWellFounded, WFMin
<1>2. \A y \in T : ~ (y < x)
  BY <1>1 DEF OpToRel
<1> QED BY <1>2

\* Finitely many natural numbers have a greatest, the one that the fewest follow.
LEMMA GreatestOfNumbers ==
  ASSUME NEW S \in SUBSET Nat, IsFiniteSet(S), S # {}
  PROVE  /\ Greatest(S) \in S
         /\ \A y \in S : y =< Greatest(S)
<1> DEFINE After(x) == {y \in S : x < y}
           T == {Cardinality(After(x)) : x \in S}
<1>1. \A x \in S : IsFiniteSet(After(x)) /\ Cardinality(After(x)) \in Nat
  BY FS_Subset, FS_CardinalityType
<1>2. T \in SUBSET Nat /\ T # {}
  BY <1>1
<1>3. PICK n \in T : \A m \in T : n =< m
  <2> HIDE DEF T
  <2> QED BY <1>2, LeastOfNumbers
<1>4. PICK x \in S : n = Cardinality(After(x))
  BY <1>3
<1>5. \A y \in S : y =< x
  <2> SUFFICES ASSUME NEW y \in S, x < y PROVE FALSE
    BY <1>4
  <2>1. After(y) \in SUBSET After(x) /\ y \in After(x) /\ y \notin After(y)
    BY <1>4
  <2>2. Cardinality(After(y)) =< Cardinality(After(x)) /\ Cardinality(After(y)) # Cardinality(After(x))
    <3> HIDE DEF After
    <3> QED BY <1>1, <1>4, <2>1, FS_Subset
  <2>3. Cardinality(After(x)) =< Cardinality(After(y))
    BY <1>3, <1>4
  <2> HIDE DEF After
  <2> QED BY <1>1, <1>4, <2>2, <2>3
<1>6. \E z \in S : \A y \in S : y =< z
  BY <1>4, <1>5
<1> QED BY <1>6 DEF Greatest

\* ORDER BY ... LIMIT n gives finitely many rows, none of which follows one that it leaves out.
LEMMA FirstIsInitial ==
  ASSUME NEW S \in SUBSET Nat, IsFiniteSet(S), NEW n \in Nat
  PROVE  /\ First(S, n) \subseteq S /\ IsFiniteSet(First(S, n))
         /\ Cardinality(First(S, n)) \in Nat
         /\ \A x \in First(S, n), y \in S \ First(S, n) : x < y
<1>1. First(S, n) \subseteq S
  BY DEF First
<1>2. ASSUME NEW x \in First(S, n), NEW y \in S \ First(S, n), y =< x PROVE FALSE
  <2> DEFINE Less(z) == {v \in S : v < z}
  <2>0. x \in Nat /\ y \in Nat /\ S \in SUBSET Nat
    BY <1>1, <1>2
  <2>1. Less(y) \in SUBSET Less(x) /\ Less(x) \in SUBSET S
    <3>1. \A v \in S : v < y => v < x
      BY <1>2, <2>0
    <3> QED BY <3>1
  <2>2. IsFiniteSet(Less(x)) /\ IsFiniteSet(Less(y))
    <3> HIDE DEF Less
    <3> QED BY <2>1, FS_Subset
  <2>3. Cardinality(Less(y)) =< Cardinality(Less(x)) /\ Cardinality(Less(x)) \in Nat /\ Cardinality(Less(y)) \in Nat
    <3> HIDE DEF Less
    <3> QED BY <2>1, <2>2, FS_Subset, FS_CardinalityType
  <2>4. Cardinality(Less(x)) < n /\ ~ (Cardinality(Less(y)) < n)
    BY <1>2 DEF First
  <2> HIDE DEF Less
  <2> QED BY <2>3, <2>4
<1>3. \A x \in First(S, n), y \in S \ First(S, n) : x < y
  <2> TAKE x \in First(S, n), y \in S \ First(S, n)
  <2>1. x \in Nat /\ y \in Nat
    BY <1>1
  <2>2. ~ (y =< x)
    BY <1>2
  <2> QED BY <2>1, <2>2
<1>4. IsFiniteSet(First(S, n)) /\ Cardinality(First(S, n)) \in Nat
  BY <1>1, FS_Subset, FS_CardinalityType
<1> QED BY <1>1, <1>3, <1>4

\* A batch that is not full leaves nothing out.
LEMMA FirstIsAll ==
  ASSUME NEW S \in SUBSET Nat, IsFiniteSet(S), NEW n \in Nat, Cardinality(First(S, n)) < n
  PROVE  First(S, n) = S
<1> DEFINE R == S \ First(S, n)
<1> SUFFICES ASSUME R # {} PROVE FALSE
  BY FirstIsInitial
<1>1. PICK y \in R : \A z \in R : y =< z
  <2>1. R \in SUBSET Nat
    OBVIOUS
  <2> HIDE DEF R
  <2> QED BY <2>1, LeastOfNumbers
<1>2. {v \in S : v < y} \in SUBSET First(S, n)
  <2>1. y \in Nat /\ \A z \in R : z \in Nat /\ y =< z
    BY <1>1
  <2>2. \A z \in R : ~ (z < y)
    BY <2>1
  <2>3. \A v \in S : v < y => v \notin R
    BY <2>2
  <2> QED BY <2>3
<1>3. IsFiniteSet({v \in S : v < y}) /\ Cardinality({v \in S : v < y}) =< Cardinality(First(S, n))
  BY <1>2, FirstIsInitial, FS_Subset
<1>4. Cardinality({v \in S : v < y}) \in Nat /\ Cardinality(First(S, n)) \in Nat
  BY <1>3, FirstIsInitial, FS_CardinalityType
<1>5. Cardinality({v \in S : v < y}) < n
  BY <1>3, <1>4
<1>6. y \in First(S, n)
  BY <1>1, <1>5 DEF First
<1> QED BY <1>1, <1>6

-----------------------------------------------------------------------------
(* Names and folders. *)

\* Keys are numbers, and None is no number.
LEMMA KeysAreNumbers ==
  ASSUME NEW q \in Query
  PROVE  /\ q.prefix \in Name /\ Under[q.prefix] \subseteq Key /\ Key \subseteq Name /\ Name \subseteq Nat
         /\ None \notin Nat /\ IsFiniteSet(Key) /\ IsFiniteSet(Under[q.prefix])
         /\ q.limit \in Nat \ {0} /\ q.delimited \in BOOLEAN /\ q.after \in Name \cup {None}
         /\ q.bucket \in Bucket /\ q.kind \in Kind
<1>1. /\ q.prefix \in Name /\ q.limit \in Nat \ {0} /\ q.delimited \in BOOLEAN /\ q.after \in Name \cup {None}
      /\ q.bucket \in Bucket /\ q.kind \in Kind
  BY DEF Query
<1>2. Under[q.prefix] \subseteq Key /\ Key \subseteq Name /\ Name \subseteq Nat /\ None \notin Nat /\ IsFiniteSet(Key)
  BY <1>1, NamesAssumption
<1> QED BY <1>1, <1>2, FS_Subset

\* commonPrefixOf: a folder's keys follow its name, and no other key comes between them.
LEMMA FolderHoldsItsKeys ==
  ASSUME NEW q \in Query, NEW k \in Under[q.prefix], Folder(q, k) # None
  PROVE  /\ Folder(q, k) \in Name /\ Folder(q, k) =< k /\ k \in Under[Folder(q, k)]
         /\ \A i \in Under[q.prefix] :
              /\ i \in Under[Folder(q, k)] <=> Folder(q, i) = Folder(q, k)
              /\ Folder(q, k) =< i /\ i =< k => Folder(q, i) = Folder(q, k)
<1> USE KeysAreNumbers
<1> DEFINE C(i) == CommonPrefix[q.prefix][i]
<1>1. q.delimited /\ \A i : Folder(q, i) = C(i)
  BY DEF Folder
<1>a. q.prefix \in Name /\ \A i \in Under[q.prefix] : i \in Key
  OBVIOUS
<1>b. \A i \in Under[q.prefix] : C(i) \in Name \cup {None}
  <2>1. CommonPrefix \in [Name -> [Key -> Name \cup {None}]]
    BY NamesAssumption
  <2>2. CommonPrefix[q.prefix] \in [Key -> Name \cup {None}]
    BY <1>a, <2>1
  <2> QED BY <1>a, <2>2
<1>c. \A i \in Under[q.prefix] : C(i) # None =>
         /\ i \in Under[C(i)]
         /\ \A j \in Under[q.prefix] :
              /\ j \in Under[C(i)] => C(j) = C(i)
              /\ C(i) =< j /\ j =< i => j \in Under[C(i)]
  <2>1. \A p \in Name : \A i \in Under[p] : CommonPrefix[p][i] # None =>
         /\ i \in Under[CommonPrefix[p][i]]
         /\ \A j \in Under[p] :
              /\ j \in Under[CommonPrefix[p][i]] => CommonPrefix[p][j] = CommonPrefix[p][i]
              /\ CommonPrefix[p][i] =< j /\ j =< i => j \in Under[CommonPrefix[p][i]]
    BY NamesAssumption
  <2> QED BY <1>a, <2>1
<1> HIDE DEF C
<1>2. Folder(q, k) \in Name
  BY <1>b, <1>1
<1>3. k \in Under[Folder(q, k)] /\ Folder(q, k) =< k
  <2>1. k \in Under[Folder(q, k)]
    BY <1>c, <1>1
  <2> QED BY <1>2, <2>1, NamesAssumption
<1>4. ASSUME NEW i \in Under[q.prefix]
      PROVE  /\ i \in Under[Folder(q, k)] => Folder(q, i) = Folder(q, k)
             /\ Folder(q, k) =< i /\ i =< k => i \in Under[Folder(q, k)]
  <2>1. Folder(q, k) = C(k) /\ C(k) # None /\ Folder(q, i) = C(i)
    BY <1>1
  <2>2. /\ i \in Under[C(k)] => C(i) = C(k)
        /\ C(k) =< i /\ i =< k => i \in Under[C(k)]
    BY <1>c, <2>1
  <2> QED BY <2>1, <2>2
<1>5. ASSUME NEW i \in Under[q.prefix], Folder(q, i) = Folder(q, k) PROVE i \in Under[Folder(q, k)]
  <2>1. i \in Under[C(i)]
    BY <1>c, <1>1, <1>5
  <2> QED BY <1>1, <1>5, <2>1
<1> QED BY <1>2, <1>3, <1>4, <1>5

\* commonPrefixOf: what comes between two keys of a folder is in it.
LEMMA FoldersAreRuns ==
  ASSUME NEW q \in Query, NEW i \in Under[q.prefix], NEW k \in Under[q.prefix], NEW j \in Under[q.prefix],
         i =< k, k =< j, Folder(q, i) # None, Folder(q, i) = Folder(q, j)
  PROVE  Folder(q, k) = Folder(q, i)
<1>1. Folder(q, i) =< i /\ Folder(q, i) \in Nat /\ i \in Nat /\ k \in Nat
  BY KeysAreNumbers, FolderHoldsItsKeys
<1>2. Folder(q, j) =< k
  BY <1>1
<1> QED BY <1>2, FolderHoldsItsKeys

\* commonPrefixOf: what comes before a key that is in a folder, and is not in it,
\* comes before the folder's name.
LEMMA FoldersAreInOrder ==
  ASSUME NEW q \in Query, NEW k \in Under[q.prefix], Folder(q, k) # None
  PROVE  /\ \A l : Leaf(q, l) /\ l < k => l < Folder(q, k)
         /\ \A f : AFolder(q, f) /\ f < k => f =< Folder(q, k)
         /\ \A f : AFolder(q, f) /\ f < k /\ k \notin Under[f] => f < Folder(q, k)
         /\ \A f : AFolder(q, f) => f \in Name
<1> DEFINE F == Folder(q, k)
<1>0. F \in Nat /\ k \in Nat /\ F # None
  BY KeysAreNumbers, FolderHoldsItsKeys
<1>1. ASSUME NEW l, Leaf(q, l), l < k PROVE l < F
  <2>1. l \in Under[q.prefix] /\ l \in Nat /\ Folder(q, l) # F
    BY <1>0, <1>1, KeysAreNumbers DEF Leaf
  <2>2. ~ (F =< l /\ l =< k)
    BY <2>1, FolderHoldsItsKeys
  <2> HIDE DEF F
  <2> QED BY <1>0, <1>1, <2>1, <2>2
<1>2. ASSUME NEW f, AFolder(q, f) PROVE f \in Name /\ f \in Nat /\ (f < k => f =< F)
  <2>1. PICK j \in Under[q.prefix] : Folder(q, j) = f /\ f # None
    BY <1>2 DEF AFolder
  <2>2. f \in Name /\ f \in Nat /\ f =< j /\ j \in Nat
    BY <2>1, KeysAreNumbers, FolderHoldsItsKeys
  <2>3. ASSUME f < k, F < f PROVE FALSE
    <3>1. CASE j =< k
      <4>1. F =< j
        BY <1>0, <2>2, <2>3
      <4>2. Folder(q, j) = F
        BY <3>1, <4>1, FolderHoldsItsKeys
      <4> QED BY <1>0, <2>1, <2>3, <4>2
    <3>2. CASE k =< j
      <4>1. Folder(q, k) = Folder(q, j)
        <5>1. Folder(q, j) =< k /\ k =< j
          BY <1>0, <2>1, <2>2, <2>3, <3>2
        <5> QED BY <2>1, <5>1, FolderHoldsItsKeys
      <4> QED BY <1>0, <2>1, <2>3, <4>1
    <3> QED BY <1>0, <2>2, <3>1, <3>2
  <2> QED BY <1>0, <2>2, <2>3
<1>3. ASSUME NEW f, AFolder(q, f), f < k, k \notin Under[f] PROVE f < F
  <2>1. f \in Nat /\ f =< F
    BY <1>2, <1>3
  <2>2. f # F
    BY <1>3, FolderHoldsItsKeys
  <2> HIDE DEF F
  <2> QED BY <1>0, <2>1, <2>2
<1> QED BY <1>1, <1>2, <1>3

\* commonPrefixOf: a folder's name is followed by a key of the folder.
LEMMA FoldersHaveKeys ==
  ASSUME NEW q \in Query, NEW f, AFolder(q, f)
  PROVE  /\ f \in Name /\ f \in Nat /\ f # None
         /\ \A k \in Under[q.prefix] : k \in Under[f] <=> Folder(q, k) = f
         /\ \A k \in Under[f] : k \in Key /\ f =< k
<1>1. PICK j \in Under[q.prefix] : Folder(q, j) = f /\ f # None
  BY DEF AFolder
<1>2. f \in Name /\ f \in Nat
  BY <1>1, KeysAreNumbers, FolderHoldsItsKeys
<1>3. \A k \in Under[f] : k \in Key /\ f =< k
  BY <1>2, NamesAssumption
<1> QED BY <1>1, <1>2, <1>3, FolderHoldsItsKeys

\* commonPrefixOf: an item is a leaf's key, or its folder.
LEMMA ItemsAreKeysOrFolders ==
  ASSUME NEW q \in Query, NEW k \in Under[q.prefix], NEW id
  PROVE  /\ Leaf(q, k) => ItemOf(q, k, id) = <<k, id>>
         /\ ~Leaf(q, k) => AFolder(q, Folder(q, k)) /\ ItemOf(q, k, id) = <<Folder(q, k), None>>
         /\ ItemOf(q, k, id)[2] # None => Leaf(q, k) /\ ItemOf(q, k, id) = <<k, id>>
BY DEF Leaf, AFolder, ItemOf

-----------------------------------------------------------------------------
(* ObjectsService.list: the batches. *)

\* What a client of the listing of objects is to be given, and the latest versions L
\* that the next query finds: each is ahead, and what was there all the time is one
\* of them, or in a folder with one of them, if it is ahead.
Finds(x, there, L) ==
    /\ L \subseteq Under[x.query.prefix]
    /\ \A k \in L : Ahead(x, k)
    /\ \A item \in there : \E k \in Under[x.query.prefix] :
         item = ItemOf(x.query, k, 0) /\ (Ahead(x, k) => k \in L)

\* list, isTruncated: when the query finds nothing, nothing is left to give.
LEMMA NothingFound ==
  ASSUME NEW x, NEW y, NEW given, NEW twice, NEW there, x.query \in Query,
         ObjectWalk(x, given, twice, there), Finds(x, there, {}),
         y.query = x.query, y.cursor = x.cursor, y.exclude = x.exclude, y.marker = x.marker,
         y.leaf = x.leaf, y.onFolder = x.onFolder, y.count = x.count, y.at = "ended"
  PROVE  ObjectWalk(y, given, twice, there)
<1>1. there \subseteq given
  <2> SUFFICES ASSUME NEW item \in there, item \notin given PROVE FALSE
    OBVIOUS
  <2>1. PICK k \in Under[x.query.prefix] : item = ItemOf(x.query, k, 0) /\ ~Ahead(x, k)
    BY DEF Finds
  <2>2. Ahead(x, k)
    BY <2>1 DEF ObjectWalk
  <2> QED BY <2>1, <2>2
<1>2. Stands(y) /\ (Passes(x) => Passes(y)) /\ (Untouched(x) => Untouched(y)) /\ \A k : Ahead(y, k) <=> Ahead(x, k)
  BY DEF ObjectWalk, Stands, Passes, Untouched, Ahead
<1> QED BY <1>1, <1>2 DEF ObjectWalk

\* list: a batch none of whose keys is in a folder.
LEMMA LeavesGiven ==
  ASSUME NEW x, NEW y, NEW given, NEW twice, NEW there, NEW L, x.query \in Query, x.query.kind \in ObjectKinds,
         ObjectWalk(x, given, twice, there), Finds(x, there, L), x.at = "fetch", x.count \in Nat,
         x.marker # None => x.marker \in Nat,
         NEW batch, batch = First(L, x.query.limit - x.count), batch # {}, \A k \in batch : Leaf(x.query, k),
         y.query = x.query, y.cursor = Greatest(batch), y.exclude = x.exclude, y.marker = x.marker,
         y.leaf = Greatest(batch), y.onFolder = FALSE, y.count = x.count + Cardinality(batch),
         y.at = IF Cardinality(batch) < x.query.limit - x.count THEN "ended" ELSE "peek"
  PROVE  LET items == {<<k, 0>> : k \in batch} IN
         ObjectWalk(y, given \cup items, twice \cup (items \cap given), there)
<1> DEFINE q == x.query
           items == {<<k, 0>> : k \in batch}
           c == Greatest(batch)
           room == q.limit - x.count
<1> USE KeysAreNumbers
<1>0. /\ Under[q.prefix] \subseteq Nat /\ IsFiniteSet(Under[q.prefix]) /\ None \notin Nat
      /\ L \in SUBSET Nat /\ IsFiniteSet(L) /\ L \subseteq Under[q.prefix] /\ room \in Nat
  <2>1. L \subseteq Under[q.prefix]
    BY DEF Finds
  <2>2. x.count < q.limit
    BY DEF ObjectWalk, Stands
  <2>3. IsFiniteSet(L)
    BY <2>1, FS_Subset
  <2> QED BY <2>1, <2>2, <2>3
<1>1. /\ batch \subseteq L /\ IsFiniteSet(batch) /\ Cardinality(batch) \in Nat
      /\ \A i \in batch, k \in L \ batch : i < k
  BY <1>0, FirstIsInitial
<1>2. c \in batch /\ c \in Nat /\ \A i \in batch : i \in Nat /\ i =< c
  <2>1. batch \in SUBSET Nat
    BY <1>0, <1>1
  <2> QED BY <1>1, <2>1, GreatestOfNumbers
<1>3. Cardinality(batch) < room => batch = L
  BY <1>0, FirstIsAll
<1>4. Leaf(q, c) /\ c \in Under[q.prefix] /\ \A i \in batch : Ahead(x, i) /\ Leaf(q, i) /\ i \in Under[q.prefix]
  BY <1>1, <1>2 DEF Finds, Leaf
<1>5. \A k \in Under[q.prefix] : Leaf(q, k) => ItemOf(q, k, 0) = <<k, 0>>
  BY ItemsAreKeysOrFolders
\* What is left comes after the batch.
<1>6. ASSUME NEW item \in there \ (given \cup items)
      PROVE  \E k \in L \ batch : item = ItemOf(q, k, 0)
  <2>1. PICK k \in Under[q.prefix] : item = ItemOf(q, k, 0) /\ (Ahead(x, k) => k \in L)
    BY <1>6 DEF Finds
  <2>2. Ahead(x, k)
    BY <1>6, <2>1 DEF ObjectWalk
  <2>3. k \notin batch
    BY <1>4, <1>5, <1>6, <2>1
  <2> QED BY <2>1, <2>2, <2>3
<1>7. y.at = "ended" => there \subseteq given \cup items
  BY <1>3, <1>6
<1>8. ASSUME NEW k \in Under[q.prefix], ItemOf(q, k, 0) \in there \ (given \cup items)
      PROVE  Ahead(y, k)
  <2>1. PICK j \in L \ batch : ItemOf(q, k, 0) = ItemOf(q, j, 0)
    BY <1>6, <1>8
  <2>2. j \in Under[q.prefix] /\ j \in Nat /\ c < j /\ k \in Nat
    BY <1>0, <1>1, <1>2, <2>1
  <2>3. x.exclude = None \/ k \notin Under[x.exclude]
    BY <1>8 DEF ObjectWalk, Ahead
  <2>4. c < k
    <3>1. CASE Leaf(q, k)
      <4>1. Leaf(q, j)
        BY <1>0, <2>1, <2>2, <3>1, ItemsAreKeysOrFolders
      <4>2. k = j
        BY <1>5, <2>1, <2>2, <3>1, <4>1
      <4> QED BY <2>2, <4>2
    <3>2. CASE ~Leaf(q, k)
      <4>1. ~Leaf(q, j)
        BY <1>0, <2>1, <2>2, <3>2, ItemsAreKeysOrFolders
      <4>2. Folder(q, k) = Folder(q, j) /\ Folder(q, k) # None
        BY <2>1, <2>2, <3>2, <4>1, ItemsAreKeysOrFolders DEF AFolder
      <4>3. ASSUME k =< c PROVE FALSE
        <5>1. Folder(q, c) = Folder(q, k)
          BY <1>2, <1>4, <2>2, <4>2, <4>3, FoldersAreRuns
        <5> QED BY <1>4, <4>2, <5>1 DEF Leaf
      <4> QED BY <1>2, <2>2, <4>3
    <3> QED BY <3>1, <3>2
  <2> QED BY <2>3, <2>4 DEF Ahead
\* Where the client stood before lies behind.
<1>9. x.cursor # None => x.cursor \in Nat /\ x.cursor < c
  <2>1. x.cursor # None => x.cursor \in Nat
    BY FoldersHaveKeys DEF ObjectWalk, Leaf, Untouched
  <2> QED BY <1>2, <1>4, <2>1 DEF Ahead
<1>10. Stands(y)
  <2>1. y.at = "peek" => y.count >= y.query.limit
    <3>1. Cardinality(batch) >= room => x.count + Cardinality(batch) >= q.limit
      BY <1>1
    <3>2. y.at = "peek" => ~ (Cardinality(batch) < room)
      OBVIOUS
    <3> QED BY <1>0, <1>1, <3>1, <3>2
  <2>2. y.exclude # None => AFolder(q, y.exclude) /\ y.exclude < c
    <3>1. x.exclude # None => AFolder(q, x.exclude) /\ x.cursor # None /\ (x.cursor = x.exclude \/ x.exclude < x.cursor)
      BY <1>0, FoldersHaveKeys DEF ObjectWalk, Stands, Leaf
    <3>2. x.exclude # None => x.exclude \in Nat
      BY <3>1, FoldersHaveKeys
    <3> QED BY <1>2, <1>9, <3>1, <3>2
  <2>3. y.at \in {"ended", "peek"}
    OBVIOUS
  <2>4. c =< c
    BY <1>2
  <2> QED BY <1>0, <1>2, <1>4, <2>1, <2>2, <2>3, <2>4 DEF Stands
<1>11. CASE q.kind = "objects"
  <2>1. \A k \in Under[q.prefix] : ItemOf(q, k, 0) \in given => ~Ahead(x, k)
    BY <1>11 DEF ObjectWalk
  <2>2. items \cap given = {} /\ twice = {}
    BY <1>4, <1>5, <1>11, <2>1 DEF ObjectWalk
  <2>3. ASSUME NEW k \in Under[q.prefix], ItemOf(q, k, 0) \in given \cup items, Ahead(y, k) PROVE FALSE
    <3>1. k \in Nat /\ c < k
      BY <1>0, <1>2, <2>3 DEF Ahead
    <3>2. CASE ItemOf(q, k, 0) \in given
      <4>1. ~Ahead(x, k)
        BY <2>1, <3>2
      <4>2. x.cursor # None /\ ~ (x.cursor < k)
        BY <2>3, <4>1 DEF Ahead
      <4> QED BY <1>2, <1>9, <3>1, <4>2
    <3>3. CASE ItemOf(q, k, 0) \in items
      <4>1. PICK i \in batch : ItemOf(q, k, 0) = <<i, 0>>
        BY <3>3
      <4>2. k = i
        BY <1>0, <4>1, ItemsAreKeysOrFolders
      <4> QED BY <1>2, <3>1, <4>1, <4>2
    <3> QED BY <2>3, <3>2, <3>3
  <2> QED BY <1>4, <1>7, <1>8, <1>10, <1>11, <2>2, <2>3 DEF ObjectWalk
<1>12. CASE q.kind = "marked"
  <2>1. Passes(y)
    <3>1. x.marker # None => x.cursor # None /\ x.marker =< x.cursor
      BY <1>12 DEF ObjectWalk, Passes
    <3>2. x.marker # None => x.marker < c
      BY <1>2, <1>9, <3>1
    <3> QED BY <1>0, <1>2, <3>2 DEF Passes
  <2>2. \A k \in Under[q.prefix] : Leaf(q, k) /\ <<k, 0>> \in given => k < c
    <3> TAKE k \in Under[q.prefix]
    <3>1. Leaf(q, k) /\ <<k, 0>> \in given => x.cursor # None /\ k =< x.cursor
      BY <1>12 DEF ObjectWalk
    <3> QED BY <1>0, <1>2, <1>9, <3>1
  <2>3. \A k \in Under[q.prefix] : Leaf(q, k) /\ <<k, 0>> \in given \cup items => c # None /\ k =< c
    <3> TAKE k \in Under[q.prefix]
    <3>1. <<k, 0>> \in items => k \in batch
      OBVIOUS
    <3> QED BY <1>0, <1>2, <2>2, <3>1
  <2>4. items \cap given = {}
    <3> SUFFICES ASSUME NEW k \in batch, <<k, 0>> \in given PROVE FALSE
      OBVIOUS
    <3>1. x.cursor # None /\ k =< x.cursor /\ ~ (k =< x.cursor)
      BY <1>2, <1>4, <1>9, <1>12 DEF ObjectWalk, Ahead
    <3> QED BY <3>1
  <2>5. \A item \in twice \cup (items \cap given) : item[2] = None
    BY <1>12, <2>4 DEF ObjectWalk
  <2> QED BY <1>4, <1>7, <1>8, <1>10, <1>12, <2>1, <2>3, <2>5 DEF ObjectWalk
<1> QED BY <1>11, <1>12 DEF ObjectKinds

\* list: a batch up to its first key in a folder.
LEMMA FolderGiven ==
  ASSUME NEW x, NEW y, NEW given, NEW twice, NEW there, NEW L, x.query \in Query, x.query.kind \in ObjectKinds,
         ObjectWalk(x, given, twice, there), Finds(x, there, L), x.at = "fetch", x.count \in Nat,
         x.marker # None => x.marker \in Nat,
         NEW batch, batch = First(L, x.query.limit - x.count),
         NEW f0 \in batch, Folder(x.query, f0) # None,
         NEW leaves \in SUBSET batch, \A k \in leaves : Leaf(x.query, k) /\ k < f0,
         \A k \in batch : k < f0 => k \in leaves,
         y.query = x.query, y.cursor = Folder(x.query, f0), y.exclude = Folder(x.query, f0), y.marker = x.marker,
         y.leaf = IF leaves = {} THEN x.leaf ELSE Greatest(leaves), y.onFolder = TRUE,
         y.count = x.count + Cardinality(leaves) + 1,
         y.at = IF y.count < x.query.limit THEN "fetch" ELSE "peek"
  PROVE  LET items == {<<k, 0>> : k \in leaves} \cup {<<Folder(x.query, f0), None>>} IN
         ObjectWalk(y, given \cup items, twice \cup (items \cap given), there)
<1> DEFINE q == x.query
           F == Folder(q, f0)
           items == {<<k, 0>> : k \in leaves} \cup {<<F, None>>}
           g == Greatest(leaves)
           room == q.limit - x.count
<1> USE KeysAreNumbers
<1>0. /\ Under[q.prefix] \subseteq Nat /\ IsFiniteSet(Under[q.prefix]) /\ None \notin Nat
      /\ L \in SUBSET Nat /\ IsFiniteSet(L) /\ L \subseteq Under[q.prefix] /\ room \in Nat /\ q.limit \in Nat
  <2>1. L \subseteq Under[q.prefix]
    BY DEF Finds
  <2>2. x.count < q.limit
    BY DEF ObjectWalk, Stands
  <2>3. IsFiniteSet(L)
    BY <2>1, FS_Subset
  <2> QED BY <2>1, <2>2, <2>3
<1>1. /\ batch \subseteq L /\ IsFiniteSet(batch) /\ IsFiniteSet(leaves) /\ Cardinality(leaves) \in Nat
      /\ \A i \in batch, k \in L \ batch : i < k
  <2>1. batch \subseteq L /\ IsFiniteSet(batch) /\ \A i \in batch, k \in L \ batch : i < k
    BY <1>0, FirstIsInitial
  <2> QED BY <2>1, FS_Subset, FS_CardinalityType
<1>2. leaves # {} => g \in leaves /\ g \in Nat /\ \A i \in leaves : i \in Nat /\ i =< g
  <2>1. leaves \in SUBSET Nat
    BY <1>0, <1>1
  <2> QED BY <1>1, <2>1, GreatestOfNumbers
<1>3. /\ f0 \in Under[q.prefix] /\ f0 \in Nat /\ F \in Nat /\ F \in Name /\ F =< f0 /\ F # None /\ AFolder(q, F)
      /\ f0 \in Under[F]
      /\ \A k \in Under[q.prefix] : k \in Under[F] <=> Folder(q, k) = F
  <2>1. f0 \in Under[q.prefix] /\ f0 \in Nat
    BY <1>0, <1>1
  <2> QED BY <2>1, FolderHoldsItsKeys DEF AFolder
<1>4. \A i \in batch : Ahead(x, i) /\ i \in Under[q.prefix] /\ i \in Nat
  BY <1>0, <1>1 DEF Finds
<1>5. \A k \in Under[q.prefix] : Leaf(q, k) => ItemOf(q, k, 0) = <<k, 0>>
  BY ItemsAreKeysOrFolders
<1>6. \A i \in leaves : i \in Nat /\ Leaf(q, i) /\ i < F
  BY <1>3, <1>4, FoldersAreInOrder
<1>7. ItemOf(q, f0, 0) = <<F, None>>
  BY <1>3 DEF ItemOf
\* What is left comes after the batch up to the folder, and outside of the folder.
<1>8. ASSUME NEW item \in there \ (given \cup items)
      PROVE  \E k \in L : item = ItemOf(q, k, 0) /\ f0 < k /\ k \notin Under[F]
  <2>1. PICK k \in Under[q.prefix] : item = ItemOf(q, k, 0) /\ (Ahead(x, k) => k \in L)
    BY <1>8 DEF Finds
  <2>2. Ahead(x, k) /\ k \in L /\ k \in Nat
    BY <1>0, <1>8, <2>1 DEF ObjectWalk
  <2>3. k \notin Under[F]
    <3>1. item # <<F, None>>
      BY <1>8
    <3>2. k \in Under[F] => ItemOf(q, k, 0) = <<F, None>>
      BY <1>3 DEF ItemOf
    <3> QED BY <2>1, <3>1, <3>2
  <2>4. k # f0
    BY <1>3, <2>3
  <2>5. ~ (k < f0)
    <3> SUFFICES ASSUME k < f0 PROVE FALSE
      OBVIOUS
    <3>1. k \in batch
      <4>1. k \notin L \ batch
        BY <1>1, <1>3, <2>2
      <4> QED BY <2>2, <4>1
    <3>2. k \in leaves /\ item = <<k, 0>>
      BY <1>5, <2>1, <3>1
    <3> QED BY <1>8, <3>2
  <2> QED BY <1>3, <2>1, <2>2, <2>3, <2>4, <2>5
<1>9. ASSUME NEW k \in Under[q.prefix], ItemOf(q, k, 0) \in there \ (given \cup items)
      PROVE  Ahead(y, k)
  <2>1. PICK j \in L : ItemOf(q, k, 0) = ItemOf(q, j, 0) /\ f0 < j /\ j \notin Under[F]
    BY <1>8, <1>9
  <2>2. j \in Under[q.prefix] /\ j \in Nat /\ k \in Nat
    BY <1>0, <2>1
  <2>3. F < k /\ k \notin Under[F]
    <3>1. CASE Leaf(q, k)
      <4>1. Leaf(q, j)
        BY <1>0, <2>1, <2>2, <3>1, ItemsAreKeysOrFolders
      <4>2. k = j
        BY <1>5, <2>1, <2>2, <3>1, <4>1
      <4> QED BY <1>3, <2>1, <2>2, <4>2
    <3>2. CASE ~Leaf(q, k)
      <4>1. ~Leaf(q, j)
        BY <1>0, <2>1, <2>2, <3>2, ItemsAreKeysOrFolders
      <4>2. Folder(q, k) = Folder(q, j) /\ Folder(q, k) # None
        BY <2>1, <2>2, <3>2, <4>1, ItemsAreKeysOrFolders DEF AFolder
      <4>3. Folder(q, k) # F /\ k \notin Under[F]
        BY <1>3, <2>1, <2>2, <4>2
      <4>4. ASSUME k =< f0 PROVE FALSE
        <5>1. Folder(q, f0) = Folder(q, k)
          BY <1>3, <2>1, <2>2, <4>2, <4>4, FoldersAreRuns
        <5> QED BY <4>3, <5>1
      <4> QED BY <1>3, <2>2, <4>3, <4>4
    <3> QED BY <3>1, <3>2
  <2> QED BY <2>3 DEF Ahead
\* Where the client stood before does not lie ahead.
<1>10. /\ x.cursor # None => x.cursor \in Nat /\ x.cursor < f0
       /\ given # {} => x.cursor # None /\ x.cursor =< F
       /\ x.exclude # None /\ x.cursor = x.exclude => x.cursor < F
       /\ x.leaf # None => x.leaf < F /\ Leaf(q, x.leaf)
  <2>1. x.cursor # None => x.cursor \in Nat
    BY FoldersHaveKeys DEF ObjectWalk, Leaf, Untouched
  <2>2. x.cursor # None => x.cursor < f0
    BY <1>4 DEF Ahead
  <2>3. Leaf(q, x.cursor) => x.cursor # None /\ x.cursor < F
    BY <1>0, <1>3, <2>2, FoldersAreInOrder DEF Leaf
  <2>4. AFolder(q, x.cursor) => x.cursor # None /\ x.cursor =< F
    BY <1>0, <1>3, <2>2, FoldersAreInOrder DEF AFolder
  <2>5. x.exclude # None /\ x.cursor = x.exclude => x.cursor < F
    <3>1. x.exclude # None => AFolder(q, x.exclude) /\ f0 \notin Under[x.exclude]
      BY <1>4 DEF ObjectWalk, Stands, Ahead
    <3> QED BY <1>3, <2>2, <3>1, FoldersAreInOrder
  <2>6. given # {} => x.cursor # None /\ x.cursor =< F
    BY <1>3, <2>1, <2>3, <2>4 DEF ObjectWalk
  <2>7. x.leaf # None => x.leaf < F /\ Leaf(q, x.leaf)
    <3> SUFFICES ASSUME x.leaf # None PROVE x.leaf < F /\ Leaf(q, x.leaf)
      OBVIOUS
    <3>1. Leaf(q, x.leaf) /\ x.cursor # None /\ x.leaf =< x.cursor
      BY DEF ObjectWalk, Stands
    <3>2. x.leaf \in Nat /\ x.leaf < f0
      BY <1>0, <1>3, <2>1, <2>2, <3>1 DEF Leaf
    <3> QED BY <1>3, <3>1, <3>2, FoldersAreInOrder
  <2> QED BY <2>1, <2>2, <2>5, <2>6, <2>7
<1>11. Stands(y)
  <2>1. y.count \in Nat /\ ~ (y.count < q.limit) => y.count >= q.limit
    BY <1>0
  <2>2. y.count \in Nat
    BY <1>1
  <2>3. y.leaf # None => Leaf(q, y.leaf) /\ y.leaf =< F
    <3>1. CASE leaves = {}
      <4>1. x.leaf # None => x.leaf \in Nat
        BY <1>0, <1>10 DEF Leaf
      <4> QED BY <1>3, <1>10, <3>1, <4>1
    <3>2. CASE leaves # {}
      BY <1>2, <1>3, <1>6, <3>2
    <3> QED BY <3>1, <3>2
  <2> QED BY <1>3, <2>1, <2>2, <2>3 DEF Stands
<1>12. CASE q.kind = "objects"
  <2>1. \A k \in Under[q.prefix] : ItemOf(q, k, 0) \in given => ~Ahead(x, k)
    BY <1>12 DEF ObjectWalk
  <2>2. items \cap given = {} /\ twice = {}
    <3>1. \A k \in leaves : <<k, 0>> \notin given
      BY <1>4, <1>5, <1>6, <2>1
    <3>2. <<F, None>> \notin given
      BY <1>3, <1>4, <1>7, <2>1
    <3> QED BY <1>12, <3>1, <3>2 DEF ObjectWalk
  <2>3. ASSUME NEW k \in Under[q.prefix], ItemOf(q, k, 0) \in given \cup items, Ahead(y, k) PROVE FALSE
    <3>1. k \in Nat /\ F < k /\ k \notin Under[F]
      BY <1>0, <1>3, <2>3 DEF Ahead
    <3>2. CASE ItemOf(q, k, 0) \in given
      <4>1. ~Ahead(x, k) /\ x.cursor # None /\ x.cursor =< F /\ x.cursor \in Nat
        BY <1>10, <2>1, <3>2
      <4>2. x.exclude # None /\ k \in Under[x.exclude]
        BY <1>3, <3>1, <4>1 DEF Ahead
      <4>3. AFolder(q, x.exclude) /\ f0 \notin Under[x.exclude] /\ x.exclude =< x.cursor
        <5>1. AFolder(q, x.exclude) /\ (x.cursor = x.exclude \/ x.exclude < x.cursor)
          BY <4>2 DEF ObjectWalk, Stands
        <5>2. x.exclude \in Nat
          BY <5>1, FoldersHaveKeys
        <5> QED BY <1>4, <4>1, <4>2, <5>1, <5>2 DEF Ahead
      <4>4. Folder(q, k) = x.exclude /\ Folder(q, f0) # x.exclude /\ x.exclude \in Nat
        BY <1>3, <4>2, <4>3, FoldersHaveKeys
      <4>5. CASE k =< f0
        <5>1. Folder(q, k) = F
          BY <1>3, <3>1, <4>5, FolderHoldsItsKeys
        <5> QED BY <4>4, <5>1
      <4>6. CASE f0 =< k
        <5>1. Folder(q, k) # None /\ Folder(q, k) =< f0
          BY <1>3, <1>10, <4>1, <4>2, <4>3, <4>4
        <5>2. Folder(q, f0) = Folder(q, k)
          BY <1>3, <4>6, <5>1, FolderHoldsItsKeys
        <5> QED BY <4>4, <5>2
      <4> QED BY <1>3, <3>1, <4>5, <4>6
    <3>3. CASE ItemOf(q, k, 0) \in items
      <4>1. CASE ItemOf(q, k, 0) = <<F, None>>
        <5>1. ~Leaf(q, k)
          BY <1>0, <4>1, ItemsAreKeysOrFolders
        <5>2. Folder(q, k) = F
          BY <4>1, <5>1, ItemsAreKeysOrFolders
        <5> QED BY <1>3, <3>1, <5>2
      <4>2. CASE ItemOf(q, k, 0) # <<F, None>>
        <5>1. PICK i \in leaves : ItemOf(q, k, 0) = <<i, 0>>
          BY <3>3, <4>2
        <5>2. ItemOf(q, k, 0)[2] # None
          BY <1>0, <5>1
        <5>3. ItemOf(q, k, 0) = <<k, 0>>
          BY <5>2, ItemsAreKeysOrFolders
        <5>4. k = i
          BY <5>1, <5>3
        <5> QED BY <1>3, <1>6, <3>1, <5>4
      <4> QED BY <4>1, <4>2
    <3> QED BY <2>3, <3>2, <3>3
  <2> QED BY <1>3, <1>9, <1>11, <1>12, <2>2, <2>3 DEF ObjectWalk
<1>13. CASE q.kind = "marked"
  <2>1. Passes(y)
    <3> SUFFICES ASSUME x.marker # None
                 PROVE  /\ x.marker =< F /\ (y.leaf # None => x.marker < y.leaf)
                        /\ y.leaf = None /\ F = x.marker => y.count = 1
      BY <1>3 DEF Passes
    <3>1. /\ x.cursor # None /\ x.marker =< x.cursor /\ x.marker \in Nat /\ x.cursor \in Nat
          /\ x.leaf # None => x.marker < x.leaf
          /\ x.leaf = None /\ x.cursor = x.marker => x.count = 0 \/ (x.count = 1 /\ x.onFolder)
      BY <1>10, <1>13 DEF ObjectWalk, Passes
    <3>2. x.cursor =< F
      <4>1. ~Untouched(x)
        BY DEF Untouched
      <4>2. Leaf(q, x.cursor) \/ AFolder(q, x.cursor)
        BY <4>1 DEF ObjectWalk
      <4> QED BY <1>3, <1>10, <3>1, <4>2, FoldersAreInOrder
    <3>3. x.marker =< F
      BY <1>3, <3>1, <3>2
    <3>4. leaves # {} => y.leaf # None /\ x.marker < y.leaf
      <4> SUFFICES ASSUME leaves # {} PROVE g \in Nat /\ x.cursor < g
        BY <1>0, <3>1
      <4> QED BY <1>2, <1>4, <3>1 DEF Ahead
    <3>5. ASSUME y.leaf = None, F = x.marker PROVE y.count = 1
      <4>1. leaves = {} /\ x.leaf = None
        BY <3>4, <3>5
      <4>2. x.cursor = x.marker
        BY <1>3, <3>1, <3>2, <3>5
      <4>3. x.count = 0
        <5> SUFFICES ASSUME x.onFolder PROVE FALSE
          BY <3>1, <4>1, <4>2
        <5>1. x.exclude = x.cursor
          BY DEF ObjectWalk, Stands
        <5>2. x.cursor < F
          BY <1>10, <3>1, <5>1
        <5> QED BY <1>3, <3>5, <4>2, <5>2
      <4>4. Cardinality(leaves) = 0
        BY <4>1, FS_EmptySet
      <4> QED BY <4>3, <4>4
    <3> QED BY <3>1, <3>3, <3>4, <3>5
  <2>2. \A k \in Under[q.prefix] : Leaf(q, k) /\ <<k, 0>> \in given =>
           k \in Nat /\ x.cursor # None /\ x.cursor \in Nat /\ k =< x.cursor /\ (x.leaf # None => k =< x.leaf)
    <3> TAKE k \in Under[q.prefix]
    <3>1. Leaf(q, k) /\ <<k, 0>> \in given => x.cursor # None /\ k =< x.cursor /\ (x.leaf # None => k =< x.leaf)
      BY <1>13 DEF ObjectWalk
    <3> QED BY <1>0, <1>10, <3>1
  <2>3. ASSUME NEW k \in Under[q.prefix], Leaf(q, k), <<k, 0>> \in given \cup items
        PROVE  k =< F /\ (y.leaf # None => k =< y.leaf)
    <3>1. CASE <<k, 0>> \in given
      <4>1. k =< F
        BY <1>3, <1>10, <2>2, <2>3, <3>1
      <4>2. leaves # {} => k =< g
        <5> SUFFICES ASSUME leaves # {} PROVE k =< g
          OBVIOUS
        <5>1. g \in Nat /\ x.cursor < g
          BY <1>2, <1>4, <2>2, <2>3, <3>1 DEF Ahead
        <5> QED BY <2>2, <2>3, <3>1, <5>1
      <4> QED BY <2>2, <2>3, <3>1, <4>1, <4>2
    <3>2. CASE <<k, 0>> \in items
      <4>1. k \in leaves
        BY <1>0, <3>2
      <4> QED BY <1>2, <1>3, <1>6, <4>1
    <3> QED BY <2>3, <3>1, <3>2
  <2>4. \A k \in leaves : <<k, 0>> \notin given
    <3> SUFFICES ASSUME NEW k \in leaves, <<k, 0>> \in given PROVE FALSE
      OBVIOUS
    <3>1. k \in Under[q.prefix] /\ Leaf(q, k) /\ Ahead(x, k)
      BY <1>4, <1>6
    <3>2. x.cursor # None /\ x.cursor \in Nat /\ k \in Nat /\ k =< x.cursor /\ x.cursor < k
      BY <2>2, <3>1 DEF Ahead
    <3> QED BY <3>2
  <2>5. \A item \in twice \cup (items \cap given) : item[2] = None
    BY <1>13, <2>4 DEF ObjectWalk
  <2> QED BY <1>3, <1>9, <1>11, <1>13, <2>1, <2>3, <2>5 DEF ObjectWalk
<1> QED BY <1>12, <1>13 DEF ObjectKinds

-----------------------------------------------------------------------------
(* ObjectsService.list, listObjectsV1: the next page. *)

\* A page that is not the last one ended on an object or on a folder.
LEMMA PagesEndOnItems ==
  ASSUME NEW x, NEW given, NEW twice, NEW there, x.query \in Query, ObjectWalk(x, given, twice, there),
         x.at = "between"
  PROVE  /\ x.cursor # None /\ x.cursor \in Nat /\ x.cursor \in Name
         /\ x.onFolder => AFolder(x.query, x.cursor) /\ x.exclude = x.cursor
         /\ ~x.onFolder => Leaf(x.query, x.cursor)
         /\ x.leaf # None => Leaf(x.query, x.leaf) /\ x.leaf \in Nat /\ x.leaf =< x.cursor
<1>1. /\ x.onFolder => AFolder(x.query, x.cursor) /\ x.exclude = x.cursor
      /\ ~x.onFolder => Leaf(x.query, x.cursor)
      /\ x.leaf # None => Leaf(x.query, x.leaf) /\ x.leaf =< x.cursor
  BY DEF ObjectWalk, Stands
<1>2. \A k : Leaf(x.query, k) => k \in Name /\ k \in Nat /\ k # None
  BY KeysAreNumbers DEF Leaf
<1>3. x.cursor # None /\ x.cursor \in Nat /\ x.cursor \in Name
  BY <1>1, <1>2, FoldersHaveKeys
<1> QED BY <1>1, <1>2, <1>3

\* encodeToken, decodeToken: a page that ended on a folder resumes after the folder's keys.
LEMMA TokensResume ==
  ASSUME NEW x, NEW y, NEW given, NEW twice, NEW there, x.query \in Query, x.query.kind = "objects",
         ObjectWalk(x, given, twice, there), x.at = "between",
         y.query = x.query, y.cursor = x.cursor, y.exclude = IF x.onFolder THEN x.cursor ELSE None,
         y.marker = x.marker, y.leaf = None, y.onFolder = FALSE, y.count = 0, y.at = "fetch"
  PROVE  ObjectWalk(y, given, twice, there)
<1> DEFINE q == x.query
<1>1. /\ x.cursor # None /\ x.cursor \in Nat /\ x.cursor \in Name
      /\ x.onFolder => AFolder(q, x.cursor) /\ x.exclude = x.cursor
      /\ ~x.onFolder => Leaf(q, x.cursor)
  BY PagesEndOnItems
<1>2. q.limit \in Nat \ {0} /\ Under[q.prefix] \subseteq Nat /\ None \notin Nat
  BY KeysAreNumbers
<1>3. Stands(y)
  BY <1>1, <1>2 DEF Stands
<1>4. \A k \in Under[q.prefix] : Ahead(x, k) => Ahead(y, k)
  BY <1>1 DEF Ahead
<1>5. ASSUME NEW k \in Under[q.prefix], ItemOf(q, k, 0) \in given, Ahead(y, k) PROVE FALSE
  <2>1. ~Ahead(x, k) /\ k \in Nat /\ x.cursor < k
    BY <1>1, <1>2, <1>5 DEF ObjectWalk, Ahead
  <2>2. x.exclude # None /\ k \in Under[x.exclude] /\ ~x.onFolder
    BY <1>1, <1>5, <2>1 DEF Ahead
  <2>3. Leaf(q, x.cursor) /\ x.cursor \in Under[q.prefix] /\ Folder(q, x.cursor) = None
    BY <1>1, <2>2 DEF Leaf
  <2>4. AFolder(q, x.exclude) /\ (x.cursor = x.exclude \/ x.exclude < x.cursor)
    BY <2>2 DEF ObjectWalk, Stands
  <2>5. x.exclude \in Nat /\ x.exclude =< x.cursor /\ Folder(q, k) = x.exclude
    BY <1>1, <2>2, <2>4, FoldersHaveKeys
  <2>6. Folder(q, x.cursor) = x.exclude
    <3>1. Folder(q, k) =< x.cursor /\ x.cursor =< k
      BY <1>1, <2>1, <2>5
    <3> QED BY <2>2, <2>3, <2>5, <3>1, FolderHoldsItsKeys
  <2> QED BY <2>2, <2>3, <2>6
<1>6. \A k \in Under[q.prefix] : ItemOf(q, k, 0) \in there \ given => Ahead(y, k)
  BY <1>4 DEF ObjectWalk
<1>7. Leaf(q, y.cursor) \/ AFolder(q, y.cursor)
  BY <1>1
<1> QED BY <1>3, <1>5, <1>6, <1>7 DEF ObjectWalk

\* listObjectsV1: the marker of the next page is the last object of this one, or its last
\* folder if it has no object.
LEMMA MarkersResume ==
  ASSUME NEW x, NEW y, NEW given, NEW twice, NEW there, x.query \in Query, x.query.kind = "marked",
         ObjectWalk(x, given, twice, there), x.at = "between",
         NEW m, m = IF x.leaf # None THEN x.leaf ELSE x.cursor,
         y.query = x.query, y.cursor = m, y.exclude = None, y.marker = m,
         y.leaf = None, y.onFolder = FALSE, y.count = 0, y.at = "fetch"
  PROVE  ObjectWalk(y, given, twice, there)
<1> DEFINE q == x.query
<1>1. /\ x.cursor # None /\ x.cursor \in Nat /\ m \in Nat /\ m =< x.cursor
      /\ Leaf(q, m) \/ AFolder(q, m)
  BY PagesEndOnItems
<1>2. q.limit \in Nat \ {0} /\ Under[q.prefix] \subseteq Nat /\ None \notin Nat
  BY KeysAreNumbers
<1>3. Stands(y)
  BY <1>1, <1>2 DEF Stands
<1>4. \A k \in Under[q.prefix] : Ahead(x, k) => Ahead(y, k)
  <2> SUFFICES ASSUME NEW k \in Under[q.prefix], x.cursor < k PROVE m < k
    BY <1>1, <1>2 DEF Ahead
  <2> QED BY <1>1, <1>2
<1>5. Passes(y)
  BY <1>1, <1>2 DEF Passes
<1>6. \A k \in Under[q.prefix] : Leaf(q, k) /\ <<k, 0>> \in given => k =< m
  BY DEF ObjectWalk
<1>7. \A k \in Under[q.prefix] : ItemOf(q, k, 0) \in there \ given => Ahead(y, k)
  BY <1>4 DEF ObjectWalk
<1>8. \A item \in twice : item[2] = None
  BY DEF ObjectWalk
<1>9. y.cursor # None
  BY <1>1, <1>2
<1> QED BY <1>1, <1>3, <1>5, <1>6, <1>7, <1>8, <1>9 DEF ObjectWalk

\* listObjectsV1: a client whose marker does not move asks for one item at a time, and has
\* met a folder.
LEMMA MarkersStick ==
  ASSUME NEW x, NEW y, NEW given, NEW twice, NEW there, x.query \in Query, x.query.kind = "marked",
         ObjectWalk(x, given, twice, there), x.at = "between", x.count \in Nat,
         x.marker = IF x.leaf # None THEN x.leaf ELSE x.cursor,
         y.query = x.query, y.cursor = x.cursor, y.exclude = x.exclude, y.marker = x.marker,
         y.leaf = x.leaf, y.onFolder = x.onFolder, y.count = x.count, y.at = "stuck"
  PROVE  ObjectWalk(y, given, twice, there)
<1> DEFINE q == x.query
<1>1. /\ x.cursor # None /\ x.cursor \in Nat
      /\ x.leaf # None => x.leaf \in Nat
      /\ Leaf(q, x.cursor) \/ AFolder(q, x.cursor)
  BY PagesEndOnItems
<1>2. q.limit \in Nat \ {0} /\ None \notin Nat
  BY KeysAreNumbers
<1>3. Passes(x) /\ x.count >= q.limit
  BY DEF ObjectWalk, Stands
<1>4. x.leaf = None /\ x.cursor = x.marker
  BY <1>1, <1>3 DEF Passes
<1>5. q.limit = 1 /\ x.onFolder
  BY <1>1, <1>2, <1>3, <1>4 DEF Passes
<1>6. Stands(y)
  BY <1>5, <1>3 DEF ObjectWalk, Stands
<1>7. Passes(y) /\ \A k : Ahead(x, k) <=> Ahead(y, k)
  BY <1>3 DEF Passes, Ahead
<1>8. /\ \A k \in Under[q.prefix] : ItemOf(q, k, 0) \in there \ given => Ahead(y, k)
      /\ \A k \in Under[q.prefix] : Leaf(q, k) /\ <<k, 0>> \in given =>
           y.cursor # None /\ k =< y.cursor /\ (y.leaf # None => k =< y.leaf)
      /\ \A item \in twice : item[2] = None
  BY <1>7 DEF ObjectWalk
<1> QED BY <1>1, <1>6, <1>7, <1>8 DEF ObjectWalk

\* list: when the page is full, it is asked whether there is more.
LEMMA MoreFound ==
  ASSUME NEW x, NEW y, NEW given, NEW twice, NEW there,
         ObjectWalk(x, given, twice, there), x.at = "peek",
         y.query = x.query, y.cursor = x.cursor, y.exclude = x.exclude, y.marker = x.marker,
         y.leaf = x.leaf, y.onFolder = x.onFolder, y.count = x.count, y.at = "between"
  PROVE  ObjectWalk(y, given, twice, there)
<1>1. Stands(y) /\ (Passes(x) => Passes(y)) /\ (Untouched(x) => Untouched(y)) /\ \A k : Ahead(y, k) <=> Ahead(x, k)
  BY DEF ObjectWalk, Stands, Passes, Untouched, Ahead
<1> QED BY <1>1 DEF ObjectWalk

-----------------------------------------------------------------------------
(* The steps of a client that lists objects. *)

\* What is listed, by the kind of listing.
LEMMA WhatItemsAre ==
  ASSUME NEW q \in Query, NEW t, NEW u, NEW p, NEW item \in Items(q, t, u, p)
  PROVE  /\ q.after = None \/ item[1] > q.after
         /\ q.kind \in ObjectKinds => \E k \in Under[q.prefix] : Visible(t, q.bucket, k) /\ item = ItemOf(q, k, 0)
         /\ q.kind = "parts" => \E n \in p : item = <<n, 0>>
         /\ q.kind \in {"versions", "uploads"} =>
              \E r \in Rows(q, t, u) : item = ItemOf(q, r[1], IdOf(q, t, r))
<1>1. q.kind \in ObjectKinds =>
        /\ q.after = None \/ item[1] > q.after
        /\ \E k \in Under[q.prefix] : Visible(t, q.bucket, k) /\ item = ItemOf(q, k, 0)
  BY DEF Items
<1>2. q.kind = "parts" => (q.after = None \/ item[1] > q.after) /\ \E n \in p : item = <<n, 0>>
  BY DEF Items, ObjectKinds
<1>3. q.kind \in {"versions", "uploads"} =>
        /\ q.after = None \/ item[1] > q.after
        /\ \E r \in Rows(q, t, u) : item = ItemOf(q, r[1], IdOf(q, t, r))
  BY DEF Items, ObjectKinds
<1>4. q.kind \in ObjectKinds \cup {"versions", "uploads", "parts"}
  BY KeysAreNumbers DEF Kind
<1> QED BY <1>1, <1>2, <1>3, <1>4 DEF ObjectKinds

\* fetchLatestVersions: what was there all the time is found, or is in a folder with what
\* is found, when it is ahead.
LEMMA WhatLatestFinds ==
  ASSUME NEW w \in Walker, walk[w].query \in Query, walk[w].query.kind \in ObjectKinds, Walked(w)
  PROVE  Finds(walk[w], steady[w], Latest(w))
<1> DEFINE x == walk[w]
<1>1. Latest(w) \subseteq Under[x.query.prefix] /\ \A k \in Latest(w) : Ahead(x, k)
  BY DEF Latest, Ahead
<1>2. ASSUME NEW item \in steady[w]
      PROVE  \E k \in Under[x.query.prefix] : item = ItemOf(x.query, k, 0) /\ (Ahead(x, k) => k \in Latest(w))
  <2>1. item \in Items(x.query, table, uploads, parts)
    BY DEF Walked
  <2>2. PICK k \in Under[x.query.prefix] : Visible(table, x.query.bucket, k) /\ item = ItemOf(x.query, k, 0)
    BY <2>1, WhatItemsAre
  <2> QED BY <2>2 DEF Latest, Ahead
<1> QED BY <1>1, <1>2 DEF Finds

\* A step of one client leaves the others and the tables alone.
Alone(w) ==
    /\ UNCHANGED <<tables, steady>>
    /\ walk' \in [Walker -> Walk] /\ listed' \in [Walker -> SUBSET Item]
    /\ repeated' \in [Walker -> SUBSET Item] /\ astray' \in [Walker -> BOOLEAN]
    /\ \A v \in Walker \ {w} : /\ walk'[v] = walk[v] /\ listed'[v] = listed[v]
                               /\ repeated'[v] = repeated[v] /\ astray'[v] = astray[v]
    /\ Walked(w)'

\* A page gives a client its items.
LEMMA PagesGive ==
  ASSUME ListingsTypeOK, NEW w \in Walker, NEW items \in SUBSET Item, Give(w, items)
  PROVE  /\ listed' \in [Walker -> SUBSET Item] /\ repeated' \in [Walker -> SUBSET Item]
         /\ listed'[w] = listed[w] \cup items /\ repeated'[w] = repeated[w] \cup (items \cap listed[w])
         /\ \A v \in Walker \ {w} : listed'[v] = listed[v] /\ repeated'[v] = repeated[v]
BY DEF ListingsTypeOK, Give

\* The invariant of a client of the listing of objects, restated for what a step leaves.
LEMMA ObjectWalked ==
  ASSUME NEW w \in Walker, Walked(w), UNCHANGED <<tables, steady>>,
         walk'[w].query = walk[w].query, walk[w].query.kind \in ObjectKinds,
         ObjectWalk(walk'[w], listed'[w], repeated'[w], steady[w])
  PROVE  Walked(w)'
<1>1. steady'[w] \subseteq Items(walk'[w].query, table', uploads', parts')
  BY DEF Walked, tables
<1>2. ObjectWalk(walk'[w], listed'[w], repeated'[w], steady'[w])
  OBVIOUS
<1>3. ~ (walk'[w].query.kind = "parts") /\ ~ (walk'[w].query.kind \in {"versions", "uploads"})
  BY DEF ObjectKinds
<1> QED BY <1>1, <1>2, <1>3 DEF Walked

\* list: a batch keeps the place of the client.
LEMMA ListObjectsKeeps ==
  ASSUME ListingsTypeOK, NEW w \in Walker, Walked(w), ListObjects(w)
  PROVE  Alone(w)
<1> DEFINE x == walk[w]
           q == x.query
           room == q.limit - x.count
           L == Latest(w)
           batch == First(L, room)
           inFolder == {k \in batch : Folder(q, k) # None}
           leaves == {k \in batch : \A i \in inFolder : k < i}
           f0 == CHOOSE k \in inFolder : \A i \in inFolder : k =< i
           F == Folder(q, f0)
<1>1. x \in Walk /\ q \in Query /\ q.kind \in ObjectKinds /\ x.at = "fetch" /\ x.count \in Nat
      /\ (x.marker # None => x.marker \in Nat)
  <2>1. x \in Walk /\ q \in Query /\ q.kind \in ObjectKinds /\ x.at = "fetch" /\ x.count \in Nat
    BY DEF ListingsTypeOK, Walk, ListObjects
  <2>2. x.marker \in Nat \cup Upload \cup {None}
    BY <2>1 DEF Walk
  <2> QED BY <2>1, <2>2, PartsAssumption
<1>2. ObjectWalk(x, listed[w], repeated[w], steady[w]) /\ Finds(x, steady[w], L)
  BY <1>1, WhatLatestFinds DEF Walked
<1>3. L \in SUBSET Nat /\ IsFiniteSet(L) /\ room \in Nat \ {0} /\ L \subseteq Under[q.prefix] /\ L \subseteq Key
  <2>1. L \subseteq Under[q.prefix]
    BY <1>2 DEF Finds
  <2>2. x.count < q.limit /\ q.limit \in Nat
    BY <1>1, <1>2, KeysAreNumbers DEF ObjectWalk, Stands
  <2>3. IsFiniteSet(L)
    BY <1>1, <2>1, KeysAreNumbers, FS_Subset
  <2>4. L \subseteq Key /\ Key \subseteq Nat
    BY <1>1, <2>1, KeysAreNumbers
  <2>5. room \in Nat \ {0}
    <3> HIDE DEF x
    <3> QED BY <1>1, <2>2
  <2> HIDE DEF L, room
  <2> QED BY <2>1, <2>3, <2>4, <2>5
<1>4. batch \subseteq L /\ IsFiniteSet(batch) /\ Cardinality(batch) \in Nat
  <2> HIDE DEF L, room
  <2> QED BY <1>3, FirstIsInitial
<1>5. leaves \subseteq batch /\ IsFiniteSet(leaves) /\ Cardinality(leaves) \in Nat
  <2>1. leaves \in SUBSET batch
    OBVIOUS
  <2> HIDE DEF leaves, batch
  <2> QED BY <1>4, <2>1, FS_Subset, FS_CardinalityType
<1>6. UNCHANGED <<tables, steady, astray>> /\ astray' \in [Walker -> BOOLEAN]
  BY DEF ListObjects, ListingsTypeOK
<1>7. leaves # {} => Greatest(leaves) \in leaves /\ Greatest(leaves) \in Key
  <2>1. leaves \in SUBSET Nat /\ leaves \subseteq Key
    BY <1>3, <1>4, <1>5
  <2> HIDE DEF leaves
  <2> QED BY <1>5, <2>1, GreatestOfNumbers
<1>8. {<<k, 0>> : k \in leaves} \in SUBSET Item
  <2>1. leaves \subseteq Name
    BY <1>1, <1>3, <1>4, <1>5, KeysAreNumbers
  <2> HIDE DEF leaves
  <2> QED BY <2>1 DEF Item
<1>9. walk \in [Walker -> Walk]
  BY DEF ListingsTypeOK
<1>10. CASE inFolder = {}
  <2>1. leaves = batch /\ \A k \in batch : Leaf(q, k)
    BY <1>3, <1>4, <1>10 DEF Leaf
  <2> DEFINE items == {<<k, 0>> : k \in leaves}
             y == [x EXCEPT !.cursor = IF leaves = {} THEN @ ELSE Greatest(leaves),
                            !.leaf = IF leaves = {} THEN @ ELSE Greatest(leaves),
                            !.onFolder = IF leaves = {} THEN @ ELSE FALSE,
                            !.count = @ + Cardinality(leaves),
                            !.at = IF Cardinality(leaves) < room THEN "ended" ELSE "peek"]
  <2>2. Give(w, items) /\ walk' = [walk EXCEPT ![w] = y]
    BY <1>10 DEF ListObjects
  <2>3. /\ y.query = q /\ y.exclude = x.exclude /\ y.marker = x.marker
        /\ y.cursor = (IF leaves = {} THEN x.cursor ELSE Greatest(leaves))
        /\ y.leaf = (IF leaves = {} THEN x.leaf ELSE Greatest(leaves))
        /\ y.onFolder = (IF leaves = {} THEN x.onFolder ELSE FALSE)
        /\ y.count = x.count + Cardinality(leaves)
        /\ y.at = (IF Cardinality(leaves) < room THEN "ended" ELSE "peek")
    <3> HIDE DEF leaves, room, L
    <3> QED BY <1>1 DEF Walk
  <2>4. y \in Walk
    <3>1. leaves # {} => Greatest(leaves) \in Name
      BY <1>1, <1>7, KeysAreNumbers
    <3>2. /\ (IF leaves = {} THEN x.cursor ELSE Greatest(leaves)) \in Name \cup Part \cup {None}
          /\ (IF leaves = {} THEN x.leaf ELSE Greatest(leaves)) \in Name \cup {None}
          /\ (IF leaves = {} THEN x.onFolder ELSE FALSE) \in BOOLEAN
      <4> HIDE DEF leaves, room, L
      <4> QED BY <1>1, <3>1 DEF Walk
    <3>3. /\ x.count + Cardinality(leaves) \in Nat
          /\ (IF Cardinality(leaves) < room THEN "ended" ELSE "peek") \in {"fetch", "peek", "between", "ended", "stuck"}
      <4> HIDE DEF leaves, room, x
      <4> QED BY <1>1, <1>5
    <3> HIDE DEF leaves, room, L, x
    <3> QED BY <1>1, <3>2, <3>3, ZenonT(60) DEF Walk
  <2> HIDE DEF y, leaves, batch, inFolder, L, room
  <2>5. walk'[w] = y /\ walk' \in [Walker -> Walk] /\ \A v \in Walker \ {w} : walk'[v] = walk[v]
    BY <1>9, <2>2, <2>4
  <2>6. /\ listed' \in [Walker -> SUBSET Item] /\ repeated' \in [Walker -> SUBSET Item]
        /\ listed'[w] = listed[w] \cup items /\ repeated'[w] = repeated[w] \cup (items \cap listed[w])
        /\ \A v \in Walker \ {w} : listed'[v] = listed[v] /\ repeated'[v] = repeated[v]
    BY <1>8, <2>2, PagesGive
  <2>7. ObjectWalk(y, listed'[w], repeated'[w], steady[w])
    <3>1. CASE leaves = {}
      <4>1. Cardinality(batch) = 0
        BY <2>1, <3>1, FS_EmptySet
      <4>2. L = {}
        <5> USE DEF batch
        <5>1. Cardinality(First(L, room)) < room
          BY <1>3, <4>1
        <5>2. First(L, room) = L
          BY <1>3, <5>1, FirstIsAll
        <5> QED BY <2>1, <3>1, <5>2
      <4>3. items = {} /\ listed'[w] = listed[w] /\ repeated'[w] = repeated[w]
        BY <2>6, <3>1
      <4>4. y.at = "ended" /\ y.count = x.count
        BY <1>1, <1>3, <2>1, <2>3, <3>1, <4>1
      <4>5. ObjectWalk(y, listed[w], repeated[w], steady[w])
        BY <1>1, <1>2, <2>3, <3>1, <4>2, <4>4, NothingFound
      <4> QED BY <4>3, <4>5
    <3>2. CASE leaves # {}
      <4>1. batch = First(L, q.limit - x.count)
        BY DEF batch, room
      <4>2. y.at = IF Cardinality(batch) < q.limit - x.count THEN "ended" ELSE "peek"
        BY <2>1, <2>3 DEF room
      <4> DEFINE given == {<<k, 0>> : k \in batch}
      <4>3. ObjectWalk(y, listed[w] \cup given, repeated[w] \cup (given \cap listed[w]), steady[w])
        <5> HIDE DEF x
        <5> QED BY <1>1, <1>2, <2>1, <2>3, <3>2, <4>1, <4>2, LeavesGiven
      <4> QED BY <2>1, <2>6, <4>3
    <3> QED BY <3>1, <3>2
  <2> QED BY <1>1, <1>6, <2>3, <2>5, <2>6, <2>7, ObjectWalked DEF Alone
<1>11. CASE inFolder # {}
  <2>1. f0 \in inFolder /\ \A i \in inFolder : f0 =< i
    <3>1. inFolder \in SUBSET Nat
      BY <1>3, <1>4
    <3>2. \E k \in inFolder : \A i \in inFolder : k =< i
      <4> HIDE DEF inFolder
      <4> QED BY <1>11, <3>1, LeastOfNumbers
    <3> HIDE DEF inFolder
    <3> QED BY <3>2
  <2>2. f0 \in batch /\ F # None /\ f0 \in Under[q.prefix] /\ f0 \in Nat
    BY <1>3, <1>4, <2>1
  <2>3. F \in Name
    BY <1>1, <2>2, FolderHoldsItsKeys
  <2>4. \A k \in leaves : Leaf(q, k) /\ k < f0
    <3> TAKE k \in leaves
    <3>1. k \in batch /\ k < f0 /\ k \in Under[q.prefix] /\ k \in Nat
      BY <1>3, <1>4, <2>1
    <3>2. k \notin inFolder
      <4> SUFFICES ASSUME k \in inFolder PROVE FALSE
        OBVIOUS
      <4>1. f0 =< k
        BY <2>1
      <4> HIDE DEF f0, inFolder
      <4> QED BY <2>2, <3>1, <4>1
    <3> QED BY <3>1, <3>2 DEF Leaf
  <2>5. \A k \in batch : k < f0 => k \in leaves
    <3> SUFFICES ASSUME NEW k \in batch, k < f0, NEW i \in inFolder PROVE k < i
      OBVIOUS
    <3>1. k \in Nat /\ i \in Nat /\ f0 =< i
      BY <1>3, <1>4, <2>1
    <3> QED BY <2>2, <3>1
  <2> DEFINE items == {<<k, 0>> : k \in leaves} \cup {<<F, None>>}
             count == x.count + Cardinality(leaves) + 1
             y == [x EXCEPT !.cursor = F, !.exclude = F, !.onFolder = TRUE,
                            !.leaf = IF leaves = {} THEN @ ELSE Greatest(leaves),
                            !.count = count,
                            !.at = IF count < q.limit THEN "fetch" ELSE "peek"]
  <2>6. Give(w, items) /\ walk' = [walk EXCEPT ![w] = y]
    BY <1>11 DEF ListObjects
  <2>7. /\ y.query = q /\ y.exclude = F /\ y.marker = x.marker /\ y.cursor = F
        /\ y.leaf = (IF leaves = {} THEN x.leaf ELSE Greatest(leaves))
        /\ y.onFolder = TRUE /\ y.count = x.count + Cardinality(leaves) + 1
        /\ y.at = (IF y.count < q.limit THEN "fetch" ELSE "peek")
    <3> HIDE DEF leaves, F
    <3> QED BY <1>1 DEF Walk
  <2>8. y \in Walk
    <3>1. leaves # {} => Greatest(leaves) \in Name
      BY <1>1, <1>7, KeysAreNumbers
    <3>2. (IF leaves = {} THEN x.leaf ELSE Greatest(leaves)) \in Name \cup {None}
      <4> HIDE DEF leaves, L
      <4> QED BY <1>1, <3>1 DEF Walk
    <3>3. /\ count \in Nat
          /\ (IF count < q.limit THEN "fetch" ELSE "peek") \in {"fetch", "peek", "between", "ended", "stuck"}
      <4> HIDE DEF leaves, x
      <4> QED BY <1>1, <1>5
    <3> HIDE DEF leaves, F, L, x, count
    <3> QED BY <1>1, <2>3, <3>2, <3>3, ZenonT(60) DEF Walk
  <2>9. items \in SUBSET Item
    <3> HIDE DEF leaves, F
    <3> QED BY <1>8, <2>3 DEF Item
  <2>10. batch = First(L, q.limit - x.count) /\ leaves \in SUBSET batch
    BY <1>5
  <2> HIDE DEF y, leaves, batch, inFolder, L, room, f0
  <2>11. walk'[w] = y /\ walk' \in [Walker -> Walk] /\ \A v \in Walker \ {w} : walk'[v] = walk[v]
    BY <1>9, <2>6, <2>8
  <2>12. /\ listed' \in [Walker -> SUBSET Item] /\ repeated' \in [Walker -> SUBSET Item]
         /\ listed'[w] = listed[w] \cup items /\ repeated'[w] = repeated[w] \cup (items \cap listed[w])
         /\ \A v \in Walker \ {w} : listed'[v] = listed[v] /\ repeated'[v] = repeated[v]
    BY <2>6, <2>9, PagesGive
  <2>13. ObjectWalk(y, listed[w] \cup items, repeated[w] \cup (items \cap listed[w]), steady[w])
    <3> HIDE DEF x
    <3> QED BY <1>1, <1>2, <2>2, <2>4, <2>5, <2>7, <2>10, FolderGiven
  <2> QED BY <1>1, <1>6, <2>7, <2>11, <2>12, <2>13, ObjectWalked DEF Alone
<1> QED BY <1>10, <1>11

\* Only the listings of objects have a batch to fetch again, and stop midway.
LEMMA OthersFetchOnce ==
  ASSUME ListingsTypeOK, NEW w \in Walker, Walked(w), walk[w].query.kind \notin ObjectKinds
  PROVE  /\ walk[w].at \in {"fetch", "between", "ended"} /\ ~walk[w].onFolder
         /\ walk[w].query.kind \in {"versions", "uploads", "parts"}
<1>1. walk[w].query.kind \in Kind
  BY KeysAreNumbers DEF ListingsTypeOK, Walk
<1>2. walk[w].query.kind \in {"versions", "uploads", "parts"}
  BY <1>1 DEF Kind, ObjectKinds
<1> QED BY <1>2 DEF Walked, PartWalk, VersionPlace

\* A client whose place alone changes.
LEMMA PlaceMoves ==
  ASSUME ListingsTypeOK, NEW w \in Walker, NEW y \in Walk, walk' = [walk EXCEPT ![w] = y],
         UNCHANGED <<tables, listed, repeated, steady, astray>>, Walked(w)'
  PROVE  Alone(w)
<1>1. walk' \in [Walker -> Walk] /\ \A v \in Walker \ {w} : walk'[v] = walk[v]
  BY DEF ListingsTypeOK
<1> QED BY <1>1 DEF Alone, ListingsTypeOK

\* list, isTruncated: whether there is more is asked without moving.
LEMMA PeekKeeps ==
  ASSUME ListingsTypeOK, NEW w \in Walker, Walked(w), Peek(w)
  PROVE  Alone(w)
<1> DEFINE x == walk[w]
           y == [x EXCEPT !.at = IF Latest(w) = {} THEN "ended" ELSE "between"]
<1>1. x \in Walk /\ x.at = "peek" /\ walk' = [walk EXCEPT ![w] = y] /\ walk \in [Walker -> Walk]
  BY DEF Peek, ListingsTypeOK
<1>2. x.query \in Query /\ x.query.kind \in ObjectKinds
  BY <1>1, OthersFetchOnce DEF Walk
<1>3. /\ y.query = x.query /\ y.cursor = x.cursor /\ y.exclude = x.exclude /\ y.marker = x.marker
      /\ y.leaf = x.leaf /\ y.onFolder = x.onFolder /\ y.count = x.count
      /\ y.at = (IF Latest(w) = {} THEN "ended" ELSE "between")
  BY <1>1 DEF Walk
<1>4. y \in Walk
  BY <1>1 DEF Walk
<1>5. ObjectWalk(x, listed[w], repeated[w], steady[w]) /\ Finds(x, steady[w], Latest(w))
  BY <1>2, WhatLatestFinds DEF Walked
<1> HIDE DEF x, y
<1>6. ObjectWalk(y, listed[w], repeated[w], steady[w])
  <2>1. CASE Latest(w) = {}
    BY <1>2, <1>3, <1>5, <2>1, NothingFound
  <2>2. CASE Latest(w) # {}
    BY <1>1, <1>3, <1>5, <2>2, MoreFound
  <2> QED BY <2>1, <2>2
<1>7. walk'[w] = y /\ UNCHANGED <<tables, listed, repeated, steady, astray>>
  BY <1>1, <1>4 DEF Peek
<1>8. walk'[w].query = walk[w].query /\ walk[w].query.kind \in ObjectKinds
  BY <1>2, <1>3, <1>7 DEF x
<1>9. Walked(w)'
  <2>1. ObjectWalk(walk'[w], listed'[w], repeated'[w], steady[w])
    BY <1>6, <1>7
  <2> QED BY <1>7, <1>8, <2>1, ObjectWalked
<1> QED BY <1>1, <1>4, <1>7, <1>9, PlaceMoves

\* A client of a listing of versions or uploads whose page alone changes stands where it stood.
LEMMA VersionsMove ==
  ASSUME NEW x, NEW y, NEW t, NEW given, NEW twice, NEW there,
         y.query = x.query, y.cursor = x.cursor, y.marker = x.marker, y.at = "fetch", x.at = "between",
         y.onFolder = FALSE
  PROVE  /\ VersionPlace(x) => VersionPlace(y)
         /\ VersionWalk(x, given, twice, there, t) => VersionWalk(y, given, twice, there, t)
         /\ PartWalk(x, given, twice, there) => PartWalk(y, given, twice, there)
<1>1. \A k, id : Beyond(x, t, k, id) <=> Beyond(y, t, k, id)
  BY DEF Beyond
<1> QED BY <1>1 DEF VersionPlace, VersionWalk, PartWalk

\* listObjectsV1, encodeToken, decodeToken: the next page begins where the last one ended.
LEMMA NextPageKeeps ==
  ASSUME ListingsTypeOK, NEW w \in Walker, Walked(w), NextPage(w)
  PROVE  Alone(w)
<1> DEFINE x == walk[w]
           q == x.query
           m == IF x.leaf # None THEN x.leaf ELSE x.cursor
           y == walk'[w]
<1>1. x \in Walk /\ q \in Query /\ x.at = "between" /\ walk \in [Walker -> Walk] /\ x.count \in Nat
  BY DEF NextPage, ListingsTypeOK, Walk
<1>2. UNCHANGED <<tables, listed, repeated, steady, astray>>
  BY DEF NextPage
<1>3. CASE q.kind # "marked"
  <2> DEFINE z == [NextToken(x) EXCEPT !.at = "fetch", !.count = 0, !.leaf = None, !.onFolder = FALSE]
  <2>1. walk' = [walk EXCEPT ![w] = z]
    BY <1>3 DEF NextPage
  <2>2. /\ z.query = q /\ z.cursor = x.cursor /\ z.exclude = (IF x.onFolder THEN x.cursor ELSE None)
        /\ z.marker = x.marker /\ z.leaf = None /\ z.onFolder = FALSE /\ z.count = 0 /\ z.at = "fetch"
    BY <1>1 DEF Walk, NextToken
  <2>3. CASE q.kind = "objects"
    <3>1. ObjectWalk(x, listed[w], repeated[w], steady[w]) /\ q.kind \in ObjectKinds
      BY <2>3 DEF Walked, ObjectKinds
    <3>2. x.cursor \in Name
      BY <1>1, <3>1, PagesEndOnItems
    <3>3. z \in Walk
      BY <1>1, <3>2 DEF Walk, NextToken
    <3> HIDE DEF z, x
    <3>4. y = z
      BY <1>1, <2>1, <3>3
    <3>5. ObjectWalk(z, listed[w], repeated[w], steady[w])
      BY <1>1, <2>2, <2>3, <3>1, TokensResume
    <3>6. walk'[w].query = walk[w].query /\ walk[w].query.kind \in ObjectKinds
      BY <2>2, <3>1, <3>4 DEF x
    <3>7. ObjectWalk(walk'[w], listed'[w], repeated'[w], steady[w])
      BY <1>2, <3>4, <3>5
    <3> QED BY <1>2, <2>1, <3>3, <3>6, <3>7, ObjectWalked, PlaceMoves
  <2>4. CASE q.kind # "objects"
    <3>1. q.kind \notin ObjectKinds
      BY <1>3, <2>4 DEF ObjectKinds
    <3>2. q.kind \in {"versions", "uploads", "parts"} /\ ~x.onFolder
      BY <3>1, OthersFetchOnce
    <3>3. z \in Walk
      BY <1>1, <3>2 DEF Walk, NextToken
    <3> HIDE DEF z
    <3>4. y = z
      BY <1>1, <2>1, <3>3
    <3>5. /\ VersionPlace(x) => VersionPlace(z)
          /\ VersionWalk(x, listed[w], repeated[w], steady[w], table) => VersionWalk(z, listed[w], repeated[w], steady[w], table)
          /\ PartWalk(x, listed[w], repeated[w], steady[w]) => PartWalk(z, listed[w], repeated[w], steady[w])
      <4> HIDE DEF x
      <4> QED BY <1>1, <2>2, VersionsMove
    <3>6. Walked(w)'
      <4>1. steady'[w] \subseteq Items(walk'[w].query, table', uploads', parts')
        BY <1>2, <2>2, <3>4 DEF Walked, tables
      <4>2. walk'[w].query.kind \notin ObjectKinds
        BY <2>2, <3>1, <3>4
      <4>3. walk'[w].query.kind = "parts" => PartWalk(walk'[w], listed'[w], repeated'[w], steady'[w])
        BY <1>2, <2>2, <3>4, <3>5 DEF Walked
      <4>4. walk'[w].query.kind \in {"versions", "uploads"} =>
              /\ VersionPlace(walk'[w])
              /\ ~astray'[w] => VersionWalk(walk'[w], listed'[w], repeated'[w], steady'[w], table')
        BY <1>2, <2>2, <3>4, <3>5 DEF Walked, tables
      <4> QED BY <4>1, <4>2, <4>3, <4>4 DEF Walked
    <3> QED BY <1>2, <2>1, <3>3, <3>6, PlaceMoves
  <2> QED BY <2>3, <2>4
<1>4. CASE q.kind = "marked"
  <2>1. q.kind \in ObjectKinds /\ ObjectWalk(x, listed[w], repeated[w], steady[w])
    BY <1>4 DEF Walked, ObjectKinds
  <2>2. /\ x.cursor # None /\ x.cursor \in Nat /\ x.cursor \in Name
        /\ x.leaf # None => x.leaf \in Name
    <3> HIDE DEF x
    <3> QED BY <1>1, <2>1, PagesEndOnItems, KeysAreNumbers DEF Leaf
  <2> DEFINE z == IF m = x.marker THEN [x EXCEPT !.at = "stuck"]
                  ELSE [NextMarker(x) EXCEPT !.at = "fetch", !.count = 0, !.leaf = None, !.onFolder = FALSE,
                                             !.cursor = m, !.exclude = None]
  <2>3. NextMarker(x) = [x EXCEPT !.marker = m] /\ NextMarker(x).marker = m
    BY <1>1 DEF NextMarker, Walk
  <2>4. walk' = [walk EXCEPT ![w] = z]
    <3> DEFINE resumed == [NextMarker(x) EXCEPT !.at = "fetch", !.count = 0, !.leaf = None, !.onFolder = FALSE]
    <3>1. resumed.marker = m
      BY <1>1, <2>3 DEF Walk
    <3>2. walk' = [walk EXCEPT ![w] = IF resumed.marker = x.marker THEN [x EXCEPT !.at = "stuck"]
                                      ELSE [resumed EXCEPT !.cursor = resumed.marker, !.exclude = None]]
      BY <1>4 DEF NextPage
    <3>3. [resumed EXCEPT !.cursor = m, !.exclude = None] =
            [NextMarker(x) EXCEPT !.at = "fetch", !.count = 0, !.leaf = None, !.onFolder = FALSE,
                                  !.cursor = m, !.exclude = None]
      BY <1>1, <2>3 DEF Walk
    <3> QED BY <3>1, <3>2, <3>3
  <2>5. m \in Name /\ Name \subseteq Nat
    BY <1>1, <2>2, KeysAreNumbers
  <2>6. z \in Walk /\ z.query = q
    <3>1. CASE m = x.marker
      BY <1>1, <3>1 DEF Walk
    <3>2. CASE m # x.marker
      <4> HIDE DEF m
      <4> QED BY <1>1, <2>3, <2>5, <3>2 DEF Walk
    <3> QED BY <3>1, <3>2
  <2>7. ObjectWalk(z, listed[w], repeated[w], steady[w])
    <3>1. CASE m = x.marker
      <4>1. /\ z.query = q /\ z.cursor = x.cursor /\ z.exclude = x.exclude /\ z.marker = x.marker
            /\ z.leaf = x.leaf /\ z.onFolder = x.onFolder /\ z.count = x.count /\ z.at = "stuck"
        BY <1>1, <3>1 DEF Walk
      <4> HIDE DEF x, z
      <4> QED BY <1>1, <1>4, <2>1, <3>1, <4>1, MarkersStick
    <3>2. CASE m # x.marker
      <4>1. /\ z.query = q /\ z.cursor = m /\ z.exclude = None /\ z.marker = m
            /\ z.leaf = None /\ z.onFolder = FALSE /\ z.count = 0 /\ z.at = "fetch"
        <5> HIDE DEF m
        <5> QED BY <1>1, <2>3, <3>2 DEF Walk
      <4>2. m = IF x.leaf # None THEN x.leaf ELSE x.cursor
        OBVIOUS
      <4> HIDE DEF x, z, m
      <4> QED BY <1>1, <1>4, <2>1, <4>1, <4>2, MarkersResume
    <3> QED BY <3>1, <3>2
  <2> HIDE DEF z, m
  <2>8. y = z
    BY <1>1, <2>4, <2>6
  <2>9. walk'[w].query = walk[w].query /\ walk[w].query.kind \in ObjectKinds
    BY <2>1, <2>6, <2>8
  <2>10. ObjectWalk(walk'[w], listed'[w], repeated'[w], steady[w])
    BY <1>2, <2>7, <2>8
  <2> QED BY <1>2, <2>4, <2>6, <2>9, <2>10, ObjectWalked, PlaceMoves
<1> QED BY <1>3, <1>4

-----------------------------------------------------------------------------
(* The listing of parts. *)

\* listParts: the parts of a page follow those of the page before, and precede the rest.
LEMMA ListPartsKeeps ==
  ASSUME ListingsTypeOK, NEW w \in Walker, Walked(w), ListParts(w)
  PROVE  Alone(w)
<1> DEFINE x == walk[w]
           rows == {n \in parts : x.cursor = None \/ n > x.cursor}
           page == First(rows, x.query.limit)
           items == {<<n, 0>> : n \in page}
           y == IF page = rows THEN [x EXCEPT !.at = "ended"]
                ELSE [x EXCEPT !.at = "between", !.cursor = Greatest(page)]
<1>1. /\ x \in Walk /\ x.query \in Query /\ x.query.kind = "parts" /\ x.at = "fetch" /\ walk \in [Walker -> Walk]
      /\ parts \in SUBSET Nat /\ parts \subseteq Part /\ IsFiniteSet(parts) /\ x.query.limit \in Nat \ {0}
  <2>1. x \in Walk /\ x.query \in Query /\ x.query.kind = "parts" /\ x.at = "fetch" /\ walk \in [Walker -> Walk] /\ parts \subseteq Part
    BY DEF ListingsTypeOK, Walk, ListParts
  <2> QED BY <2>1, PartsAssumption, FS_Subset, KeysAreNumbers
<1>2. PartWalk(x, listed[w], repeated[w], steady[w])
  BY <1>1 DEF Walked
<1>3. rows \in SUBSET Nat /\ IsFiniteSet(rows) /\ rows \subseteq parts
  <2>1. rows \in SUBSET parts
    OBVIOUS
  <2> HIDE DEF rows
  <2> QED BY <1>1, <2>1, FS_Subset
<1>4. /\ page \subseteq rows /\ IsFiniteSet(page) /\ page \in SUBSET Nat
      /\ \A i \in page, n \in rows \ page : i < n
  <2>1. x.query.limit \in Nat /\ rows \in SUBSET Nat /\ IsFiniteSet(rows)
    BY <1>1, <1>3
  <2> HIDE DEF rows
  <2>2. page \subseteq rows /\ IsFiniteSet(page) /\ \A i \in page, n \in rows \ page : i < n
    BY <2>1, FirstIsInitial
  <2> HIDE DEF page
  <2> QED BY <1>3, <2>2
<1>5. page # rows => page # {}
  <2> SUFFICES ASSUME page = {} PROVE page = rows
    OBVIOUS
  <2>1. Cardinality(page) = 0
    BY FS_EmptySet
  <2> HIDE DEF rows
  <2> QED BY <1>1, <1>3, <2>1, FirstIsAll
<1>6. page # {} => Greatest(page) \in page /\ Greatest(page) \in Nat /\ \A n \in page : n =< Greatest(page)
  <2> HIDE DEF page
  <2> QED BY <1>4, GreatestOfNumbers
<1>7. items \in SUBSET Item
  <2>1. page \subseteq Part
    BY <1>1, <1>3, <1>4
  <2> HIDE DEF page
  <2> QED BY <2>1 DEF Item
<1>8. /\ Give(w, items) /\ UNCHANGED <<tables, steady, astray>>
      /\ walk' = IF page = rows THEN [walk EXCEPT ![w].at = "ended"]
                 ELSE [walk EXCEPT ![w].at = "between", ![w].cursor = Greatest(page)]
  BY DEF ListParts
<1>9. y \in Walk
  <2>1. page # rows => Greatest(page) \in Part
    BY <1>1, <1>3, <1>4, <1>5, <1>6
  <2> HIDE DEF page, rows
  <2> QED BY <1>1, <2>1 DEF Walk
<1>10. /\ y.query = x.query /\ y.onFolder = x.onFolder
       /\ page = rows => y.at = "ended" /\ y.cursor = x.cursor
       /\ page # rows => y.at = "between" /\ y.cursor = Greatest(page)
  <2> HIDE DEF page, rows
  <2> QED BY <1>1 DEF Walk
<1>11. walk'[w] = y /\ walk' \in [Walker -> Walk] /\ \A v \in Walker \ {w} : walk'[v] = walk[v]
  <2>1. CASE page = rows
    <3>1. walk' = [walk EXCEPT ![w] = y]
      BY <1>8, <2>1
    <3> HIDE DEF y
    <3> QED BY <1>1, <1>9, <3>1
  <2>2. CASE page # rows
    <3>1. walk' = [walk EXCEPT ![w] = y]
      <4> HIDE DEF page, rows
      <4> QED BY <1>1, <1>8, <2>2 DEF Walk
    <3> HIDE DEF y
    <3> QED BY <1>1, <1>9, <3>1
  <2> QED BY <2>1, <2>2
<1>12. /\ listed' \in [Walker -> SUBSET Item] /\ repeated' \in [Walker -> SUBSET Item]
       /\ listed'[w] = listed[w] \cup items /\ repeated'[w] = repeated[w] \cup (items \cap listed[w])
       /\ \A v \in Walker \ {w} : listed'[v] = listed[v] /\ repeated'[v] = repeated[v]
  <2> HIDE DEF items
  <2> QED BY <1>7, <1>8, PagesGive
\* A part that was there all the time and not given is a row.
<1>13. \A item \in steady[w] \ listed[w] : \E n \in rows : item = <<n, 0>>
  <2> TAKE item \in steady[w] \ listed[w]
  <2>1. item \in Items(x.query, table, uploads, parts)
    BY DEF Walked
  <2>2. PICK n \in parts : item = <<n, 0>>
    BY <1>1, <2>1, WhatItemsAre
  <2>3. x.cursor = None \/ item[1] > x.cursor
    BY <1>2 DEF PartWalk
  <2> QED BY <2>2, <2>3
<1>14. items \cap listed[w] = {}
  <2> SUFFICES ASSUME NEW n \in page, <<n, 0>> \in listed[w] PROVE FALSE
    OBVIOUS
  <2>1. x.cursor # None /\ n =< x.cursor
    BY <1>1, <1>2 DEF PartWalk
  <2>2. n > x.cursor /\ n \in Nat /\ x.cursor \in Nat
    <3>1. x.cursor \in Name \cup Part
      BY <1>1, <2>1 DEF Walk
    <3>2. x.cursor \in Nat
      BY <3>1, NamesAssumption, PartsAssumption
    <3>3. n \in rows
      BY <1>4
    <3> QED BY <1>3, <2>1, <3>2, <3>3
  <2> QED BY <2>1, <2>2
<1>15. PartWalk(y, listed'[w], repeated'[w], steady[w])
  <2>1. repeated'[w] = {}
    BY <1>2, <1>12, <1>14 DEF PartWalk
  <2>2. CASE page = rows
    <3>1. steady[w] \subseteq listed[w] \cup items
      BY <1>13, <2>2
    <3> HIDE DEF y, items
    <3> QED BY <1>2, <1>10, <1>12, <2>1, <2>2, <3>1 DEF PartWalk
  <2>3. CASE page # rows
    <3>1. ASSUME NEW item \in steady[w] \ (listed[w] \cup items) PROVE item[1] > Greatest(page)
      <4>1. PICK n \in rows : item = <<n, 0>>
        BY <1>13, <3>1
      <4>2. n \notin page
        BY <3>1, <4>1
      <4> QED BY <1>4, <1>5, <1>6, <2>3, <4>1, <4>2
    <3>2. ASSUME NEW item \in listed[w] \cup items PROVE item[1] =< Greatest(page)
      <4>1. CASE item \in items
        BY <1>5, <1>6, <2>3, <4>1
      <4>2. CASE item \in listed[w]
        <5>1. x.cursor # None /\ item[1] =< x.cursor
          BY <1>1, <1>2, <4>2 DEF PartWalk
        <5>2. item[1] \in Nat
          <6>1. item \in Item
            BY <4>2 DEF ListingsTypeOK
          <6>2. item[1] \in Name \cup Part
            BY <6>1 DEF Item
          <6> QED BY <6>2, NamesAssumption, PartsAssumption
        <5>3. x.cursor \in Nat
          <6>1. x.cursor \in Name \cup Part
            BY <1>1, <5>1 DEF Walk
          <6> QED BY <6>1, NamesAssumption, PartsAssumption
        <5>4. Greatest(page) > x.cursor /\ Greatest(page) \in Nat
          <6>1. Greatest(page) \in rows /\ Greatest(page) \in Nat
            BY <1>4, <1>5, <1>6, <2>3
          <6> QED BY <5>1, <6>1
        <5> QED BY <5>1, <5>2, <5>3, <5>4
      <4> QED BY <3>2, <4>1, <4>2
    <3>3. Greatest(page) # None
      BY <1>5, <1>6, <2>3, NamesAssumption
    <3> HIDE DEF y, items, page, rows
    <3> QED BY <1>2, <1>10, <1>12, <2>1, <2>3, <3>1, <3>2, <3>3 DEF PartWalk
  <2> QED BY <2>2, <2>3
<1>16. Walked(w)'
  <2>1. steady'[w] \subseteq Items(walk'[w].query, table', uploads', parts')
    BY <1>8, <1>10, <1>11 DEF Walked, tables
  <2>2. walk'[w].query.kind = "parts"
    BY <1>1, <1>10, <1>11
  <2>3. PartWalk(walk'[w], listed'[w], repeated'[w], steady'[w])
    BY <1>8, <1>11, <1>15
  <2> QED BY <2>1, <2>2, <2>3 DEF Walked, ObjectKinds
<1> QED BY <1>8, <1>11, <1>12, <1>16 DEF Alone, ListingsTypeOK

-----------------------------------------------------------------------------
(* The rows of versions and uploads, and their order. *)

\* The rows of a query are finitely many pairs of numbers, a key and a second column.
LEMMA RowsAreFinite ==
  ASSUME NEW q \in Query, NEW t \in [Bucket -> [Key -> Versions]], NEW u \in SUBSET (Key \X Upload),
         q.kind \in {"versions", "uploads"}
  PROVE  /\ Rows(q, t, u) \in SUBSET (Nat \X Nat) /\ IsFiniteSet(Rows(q, t, u))
         /\ \A r \in Rows(q, t, u) : r[1] \in Under[q.prefix] /\ IdOf(q, t, r) \in Nat
         /\ q.kind = "versions" => \A r \in Rows(q, t, u) :
              r[2] \in DOMAIN t[q.bucket][r[1]] /\ IdOf(q, t, r) = t[q.bucket][r[1]][r[2]].id
         /\ q.kind = "uploads" => \A r \in Rows(q, t, u) : IdOf(q, t, r) = r[2] /\ r[2] \in Upload
<1>1. /\ Under[q.prefix] \subseteq Nat /\ Under[q.prefix] \subseteq Key /\ IsFiniteSet(Key) /\ IsFiniteSet(Under[q.prefix])
      /\ q.bucket \in Bucket
  BY KeysAreNumbers
<1>2. CASE q.kind = "versions"
  <2> DEFINE s(k) == t[q.bucket][k]
  <2>1. \A k \in Under[q.prefix] : s(k) \in Versions /\ s(k) \in Seq(Version)
    BY <1>1 DEF Versions
  <2>2. \A k \in Under[q.prefix] : DOMAIN s(k) = 1 .. Len(s(k)) /\ Len(s(k)) \in Nat
    <3> TAKE k \in Under[q.prefix]
    <3> HIDE DEF s
    <3> QED BY <2>1
  <2>3. \A k \in Under[q.prefix] : \A i \in DOMAIN s(k) : i \in Nat /\ s(k)[i].id \in Nat
    <3> TAKE k \in Under[q.prefix]
    <3> TAKE i \in DOMAIN s(k)
    <3> HIDE DEF s
    <3>1. i \in Nat /\ s(k)[i] \in Version
      BY <2>1, <2>2
    <3> QED BY <3>1 DEF Version
  <2>4. Rows(q, t, u) = UNION {{k} \X DOMAIN s(k) : k \in Under[q.prefix]}
    BY <1>2 DEF Rows
  <2>5. \A k \in Under[q.prefix] : IsFiniteSet({k} \X DOMAIN s(k))
    <3> TAKE k \in Under[q.prefix]
    <3>1. IsFiniteSet(1 .. Len(s(k)))
      <4> HIDE DEF s
      <4> QED BY <2>2, FS_Interval
    <3>2. IsFiniteSet({k})
      BY FS_Singleton
    <3> HIDE DEF s
    <3> QED BY <2>2, <3>1, <3>2, FS_Product
  <2>6. IsFiniteSet({{k} \X DOMAIN s(k) : k \in Under[q.prefix]})
    <3> HIDE DEF s
    <3> DEFINE f == [k \in Under[q.prefix] |-> {k} \X DOMAIN s(k)]
               S == {{k} \X DOMAIN s(k) : k \in Under[q.prefix]}
    <3>1. f \in Surjection(Under[q.prefix], S)
      BY DEF Surjection
    <3> HIDE DEF f, S
    <3>2. IsFiniteSet(S)
      BY <1>1, <3>1, FS_Surjection
    <3> QED BY <3>2 DEF S
  <2>7. IsFiniteSet(Rows(q, t, u))
    <3> DEFINE S == {{k} \X DOMAIN s(k) : k \in Under[q.prefix]}
    <3>1. \A T \in S : IsFiniteSet(T)
      BY <2>5
    <3> HIDE DEF S
    <3>2. IsFiniteSet(UNION S)
      BY <2>6, <3>1, FS_UNION DEF S
    <3> QED BY <2>4, <3>2 DEF S
  <2>8. \A r \in Rows(q, t, u) : r \in Nat \X Nat /\ r[1] \in Under[q.prefix] /\ r[2] \in DOMAIN s(r[1])
    <3> TAKE r \in Rows(q, t, u)
    <3>1. PICK k \in Under[q.prefix] : r \in {k} \X DOMAIN s(k)
      BY <2>4
    <3> HIDE DEF s
    <3> QED BY <1>1, <2>3, <3>1
  <2>9. \A r \in Rows(q, t, u) : IdOf(q, t, r) = s(r[1])[r[2]].id
    BY <1>2 DEF IdOf
  <2> QED BY <1>2, <2>3, <2>7, <2>8, <2>9
<1>3. CASE q.kind = "uploads"
  <2>1. Rows(q, t, u) = {r \in u : r[1] \in Under[q.prefix]} /\ \A r : IdOf(q, t, r) = r[2]
    BY <1>3 DEF Rows, IdOf
  <2>2. Key \subseteq Nat /\ Upload \subseteq Nat /\ IsFiniteSet(Key \X Upload)
    BY PartsAssumption, FS_Product, KeysAreNumbers
  <2>3. IsFiniteSet(Rows(q, t, u))
    <3>1. Rows(q, t, u) \in SUBSET (Key \X Upload)
      BY <2>1
    <3> QED BY <2>2, <3>1, FS_Subset
  <2>4. \A r \in Rows(q, t, u) : r \in Nat \X Nat /\ r[1] \in Under[q.prefix] /\ r[2] \in Upload
    BY <2>1, <2>2
  <2> QED BY <1>3, <2>1, <2>2, <2>3, <2>4
<1> QED BY <1>2, <1>3

\* ORDER BY: the rows are in a linear order.
LEMMA RowsAreInOrder ==
  ASSUME NEW r \in Nat \X Nat, NEW s \in Nat \X Nat, NEW z \in Nat \X Nat
  PROVE  /\ ~Before(r, r)
         /\ Before(r, s) /\ Before(s, z) => Before(r, z)
         /\ r = s \/ Before(r, s) \/ Before(s, r)
         /\ ~ (Before(r, s) /\ Before(s, r))
<1>1. PICK a, b, c, d, e, f \in Nat : r = <<a, b>> /\ s = <<c, d>> /\ z = <<e, f>>
  BY SMTT(60)
<1> QED BY <1>1 DEF Before

\* Among finitely many rows there is a last.
LEMMA LastRow ==
  ASSUME NEW S \in SUBSET (Nat \X Nat), IsFiniteSet(S), S # {}
  PROVE  \E r \in S : \A s \in S : ~Before(r, s)
<1> DEFINE Later(r) == {s \in S : Before(r, s)}
           T == {Cardinality(Later(r)) : r \in S}
<1>1. \A r \in S : IsFiniteSet(Later(r)) /\ Cardinality(Later(r)) \in Nat
  BY FS_Subset, FS_CardinalityType
<1>2. T \in SUBSET Nat /\ T # {}
  BY <1>1
<1>3. PICK n \in T : \A m \in T : n =< m
  <2> HIDE DEF T
  <2> QED BY <1>2, LeastOfNumbers
<1>4. PICK r \in S : n = Cardinality(Later(r))
  BY <1>3
<1>5. \A s \in S : ~Before(r, s)
  <2> SUFFICES ASSUME NEW s \in S, Before(r, s) PROVE FALSE
    OBVIOUS
  <2>1. Later(s) \in SUBSET Later(r)
    BY RowsAreInOrder
  <2>2. s \in Later(r) /\ s \notin Later(s)
    BY RowsAreInOrder
  <2>3. Cardinality(Later(s)) =< Cardinality(Later(r)) /\ Cardinality(Later(s)) # Cardinality(Later(r))
    <3> HIDE DEF Later
    <3> QED BY <1>1, <2>1, <2>2, FS_Subset
  <2>4. Cardinality(Later(r)) =< Cardinality(Later(s))
    BY <1>3, <1>4
  <2> HIDE DEF Later
  <2> QED BY <1>1, <2>3, <2>4
<1> QED BY <1>5

\* LIMIT: what a window leaves out follows all it holds.
LEMMA WindowIsInitial ==
  ASSUME NEW S \in SUBSET (Nat \X Nat), IsFiniteSet(S), NEW n \in Nat,
         NEW window, window = {r \in S : Cardinality({s \in S : Before(s, r)}) < n}
  PROVE  \A r \in window, s \in S \ window : Before(r, s)
<1> SUFFICES ASSUME NEW r \in window, NEW s \in S \ window, ~Before(r, s) PROVE FALSE
  OBVIOUS
<1> DEFINE Earlier(v) == {z \in S : Before(z, v)}
<1>1. Before(s, r)
  BY RowsAreInOrder
<1>2. Earlier(s) \in SUBSET Earlier(r) /\ Earlier(r) \in SUBSET S
  BY <1>1, RowsAreInOrder
<1>3. IsFiniteSet(Earlier(r)) /\ IsFiniteSet(Earlier(s)) /\ Cardinality(Earlier(s)) =< Cardinality(Earlier(r))
  <2> HIDE DEF Earlier
  <2> QED BY <1>2, FS_Subset
<1>4. Cardinality(Earlier(r)) \in Nat /\ Cardinality(Earlier(s)) \in Nat
  <2> HIDE DEF Earlier
  <2> QED BY <1>3, FS_CardinalityType
<1>5. Cardinality(Earlier(r)) < n /\ ~ (Cardinality(Earlier(s)) < n)
  OBVIOUS
<1> HIDE DEF Earlier
<1> QED BY <1>3, <1>4, <1>5

\* listAllVersions, listMultipartUploads: what a page leaves out follows all it holds.
LEMMA PageIsInitial ==
  ASSUME NEW q \in Query, NEW item, DOMAIN item \in SUBSET (Nat \X Nat), IsFiniteSet(DOMAIN item)
  PROVE  /\ PageOf(q, item) \subseteq DOMAIN item
         /\ \A r \in PageOf(q, item), s \in DOMAIN item \ PageOf(q, item) : Before(r, s)
<1> DEFINE rest == DOMAIN item
           new == {r \in rest : \A s \in rest : Before(s, r) => item[s] # item[r]}
           Upto(r) == {s \in new : ~Before(r, s)}
           page == PageOf(q, item)
<1>1. page = {r \in rest : Cardinality(Upto(r)) =< q.limit}
  BY DEF PageOf
<1>2. new \in SUBSET rest
  OBVIOUS
<1>3. IsFiniteSet(new) /\ \A r \in rest : IsFiniteSet(Upto(r)) /\ Cardinality(Upto(r)) \in Nat
  <2> HIDE DEF new
  <2> QED BY <1>2, FS_Subset, FS_CardinalityType
<1>4. ASSUME NEW r \in page, NEW s \in rest \ page, ~Before(r, s) PROVE FALSE
  <2>1. r \in rest /\ Cardinality(Upto(r)) =< q.limit /\ ~ (Cardinality(Upto(s)) =< q.limit)
    <3> HIDE DEF page, Upto
    <3> QED BY <1>1, <1>4
  <2>2. r # s /\ Before(s, r)
    BY <1>4, <2>1, RowsAreInOrder
  <2>3. Upto(s) \in SUBSET Upto(r)
    <3> SUFFICES ASSUME NEW v \in new, ~Before(s, v), Before(r, v) PROVE FALSE
      OBVIOUS
    <3> HIDE DEF new
    <3> QED BY <1>2, <1>4, <2>1, <2>2, RowsAreInOrder
  <2>4. Cardinality(Upto(s)) =< Cardinality(Upto(r))
    <3> HIDE DEF Upto
    <3> QED BY <1>3, <2>1, <2>3, FS_Subset
  <2>5. q.limit \in Nat
    BY KeysAreNumbers
  <2> HIDE DEF Upto, page
  <2> QED BY <1>3, <1>4, <2>1, <2>4, <2>5
<1> HIDE DEF rest, new, Upto, page
<1>5. page \subseteq rest /\ \A r \in page, s \in rest \ page : Before(r, s)
  BY <1>1, <1>4
<1> QED BY <1>5 DEF page, rest

-----------------------------------------------------------------------------
(* The order of a key's versions. *)

\* The versions of a key differ in their ids: one is older than another when it comes later.
LEMMA OlderComesLater ==
  ASSUME NEW s \in Versions, NEW i \in DOMAIN s, NEW j \in DOMAIN s
  PROVE  s[j].id \in Older(s, s[i].id) <=> i < j
<1>1. s \in Seq(Version) /\ DOMAIN s = 1 .. Len(s) /\ Len(s) \in Nat
      /\ \A m, n \in DOMAIN s : s[m].id = s[n].id => m = n
  BY DEF Versions
<1>2. ASSUME s[j].id \in Older(s, s[i].id) PROVE i < j
  <2>1. PICK n \in DOMAIN s : s[n].id = s[j].id /\ \E m \in 1 .. n - 1 : s[m].id = s[i].id
    BY <1>2 DEF Older
  <2>2. PICK m \in 1 .. n - 1 : s[m].id = s[i].id
    BY <2>1
  <2>3. n = j /\ m \in DOMAIN s /\ m < n
    BY <1>1, <2>1, <2>2
  <2>4. m = i
    BY <1>1, <2>2, <2>3
  <2> QED BY <2>3, <2>4
<1>3. ASSUME i < j PROVE s[j].id \in Older(s, s[i].id)
  <2>1. i \in 1 .. j - 1
    BY <1>1, <1>3
  <2> QED BY <2>1 DEF Older
<1> QED BY <1>2, <1>3

\* What is older than a version is a version of the key, and so is that one.
LEMMA OlderAreVersions ==
  ASSUME NEW s \in Versions, NEW a, NEW b \in Older(s, a)
  PROVE  \E i, j \in DOMAIN s : s[i].id = a /\ s[j].id = b /\ i < j
<1>1. s \in Seq(Version) /\ DOMAIN s = 1 .. Len(s) /\ Len(s) \in Nat
  BY DEF Versions
<1>2. PICK j \in DOMAIN s : s[j].id = b /\ \E i \in 1 .. j - 1 : s[i].id = a
  BY DEF Older
<1>3. PICK i \in 1 .. j - 1 : s[i].id = a
  BY <1>2
<1>4. i \in DOMAIN s /\ i < j
  BY <1>1, <1>3
<1> QED BY <1>2, <1>3, <1>4

\* Versions that both stay where they were stay in their order.
LEMMA KeptStaysOlder ==
  ASSUME NEW was \in Versions, NEW s \in Versions, NEW a, NEW b,
         Kept(s, was, a), Kept(s, was, b), b \in Older(was, a)
  PROVE  b \in Older(s, a)
<1>1. PICK i, j \in DOMAIN s : s[i].id = a /\ s[j].id = b
  BY DEF Kept
<1>2. PICK m, n \in DOMAIN was : was[m].id = a /\ was[n].id = b /\ m < n
  BY OlderAreVersions
<1>3. DOMAIN s \subseteq Nat /\ DOMAIN was \subseteq Nat
  <2>1. s \in Seq(Version) /\ was \in Seq(Version)
    BY DEF Versions
  <2> QED BY <2>1
<1>4. ~ (j < i)
  <2> SUFFICES ASSUME j < i PROVE FALSE
    OBVIOUS
  <2>1. a \in Older(s, b)
    BY <1>1, OlderComesLater
  <2>2. a \in Older(was, b)
    BY <2>1 DEF Kept
  <2>3. n < m
    BY <1>2, <2>2, OlderComesLater
  <2> QED BY <1>2, <1>3, <2>3
<1>5. i # j
  <2> SUFFICES ASSUME a = b PROVE FALSE
    BY <1>1
  <2>1. m = n
    BY <1>2 DEF Versions
  <2> QED BY <1>2, <1>3, <2>1
<1>6. i < j
  BY <1>3, <1>4, <1>5
<1> QED BY <1>1, <1>6, OlderComesLater

\* Older than an older one is older.
LEMMA OlderIsTransitive ==
  ASSUME NEW s \in Versions, NEW a, NEW b \in Older(s, a), NEW c \in Older(s, b)
  PROVE  c \in Older(s, a)
<1>1. PICK i, j \in DOMAIN s : s[i].id = a /\ s[j].id = b /\ i < j
  BY OlderAreVersions
<1>2. PICK m, n \in DOMAIN s : s[m].id = b /\ s[n].id = c /\ m < n
  BY OlderAreVersions
<1>3. m = j /\ DOMAIN s \subseteq Nat
  <2>1. s \in Seq(Version)
    BY DEF Versions
  <2> QED BY <1>1, <1>2, <2>1 DEF Versions
<1>4. i < n
  BY <1>1, <1>2, <1>3
<1> QED BY <1>1, <1>2, <1>4, OlderComesLater

-----------------------------------------------------------------------------
(* The listings of versions and uploads. *)

\* The rows that the next page may give: those beyond the place of the client.
Remaining(x, t, rows) == {r \in rows : Beyond(x, t, r[1], IdOf(x.query, t, r))}
RowsFrom(x) == {r \in Rows(x.query, table, uploads) : x.cursor = None \/ r[1] >= x.cursor}
ItemsLeft(x, window) == [r \in Remaining(x, table, window) |-> ItemOf(x.query, r[1], IdOf(x.query, table, r))]
ItemsOn(item, page) == {item[r] : r \in page}

\* listAllVersions, listMultipartUploads: what is left of a window once the markers are
\* passed, when the marked row is in it.
LEMMA RestIsBeyond ==
  ASSUME ListingsTypeOK, NEW x \in Walk, x.query.kind \in {"versions", "uploads"},
         NEW rows, rows = {r \in Rows(x.query, table, uploads) : x.cursor = None \/ r[1] >= x.cursor},
         NEW window \in SUBSET rows, ~Misled(x, window),
         x.marker # None => x.cursor # None
  PROVE  Rest(x, window) = Remaining(x, table, window)
<1> DEFINE q == x.query
           V == table[q.bucket]
<1>1. /\ q \in Query /\ table \in [Bucket -> [Key -> Versions]] /\ uploads \in SUBSET (Key \X Upload)
      /\ q.bucket \in Bucket /\ Key \subseteq Nat /\ None \notin Nat /\ Under[q.prefix] \subseteq Key
  BY KeysAreNumbers DEF Walk, ListingsTypeOK
<1>2. /\ \A r \in window : r \in Nat \X Nat /\ r[1] \in Under[q.prefix] /\ r[1] \in Nat /\ r[2] \in Nat
                           /\ IdOf(q, table, r) \in Nat
      /\ q.kind = "versions" => \A r \in window :
           r[2] \in DOMAIN V[r[1]] /\ IdOf(q, table, r) = V[r[1]][r[2]].id /\ V[r[1]] \in Versions
      /\ q.kind = "uploads" => \A r \in window : IdOf(q, table, r) = r[2]
  <2>1. \A r \in window : r \in Rows(q, table, uploads)
    OBVIOUS
  <2>2. \A k \in Under[q.prefix] : V[k] \in Versions
    BY <1>1
  <2> HIDE DEF V
  <2> QED BY <1>1, <2>1, <2>2, RowsAreFinite DEF V
<1>3. x.cursor = None \/ x.cursor \in Nat
  BY NamesAssumption, PartsAssumption DEF Walk
<1>4. \A r \in window : x.cursor # None => r[1] = x.cursor \/ r[1] > x.cursor
  BY <1>2, <1>3
<1>5. CASE x.marker # None
  <2> DEFINE marked == {r \in window : r[1] = x.cursor /\ IdOf(q, table, r) = x.marker}
  <2>1. PICK m \in window : m[1] = x.cursor /\ IdOf(q, table, m) = x.marker
    BY <1>5 DEF Misled
  <2>2. Rest(x, window) = {r \in window : \E n \in marked : Before(n, r)}
    BY <1>5 DEF Rest
  <2>3. x.cursor # None /\ x.cursor \in Nat
    BY <1>3, <1>5
  <2>4. ASSUME NEW n \in marked PROVE n[2] = m[2] /\ n[1] = m[1]
    <3>1. n \in window /\ n[1] = x.cursor /\ IdOf(q, table, n) = IdOf(q, table, m)
      BY <2>1
    <3>2. CASE q.kind = "versions"
      <4>1. /\ n[2] \in DOMAIN V[x.cursor] /\ m[2] \in DOMAIN V[x.cursor] /\ V[x.cursor] \in Versions
            /\ V[x.cursor][n[2]].id = V[x.cursor][m[2]].id
        <5> HIDE DEF V
        <5> QED BY <1>2, <2>1, <3>1, <3>2
      <4>2. n[2] = m[2]
        <5> HIDE DEF V
        <5> QED BY <4>1 DEF Versions
      <4> QED BY <2>1, <3>1, <4>2
    <3>3. CASE q.kind = "uploads"
      BY <1>2, <2>1, <3>1, <3>3
    <3> QED BY <3>2, <3>3
  <2>5. m \in marked
    BY <2>1
  <2>6. ASSUME NEW r \in window
        PROVE  (\E n \in marked : Before(n, r)) <=> (r[1] > x.cursor \/ (r[1] = x.cursor /\ m[2] < r[2]))
    <3>1. (\E n \in marked : Before(n, r)) <=> Before(m, r)
      BY <2>4, <2>5 DEF Before
    <3>2. r[1] \in Nat /\ m[1] = x.cursor
      BY <1>2, <2>1
    <3> QED BY <2>3, <3>1, <3>2 DEF Before
  <2>7. ASSUME NEW r \in window, r[1] = x.cursor
        PROVE  m[2] < r[2] <=> Beyond(x, table, r[1], IdOf(q, table, r))
    <3>1. CASE q.kind = "versions"
      <4>1. /\ r[2] \in DOMAIN V[x.cursor] /\ m[2] \in DOMAIN V[x.cursor] /\ V[x.cursor] \in Versions
            /\ IdOf(q, table, r) = V[x.cursor][r[2]].id /\ x.marker = V[x.cursor][m[2]].id
        <5> HIDE DEF V
        <5> QED BY <1>2, <2>1, <2>7, <3>1
      <4>2. m[2] < r[2] <=> IdOf(q, table, r) \in Older(V[x.cursor], x.marker)
        <5> HIDE DEF V
        <5> QED BY <4>1, OlderComesLater
      <4> QED BY <1>5, <2>3, <2>7, <3>1, <4>2 DEF Beyond
    <3>2. CASE q.kind = "uploads"
      <4>1. IdOf(q, table, r) = r[2] /\ x.marker = m[2]
        BY <1>2, <2>1, <3>2
      <4>2. r[2] \in Nat /\ m[2] \in Nat
        BY <1>2
      <4> QED BY <1>5, <2>3, <2>7, <3>2, <4>1, <4>2 DEF Beyond
    <3> QED BY <3>1, <3>2
  <2>8. ASSUME NEW r \in window
        PROVE  (\E n \in marked : Before(n, r)) <=> Beyond(x, table, r[1], IdOf(q, table, r))
    <3>1. CASE r[1] = x.cursor
      BY <1>2, <2>3, <2>6, <2>7, <3>1
    <3>2. CASE r[1] > x.cursor
      BY <2>6, <3>2 DEF Beyond
    <3> QED BY <1>4, <2>3, <3>1, <3>2
  <2> HIDE DEF marked
  <2> QED BY <2>2, <2>8 DEF Remaining
<1>6. CASE x.marker = None
  <2>1. CASE x.cursor # None /\ q.kind = "versions"
    <3>1. Rest(x, window) = {r \in window : r[1] # x.cursor}
      BY <1>6, <2>1 DEF Rest
    <3>2. \A r \in window : r[1] # x.cursor <=> Beyond(x, table, r[1], IdOf(q, table, r))
      BY <1>2, <1>3, <1>4, <1>6, <2>1 DEF Beyond
    <3> QED BY <3>1, <3>2 DEF Remaining
  <2>2. CASE ~ (x.cursor # None /\ q.kind = "versions")
    <3>1. Rest(x, window) = window
      BY <1>6, <2>2 DEF Rest
    <3>2. \A r \in window : Beyond(x, table, r[1], IdOf(q, table, r))
      BY <1>4, <1>6, <2>2 DEF Beyond
    <3> QED BY <3>1, <3>2 DEF Remaining
  <2> QED BY <2>1, <2>2
<1> QED BY <1>5, <1>6

\* listAllVersions, listMultipartUploads: a client that stands where the invariant says
\* reads a window of the rows, a page of which gives it items.
Reads(x, given, twice, there, rows, window, item, page, items) ==
    /\ x \in Walk /\ x.query.kind \in {"versions", "uploads"} /\ x.at = "fetch" /\ VersionPlace(x)
    /\ given \in SUBSET Item /\ there \in SUBSET Items(x.query, table, uploads, parts)
    /\ VersionWalk(x, given, twice, there, table)
    /\ rows = RowsFrom(x) /\ window \in SUBSET rows /\ \A r \in window, s \in rows \ window : Before(r, s)
    /\ item = ItemsLeft(x, window) /\ page = PageOf(x.query, item) /\ items = ItemsOn(item, page)

\* What a page gives was not given before, but for folders, and what it leaves lies beyond
\* the place where it ends.
PageKeeps(x, given, twice, there, rows, window, item, page, items) ==
    /\ \A i \in twice \cup (items \cap given) : i[2] = None
    /\ page = DOMAIN item /\ window = rows => there \subseteq given \cup items
    /\ page # DOMAIN item /\ (\E r \in page : item[r][2] # None) =>
         \E r \in page : item[r][2] # None /\ \A s \in page : item[s][2] # None => ~Before(r, s)
    /\ \A r \in page : item[r][2] # None => Leaf(x.query, r[1]) /\ item[r][2] \in Nat /\ item[r][2] = IdOf(x.query, table, r)
    /\ \A r \in page : item[r] \in Item
    /\ \A r \in page : \A y :
         /\ item[r][2] # None /\ \A s \in page : item[s][2] # None => ~Before(r, s)
         /\ y.query = x.query /\ y.at = "between" /\ y.cursor = r[1] /\ y.marker = item[r][2]
         => VersionWalk(y, given \cup items, twice \cup (items \cap given), there, table)

\* listAllVersions, listMultipartUploads: what a page gives and leaves.
LEMMA VersionsGiven ==
  ASSUME ListingsTypeOK, NEW x, NEW given, NEW twice, NEW there, NEW rows, NEW window, NEW item, NEW page, NEW items,
         Reads(x, given, twice, there, rows, window, item, page, items)
  PROVE  PageKeeps(x, given, twice, there, rows, window, item, page, items)
<1> SUFFICES ASSUME
         x \in Walk, x.query.kind \in {"versions", "uploads"}, x.at = "fetch", VersionPlace(x),
         given \in SUBSET Item, there \in SUBSET Items(x.query, table, uploads, parts),
         VersionWalk(x, given, twice, there, table),
         rows = RowsFrom(x), window \in SUBSET rows, \A r \in window, s \in rows \ window : Before(r, s),
         item = ItemsLeft(x, window), page = PageOf(x.query, item), items = ItemsOn(item, page)
       PROVE  PageKeeps(x, given, twice, there, rows, window, item, page, items)
  BY DEF Reads
<1> DEFINE q == x.query
           V == table[q.bucket]
           Id(r) == IdOf(q, table, r)
           rest == Remaining(x, table, window)
<1>1. /\ q \in Query /\ table \in [Bucket -> [Key -> Versions]] /\ uploads \in SUBSET (Key \X Upload)
      /\ q.bucket \in Bucket /\ Key \subseteq Nat /\ None \notin Nat /\ Under[q.prefix] \subseteq Key /\ Key \subseteq Name
      /\ Under[q.prefix] \subseteq Nat
  BY KeysAreNumbers DEF Walk, ListingsTypeOK
<1>2. /\ rows \in SUBSET (Nat \X Nat) /\ IsFiniteSet(rows)
      /\ \A r \in rows : r[1] \in Under[q.prefix] /\ r[1] \in Nat /\ r[2] \in Nat /\ Id(r) \in Nat
      /\ q.kind = "versions" => \A r \in rows :
           r[2] \in DOMAIN V[r[1]] /\ Id(r) = V[r[1]][r[2]].id /\ V[r[1]] \in Versions
      /\ q.kind = "uploads" => \A r \in rows : Id(r) = r[2]
  <2>1. rows \in SUBSET Rows(q, table, uploads)
    BY DEF RowsFrom
  <2>2. \A k \in Under[q.prefix] : V[k] \in Versions
    BY <1>1
  <2>3. rows \in SUBSET (Nat \X Nat) /\ IsFiniteSet(rows)
    BY <1>1, <2>1, RowsAreFinite, FS_Subset
  <2> HIDE DEF V
  <2> QED BY <1>1, <2>1, <2>2, <2>3, RowsAreFinite DEF V
<1>3. /\ x.cursor = None \/ x.cursor \in Nat
      /\ x.marker = None \/ x.marker \in Nat
      /\ x.marker # None => Leaf(q, x.cursor) /\ x.cursor \in Under[q.prefix] /\ x.cursor # None
  <2>1. x.cursor \in Name \cup Part \cup {None} /\ x.marker \in Nat \cup Upload \cup {None}
    BY DEF Walk
  <2>2. Name \subseteq Nat /\ Part \subseteq Nat /\ Upload \subseteq Nat
    BY NamesAssumption, PartsAssumption
  <2>3. x.marker # None => Leaf(q, x.cursor) /\ x.cursor \in Under[q.prefix] /\ x.cursor # None
    BY <1>1 DEF VersionPlace, Leaf
  <2> QED BY <2>1, <2>2, <2>3
<1>4. DOMAIN item = rest /\ rest \in SUBSET window /\ rest \in SUBSET rows
  BY DEF Remaining, ItemsLeft
<1>5. IsFiniteSet(DOMAIN item) /\ DOMAIN item \in SUBSET (Nat \X Nat)
  BY <1>2, <1>4, FS_Subset
<1>6. page \subseteq rest /\ page \subseteq rows /\ \A r \in page, s \in rest \ page : Before(r, s)
  BY <1>1, <1>4, <1>5, PageIsInitial
<1>7. \A r \in page : item[r] = ItemOf(q, r[1], Id(r)) /\ Beyond(x, table, r[1], Id(r)) /\ r[1] \in Under[q.prefix]
  BY <1>2, <1>6 DEF Remaining, ItemsLeft
<1>8. \A r \in page :
        /\ item[r][2] # None => Leaf(q, r[1]) /\ item[r] = <<r[1], Id(r)>>
        /\ item[r][2] # None => item[r][1] = r[1] /\ item[r][2] = Id(r)
        /\ Leaf(q, r[1]) => item[r] = <<r[1], Id(r)>>
        /\ ~Leaf(q, r[1]) => item[r] = <<Folder(q, r[1]), None>> /\ AFolder(q, Folder(q, r[1]))
        /\ Id(r) \in Nat
  <2> TAKE r \in page
  <2>1. item[r] = ItemOf(q, r[1], Id(r)) /\ r[1] \in Under[q.prefix] /\ Id(r) \in Nat
    BY <1>2, <1>6, <1>7
  <2> HIDE DEF Id
  <2>2. /\ ItemOf(q, r[1], Id(r))[2] # None => Leaf(q, r[1]) /\ ItemOf(q, r[1], Id(r)) = <<r[1], Id(r)>>
        /\ Leaf(q, r[1]) => ItemOf(q, r[1], Id(r)) = <<r[1], Id(r)>>
        /\ ~Leaf(q, r[1]) => ItemOf(q, r[1], Id(r)) = <<Folder(q, r[1]), None>> /\ AFolder(q, Folder(q, r[1]))
    BY <1>1, <2>1, ItemsAreKeysOrFolders
  <2>3. ItemOf(q, r[1], Id(r)) = <<r[1], Id(r)>> =>
           ItemOf(q, r[1], Id(r))[1] = r[1] /\ ItemOf(q, r[1], Id(r))[2] = Id(r)
    OBVIOUS
  <2> QED BY <2>1, <2>2, <2>3
<1>9. /\ \A k \in Under[q.prefix], id \in Nat : ItemOf(q, k, id) \in there \ given => Beyond(x, table, k, id)
      /\ \A i \in given : i[2] # None => ~Beyond(x, table, i[1], i[2])
      /\ \A i \in twice : i[2] = None
  BY DEF VersionWalk
\* What was there all the time and was not given has a row beyond.
<1>10. ASSUME NEW i \in there \ given
       PROVE  \E s \in rows : i = ItemOf(q, s[1], Id(s)) /\ Beyond(x, table, s[1], Id(s))
  <2>1. PICK s \in Rows(q, table, uploads) : i = ItemOf(q, s[1], Id(s))
    BY <1>1, WhatItemsAre
  <2>2. s[1] \in Under[q.prefix] /\ s[1] \in Nat /\ Id(s) \in Nat
    BY <1>1, RowsAreFinite
  <2>3. Beyond(x, table, s[1], Id(s))
    BY <1>9, <1>10, <2>1, <2>2
  <2>4. x.cursor = None \/ s[1] >= x.cursor
    BY <1>3, <2>2, <2>3 DEF Beyond
  <2> QED BY <2>1, <2>3, <2>4 DEF RowsFrom
\* What a page leaves out follows it.
<1>11. ASSUME NEW r \in page, NEW s \in rows \ page, Beyond(x, table, s[1], Id(s)) PROVE Before(r, s)
  <2>1. CASE s \in window
    <3>1. s \in rest
      BY <1>11, <2>1 DEF Remaining
    <3> QED BY <1>6, <1>11, <3>1
  <2>2. CASE s \notin window
    BY <1>4, <1>6, <1>11, <2>2
  <2> QED BY <2>1, <2>2
<1>12. \A i \in items : \E r \in page : i = item[r]
  BY DEF ItemsOn
<1>13. \A i \in items \cap given : i[2] = None
  <2> SUFFICES ASSUME NEW i \in items, i \in given, i[2] # None PROVE FALSE
    OBVIOUS
  <2>1. PICK r \in page : i = item[r]
    BY <1>12
  <2>2. i[1] = r[1] /\ i[2] = Id(r)
    BY <1>8, <2>1
  <2> QED BY <1>7, <1>9, <2>1, <2>2
<1>14. ASSUME page = DOMAIN item, window = rows PROVE there \subseteq given \cup items
  <2> SUFFICES ASSUME NEW i \in there \ given PROVE i \in items
    OBVIOUS
  <2>1. PICK s \in rows : i = ItemOf(q, s[1], Id(s)) /\ Beyond(x, table, s[1], Id(s))
    BY <1>10
  <2>2. s \in page
    BY <1>4, <1>14, <2>1 DEF Remaining
  <2> QED BY <1>7, <2>1, <2>2 DEF ItemsOn
<1>15. ASSUME \E r \in page : item[r][2] # None
       PROVE  \E r \in page : item[r][2] # None /\ \A s \in page : item[s][2] # None => ~Before(r, s)
  <2> DEFINE S == {r \in page : item[r][2] # None}
  <2>1. S \in SUBSET rows /\ S # {}
    BY <1>6, <1>15
  <2>2. IsFiniteSet(S) /\ S \in SUBSET (Nat \X Nat)
    <3> HIDE DEF S
    <3> QED BY <1>2, <2>1, FS_Subset
  <2>3. \E r \in S : \A s \in S : ~Before(r, s)
    <3> HIDE DEF S
    <3> QED BY <2>1, <2>2, LastRow
  <2> QED BY <2>3
<1>16. \A r \in page : item[r] \in Item
  <2> TAKE r \in page
  <2>1. CASE Leaf(q, r[1])
    <3>1. item[r] = <<r[1], Id(r)>> /\ r[1] \in Name /\ Id(r) \in Nat
      BY <1>1, <1>2, <1>6, <1>7, <1>8, <2>1
    <3> HIDE DEF Id
    <3>2. <<r[1], Id(r)>> \in Item
      BY <3>1 DEF Item
    <3> QED BY <3>1, <3>2
  <2>2. CASE ~Leaf(q, r[1])
    <3>1. item[r] = <<Folder(q, r[1]), None>> /\ AFolder(q, Folder(q, r[1]))
      BY <1>8, <2>2
    <3>2. Folder(q, r[1]) \in Name
      <4>1. \A f : AFolder(q, f) => f \in Name
        BY <1>1, FoldersHaveKeys
      <4> QED BY <3>1, <4>1
    <3>3. <<Folder(q, r[1]), None>> \in Item
      BY <3>2 DEF Item
    <3> QED BY <3>1, <3>3
  <2> QED BY <2>1, <2>2
<1>17. ASSUME NEW r \in page, item[r][2] # None, \A s \in page : item[s][2] # None => ~Before(r, s),
              NEW y, y.query = q, y.at = "between", y.cursor = r[1], y.marker = item[r][2]
       PROVE  VersionWalk(y, given \cup items, twice \cup (items \cap given), there, table)
  <2>1. Leaf(q, r[1]) /\ item[r] = <<r[1], Id(r)>> /\ item[r][2] = Id(r) /\ Id(r) \in Nat
        /\ r[1] \in Under[q.prefix] /\ r[1] \in Nat /\ r \in rows /\ r[1] # None
    <3>1. r \in rows /\ r \in page
      BY <1>6, <1>17
    <3> HIDE DEF Id
    <3> QED BY <1>1, <1>2, <1>8, <1>17, <3>1
  <2>2. ASSUME NEW k \in Under[q.prefix], NEW id \in Nat, ItemOf(q, k, id) \in there \ (given \cup items)
        PROVE  Beyond(y, table, k, id)
    <3>1. PICK s \in rows : ItemOf(q, k, id) = ItemOf(q, s[1], Id(s)) /\ Beyond(x, table, s[1], Id(s))
      BY <1>10, <2>2
    <3>2. s \notin page
      BY <1>7, <2>2, <3>1 DEF ItemsOn
    <3>3. Before(r, s) /\ s[1] \in Under[q.prefix] /\ s[1] \in Nat /\ k \in Nat /\ Id(s) \in Nat
      BY <1>1, <1>2, <1>11, <3>1, <3>2
    <3>4. CASE Leaf(q, k)
      <4>1. ItemOf(q, k, id) = <<k, id>> /\ ItemOf(q, k, id)[2] # None
        BY <1>1, <3>4, ItemsAreKeysOrFolders
      <4>2. ItemOf(q, s[1], Id(s)) = <<s[1], Id(s)>>
        <5> HIDE DEF Id
        <5>1. ItemOf(q, s[1], Id(s))[2] # None
          BY <3>1, <4>1
        <5> QED BY <1>1, <3>3, <5>1, ItemsAreKeysOrFolders, ZenonT(60)
      <4>3. k = s[1] /\ id = Id(s)
        <5> HIDE DEF Id
        <5>1. <<k, id>> = <<s[1], Id(s)>>
          BY <3>1, <4>1, <4>2
        <5> QED BY <5>1
      <4>4. CASE k > r[1]
        BY <1>17, <4>4 DEF Beyond
      <4>5. CASE ~ (k > r[1])
        <5>1. s[1] = r[1] /\ r[2] < s[2] /\ k = r[1]
          BY <2>1, <3>3, <4>3, <4>5 DEF Before
        <5>2. CASE q.kind = "versions"
          <6>1. /\ r[2] \in DOMAIN V[k] /\ s[2] \in DOMAIN V[k] /\ V[k] \in Versions
                /\ Id(r) = V[k][r[2]].id /\ Id(s) = V[k][s[2]].id
            <7> HIDE DEF V, Id
            <7> QED BY <1>2, <2>1, <5>1, <5>2
          <6>2. Id(s) \in Older(V[k], Id(r))
            <7> HIDE DEF V, Id
            <7> QED BY <5>1, <6>1, OlderComesLater
          <6> QED BY <1>17, <2>1, <4>3, <5>1, <5>2, <6>2 DEF Beyond
        <5>3. CASE q.kind = "uploads"
          <6>1. Id(r) = r[2] /\ Id(s) = s[2] /\ s[2] > r[2]
            <7> HIDE DEF V, Id
            <7> QED BY <1>2, <2>1, <5>1, <5>3
          <6> QED BY <1>17, <2>1, <4>3, <5>1, <5>3, <6>1 DEF Beyond
        <5> QED BY <5>2, <5>3
      <4> QED BY <4>4, <4>5
    <3>5. CASE ~Leaf(q, k)
      <4>1. ItemOf(q, k, id) = <<Folder(q, k), None>> /\ Folder(q, k) # None
        BY <1>1, <3>5, ItemsAreKeysOrFolders DEF AFolder
      <4>2. ~Leaf(q, s[1])
        <5> HIDE DEF Id
        <5> SUFFICES ASSUME Leaf(q, s[1]) PROVE FALSE
          OBVIOUS
        <5>1. ItemOf(q, s[1], Id(s)) = <<s[1], Id(s)>>
          BY <1>1, <3>3, ItemsAreKeysOrFolders
        <5>2. <<s[1], Id(s)>> = <<Folder(q, k), None>>
          BY <3>1, <4>1, <5>1
        <5> QED BY <1>1, <3>3, <5>2
      <4>3. Folder(q, s[1]) = Folder(q, k)
        <5> HIDE DEF Id
        <5>1. ItemOf(q, s[1], Id(s)) = <<Folder(q, s[1]), None>>
          BY <1>1, <3>3, <4>2, ItemsAreKeysOrFolders
        <5>2. <<Folder(q, s[1]), None>> = <<Folder(q, k), None>>
          BY <3>1, <4>1, <5>1
        <5> QED BY <5>2
      <4>4. r[1] < s[1]
        <5>1. r[1] # s[1]
          BY <2>1, <4>2
        <5> QED BY <3>3, <5>1 DEF Before
      <4>5. ASSUME k =< r[1] PROVE FALSE
        <5>1. r[1] =< s[1]
          BY <2>1, <3>3, <4>4
        <5>2. Folder(q, r[1]) = Folder(q, k)
          BY <1>1, <2>1, <3>3, <4>1, <4>3, <4>5, <5>1, FoldersAreRuns
        <5> QED BY <2>1, <4>1, <5>2 DEF Leaf
      <4>6. k > r[1]
        BY <2>1, <3>3, <4>5
      <4> QED BY <1>17, <4>6 DEF Beyond
    <3> QED BY <3>4, <3>5
  <2>3. ASSUME NEW i \in given \cup items, i[2] # None, Beyond(y, table, i[1], i[2]) PROVE FALSE
    <3>1. i[1] > r[1] \/ (i[1] = r[1] /\ (q.kind = "versions" => i[2] \in Older(V[r[1]], Id(r)))
                                      /\ (q.kind = "uploads" => i[2] > Id(r)))
      <4>1. q.kind = "uploads" => q.kind # "versions"
        OBVIOUS
      <4>2. Id(r) # None
        BY <1>1, <2>1
      <4> QED BY <1>17, <2>1, <2>3, <4>1, <4>2 DEF Beyond
    <3>2. CASE i \in items
      <4>1. PICK s \in page : i = item[s]
        BY <1>12, <3>2
      <4>2. i[1] = s[1] /\ i[2] = Id(s) /\ s \in rows /\ ~Before(r, s) /\ s[1] \in Nat /\ s[2] \in Nat
        <5>1. i[1] = s[1] /\ i[2] = Id(s)
          BY <1>8, <2>3, <4>1
        <5>2. s \in rows /\ ~Before(r, s)
          BY <1>6, <1>17, <2>3, <4>1
        <5> QED BY <1>2, <5>1, <5>2
      <4>3. i[1] = r[1]
        BY <2>1, <3>1, <4>2 DEF Before
      <4>4. ~ (r[2] < s[2]) /\ s[1] = r[1]
        BY <4>2, <4>3 DEF Before
      <4>5. CASE q.kind = "versions"
        <5>1. /\ r[2] \in DOMAIN V[r[1]] /\ s[2] \in DOMAIN V[r[1]] /\ V[r[1]] \in Versions
              /\ Id(r) = V[r[1]][r[2]].id /\ Id(s) = V[r[1]][s[2]].id
          <6> HIDE DEF V, Id
          <6> QED BY <1>2, <2>1, <4>2, <4>4, <4>5
        <5>2. ~ (Id(s) \in Older(V[r[1]], Id(r)))
          <6> HIDE DEF V, Id
          <6> QED BY <4>4, <5>1, OlderComesLater
        <5>3. ~ (i[1] > r[1])
          BY <2>1, <4>3
        <5> HIDE DEF V, Id
        <5> QED BY <3>1, <4>2, <4>5, <5>2, <5>3
      <4>6. CASE q.kind = "uploads"
        <5>1. Id(r) = r[2] /\ Id(s) = s[2] /\ r[2] \in Nat
          <6> HIDE DEF V, Id
          <6> QED BY <1>2, <2>1, <4>2, <4>6
        <5>2. ~ (i[1] > r[1]) /\ ~ (i[2] > Id(r))
          <6> HIDE DEF V, Id
          <6> QED BY <2>1, <4>2, <4>3, <4>4, <5>1
        <5> HIDE DEF V, Id
        <5> QED BY <3>1, <4>6, <5>2
      <4> QED BY <4>5, <4>6
    <3>3. CASE i \in given
      <4>0. i[1] \in Nat /\ i[2] \in Nat
        <5>1. i \in Item
          BY <3>3
        <5>2. i[1] \in Name \cup Part /\ i[2] \in Nat \cup Upload
          BY <2>3, <5>1 DEF Item
        <5> QED BY <5>2, NamesAssumption, PartsAssumption
      <4>1. ~Beyond(x, table, i[1], i[2]) /\ Beyond(x, table, r[1], Id(r))
        BY <1>7, <1>9, <1>17, <2>3, <3>3
      <4>2. x.cursor # None /\ x.cursor \in Nat /\ r[1] >= x.cursor
        BY <1>3, <2>1, <4>1 DEF Beyond
      <4>3. CASE i[1] > r[1]
        <5>1. i[1] > x.cursor
          BY <2>1, <4>0, <4>2, <4>3
        <5> QED BY <4>1, <5>1 DEF Beyond
      <4>4. CASE ~ (i[1] > r[1])
        <5>1. i[1] = r[1] /\ i[1] = x.cursor
          BY <2>1, <3>1, <4>0, <4>1, <4>2, <4>4 DEF Beyond
        <5>2. CASE q.kind = "versions"
          <6>1. x.marker # None /\ Id(r) \in Older(V[r[1]], x.marker) /\ i[2] \notin Older(V[r[1]], x.marker)
                /\ i[2] \in Older(V[r[1]], Id(r))
            <7>1. ~ (r[1] > x.cursor)
              BY <2>1, <5>1
            <7> HIDE DEF Id
            <7> QED BY <3>1, <4>1, <4>2, <4>4, <5>1, <5>2, <7>1 DEF Beyond
          <6>2. V[r[1]] \in Versions
            <7> HIDE DEF V, Id
            <7> QED BY <1>2, <2>1, <5>2
          <6> HIDE DEF V, Id
          <6> QED BY <6>1, <6>2, OlderIsTransitive
        <5>3. CASE q.kind = "uploads"
          <6>1. ~ (r[1] > x.cursor)
            BY <2>1, <5>1
          <6>2. x.marker # None /\ Id(r) > x.marker /\ ~ (i[2] > x.marker) /\ i[2] > Id(r)
            <7> HIDE DEF Id
            <7> QED BY <3>1, <4>1, <4>2, <4>4, <5>1, <5>3, <6>1 DEF Beyond
          <6>3. x.marker \in Nat /\ Id(r) \in Nat
            BY <1>3, <2>1, <6>2
          <6> HIDE DEF Id
          <6> QED BY <4>0, <6>2, <6>3
        <5> QED BY <5>2, <5>3
      <4> QED BY <4>3, <4>4
    <3> QED BY <2>3, <3>2, <3>3
  <2> QED BY <1>9, <1>13, <1>17, <2>2, <2>3 DEF VersionWalk
<1>18. \A i \in twice \cup (items \cap given) : i[2] = None
  BY <1>9, <1>13
<1>19. \A r \in page : item[r][2] # None => Leaf(q, r[1]) /\ item[r][2] \in Nat /\ item[r][2] = Id(r)
  <2> HIDE DEF Id
  <2> QED BY <1>8
<1>20. \A r \in page : \A y :
         /\ item[r][2] # None /\ \A s \in page : item[s][2] # None => ~Before(r, s)
         /\ y.query = q /\ y.at = "between" /\ y.cursor = r[1] /\ y.marker = item[r][2]
         => VersionWalk(y, given \cup items, twice \cup (items \cap given), there, table)
  BY <1>17
<1> HIDE DEF Id
<1> QED BY <1>14, <1>15, <1>16, <1>18, <1>19, <1>20 DEF PageKeeps, Id

\* A row gives an item: its key and its id, or its folder.
LEMMA RowsGiveItems ==
  ASSUME NEW q \in Query, NEW t \in [Bucket -> [Key -> Versions]], NEW u \in SUBSET (Key \X Upload),
         q.kind \in {"versions", "uploads"}, NEW r \in Rows(q, t, u),
         NEW i, i = ItemOf(q, r[1], IdOf(q, t, r))
  PROVE  /\ i \in Item
         /\ i[2] # None => Leaf(q, r[1]) /\ i[2] \in Nat /\ r[1] \in Name
<1> DEFINE id == IdOf(q, t, r)
<1>1. r[1] \in Under[q.prefix] /\ id \in Nat /\ r[1] \in Name
  <2>1. r[1] \in Under[q.prefix] /\ id \in Nat
    BY RowsAreFinite
  <2> QED BY <2>1, KeysAreNumbers
<1> HIDE DEF id
<1>2. i = ItemOf(q, r[1], id)
  BY DEF id
<1>3. CASE Leaf(q, r[1])
  <2>1. i = <<r[1], id>>
    BY <1>1, <1>2, <1>3, ItemsAreKeysOrFolders
  <2>2. <<r[1], id>> \in Item
    BY <1>1 DEF Item
  <2> QED BY <1>1, <1>3, <2>1, <2>2
<1>4. CASE ~Leaf(q, r[1])
  <2>1. i = <<Folder(q, r[1]), None>> /\ AFolder(q, Folder(q, r[1]))
    BY <1>1, <1>2, <1>4, ItemsAreKeysOrFolders
  <2>2. Folder(q, r[1]) \in Name
    <3>1. \A f : AFolder(q, f) => f \in Name
      BY FoldersHaveKeys
    <3> QED BY <2>1, <3>1
  <2>3. <<Folder(q, r[1]), None>> \in Item
    BY <2>2 DEF Item
  <2>4. i[2] = None
    BY <2>1
  <2> QED BY <2>1, <2>3, <2>4
<1> QED BY <1>3, <1>4

\* listAllVersions, listMultipartUploads: a window keeps the place of the client.
LEMMA ListWindowKeeps ==
  ASSUME ListingsTypeOK, NEW w \in Walker, Walked(w), ListWindow(w)
  PROVE  Alone(w)
<1> DEFINE x == walk[w]
           q == x.query
           rows == {r \in Rows(q, table, uploads) : x.cursor = None \/ r[1] >= x.cursor}
           size == 2 * q.limit + 1
           window == {r \in rows : Cardinality({s \in rows : Before(s, r)}) < size}
           item == [r \in Rest(x, window) |-> ItemOf(q, r[1], IdOf(q, table, r))]
           page == PageOf(q, item)
           items == {item[r] : r \in page}
           leaves == {r \in page : item[r][2] # None}
           last == {r \in leaves : \A s \in leaves : ~Before(r, s)}
<1>1. /\ x \in Walk /\ q \in Query /\ q.kind \in {"versions", "uploads"} /\ x.at = "fetch" /\ walk \in [Walker -> Walk]
      /\ q.kind \notin ObjectKinds /\ q.kind # "parts"
  BY DEF ListWindow, ListingsTypeOK, Walk, ObjectKinds
<1>2. /\ Turn(w, item, page)
      /\ astray' = [astray EXCEPT ![w] = @ \/ Misled(x, window)
              \/ (page = DOMAIN item /\ window # rows)
              \/ (page # DOMAIN item /\ \A r \in page : item[r][2] = None)]
      /\ UNCHANGED <<tables, steady>>
  <2>1. \E R \in {rows} : \E W \in {{r \in R : Cardinality({s \in R : Before(s, r)}) < size}} :
        \E I \in {[r \in Rest(x, W) |-> ItemOf(q, r[1], IdOf(q, table, r))]} : \E P \in {PageOf(q, I)} :
          /\ Turn(w, I, P)
          /\ astray' = [astray EXCEPT ![w] = @ \/ Misled(x, W)
              \/ (P = DOMAIN I /\ W # R)
              \/ (P # DOMAIN I /\ \A r \in P : I[r][2] = None)]
    BY DEF ListWindow
  <2>2. UNCHANGED <<tables, steady>>
    BY DEF ListWindow
  <2> DEFINE Gives(R, W, I, P) ==
          /\ Turn(w, I, P)
          /\ astray' = [astray EXCEPT ![w] = @ \/ Misled(x, W)
              \/ (P = DOMAIN I /\ W # R)
              \/ (P # DOMAIN I /\ \A r \in P : I[r][2] = None)]
             WindowOf(R) == {r \in R : Cardinality({s \in R : Before(s, r)}) < size}
             Of(W) == [r \in Rest(x, W) |-> ItemOf(q, r[1], IdOf(q, table, r))]
  <2>3. \E R \in {rows} : \E W \in {WindowOf(R)} : \E I \in {Of(W)} : \E P \in {PageOf(q, I)} : Gives(R, W, I, P)
    BY <2>1
  <2> HIDE DEF Gives
  <2>4. Gives(rows, window, item, page)
    <3>1. window = WindowOf(rows) /\ item = Of(window)
      OBVIOUS
    <3> HIDE DEF WindowOf, Of, rows, window, item
    <3> QED BY <2>3, <3>1
  <2> QED BY <2>2, <2>4 DEF Gives
<1>3. VersionPlace(x) /\ steady[w] \subseteq Items(q, table, uploads, parts)
      /\ (~astray[w] => VersionWalk(x, listed[w], repeated[w], steady[w], table))
  BY <1>1 DEF Walked
<1>4. Rest(x, window) \subseteq window /\ window \subseteq rows /\ rows \subseteq Rows(q, table, uploads)
  BY DEF Rest
<1>5. page \subseteq DOMAIN item /\ DOMAIN item = Rest(x, window)
  BY DEF PageOf
<1>6. \A r \in page : /\ item[r] = ItemOf(q, r[1], IdOf(q, table, r)) /\ r \in Rows(q, table, uploads)
  BY <1>4, <1>5
<1>7. \A r \in page : item[r] \in Item /\ (item[r][2] # None => Leaf(q, r[1]) /\ item[r][2] \in Nat /\ r[1] \in Name)
  <2> HIDE DEF item, page
  <2> QED BY <1>1, <1>6, RowsGiveItems DEF ListingsTypeOK
<1>8. items \in SUBSET Item
  <2> HIDE DEF page, item
  <2> QED BY <1>7
<1>9. /\ Give(w, items)
      /\ \/ /\ page # DOMAIN item /\ last # {}
            /\ \E r \in last : walk' = [walk EXCEPT ![w].at = "between", ![w].cursor = r[1], ![w].marker = item[r][2]]
         \/ /\ page = DOMAIN item \/ last = {}
            /\ walk' = [walk EXCEPT ![w].at = "ended"]
  <2> HIDE DEF page, item
  <2> QED BY <1>2 DEF Turn
<1> HIDE DEF items
<1>10. /\ listed' \in [Walker -> SUBSET Item] /\ repeated' \in [Walker -> SUBSET Item]
       /\ listed'[w] = listed[w] \cup items /\ repeated'[w] = repeated[w] \cup (items \cap listed[w])
       /\ \A v \in Walker \ {w} : listed'[v] = listed[v] /\ repeated'[v] = repeated[v]
  BY <1>8, <1>9, PagesGive
<1>11. /\ astray' \in [Walker -> BOOLEAN] /\ \A v \in Walker \ {w} : astray'[v] = astray[v]
       /\ ~astray'[w] => /\ ~astray[w] /\ ~Misled(x, window)
                         /\ ~ (page = DOMAIN item /\ window # rows)
                         /\ ~ (page # DOMAIN item /\ \A r \in page : item[r][2] = None)
  <2>1. astray \in [Walker -> BOOLEAN]
    BY DEF ListingsTypeOK
  <2> HIDE DEF page, item, window, rows
  <2> QED BY <1>2, <2>1
<1>12. walk' \in [Walker -> Walk] /\ \A v \in Walker \ {w} : walk'[v] = walk[v]
  <2>1. CASE walk' = [walk EXCEPT ![w].at = "ended"]
    BY <1>1, <2>1 DEF Walk
  <2>2. ASSUME NEW r \in last, walk' = [walk EXCEPT ![w].at = "between", ![w].cursor = r[1], ![w].marker = item[r][2]]
        PROVE  walk' \in [Walker -> Walk] /\ \A v \in Walker \ {w} : walk'[v] = walk[v]
    <3>1. r[1] \in Name /\ item[r][2] \in Nat
      BY <1>7, <2>2
    <3> HIDE DEF last, item
    <3> QED BY <1>1, <2>2, <3>1 DEF Walk
  <2> HIDE DEF last, page, item
  <2> QED BY <1>9, <2>1, <2>2
<1>13. walk'[w].query = q
  <2>1. CASE walk' = [walk EXCEPT ![w].at = "ended"]
    BY <1>1, <2>1 DEF Walk
  <2>2. ASSUME NEW r \in last, walk' = [walk EXCEPT ![w].at = "between", ![w].cursor = r[1], ![w].marker = item[r][2]]
        PROVE  walk'[w].query = q
    <3> HIDE DEF last, item
    <3> QED BY <1>1, <2>2 DEF Walk
  <2> HIDE DEF last, page, item
  <2> QED BY <1>9, <2>1, <2>2
<1>14. VersionPlace(walk'[w])
  <2>1. CASE walk' = [walk EXCEPT ![w].at = "ended"]
    <3>1. /\ walk'[w].at = "ended" /\ walk'[w].marker = x.marker /\ walk'[w].cursor = x.cursor
          /\ walk'[w].onFolder = x.onFolder
      BY <1>1, <2>1 DEF Walk
    <3> QED BY <1>3, <1>13, <3>1 DEF VersionPlace
  <2>2. ASSUME NEW r \in last, walk' = [walk EXCEPT ![w].at = "between", ![w].cursor = r[1], ![w].marker = item[r][2]]
        PROVE  VersionPlace(walk'[w])
    <3>1. Leaf(q, r[1])
      BY <1>7, <2>2
    <3>2. /\ walk'[w].at = "between" /\ walk'[w].cursor = r[1] /\ walk'[w].onFolder = x.onFolder
      <4> HIDE DEF last, item
      <4> QED BY <1>1, <2>2 DEF Walk
    <3> QED BY <1>3, <1>13, <3>1, <3>2 DEF VersionPlace
  <2> HIDE DEF last, page, item
  <2> QED BY <1>9, <2>1, <2>2
<1>15. ASSUME ~astray'[w]
       PROVE  VersionWalk(walk'[w], listed[w] \cup items, repeated[w] \cup (items \cap listed[w]), steady[w], table)
  <2>1. /\ VersionWalk(x, listed[w], repeated[w], steady[w], table) /\ ~Misled(x, window)
        /\ page = DOMAIN item => window = rows
        /\ page # DOMAIN item => \E r \in page : item[r][2] # None
    <3> HIDE DEF page, item, window, rows
    <3> QED BY <1>3, <1>11, <1>15
  <2>2. rows \in SUBSET (Nat \X Nat) /\ IsFiniteSet(rows)
    <3>1. rows \in SUBSET Rows(q, table, uploads)
      BY <1>4
    <3>2. Rows(q, table, uploads) \in SUBSET (Nat \X Nat) /\ IsFiniteSet(Rows(q, table, uploads))
      BY <1>1, RowsAreFinite DEF ListingsTypeOK
    <3> HIDE DEF rows
    <3> QED BY <3>1, <3>2, FS_Subset
  <2>3. \A r \in window, s \in rows \ window : Before(r, s)
    <3>1. size \in Nat
      BY <1>1, KeysAreNumbers
    <3> HIDE DEF rows, size
    <3> QED BY <2>2, <3>1, WindowIsInitial, ZenonT(60)
  <2>4. Rest(x, window) = Remaining(x, table, window)
    <3>1. x.marker # None => x.cursor # None
      BY <1>1, <1>3, KeysAreNumbers DEF VersionPlace, Leaf
    <3>2. window \in SUBSET rows
      BY <1>4
    <3> HIDE DEF window, x
    <3> QED BY <1>1, <2>1, <3>1, <3>2, RestIsBeyond
  <2>5. item = ItemsLeft(x, window)
    <3> HIDE DEF window, rows
    <3> QED BY <2>4 DEF ItemsLeft
  <2>6. /\ listed[w] \in SUBSET Item /\ steady[w] \in SUBSET Items(q, table, uploads, parts) /\ window \in SUBSET rows
    BY <1>3, <1>4 DEF ListingsTypeOK
  <2>7. page = PageOf(q, item) /\ items = ItemsOn(item, page)
    BY DEF items, ItemsOn
  <2>8. rows = RowsFrom(x)
    BY DEF RowsFrom
  <2> HIDE DEF rows, window, item, page, x
  <2>9. /\ \A i \in repeated[w] \cup (items \cap listed[w]) : i[2] = None
        /\ page = DOMAIN item /\ window = rows => steady[w] \subseteq listed[w] \cup items
        /\ page # DOMAIN item /\ (\E r \in page : item[r][2] # None) =>
              \E r \in page : item[r][2] # None /\ \A s \in page : item[s][2] # None => ~Before(r, s)
        /\ \A r \in page : \A y :
              /\ item[r][2] # None /\ \A s \in page : item[s][2] # None => ~Before(r, s)
              /\ y.query = q /\ y.at = "between" /\ y.cursor = r[1] /\ y.marker = item[r][2]
              => VersionWalk(y, listed[w] \cup items, repeated[w] \cup (items \cap listed[w]), steady[w], table)
    <3>1. /\ x \in Walk /\ x.query.kind \in {"versions", "uploads"} /\ x.at = "fetch" /\ VersionPlace(x)
          /\ steady[w] \in SUBSET Items(x.query, table, uploads, parts)
          /\ page = PageOf(x.query, item)
      BY <1>1, <1>3, <2>6, <2>7
    <3>2. Reads(x, listed[w], repeated[w], steady[w], rows, window, item, page, items)
      BY <2>1, <2>3, <2>5, <2>6, <2>7, <2>8, <3>1 DEF Reads
    <3>3. PageKeeps(x, listed[w], repeated[w], steady[w], rows, window, item, page, items)
      BY <3>2, VersionsGiven
    <3> QED BY <3>3 DEF PageKeeps
  <2>10. CASE page = DOMAIN item
    <3>1. walk' = [walk EXCEPT ![w].at = "ended"]
      BY <1>9, <2>10
    <3>2. walk'[w].at = "ended"
      BY <1>1, <3>1 DEF Walk
    <3>3. steady[w] \subseteq listed[w] \cup items
      BY <2>1, <2>9, <2>10
    <3> QED BY <2>9, <3>2, <3>3 DEF VersionWalk
  <2>11. CASE page # DOMAIN item
    <3>1. last # {}
      <4>1. \E r \in page : item[r][2] # None /\ \A s \in page : item[s][2] # None => ~Before(r, s)
        BY <2>1, <2>9, <2>11
      <4> QED BY <4>1
    <3>2. PICK r \in last : walk' = [walk EXCEPT ![w].at = "between", ![w].cursor = r[1], ![w].marker = item[r][2]]
      BY <1>9, <2>11, <3>1
    <3>3. r \in page /\ item[r][2] # None /\ \A s \in page : item[s][2] # None => ~Before(r, s)
      OBVIOUS
    <3>4. walk'[w].at = "between" /\ walk'[w].cursor = r[1] /\ walk'[w].marker = item[r][2]
      <4> HIDE DEF last
      <4> QED BY <1>1, <3>2 DEF Walk
    <3> QED BY <1>13, <2>9, <3>3, <3>4
  <2> QED BY <2>10, <2>11
<1>16. Walked(w)'
  <2>1. steady'[w] \subseteq Items(walk'[w].query, table', uploads', parts')
    BY <1>2, <1>3, <1>13 DEF tables
  <2>2. ~astray'[w] => VersionWalk(walk'[w], listed'[w], repeated'[w], steady'[w], table')
    BY <1>2, <1>10, <1>15 DEF tables
  <2> QED BY <1>1, <1>13, <1>14, <2>1, <2>2 DEF Walked
<1> QED BY <1>2, <1>10, <1>11, <1>12, <1>16 DEF Alone

-----------------------------------------------------------------------------
(* The steps of everybody else. *)

\* A client of a listing of versions: when what was there all the time has stayed where it
\* was, and so has the row its marker names, the client's place is what it was.
LEMMA VersionsStay ==
  ASSUME NEW x, NEW given, NEW twice, NEW there, NEW left \in SUBSET there,
         NEW t \in [Bucket -> [Key -> Versions]], table \in [Bucket -> [Key -> Versions]],
         x.query \in Query, x.query.kind \in {"versions", "uploads"}, VersionPlace(x),
         VersionWalk(x, given, twice, there, table), \A item \in left : Stays(x.query, t, item),
         x.at # "ended" /\ x.marker # None => Stays(x.query, t, <<x.cursor, x.marker>>)
  PROVE  VersionWalk(x, given, twice, left, t)
<1> DEFINE q == x.query
           was(k) == table[q.bucket][k]
           now(k) == t[q.bucket][k]
<1>1. q.kind = "uploads" => \A k, id : Beyond(x, t, k, id) <=> Beyond(x, table, k, id)
  BY DEF Beyond
<1>2. \A k \in Under[q.prefix] : was(k) \in Versions /\ now(k) \in Versions
  BY KeysAreNumbers
<1>3. ASSUME q.kind = "versions", x.at # "ended", x.marker # None
      PROVE  /\ Leaf(q, x.cursor) /\ x.cursor \in Under[q.prefix]
             /\ Kept(now(x.cursor), was(x.cursor), x.marker)
  <2>1. Leaf(q, x.cursor)
    BY <1>3 DEF VersionPlace
  <2>2. Stays(q, t, <<x.cursor, x.marker>>)
    BY <1>3
  <2> QED BY <1>3, <2>1, <2>2 DEF Stays, Leaf
<1>4. ASSUME x.at # "ended", NEW k \in Under[q.prefix], NEW id \in Nat, ItemOf(q, k, id) \in left \ given
      PROVE  Beyond(x, t, k, id)
  <2>1. Beyond(x, table, k, id)
    BY <1>4 DEF VersionWalk
  <2>2. CASE q.kind = "uploads"
    BY <1>1, <2>1, <2>2
  <2>3. CASE q.kind = "versions" /\ (x.cursor = None \/ k > x.cursor)
    BY <2>3 DEF Beyond
  <2>4. CASE q.kind = "versions" /\ ~ (x.cursor = None \/ k > x.cursor)
    <3>1. k = x.cursor /\ x.marker # None /\ id \in Older(was(k), x.marker)
      BY <2>1, <2>4 DEF Beyond
    <3>2. Leaf(q, k) /\ Kept(now(k), was(k), x.marker)
      BY <1>3, <1>4, <2>4, <3>1
    <3>3. ItemOf(q, k, id) = <<k, id>>
      BY <3>2, ItemsAreKeysOrFolders
    <3>4. Stays(q, t, <<k, id>>) /\ id # None
      BY <1>4, <3>3, KeysAreNumbers
    <3>5. Kept(now(k), was(k), id)
      BY <2>4, <3>4 DEF Stays
    <3>6. id \in Older(now(k), x.marker)
      <4> HIDE DEF was, now
      <4> QED BY <1>2, <3>1, <3>2, <3>5, KeptStaysOlder
    <3> QED BY <2>4, <3>1, <3>6 DEF Beyond
  <2> QED BY <2>2, <2>3, <2>4
<1>5. ASSUME x.at # "ended", NEW item \in given, item[2] # None
      PROVE  ~Beyond(x, t, item[1], item[2])
  <2>1. ~Beyond(x, table, item[1], item[2])
    BY <1>5 DEF VersionWalk
  <2>2. CASE q.kind = "uploads"
    BY <1>1, <2>1, <2>2
  <2>3. CASE q.kind = "versions"
    <3> SUFFICES ASSUME Beyond(x, t, item[1], item[2]) PROVE FALSE
      OBVIOUS
    <3>1. item[1] = x.cursor /\ x.marker # None /\ item[2] \in Older(now(item[1]), x.marker)
      BY <2>1, <2>3 DEF Beyond
    <3>2. Kept(now(item[1]), was(item[1]), x.marker)
      BY <1>3, <1>5, <2>3, <3>1
    <3>3. item[2] \in Older(was(item[1]), x.marker)
      BY <3>1, <3>2 DEF Kept
    <3> QED BY <2>1, <2>3, <3>1, <3>3 DEF Beyond
  <2> QED BY <2>2, <2>3
<1>6. /\ x.at = "ended" => left \subseteq given
      /\ \A item \in twice : item[2] = None
  BY DEF VersionWalk
<1> QED BY <1>4, <1>5, <1>6 DEF VersionWalk

\* Whatever others write to the tables, every client stands where it stood.
LEMMA BecomesKeeps ==
  ASSUME WalksInv, NEW t \in [Bucket -> [Key -> Versions]], NEW u \in SUBSET (Key \X Upload),
         NEW p \in SUBSET Part, Becomes(t, u, p)
  PROVE  WalksInv'
<1>1. /\ table' = t /\ uploads' = u /\ parts' = p /\ UNCHANGED <<walk, listed, repeated>>
      /\ \A w \in Walker :
           /\ steady'[w] = {item \in steady[w] \cap Items(walk[w].query, t, u, p) : Stays(walk[w].query, t, item)}
           /\ astray'[w] = (astray[w] \/
                (walk[w].at # "ended" /\ walk[w].marker # None
                 /\ ~Stays(walk[w].query, t, <<walk[w].cursor, walk[w].marker>>)))
  BY DEF Becomes
<1>2. ListingsTypeOK'
  <2>1. \A w \in Walker : steady'[w] \in SUBSET Item /\ astray'[w] \in BOOLEAN
    BY <1>1 DEF WalksInv, ListingsTypeOK
  <2>2. steady' \in [Walker -> SUBSET Item] /\ astray' \in [Walker -> BOOLEAN]
    BY <2>1 DEF Becomes
  <2> QED BY <1>1, <2>2 DEF WalksInv, ListingsTypeOK
<1>3. ASSUME NEW w \in Walker PROVE Walked(w)'
  <2> DEFINE x == walk[w]
             q == x.query
  <2>1. Walked(w) /\ q \in Query /\ table \in [Bucket -> [Key -> Versions]]
    BY DEF WalksInv, ListingsTypeOK, Walk
  <2>2. /\ steady'[w] \subseteq steady[w] /\ steady'[w] \subseteq Items(q, t, u, p)
        /\ \A item \in steady'[w] : Stays(q, t, item)
        /\ ~astray'[w] => ~astray[w] /\ (x.at # "ended" /\ x.marker # None => Stays(q, t, <<x.cursor, x.marker>>))
    BY <1>1
  <2>3. walk'[w] = x /\ listed'[w] = listed[w] /\ repeated'[w] = repeated[w]
    BY <1>1
  <2>4. steady'[w] \subseteq Items(walk'[w].query, table', uploads', parts')
    BY <1>1, <2>2, <2>3
  <2>5. q.kind \in ObjectKinds => ObjectWalk(walk'[w], listed'[w], repeated'[w], steady'[w])
    <3>1. q.kind \in ObjectKinds => ObjectWalk(x, listed[w], repeated[w], steady[w])
      BY <2>1 DEF Walked
    <3> QED BY <2>2, <2>3, <3>1 DEF ObjectWalk
  <2>6. q.kind = "parts" => PartWalk(walk'[w], listed'[w], repeated'[w], steady'[w])
    <3>1. q.kind = "parts" => PartWalk(x, listed[w], repeated[w], steady[w])
      BY <2>1 DEF Walked
    <3> QED BY <2>2, <2>3, <3>1 DEF PartWalk
  <2>7. q.kind \in {"versions", "uploads"} =>
          /\ VersionPlace(walk'[w])
          /\ ~astray'[w] => VersionWalk(walk'[w], listed'[w], repeated'[w], steady'[w], table')
    <3> SUFFICES ASSUME q.kind \in {"versions", "uploads"}
                 PROVE  /\ VersionPlace(x)
                        /\ ~astray'[w] => VersionWalk(x, listed[w], repeated[w], steady'[w], t)
      BY <1>1, <2>3
    <3>1. VersionPlace(x) /\ (~astray[w] => VersionWalk(x, listed[w], repeated[w], steady[w], table))
      BY <2>1 DEF Walked
    <3> HIDE DEF x
    <3> QED BY <2>1, <2>2, <3>1, VersionsStay
  <2> QED BY <2>3, <2>4, <2>5, <2>6, <2>7 DEF Walked
<1> QED BY <1>2, <1>3 DEF WalksInv

\* A client that nothing touches stands where it stood.
LEMMA OthersStand ==
  ASSUME NEW v \in Walker, Walked(v), UNCHANGED tables, walk'[v] = walk[v], listed'[v] = listed[v],
         repeated'[v] = repeated[v], steady'[v] = steady[v], astray'[v] = astray[v]
  PROVE  Walked(v)'
BY DEF Walked, tables

\* The step of one client keeps the place of all.
LEMMA WalkStepKeeps ==
  ASSUME WalksInv, NEW w \in Walker, WalkStep(w)
  PROVE  WalksInv'
<1>1. ListingsTypeOK /\ Walked(w)
  BY DEF WalksInv
<1>2. Alone(w)
  BY <1>1, ListObjectsKeeps, PeekKeeps, NextPageKeeps, ListWindowKeeps, ListPartsKeeps DEF WalkStep
<1>3. ListingsTypeOK'
  BY <1>1, <1>2 DEF Alone, ListingsTypeOK, tables
<1>4. ASSUME NEW v \in Walker \ {w} PROVE Walked(v)'
  <2>1. Walked(v)
    BY DEF WalksInv
  <2>2. /\ UNCHANGED tables /\ steady'[v] = steady[v] /\ walk'[v] = walk[v] /\ listed'[v] = listed[v]
        /\ repeated'[v] = repeated[v] /\ astray'[v] = astray[v]
    BY <1>2 DEF Alone
  <2> QED BY <2>1, <2>2, OthersStand
<1>5. Walked(w)'
  BY <1>2 DEF Alone
<1> QED BY <1>3, <1>4, <1>5 DEF WalksInv

\* Whatever leaves the listings alone.
LEMMA RestKeeps ==
  ASSUME WalksInv, UNCHANGED listingVars
  PROVE  WalksInv'
<1>1. ListingsTypeOK'
  BY DEF WalksInv, ListingsTypeOK, listingVars, tables, walks
<1>2. ASSUME NEW v \in Walker PROVE Walked(v)'
  <2>1. Walked(v) /\ UNCHANGED <<tables, walk, listed, repeated, steady, astray>>
    BY DEF WalksInv, listingVars, walks
  <2> QED BY <2>1, OthersStand
<1> QED BY <1>1, <1>2 DEF WalksInv

\* What is listed is a key, a key's version or upload, a part or a folder.
LEMMA ItemsAreItems ==
  ASSUME NEW q \in Query, NEW t \in [Bucket -> [Key -> Versions]], NEW u \in SUBSET (Key \X Upload),
         NEW p \in SUBSET Part
  PROVE  Items(q, t, u, p) \in SUBSET Item
<1> SUFFICES ASSUME NEW item \in Items(q, t, u, p) PROVE item \in Item
  OBVIOUS
<1>1. CASE q.kind \in ObjectKinds
  <2>1. PICK k \in Under[q.prefix] : item = ItemOf(q, k, 0)
    BY <1>1, WhatItemsAre
  <2>2. CASE Leaf(q, k)
    <3>1. item = <<k, 0>> /\ k \in Name
      BY <2>1, <2>2, ItemsAreKeysOrFolders, KeysAreNumbers
    <3> QED BY <3>1 DEF Item
  <2>3. CASE ~Leaf(q, k)
    <3>1. item = <<Folder(q, k), None>> /\ AFolder(q, Folder(q, k))
      BY <2>1, <2>3, ItemsAreKeysOrFolders
    <3>2. Folder(q, k) \in Name
      <4>1. \A f : AFolder(q, f) => f \in Name
        BY FoldersHaveKeys
      <4> QED BY <3>1, <4>1
    <3> QED BY <3>1, <3>2 DEF Item
  <2> QED BY <2>2, <2>3
<1>2. CASE q.kind = "parts"
  <2>1. PICK n \in p : item = <<n, 0>>
    BY <1>2, WhatItemsAre
  <2> QED BY <2>1 DEF Item
<1>3. CASE q.kind \in {"versions", "uploads"}
  <2>1. PICK r \in Rows(q, t, u) : item = ItemOf(q, r[1], IdOf(q, t, r))
    BY <1>3, WhatItemsAre
  <2> QED BY <1>3, <2>1, RowsGiveItems
<1> QED BY <1>1, <1>2, <1>3, KeysAreNumbers DEF Kind

\* A client that begins has been given nothing, and all there is to list lies ahead.
LEMMA WalksBegin ==
  ASSUME table \in [Bucket -> [Key -> Versions]], uploads \in SUBSET (Key \X Upload), parts \in SUBSET Part,
         NEW queries \in [Walker -> Query], NEW walkers, WalkInit(queries, walkers)
  PROVE  WalksInv
<1> DEFINE all(w) == Items(queries[w], table, uploads, parts)
<1>1. \A w \in Walker : all(w) \in SUBSET Item
  BY ItemsAreItems
<1>2. ASSUME NEW w \in Walker
      PROVE  /\ queries[w] \in Query /\ walk[w] \in Walk
             /\ walk[w].at = (IF w \in walkers THEN "fetch" ELSE "ended") /\ walk[w].query = queries[w]
             /\ walk[w].cursor = queries[w].after /\ walk[w].exclude = None /\ walk[w].marker = None
             /\ walk[w].leaf = None /\ walk[w].onFolder = FALSE /\ walk[w].count = 0
             /\ listed[w] = {} /\ repeated[w] = {} /\ astray[w] = FALSE
             /\ steady[w] = (IF w \in walkers THEN all(w) ELSE {})
             /\ queries[w].after \in Name \cup {None} /\ queries[w].limit \in Nat \ {0}
  <2>1. queries[w] \in Query /\ queries[w].after \in Name \cup {None} /\ queries[w].limit \in Nat \ {0}
    BY KeysAreNumbers
  <2>2. walk[w] = [at |-> IF w \in walkers THEN "fetch" ELSE "ended", query |-> queries[w],
          cursor |-> queries[w].after, exclude |-> None, marker |-> None, leaf |-> None,
          onFolder |-> FALSE, count |-> 0]
    BY DEF WalkInit
  <2>3. walk[w] \in Walk
    BY <2>1, <2>2 DEF Walk
  <2>4. /\ listed[w] = {} /\ repeated[w] = {} /\ astray[w] = FALSE
        /\ steady[w] = (IF w \in walkers THEN all(w) ELSE {})
    BY DEF WalkInit
  <2> QED BY <2>1, <2>2, <2>3, <2>4
<1>3. ListingsTypeOK
  <2>1. walk \in [Walker -> Walk] /\ listed \in [Walker -> SUBSET Item] /\ repeated \in [Walker -> SUBSET Item]
        /\ astray \in [Walker -> BOOLEAN]
    BY <1>2 DEF WalkInit
  <2>2. steady \in [Walker -> SUBSET Item]
    BY <1>1 DEF WalkInit
  <2> QED BY <2>1, <2>2 DEF ListingsTypeOK
<1>4. ASSUME NEW w \in Walker PROVE Walked(w)
  <2> DEFINE x == walk[w]
             q == x.query
  <2>1. /\ q \in Query /\ x.at \in {"fetch", "ended"} /\ x.cursor = q.after /\ x.exclude = None /\ x.marker = None
        /\ x.leaf = None /\ ~x.onFolder /\ x.count = 0 /\ listed[w] = {} /\ repeated[w] = {}
        /\ q.after \in Name \cup {None} /\ q.limit \in Nat \ {0}
    BY <1>2
  <2>2. steady[w] \subseteq Items(q, table, uploads, parts) /\ (x.at = "ended" => steady[w] = {})
    BY <1>2
  <2>3. q.after # None => q.after \in Nat
    BY <2>1, KeysAreNumbers
  <2>4. \A item \in steady[w] : q.after = None \/ item[1] > q.after
    BY <2>1, <2>2, WhatItemsAre
  <2> HIDE DEF x
  <2>5. q.kind \in ObjectKinds => ObjectWalk(x, listed[w], repeated[w], steady[w])
    <3>1. Stands(x) /\ Untouched(x) /\ Passes(x)
      BY <2>1 DEF Stands, Untouched, Passes
    <3>2. ASSUME NEW k \in Under[q.prefix], ItemOf(q, k, 0) \in steady[w] PROVE Ahead(x, k)
      <4>1. k \in Nat
        BY <2>1, KeysAreNumbers
      <4>2. q.after = None \/ ItemOf(q, k, 0)[1] > q.after
        BY <2>4, <3>2
      <4>3. CASE Leaf(q, k)
        <5>1. ItemOf(q, k, 0)[1] = k
          BY <4>3, ItemsAreKeysOrFolders, <2>1
        <5> QED BY <2>1, <4>2, <5>1 DEF Ahead
      <4>4. CASE ~Leaf(q, k)
        <5>1. ItemOf(q, k, 0)[1] = Folder(q, k) /\ Folder(q, k) # None
          BY <4>4, ItemsAreKeysOrFolders, <2>1 DEF AFolder
        <5>2. Folder(q, k) =< k /\ Folder(q, k) \in Nat
          BY <2>1, <5>1, FolderHoldsItsKeys, KeysAreNumbers
        <5> QED BY <2>1, <2>3, <4>1, <4>2, <5>1, <5>2 DEF Ahead
      <4> QED BY <4>3, <4>4
    <3> QED BY <2>1, <2>2, <3>1, <3>2 DEF ObjectWalk
  <2>6. q.kind = "parts" => PartWalk(x, listed[w], repeated[w], steady[w])
    BY <2>1, <2>2, <2>4 DEF PartWalk
  <2>7. q.kind \in {"versions", "uploads"} =>
          VersionPlace(x) /\ VersionWalk(x, listed[w], repeated[w], steady[w], table)
    <3>1. VersionPlace(x)
      BY <2>1 DEF VersionPlace
    <3>2. ASSUME q.kind \in {"versions", "uploads"}, NEW k \in Under[q.prefix], NEW id \in Nat,
                 ItemOf(q, k, id) \in steady[w]
          PROVE  Beyond(x, table, k, id)
      <4>1. k \in Nat
        BY <2>1, KeysAreNumbers
      <4>2. q.after = None \/ ItemOf(q, k, id)[1] > q.after
        BY <2>4, <3>2
      <4>3. CASE Leaf(q, k)
        <5>1. ItemOf(q, k, id)[1] = k
          BY <4>3, ItemsAreKeysOrFolders, <2>1
        <5> QED BY <2>1, <4>2, <5>1 DEF Beyond
      <4>4. CASE ~Leaf(q, k)
        <5>1. ItemOf(q, k, id)[1] = Folder(q, k) /\ Folder(q, k) # None
          BY <4>4, ItemsAreKeysOrFolders, <2>1 DEF AFolder
        <5>2. Folder(q, k) =< k /\ Folder(q, k) \in Nat
          BY <2>1, <5>1, FolderHoldsItsKeys, KeysAreNumbers
        <5> QED BY <2>1, <2>3, <4>1, <4>2, <5>1, <5>2 DEF Beyond
      <4> QED BY <4>3, <4>4
    <3> QED BY <2>1, <2>2, <3>1, <3>2 DEF VersionWalk
  <2> QED BY <2>2, <2>5, <2>6, <2>7 DEF Walked, x
<1> QED BY <1>3, <1>4 DEF WalksInv

-----------------------------------------------------------------------------
(* What a client is told. *)

\* Where the clients stand says what they have been given.
LEMMA WalksTell ==
  ASSUME WalksInv
  PROVE  ObjectWalksAreComplete /\ VersionWalksAreComplete
<1>1. ASSUME NEW w \in Walker, walk[w].query.kind \in ObjectKinds \cup {"parts"}
      PROVE  /\ walk[w].at = "ended" => steady[w] \subseteq listed[w]
             /\ \A item \in steady[w] \cap repeated[w] : walk[w].query.kind = "marked" /\ item[2] = None
             /\ walk[w].at = "stuck" => walk[w].query.limit = 1 /\ walk[w].onFolder
  <2>1. CASE walk[w].query.kind \in ObjectKinds
    <3>1. ObjectWalk(walk[w], listed[w], repeated[w], steady[w])
      BY <2>1 DEF WalksInv, Walked
    <3> QED BY <2>1, <3>1 DEF ObjectWalk, Stands, ObjectKinds
  <2>2. CASE walk[w].query.kind = "parts"
    <3>1. PartWalk(walk[w], listed[w], repeated[w], steady[w])
      BY <2>2 DEF WalksInv, Walked
    <3> QED BY <3>1 DEF PartWalk
  <2> QED BY <1>1, <2>1, <2>2
<1>2. ASSUME NEW w \in Walker, walk[w].query.kind \in {"versions", "uploads"}, ~astray[w]
      PROVE  /\ walk[w].at = "ended" => steady[w] \subseteq listed[w]
             /\ \A item \in steady[w] \cap repeated[w] : item[2] = None
  <2>1. VersionWalk(walk[w], listed[w], repeated[w], steady[w], table)
    BY <1>2 DEF WalksInv, Walked
  <2> QED BY <2>1 DEF VersionWalk
<1> QED BY <1>1, <1>2 DEF ObjectWalksAreComplete, VersionWalksAreComplete

\* Every client always stands where the invariant says, whatever the others write.
THEOREM InvariantOfWalks == ListingsSpec => []WalksInv
<1>1. ListingsInit => WalksInv
  <2> SUFFICES ASSUME ListingsInit PROVE WalksInv
    OBVIOUS
  <2>1. PICK queries \in [Walker -> Queries] : WalkInit(queries, Walker)
    BY DEF ListingsInit
  <2>2. queries \in [Walker -> Query]
    BY QueriesAssumption
  <2> QED BY <2>1, <2>2, WalksBegin DEF ListingsInit
<1>2. WalksInv /\ [Change \/ \E w \in Walker : WalkStep(w)]_listingVars => WalksInv'
  <2> SUFFICES ASSUME WalksInv, [Change \/ \E w \in Walker : WalkStep(w)]_listingVars PROVE WalksInv'
    OBVIOUS
  <2>1. CASE Change
    BY <2>1, BecomesKeeps DEF Change
  <2>2. CASE \E w \in Walker : WalkStep(w)
    BY <2>2, WalkStepKeeps
  <2>3. CASE UNCHANGED listingVars
    BY <2>3, RestKeeps
  <2> QED BY <2>1, <2>2, <2>3
<1> QED BY <1>1, <1>2, PTL DEF ListingsSpec

\* Clients, pages and tables keep their types.
THEOREM ListingsTypes == ListingsSpec => []ListingsTypeOK
<1>1. WalksInv => ListingsTypeOK
  BY DEF WalksInv
<1> QED BY <1>1, InvariantOfWalks, PTL

\* ObjectsService.list, listParts, listObjectsV1: a client that comes to the end has been
\* given everything that was there all the time, and nothing twice but a folder that
\* its marker names.
THEOREM ObjectPagesAreComplete == ListingsSpec => []ObjectWalksAreComplete
<1>1. WalksInv => ObjectWalksAreComplete
  BY WalksTell
<1> QED BY <1>1, InvariantOfWalks, PTL

\* ObjectsService.listAllVersions, listMultipartUploads: so has a client that was not led
\* astray, though it may have met a folder twice.
THEOREM VersionPagesAreComplete == ListingsSpec => []VersionWalksAreComplete
<1>1. WalksInv => VersionWalksAreComplete
  BY WalksTell
<1> QED BY <1>1, InvariantOfWalks, PTL

=============================================================================
