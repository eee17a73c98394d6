------------------------------ MODULE Listings ------------------------------
(***************************************************************************)
(* The listings of ObjectsService, and the client that walks through  *)
(* their pages while the tables change under it.                           *)
(*                                                                         *)
(* A name is a string, a key or the prefix of some: names are numbered in  *)
(* their byte order, which is the order the queries force ("C" collation). *)
(* Under and CommonPrefix say what the strings look like.                  *)
(***************************************************************************)
EXTENDS Naturals, FiniteSets, Sequences

CONSTANTS
    Bucket, Name, Key,
    Under,          \* Under[p]: the keys that start with p
    CommonPrefix,   \* CommonPrefix[p][k]: the folder that k is in below p, if any
    Payload, Upload, Part,
    Walker,
    Queries,        \* what a client may ask for
    None

\* Objects are listed by ListObjectsV2 and the API, which resume at a token, and by
\* ListObjects, which resumes after a key, its marker.
ObjectKinds == {"objects", "marked"}
Kind == ObjectKinds \cup {"versions", "uploads", "parts"}
Query == [kind : Kind, bucket : Bucket, prefix : Name, delimited : BOOLEAN,
          limit : Nat \ {0}, after : Name \cup {None}]

ASSUME NamesAssumption ==
    /\ Name \subseteq Nat /\ Key \subseteq Name /\ IsFiniteSet(Key) /\ None \notin Nat
    /\ Under \in [Name -> SUBSET Key]
    /\ \A p \in Name : \A k \in Under[p] : p =< k
    /\ \A p \in Name : \A i, j \in Under[p], k \in Key : i =< k /\ k =< j => k \in Under[p]
    /\ CommonPrefix \in [Name -> [Key -> Name \cup {None}]]
    /\ \A p \in Name : \A k \in Under[p] : CommonPrefix[p][k] # None =>
         /\ k \in Under[CommonPrefix[p][k]]
         /\ \A i \in Under[p] : /\ i \in Under[CommonPrefix[p][k]] => CommonPrefix[p][i] = CommonPrefix[p][k]
                                /\ CommonPrefix[p][k] =< i /\ i =< k => i \in Under[CommonPrefix[p][k]]
\* Parts are numbered by the client, uploads in the order of their initiation.
ASSUME PartsAssumption ==
    Part \subseteq Nat /\ IsFiniteSet(Part) /\ Upload \subseteq Nat /\ IsFiniteSet(Upload)
ASSUME QueriesAssumption == Queries \subseteq Query

VARIABLES
    table,      \* the versions of every key, newest first; the first one is the latest
    uploads,    \* the uploads in progress
    parts,      \* the parts of the upload whose parts are listed
    walk,       \* how far each client has come
    listed,     \* history: the items a client was given, those it was given twice,
    repeated,   \*   those that were there all the time it walked,
    steady,     \*   and whether its markers led it nowhere
    astray

tables == <<table, uploads, parts>>
walks == <<walk, listed, repeated, steady, astray>>
listingVars == <<tables, walks>>

\* A version without a payload is a delete marker.
Version == [id : Nat, payload : Payload \cup {None}]
\* The versions of a key differ in their ids.
Versions == {s \in Seq(Version) : \A i, j \in DOMAIN s : s[i].id = s[j].id => i = j}
\* What is listed: a key, a key's version or upload, a part; or a folder.
Item == (Name \cup Part) \X (Nat \cup Upload \cup {None})
Walk == [at : {"fetch", "peek", "between", "ended", "stuck"}, query : Query,
         cursor : Name \cup Part \cup {None}, exclude : Name \cup {None},
         marker : Nat \cup Upload \cup {None}, leaf : Name \cup {None}, onFolder : BOOLEAN, count : Nat]

ListingsTypeOK ==
    /\ table \in [Bucket -> [Key -> Versions]]
    /\ uploads \subseteq Key \X Upload /\ parts \subseteq Part
    /\ walk \in [Walker -> Walk]
    /\ listed \in [Walker -> SUBSET Item] /\ repeated \in [Walker -> SUBSET Item]
    /\ steady \in [Walker -> SUBSET Item] /\ astray \in [Walker -> BOOLEAN]

-----------------------------------------------------------------------------
(* What there is to list. *)

Visible(t, b, k) == t[b][k] # <<>> /\ Head(t[b][k]).payload # None

\* commonPrefixOf, when there is a delimiter.
Folder(q, k) == IF q.delimited THEN CommonPrefix[q.prefix][k] ELSE None
ItemOf(q, k, id) ==
    IF Folder(q, k) # None THEN <<Folder(q, k), None>> ELSE <<k, id>>

\* The rows of a query, in the order of the key and then of the second column.
Rows(q, t, u) ==
    IF q.kind = "versions"
    THEN UNION {{k} \X DOMAIN t[q.bucket][k] : k \in Under[q.prefix]}
    ELSE {r \in u : r[1] \in Under[q.prefix]}
IdOf(q, t, r) == IF q.kind = "versions" THEN t[q.bucket][r[1]][r[2]].id ELSE r[2]

Items(q, t, u, p) ==
    LET all == IF q.kind \in ObjectKinds
                 THEN {<<k, ItemOf(q, k, 0)>> : k \in {x \in Under[q.prefix] : Visible(t, q.bucket, x)}}
               ELSE IF q.kind = "parts" THEN {<<n, <<n, 0>> >> : n \in p}
               ELSE {<<r[1], ItemOf(q, r[1], IdOf(q, t, r))>> : r \in Rows(q, t, u)}
    IN {x[2] : x \in {y \in all : q.after = None \/ y[2][1] > q.after}}

\* Whether a version of a key is still where it was: none is older now that was
\* not older before.  The null version that is written again is the newest.
Older(versions, id) == {versions[j].id : j \in {n \in DOMAIN versions : \E i \in 1 .. n - 1 : versions[i].id = id}}
Kept(versions, was, id) ==
    /\ \E i \in DOMAIN versions : versions[i].id = id
    /\ Older(versions, id) \subseteq Older(was, id)

\* Every statement that changes a table: what is no longer there, or is there anew,
\* was not there all the time, and a marker that names it leads nowhere.
Stays(q, t, item) ==
    q.kind = "versions" /\ item[2] # None => Kept(t[q.bucket][item[1]], table[q.bucket][item[1]], item[2])
Becomes(t, u, p) ==
    /\ table' = t /\ uploads' = u /\ parts' = p
    /\ steady' = [w \in Walker |->
         {item \in steady[w] \cap Items(walk[w].query, t, u, p) : Stays(walk[w].query, t, item)}]
    /\ astray' = [w \in Walker |-> astray[w] \/
         (walk[w].at # "ended" /\ walk[w].marker # None /\ ~Stays(walk[w].query, t, <<walk[w].cursor, walk[w].marker>>))]
    /\ UNCHANGED <<walk, listed, repeated>>

-----------------------------------------------------------------------------
(* The pages. *)

Give(w, items) ==
    /\ listed' = [listed EXCEPT ![w] = @ \cup items]
    /\ repeated' = [repeated EXCEPT ![w] = @ \cup (items \cap listed[w])]

\* Mutant: after a folder the listing goes on from its last key it has seen.
LatestInFolders(w) ==
    LET x == walk[w] IN
    {k \in Under[x.query.prefix] :
        /\ Visible(table, x.query.bucket, k)
        /\ x.cursor = None \/ k > x.cursor}

\* fetchLatestVersions, without its limit
Latest(w) ==
    LET x == walk[w] IN
    {k \in Under[x.query.prefix] :
        /\ Visible(table, x.query.bucket, k)
        /\ x.cursor = None \/ k > x.cursor
        /\ x.exclude = None \/ k \notin Under[x.exclude]}

\* ORDER BY ... LIMIT n
First(S, n) == {x \in S : Cardinality({y \in S : y < x}) < n}
Greatest(S) == CHOOSE x \in S : \A y \in S : y =< x

\* list: the batch up to its first key in a folder, which stands for all of
\* them; or the batch, when none of its keys is in a folder.
ListObjects(w) ==
    LET x == walk[w]
        room == x.query.limit - x.count
        batch == First(Latest(w), room)
        inFolder == {k \in batch : Folder(x.query, k) # None}
        leaves == {k \in batch : \A i \in inFolder : k < i}
        folder == Folder(x.query, CHOOSE k \in inFolder : \A i \in inFolder : k =< i)
        count == x.count + Cardinality(leaves) + 1 IN
    /\ x.at = "fetch" /\ x.query.kind \in ObjectKinds
    /\ \/ /\ inFolder = {}
          /\ Give(w, {<<k, 0>> : k \in leaves})
          /\ walk' = [walk EXCEPT ![w] =
               [x EXCEPT !.cursor = IF leaves = {} THEN @ ELSE Greatest(leaves),
                         !.leaf = IF leaves = {} THEN @ ELSE Greatest(leaves),
                         !.onFolder = IF leaves = {} THEN @ ELSE FALSE,
                         !.count = @ + Cardinality(leaves),
                         !.at = IF Cardinality(leaves) < room THEN "ended" ELSE "peek"]]
       \/ /\ inFolder # {}
          /\ Give(w, {<<k, 0>> : k \in leaves} \cup {<<folder, None>>})
          /\ walk' = [walk EXCEPT ![w] =
               [x EXCEPT !.cursor = folder, !.exclude = folder, !.onFolder = TRUE,
                         !.leaf = IF leaves = {} THEN @ ELSE Greatest(leaves),
                         !.count = count,
                         !.at = IF count < x.query.limit THEN "fetch" ELSE "peek"]]
    /\ UNCHANGED <<tables, steady, astray>>

\* list: isTruncated
Peek(w) ==
    /\ walk[w].at = "peek"
    /\ walk' = [walk EXCEPT ![w].at = IF Latest(w) = {} THEN "ended" ELSE "between"]
    /\ UNCHANGED <<tables, listed, repeated, steady, astray>>

\* Mutant: the token does not say that the page ended on a folder.
NextTokenForgetful(x) == [x EXCEPT !.exclude = None]

\* encodeToken, decodeToken: a page that ended on a folder resumes after it.
NextToken(x) == [x EXCEPT !.exclude = IF x.onFolder THEN x.cursor ELSE None]

\* listObjectsV1: the marker is the last object of the page, or its last folder if
\* it has no object.  The keys that come after the folder's name are in the folder.
NextMarker(x) == [x EXCEPT !.marker = IF x.leaf # None THEN x.leaf ELSE x.cursor]

\* A client that is given the marker it has sent gives up.
NextPage(w) ==
    LET x == walk[w]
        resumed == [(IF x.query.kind = "marked" THEN NextMarker(x) ELSE NextToken(x)) EXCEPT
                       !.at = "fetch", !.count = 0, !.leaf = None, !.onFolder = FALSE] IN
    /\ x.at = "between"
    /\ walk' = [walk EXCEPT ![w] =
           IF x.query.kind # "marked" THEN resumed
           ELSE IF resumed.marker = x.marker THEN [x EXCEPT !.at = "stuck"]
           ELSE [resumed EXCEPT !.cursor = resumed.marker, !.exclude = None]]
    /\ UNCHANGED <<tables, listed, repeated, steady, astray>>

-----------------------------------------------------------------------------
(* listAllVersions and listMultipartUploads read one window of rows and    *)
(* collapse it afterwards.                                                 *)

Before(r, s) == r[1] < s[1] \/ (r[1] = s[1] /\ r[2] < s[2])

\* Mutant: the marked row is given again.
RestWithMarked(x, window) ==
    LET marked == {r \in window : r[1] = x.cursor /\ IdOf(x.query, table, r) = x.marker} IN
    IF x.marker # None THEN {r \in window : \E m \in marked : ~Before(r, m)} ELSE window

\* The rows of the window that are left once the markers are passed.
Rest(x, window) ==
    LET marked == {r \in window : r[1] = x.cursor /\ IdOf(x.query, table, r) = x.marker} IN
    IF x.marker # None THEN {r \in window : \E m \in marked : Before(m, r)}
    ELSE IF x.cursor # None /\ x.query.kind = "versions" THEN {r \in window : r[1] # x.cursor}
    ELSE window

\* What leads a client nowhere: the row its marker names has gone, or lies
\* beyond the window.
Misled(x, window) ==
    x.marker # None /\ ~\E r \in window : r[1] = x.cursor /\ IdOf(x.query, table, r) = x.marker

\* The rows up to the first one that would be one item too many.
PageOf(q, item) ==
    LET rest == DOMAIN item
        new == {r \in rest : \A s \in rest : Before(s, r) => item[s] # item[r]}
    IN {r \in rest : Cardinality({s \in new : ~Before(r, s)}) =< q.limit}

Turn(w, item, page) ==
    LET leaves == {r \in page : item[r][2] # None}
        last == {r \in leaves : \A s \in leaves : ~Before(r, s)} IN
    /\ Give(w, {item[r] : r \in page})
    /\ \/ /\ page # DOMAIN item /\ last # {}
          /\ \E r \in last : walk' = [walk EXCEPT ![w].at = "between", ![w].cursor = r[1], ![w].marker = item[r][2]]
       \/ /\ page = DOMAIN item \/ last = {}
          /\ walk' = [walk EXCEPT ![w].at = "ended"]

ListWindow(w) ==
    LET x == walk[w]
        size == 2 * x.query.limit + 1 IN
    /\ x.at = "fetch" /\ x.query.kind \in {"versions", "uploads"}
    /\ \E rows \in {{r \in Rows(x.query, table, uploads) : x.cursor = None \/ r[1] >= x.cursor}} :
       \E window \in {{r \in rows : Cardinality({s \in rows : Before(s, r)}) < size}} :
       \E item \in {[r \in Rest(x, window) |-> ItemOf(x.query, r[1], IdOf(x.query, table, r))]} :
       \E page \in {PageOf(x.query, item)} :
         /\ Turn(w, item, page)
         /\ astray' = [astray EXCEPT ![w] = @ \/ Misled(x, window)
              \/ (page = DOMAIN item /\ window # rows)
              \/ (page # DOMAIN item /\ \A r \in page : item[r][2] = None)]
    /\ UNCHANGED <<tables, steady>>

\* listParts
ListParts(w) ==
    LET x == walk[w]
        rows == {n \in parts : x.cursor = None \/ n > x.cursor}
        page == First(rows, x.query.limit) IN
    /\ x.at = "fetch" /\ x.query.kind = "parts"
    /\ Give(w, {<<n, 0>> : n \in page})
    /\ walk' = IF page = rows THEN [walk EXCEPT ![w].at = "ended"]
               ELSE [walk EXCEPT ![w].at = "between", ![w].cursor = Greatest(page)]
    /\ UNCHANGED <<tables, steady, astray>>

-----------------------------------------------------------------------------
\* A walker that does not walk has ended.
WalkInit(queries, walkers) ==
    /\ walk = [w \in Walker |->
         [at |-> IF w \in walkers THEN "fetch" ELSE "ended", query |-> queries[w],
          cursor |-> queries[w].after, exclude |-> None, marker |-> None, leaf |-> None,
          onFolder |-> FALSE, count |-> 0]]
    /\ listed = [w \in Walker |-> {}] /\ repeated = [w \in Walker |-> {}]
    /\ steady = [w \in Walker |-> IF w \in walkers THEN Items(queries[w], table, uploads, parts) ELSE {}]
    /\ astray = [w \in Walker |-> FALSE]

WalkStep(w) ==
    \/ ListObjects(w) \/ Peek(w)
    \/ NextPage(w)
    \/ ListWindow(w)
    \/ ListParts(w)

\* Whoever writes to the bucket meanwhile may do anything to the tables.
Change ==
    \E t \in [Bucket -> [Key -> Versions]], u \in SUBSET (Key \X Upload), p \in SUBSET Part :
        Becomes(t, u, p)

ListingsInit ==
    /\ table \in [Bucket -> [Key -> Versions]]
    /\ uploads \in SUBSET (Key \X Upload) /\ parts \in SUBSET Part
    /\ \E queries \in [Walker -> Queries] : WalkInit(queries, Walker)

ListingsSpec == ListingsInit /\ [][Change \/ \E w \in Walker : WalkStep(w)]_listingVars

-----------------------------------------------------------------------------
(* Properties. *)

\* ObjectsService.list, listParts: whatever is written between the pages, a
\* client that has reached the end was given every key, folder and part that
\* was there all the time, and no page gave it any of them again, except that
\* ListObjects repeats a folder that its marker does not lead past, and stays
\* there when it gives one item at a time.
ObjectWalksAreComplete ==
    \A w \in Walker : walk[w].query.kind \in ObjectKinds \cup {"parts"} =>
        /\ walk[w].at = "ended" => steady[w] \subseteq listed[w]
        /\ \A item \in steady[w] \cap repeated[w] : walk[w].query.kind = "marked" /\ item[2] = None
        /\ walk[w].at = "stuck" => walk[w].query.limit = 1 /\ walk[w].onFolder

\* ObjectsService.listAllVersions, listMultipartUploads: the same, but a window
\* that ends before its page, a marked row that is gone or was written again, and a
\* page of folders without a marker lead such a walk astray, and it may meet a
\* folder again.
VersionWalksAreComplete ==
    \A w \in Walker : walk[w].query.kind \in {"versions", "uploads"} /\ ~astray[w] =>
        /\ walk[w].at = "ended" => steady[w] \subseteq listed[w]
        /\ \A item \in steady[w] \cap repeated[w] : item[2] = None

\* ObjectsService: the pages come to an end, the tables at rest or not.
WalksEnd == \A w \in Walker : <>(walk[w].at \in {"ended", "stuck"})
=============================================================================
