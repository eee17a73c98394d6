---------------------------- MODULE MCWorkspace ----------------------------
(***************************************************************************)
(* Seven names, two calls and a client that lists, in the situations where *)
(* they meet.                                                              *)
(***************************************************************************)
EXTENDS Workspace, SequencesExt, TLC

\* In byte order: "/" comes before the letters.
Text == << <<>>, <<"a">>, <<"a", "/">>, <<"a", "/", "x">>, <<"a", "/", "y">>,
           <<"b">>, <<"b", "/">>, <<"b", "/", "x">>, <<"b", "/", "y">> >>
a == 2
aDir == 3
ax == 4
ay == 5
b == 6
bDir == 7
bx == 8
by == 9

MCName == 1 .. Len(Text)
MCKey == {a, aDir, ax, ay, bDir, bx, by}
Named(text) == CHOOSE n \in MCName \cup {None} : IF text \in Range(Text) THEN n # None /\ Text[n] = text ELSE n = None
Delimiters(n) == {i \in 1 .. Len(Text[n]) : Text[n][i] = "/"}
\* f @@ <<>> is f, worked out once.
MCUnder == [p \in MCName |-> {k \in MCKey : IsPrefix(Text[p], Text[k])}] @@ <<>>
MCCommonPrefix == [p \in MCName |-> [k \in MCKey |->
    LET cuts == {i \in Delimiters(k) : i > Len(Text[p])} IN
    IF k \in MCUnder[p] /\ cuts # {} THEN Named(SubSeq(Text[k], 1, Min(cuts))) ELSE None] @@ <<>>] @@ <<>>
MCFolders == {n \in MCName : Len(Text[n]) \in Delimiters(n)}
MCAsFolder == [n \in MCName |->
    IF n \in MCFolders THEN n ELSE Named(Append(Text[n], "/"))] @@ <<>>
MCRekey == [p \in MCName |-> [q \in MCName \cup {None} |-> [k \in MCKey |->
    IF q = None \/ k \notin MCUnder[p] THEN None
    ELSE Named(Text[q] \o SubSeq(Text[k], Len(Text[p]) + 1, Len(Text[k])))] @@ <<>>] @@ <<>>] @@ <<>>

-----------------------------------------------------------------------------
\* Payloads are numbers: those of the calls, nothing at all, the joined parts,
\* and those that were there before.
Old(k, id) == [id |-> id, payload |-> 10 * k + id]
Marker(id) == [id |-> id, payload |-> None]
NoBytes == 3
BothParts == 4
MCPayload == Call \cup {NoBytes, BothParts} \cup {10 * k + id : k \in MCKey, id \in 1 .. 3}
MCPart == {1, 2}
MCSize == [p \in MCPayload |-> CASE p = NoBytes -> 0 [] p = BothParts -> 2 [] OTHER -> 1] @@ <<>>
MCUpload == {1, 2, 3}

Bare(v) == [deleted |-> FALSE, versioning |-> v, quota |-> None, owner |-> "u"]
Empty == [k \in MCKey |-> <<>>]
\* One old version of each of these keys.
Holding(K) == [k \in MCKey |-> IF k \in K THEN <<Old(k, 1)>> ELSE <<>>]

Idle == [op |-> "setQuota", bucket |-> "B", key |-> a, into |-> "B", onto |-> a,
         payload |-> None, value |-> None, versioning |-> "enabled"]
Do(op, k) == [Idle EXCEPT !.op = op, !.key = k]
Put(c, k) == [Do("put", k) EXCEPT !.payload = c]
Onto(op, k, n) == [Do(op, k) EXCEPT !.onto = n]
Jobs(one, two) == <<one, two>>
MakeFolder == [Do("createFolder", aDir) EXCEPT !.payload = NoBytes]

Ask(kind, p, delimited, limit) ==
    [kind |-> kind, bucket |-> "B", prefix |-> p, delimited |-> delimited, limit |-> limit, after |-> None]
MCQueries == {}

Base == [buckets |-> [x \in Bucket |-> IF x = "B" THEN Bare("disabled") ELSE None],
         ownerQuota |-> [u \in User |-> None], table |-> [x \in Bucket |-> Empty], nextId |-> 4,
         uploads |-> {}, parts |-> {}, job |-> Jobs(Idle, Idle), failures |-> 0,
         queries |-> [w \in Walker |-> Ask("objects", 1, TRUE, 1)], walkers |-> {}]

\* A client walks while others write.
Walking(v, keys, q, j) ==
    [Base EXCEPT !.buckets["B"] = Bare(v), !.table["B"] = keys, !.job = j,
                 !.uploads = {<<ax, 1>>, <<ax, 2>>, <<bx, 3>>}, !.parts = {1, 2},
                 !.queries = [w \in Walker |-> q], !.walkers = Walker, !.failures = MaxFailures]
WalkStarts ==
    {Walking("disabled", Holding({a, ax, ay, bx}), Ask("objects", p, d, n), j) :
        p \in {1, aDir}, d \in BOOLEAN, n \in {1, 2},
        j \in {Jobs(Put(1, aDir), Do("delete", ay)), Jobs(Do("delete", ax), Do("deletePrefix", bDir))}}
    \cup
    {Walking("disabled", Holding({a, ax, ay, bx, by}), Ask("marked", 1, TRUE, n), Jobs(Do("delete", k), Do("delete", bx))) :
        n \in {1, 2}, k \in {a, ay}}
    \cup
    {Walking("enabled", [Holding({a, bx}) EXCEPT ![ax] = <<Old(ax, 3), Marker(2), Old(ax, 1)>>],
             Ask("versions", 1, d, n), j) :
        d \in BOOLEAN, n \in {1, 2},
        j \in {Jobs(Put(1, ax), [Do("deleteVersion", ax) EXCEPT !.value = 2]),
               Jobs(Do("delete", a), [Do("deleteVersion", bx) EXCEPT !.value = 1])}}
    \cup
    {Walking("suspended", [Holding({a, bx}) EXCEPT ![ax] = <<Old(ax, 3), Old(ax, 2), Old(ax, 1)>>],
             Ask("versions", 1, FALSE, n), Jobs(Put(1, ax), [Do("deleteVersion", ax) EXCEPT !.value = 3])) :
        n \in {1, 2}}
    \cup
    {Walking("disabled", Empty, Ask(kind, 1, d, n), Jobs(Do("abort", ax), [Do("uploadPart", ax) EXCEPT !.value = 1])) :
        kind \in {"uploads", "parts"}, d \in BOOLEAN, n \in {1, 2}}

\* Folders are moved, copied and deleted while others write into them.
Folding(v, j) ==
    [Base EXCEPT !.buckets["B"] = Bare(v), !.table["B"] = Holding({ax, ay, by}), !.job = j]
FolderJobs == {Onto("move", aDir, b), Onto("copy", aDir, bDir), Do("deletePrefix", aDir), Onto("move", ax, bx),
               Onto("move", aDir, aDir), Onto("move", ax, ax), Onto("move", aDir, ax), Do("deletePrefix", b)}
FolderStarts ==
    {Folding(v, Jobs(one, two)) : v \in {"disabled", "enabled"}, one \in FolderJobs,
        two \in {Put(2, ax), Put(2, by), Do("delete", ay)}}
    \cup {Folding("suspended", Jobs(one, Do("delete", ay))) : one \in FolderJobs}
    \cup {[Folding(v, Jobs(Onto("move", aDir, b), two)) EXCEPT !.table["B"][ax] = versions] :
              v \in {"disabled", "suspended"}, versions \in {<<Old(ax, 3), Marker(2), Old(ax, 1)>>, <<Marker(2), Old(ax, 1)>>},
              two \in {Put(2, ax), [Do("setVersioning", a) EXCEPT !.versioning = "disabled"]}}
    \cup {[Folding(v, Jobs(Onto("deleteObjects", ax, k), two)) EXCEPT !.failures = MaxFailures - 1] :
              v \in {"disabled", "suspended"}, k \in {ay, bx}, two \in {Put(2, ax), Onto("move", aDir, b)}}

\* Room for one more payload, in the bucket or among its owner's.
Tight == [Base EXCEPT !.table["B"] = Holding({ax}), !.uploads = {<<bx, 1>>}, !.parts = {1, 2}]
QuotaStarts ==
    {[Tight EXCEPT !.buckets["B"].quota = bq, !.ownerQuota = [u \in User |-> oq], !.job = Jobs(Put(1, ay), two)] :
        bq \in {None, 4}, oq \in {None, 4},
        two \in {Put(2, by), Do("complete", bx), Onto("copy", ax, by),
                 [Do("setQuota", a) EXCEPT !.value = 3], [Do("setOwnerQuota", a) EXCEPT !.value = 3],
                 Do("setVersioning", a)}}
    \cup
    {[Tight EXCEPT !.buckets["B"].quota = 4, !.parts = {1}, !.failures = MaxFailures,
                   !.job = Jobs([Do("uploadPart", bx) EXCEPT !.value = 2], two)] :
        two \in {Put(2, ay), Do("complete", bx)}}

\* A bucket goes, or comes, while others write to it.
BucketStarts ==
    {[Base EXCEPT !.buckets["B"] = Bare("enabled"), !.table["B"] = t, !.job = Jobs(Do("deleteBucket", a), two)] :
        t \in {Empty, [Empty EXCEPT ![ax] = <<Marker(1)>>]},
        two \in {Put(2, ay), MakeFolder, Do("setVersioning", a), [Do("deleteVersion", ax) EXCEPT !.value = 1]}}
    \cup
    {[Base EXCEPT !.job = Jobs([Do("createBucket", a) EXCEPT !.bucket = "C"], two)] :
        two \in {[Put(2, ay) EXCEPT !.bucket = "C"], [Do("createBucket", a) EXCEPT !.bucket = "C"],
                 [Onto("copy", ax, ax) EXCEPT !.into = "C"]}}

MCStarts == WalkStarts \cup FolderStarts \cup QuotaStarts \cup BucketStarts
\* A folder is moved onto its own name.
MoveStarts == {[Folding("disabled", Jobs(Onto("move", aDir, a), Idle)) EXCEPT !.failures = MaxFailures]}
=============================================================================
