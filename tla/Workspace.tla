------------------------------ MODULE Workspace ------------------------------
(***************************************************************************)
(* What happens in and to buckets: writes and their quotas, copies and     *)
(* moves of keys and of whole folders, deletions of keys, folders and      *)
(* buckets, settings, and the listings that walk through it all.  A call   *)
(* stops wherever the code awaits a statement; a transaction and the       *)
(* payloads behind it are one step here, ObjectStore takes them apart.     *)
(***************************************************************************)
EXTENDS Listings, FiniteSetsExt

CONSTANTS
    User, Call,
    Folders,        \* the names that end in the delimiter
    AsFolder,       \* AsFolder[n]: n with a delimiter at its end
    Rekey,          \* Rekey[p][q][k]: k with q in the place of its prefix p
    Size,           \* the bytes of each payload and of each part
    Joined,         \* the payload that an upload's parts make up
    TheUpload, UploadBucket,    \* the upload that calls work on
    Starts,         \* the situations a run starts from
    MaxFailures     \* bound: statements that fail

NullId == 1
Writes == {"put", "createFolder", "copy", "move"}
Uploads == {"uploadPart", "complete", "abort"}
Settings == {"setVersioning", "setQuota", "setOwnerQuota"}
Ops == Writes \cup Uploads \cup Settings \cup
    {"delete", "deleteVersion", "deletePrefix", "deleteObjects", "createBucket", "deleteBucket"}
Versioning == {"disabled", "enabled", "suspended"}
Quota == Nat \cup {None}
BucketRow == [deleted : BOOLEAN, versioning : Versioning, quota : Quota, owner : User]

\* What a call is asked to do; each operation reads the fields it needs.
Job == [op : Ops, bucket : Bucket, key : Name, into : Bucket, onto : Name,
        payload : Payload \cup {None}, value : Nat \cup {None}, versioning : Versioning]

VARIABLES
    buckets,    \* the table, None for a name never used
    ownerQuota,
    nextId,     \* the next random version id
    job, call,  \* what each call is to do, and how far it has come
    \* History: keys that a folder's call need not account for, because others
    \* wrote them since it read them or their deletion was reported to have
    \* failed; keys written since their bucket was found empty; payloads of latest
    \* versions that a move left nowhere, and whether others had a hand in it.
    excused, late, lost,
    failures

callVars == <<job, call>>
history == <<excused, late, lost>>
settings == <<buckets, ownerQuota>>
vars == <<listingVars, settings, nextId, callVars, history, failures>>

Ended == {"done", "refused", "failed"}
Label == Ended \cup {"start", "exists", "keys", "next", "bucket", "bucketParts", "owner",
    "ownerParts", "commit", "delete", "parts", "retire", "dropParts", "count", "drop"}
CallState == [at : Label, ctx : BucketRow \cup {None}, source : BucketRow \cup {None},
              key : Name, payload : Payload \cup {None}, written : BOOLEAN,
              quota : Quota, bucketSum : Nat, ownerSum : Nat,
              keys : SUBSET Key, doomed : SUBSET Key]

TypeOK ==
    /\ ListingsTypeOK
    /\ buckets \in [Bucket -> BucketRow \cup {None}] /\ ownerQuota \in [User -> Quota]
    /\ nextId \in Nat
    /\ job \in [Call -> Job] /\ call \in [Call -> CallState]
    /\ excused \in [Call -> SUBSET Key] /\ late \subseteq Bucket \X Key
    /\ lost \subseteq Payload \X BOOLEAN
    /\ failures \in 0 .. MaxFailures

Init ==
    /\ \E start \in Starts :
         /\ buckets = start.buckets /\ ownerQuota = start.ownerQuota
         /\ table = start.table /\ nextId = start.nextId /\ uploads = start.uploads /\ parts = start.parts
         /\ job = start.job /\ failures = start.failures
         /\ WalkInit(start.queries, start.walkers)
    /\ call = [c \in Call |->
         [at |-> "start", ctx |-> None, source |-> None, key |-> job[c].key,
          payload |-> job[c].payload, written |-> FALSE, quota |-> None,
          bucketSum |-> 0, ownerSum |-> 0, keys |-> {}, doomed |-> {}]]
    /\ excused = [c \in Call |-> {}] /\ late = {} /\ lost = {}

Goto(c, label) == call' = [call EXCEPT ![c].at = label]

-----------------------------------------------------------------------------
(* The tables. *)

\* The versions of a key but for the one with an id
Removed(versions, id) ==
    LET i == CHOOSE i \in DOMAIN versions : versions[i].id = id IN
    IF \E v \in Range(versions) : v.id = id
    THEN SubSeq(versions, 1, i - 1) \o SubSeq(versions, i + 1, Len(versions))
    ELSE versions

\* Mutant: the null version stays.
WithVersionBeside(versions, version) == <<version>> \o versions

\* commitVersion: the null version is replaced, wherever it is.
WithVersion(versions, version) ==
    <<version>> \o (IF version.id = NullId THEN Removed(versions, NullId) ELSE versions)

Payloads(t) == {v.payload : v \in UNION {Range(t[b][k]) : b \in Bucket, k \in Key}} \ {None}

\* Whether a bucket is gone, or is about to go because it was found empty.
Going(b) ==
    \/ buckets[b] # None /\ buckets[b].deleted
    \/ \E c \in Call : call[c].at = "drop" /\ job[c].bucket = b

\* copyKeys: the key a key goes to
Destination(j, k) ==
    IF j.key \in Folders THEN Rekey[j.key][AsFolder[j.onto]][k] ELSE j.onto

\* keysUnder: the keys that a copy or a move may take
Sources(j) == IF j.key \in Folders THEN Under[j.key] ELSE {j.key}

\* Keys that call d need not account for once somebody else has written key k.
Excuses(d, b, k) ==
    LET j == job[d] IN
    CASE call[d].at \in {"start", "keys"} -> {}
      [] j.op \in {"deletePrefix", "deleteObjects"} -> IF b = j.bucket THEN {k} \ call[d].doomed ELSE {}
      [] j.op = "move" ->
           {i \in Sources(j) \ call[d].keys :
              (b = j.bucket /\ i = k) \/ (b = j.into /\ Destination(j, i) = k)}
      [] OTHER -> {}

\* A statement of call c leaves these versions of a key.
Leaves(c, b, k, versions) ==
    LET t == [table EXCEPT ![b][k] = versions]
        gone == {p \in Payloads(table) \ Payloads(t) :
                   /\ job[c].op = "move" /\ b = job[c].bucket /\ k \in call[c].doomed
                   /\ p = Head(table[b][k]).payload} IN
    /\ Becomes(t, uploads, parts)
    /\ excused' = [d \in Call |-> IF d = c THEN excused[d] ELSE excused[d] \cup Excuses(d, b, k)]
    /\ late' = IF Going(b) THEN late \cup {<<b, k>>} ELSE late
    /\ lost' = lost \cup (gone \X {k \in excused[c]})

\* nextVersionId
NewId(row) == IF row.versioning = "enabled" THEN nextId ELSE NullId
Numbered(row) == nextId' = IF row.versioning = "enabled" THEN nextId + 1 ELSE nextId

\* bucketUsage, by its two sums.
Weight(p) == IF p = None THEN 0 ELSE Size[p]
VersionBytes(b) ==
    LET stored == UNION {{k} \X DOMAIN table[b][k] : k \in Key}
    IN SumFunction([r \in stored |-> Weight(table[b][r[1]][r[2]].payload)])
InProgress == \E k \in Key : <<k, TheUpload>> \in uploads
PartBytes(b) ==
    IF b = UploadBucket /\ InProgress THEN SumFunction([n \in parts |-> Size[n]]) ELSE 0

Owned(u) == {b \in Bucket : buckets[b] # None /\ ~buckets[b].deleted /\ buckets[b].owner = u}

-----------------------------------------------------------------------------
(* Calls. *)

Alive(b) == buckets[b] # None /\ ~buckets[b].deleted
unchangedByReads == <<listingVars, settings, nextId, job, history, failures>>

FirstLabel(op) ==
    CASE op \in {"put", "uploadPart"} -> "bucket"
      [] op = "createFolder" -> "exists"
      [] op \in {"copy", "move", "delete", "deleteVersion", "deletePrefix", "deleteObjects"} -> "keys"
      [] op = "complete" -> "parts"
      [] op = "abort" -> "dropParts"
      [] op = "deleteBucket" -> "count"

\* getByName; calls on an upload require it.
Resolve(c) ==
    LET j == job[c] IN
    /\ call[c].at = "start" /\ j.op \notin Settings \cup {"createBucket"}
    /\ \/ /\ Alive(j.bucket)
          /\ j.op \in {"copy", "move"} => Alive(j.into)
          /\ j.op \in Uploads => <<j.key, TheUpload>> \in uploads
          /\ call' = [call EXCEPT ![c].at = FirstLabel(j.op),
               ![c].source = buckets[j.bucket],
               ![c].ctx = buckets[IF j.op \in {"copy", "move"} THEN j.into ELSE j.bucket]]
       \/ /\ \/ ~Alive(j.bucket)
             \/ j.op \in {"copy", "move"} /\ ~Alive(j.into)
             \/ j.op \in Uploads /\ <<j.key, TheUpload>> \notin uploads
          /\ Goto(c, "failed")
    /\ UNCHANGED unchangedByReads

Target(c) == IF job[c].op \in {"copy", "move"} THEN job[c].into ELSE job[c].bucket

\* assertQuota runs twice for every payload: for what the client declared, and
\* for what was stored.  A copy declares nothing.
Bytes(c) ==
    LET x == call[c] IN
    IF ~x.written /\ job[c].op \in {"copy", "move"} THEN 0
    ELSE IF job[c].op = "uploadPart" THEN Size[job[c].value]
    ELSE Weight(x.payload)

\* What follows a check that was passed: the payload is written, and checked.
Passed(x) == [x EXCEPT !.at = IF x.written THEN "commit" ELSE "bucket", !.written = TRUE]

\* assertQuota: the owner's limit is read now, the bucket's was read with the bucket.
CheckOwner(c, sum) ==
    LET quota == ownerQuota[call[c].ctx.owner]
        x == [call[c] EXCEPT !.quota = quota, !.bucketSum = sum] IN
    call' = [call EXCEPT ![c] = IF quota = None THEN Passed(x) ELSE [x EXCEPT !.at = "owner"]]

CheckBucket(c) ==
    LET x == call[c] IN
    /\ x.at = "bucket"
    /\ \/ x.ctx.quota = None /\ CheckOwner(c, 0)
       \/ /\ x.ctx.quota # None
          /\ call' = [call EXCEPT ![c].at = "bucketParts", ![c].bucketSum = VersionBytes(Target(c))]
    /\ UNCHANGED unchangedByReads

\* Mutant: room for what there is, not for what comes.
OverInPlace(c, bytes, quota) == bytes > quota
Over(c, bytes, quota) == bytes + Bytes(c) > quota

CheckBucketParts(c) ==
    LET x == call[c]
        bytes == x.bucketSum + PartBytes(Target(c)) IN
    /\ x.at = "bucketParts"
    /\ \/ Over(c, bytes, x.ctx.quota) /\ Goto(c, "refused")
       \/ ~Over(c, bytes, x.ctx.quota) /\ CheckOwner(c, bytes)
    /\ UNCHANGED unchangedByReads

\* userUsage
ReadOwnersVersions(c) ==
    /\ call[c].at = "owner"
    /\ call' = [call EXCEPT ![c].at = "ownerParts",
         ![c].ownerSum = SumFunction([b \in Owned(call[c].ctx.owner) |-> VersionBytes(b)])]
    /\ UNCHANGED unchangedByReads

CheckOwnersParts(c) ==
    LET x == call[c]
        bytes == x.ownerSum + SumFunction([b \in Owned(x.ctx.owner) |-> PartBytes(b)]) IN
    /\ x.at = "ownerParts"
    /\ \/ Over(c, bytes, x.quota) /\ Goto(c, "refused")
       \/ /\ ~Over(c, bytes, x.quota)
          /\ call' = [call EXCEPT ![c] = Passed([x EXCEPT !.ownerSum = bytes])]
    /\ UNCHANGED unchangedByReads

\* commitVersion
Commit(c) ==
    LET x == call[c]
        b == Target(c)
        more == job[c].op \in {"copy", "move"} /\ x.keys # {} IN
    /\ x.at = "commit" /\ job[c].op # "uploadPart"
    /\ Leaves(c, b, x.key, WithVersion(table[b][x.key], [id |-> NewId(x.ctx), payload |-> x.payload]))
    /\ Numbered(x.ctx)
    /\ call' = [call EXCEPT ![c].written = FALSE, ![c].quota = None,
         ![c].bucketSum = 0, ![c].ownerSum = 0,
         ![c].at = IF more THEN "next"
                   ELSE IF job[c].op = "move" THEN "delete"
                   ELSE IF job[c].op = "complete" THEN "retire" ELSE "done"]
    /\ UNCHANGED <<settings, job, failures>>

\* createFolder looks for the marker before it puts one.
FindFolder(c) ==
    /\ call[c].at = "exists"
    /\ Goto(c, IF table[job[c].bucket][job[c].key] = <<>> THEN "bucket" ELSE "failed")
    /\ UNCHANGED unchangedByReads

-----------------------------------------------------------------------------
(* Copies, moves and deletions. *)

\* Mutant: only folders are looked at.
RefusedForFolders(j) ==
    /\ j.op \in {"copy", "move"} /\ j.bucket = j.into
    /\ j.key \in Folders /\ j.onto \in Under[j.key]

\* copyKeys: nothing is copied onto itself, nor a folder into itself.
Refused(j) ==
    /\ j.op \in {"copy", "move"} /\ j.bucket = j.into
    /\ j.key = j.onto \/ (j.key \in Folders /\ j.onto \in Under[j.key])

\* Mutant: one page of them.
OnePageUnder(b, p) == First({k \in Under[p] : table[b][k] # <<>>}, 1)

\* keysUnder, deleteByPrefix: every key with a row, whatever its latest version.
KeysUnder(b, p) == {k \in Under[p] : table[b][k] # <<>>}

\* DeleteObjects: the keys that the request names, in byte order.
NamedKeys(j) == {j.key, j.onto}

ListKeys(c) ==
    LET j == job[c]
        keys == IF j.op = "deletePrefix" \/ (j.op \in {"copy", "move"} /\ j.key \in Folders)
                THEN KeysUnder(j.bucket, j.key)
                ELSE IF j.op = "deleteObjects" THEN NamedKeys(j) ELSE {j.key} IN
    /\ call[c].at = "keys"
    /\ \/ /\ ~Refused(j) /\ (keys # {} \/ j.op = "deletePrefix")
          /\ call' = [call EXCEPT ![c].keys = keys, ![c].doomed = keys,
               ![c].at = IF j.op \in {"copy", "move"} THEN "next"
                         ELSE IF keys = {} THEN "done" ELSE "delete"]
       \/ (Refused(j) \/ (keys = {} /\ j.op # "deletePrefix")) /\ Goto(c, "failed")
    /\ UNCHANGED unchangedByReads

\* Mutant: a delete marker is met again and again.
CopyNextAgain(c) ==
    LET j == job[c]
        x == call[c]
        k == Min(x.keys)
        versions == table[j.bucket][k]
        rest == x.keys \ {k} IN
    /\ x.at = "next"
    /\ \/ versions = <<>> /\ Goto(c, "failed")
       \/ /\ versions # <<>> /\ Head(versions).payload = None
          /\ Goto(c, "next")
       \/ /\ versions # <<>> /\ Head(versions).payload # None
          /\ call' = [call EXCEPT ![c].keys = rest, ![c].at = "bucket",
               ![c].key = Destination(j, k), ![c].payload = Head(versions).payload]
    /\ UNCHANGED unchangedByReads

\* copyKeys: one key is read.  A key that has gone ends the call.
CopyNext(c) ==
    LET j == job[c]
        x == call[c]
        k == Min(x.keys)
        versions == table[j.bucket][k]
        rest == x.keys \ {k} IN
    /\ x.at = "next"
    /\ \/ versions = <<>> /\ Goto(c, "failed")
       \/ /\ versions # <<>> /\ Head(versions).payload = None
          /\ call' = [call EXCEPT ![c].keys = rest,
               ![c].at = IF rest # {} THEN "next" ELSE IF j.op = "move" THEN "delete" ELSE "done"]
       \/ /\ versions # <<>> /\ Head(versions).payload # None
          /\ call' = [call EXCEPT ![c].keys = rest, ![c].at = "bucket",
               ![c].key = Destination(j, k), ![c].payload = Head(versions).payload]
    /\ UNCHANGED unchangedByReads

\* delete
Without(c, k) ==
    LET j == job[c]
        x == call[c]
        versions == table[j.bucket][k] IN
    IF versions = <<>> THEN <<>>
    ELSE IF j.op = "deleteVersion" THEN Removed(versions, j.value)
    ELSE IF x.source.versioning = "disabled" THEN <<>>
    ELSE WithVersion(versions, [id |-> NewId(x.source), payload |-> None])

\* deleteMany: one key after the other.
DeleteNext(c) ==
    LET x == call[c]
        k == Min(x.doomed) IN
    /\ x.at = "delete"
    /\ Leaves(c, job[c].bucket, k, Without(c, k))
    /\ IF job[c].op = "deleteVersion" \/ table[job[c].bucket][k] = <<>>
       THEN UNCHANGED nextId ELSE Numbered(x.source)
    /\ call' = [call EXCEPT ![c].doomed = @ \ {k}, ![c].at = IF x.doomed = {k} THEN "done" ELSE @]
    /\ UNCHANGED <<settings, job, failures>>

-----------------------------------------------------------------------------
(* Uploads. *)

StorePart(c) ==
    /\ call[c].at = "commit" /\ job[c].op = "uploadPart"
    /\ Becomes(table, uploads, parts \cup {job[c].value})
    /\ Goto(c, "done")
    /\ UNCHANGED <<settings, nextId, job, history, failures>>

\* completeMultipartUpload: no quota is asked for bytes that are on the disk.
JoinParts(c) ==
    /\ call[c].at = "parts"
    /\ \/ /\ parts = Part
          /\ call' = [call EXCEPT ![c].at = "commit", ![c].payload = Joined]
       \/ parts # Part /\ Goto(c, "failed")
    /\ UNCHANGED unchangedByReads

\* The status is set before the parts go, or after them when it is an abort.
RetireUpload(c) ==
    /\ call[c].at = "retire"
    /\ Becomes(table, uploads \ {<<job[c].key, TheUpload>>}, parts)
    /\ Goto(c, IF job[c].op = "complete" THEN "dropParts" ELSE "done")
    /\ UNCHANGED <<settings, nextId, job, history, failures>>

DropParts(c) ==
    /\ call[c].at = "dropParts"
    /\ Becomes(table, uploads, {})
    /\ Goto(c, IF job[c].op = "complete" THEN "done" ELSE "retire")
    /\ UNCHANGED <<settings, nextId, job, history, failures>>

-----------------------------------------------------------------------------
(* Buckets. *)

\* The name of a deleted bucket stays taken: the index covers it.
CreateBucket(c) ==
    LET j == job[c] IN
    /\ call[c].at = "start" /\ j.op = "createBucket"
    /\ \/ /\ buckets[j.bucket] = None
          /\ \E u \in User : buckets' = [buckets EXCEPT ![j.bucket] =
               [deleted |-> FALSE, versioning |-> "disabled", quota |-> None, owner |-> u]]
          /\ Goto(c, "done")
       \/ buckets[j.bucket] # None /\ Goto(c, "failed") /\ UNCHANGED buckets
    /\ UNCHANGED <<listingVars, ownerQuota, nextId, job, history, failures>>

\* Mutant: only what a listing shows is counted.
CountVisible(c) ==
    /\ call[c].at = "count"
    /\ Goto(c, IF \E k \in Key : Visible(table, job[c].bucket, k) THEN "failed" ELSE "drop")
    /\ UNCHANGED unchangedByReads

CountObjects(c) ==
    /\ call[c].at = "count"
    /\ Goto(c, IF \E k \in Key : table[job[c].bucket][k] # <<>> THEN "failed" ELSE "drop")
    /\ UNCHANGED unchangedByReads

DropBucket(c) ==
    /\ call[c].at = "drop"
    /\ buckets' = [buckets EXCEPT ![job[c].bucket].deleted = TRUE]
    /\ Goto(c, "done")
    /\ UNCHANGED <<listingVars, ownerQuota, nextId, job, history, failures>>

\* S3 never goes back to "disabled".
Set(c) ==
    LET j == job[c] IN
    /\ call[c].at = "start" /\ j.op \in Settings
    /\ \/ /\ ~Alive(j.bucket)
          /\ Goto(c, "failed") /\ UNCHANGED settings
       \/ /\ Alive(j.bucket)
          /\ Goto(c, "done")
          /\ buckets' = CASE j.op = "setVersioning" -> [buckets EXCEPT ![j.bucket].versioning = j.versioning]
                          [] j.op = "setQuota" -> [buckets EXCEPT ![j.bucket].quota = j.value]
                          [] OTHER -> buckets
          /\ ownerQuota' = IF j.op = "setOwnerQuota"
                           THEN [ownerQuota EXCEPT ![buckets[j.bucket].owner] = j.value] ELSE ownerQuota
    /\ UNCHANGED <<listingVars, nextId, job, history, failures>>

-----------------------------------------------------------------------------
\* A statement fails, and the call with it; only deleteMany goes on, and says so.
Fail(c) ==
    LET x == call[c]
        k == Min(x.doomed) IN
    /\ x.at \notin Ended \cup {"start"} /\ failures < MaxFailures
    /\ failures' = failures + 1
    /\ \/ x.at # "delete" /\ Goto(c, "failed") /\ UNCHANGED excused
       \/ /\ x.at = "delete"
          /\ call' = [call EXCEPT ![c].doomed = @ \ {k}, ![c].at = IF x.doomed = {k} THEN "done" ELSE @]
          /\ excused' = [excused EXCEPT ![c] = @ \cup {k}]
    /\ UNCHANGED <<listingVars, settings, nextId, job, late, lost>>

CallStep(c) ==
    \/ Resolve(c) \/ CheckBucket(c) \/ CheckBucketParts(c) \/ ReadOwnersVersions(c)
    \/ CheckOwnersParts(c) \/ Commit(c) \/ FindFolder(c)
    \/ ListKeys(c) \/ CopyNext(c) \/ DeleteNext(c)
    \/ StorePart(c) \/ JoinParts(c) \/ RetireUpload(c) \/ DropParts(c)
    \/ CreateBucket(c) \/ CountObjects(c) \/ DropBucket(c) \/ Set(c)

Walks(w) == WalkStep(w) /\ UNCHANGED <<settings, nextId, callVars, history, failures>>

Run == (\E c \in Call : CallStep(c)) \/ (\E w \in Walker : Walks(w))
Next == Run \/ \E c \in Call : Fail(c)

Spec == Init /\ [][Next]_vars
\* Node does not stop while some statement can go on; no call is preferred.
FairSpec == Spec /\ WF_vars(Run)

-----------------------------------------------------------------------------
(* What may be asked for, and where a run starts. *)

\* What is written or taken away has a key's name, the keys that a folder's copies get
\* are no exception.
WellAsked(j) ==
    /\ j.op \in {"put", "createFolder", "delete", "deleteVersion"} \cup Uploads => j.key \in Key
    /\ j.op \in {"copy", "move"} =>
         /\ Sources(j) \subseteq Key
         /\ ~Refused(j) => \A k \in Sources(j) : Destination(j, k) \in Key
    /\ j.op = "deleteObjects" => NamedKeys(j) \subseteq Key
    /\ j.op = "uploadPart" => j.value \in Part

Start == [buckets : [Bucket -> BucketRow \cup {None}], ownerQuota : [User -> Quota],
          table : [Bucket -> [Key -> Versions]], nextId : Nat \ 0 .. NullId,
          uploads : SUBSET (Key \X Upload), parts : SUBSET Part, job : [Call -> Job],
          failures : 0 .. MaxFailures, queries : [Walker -> Query], walkers : SUBSET Walker]

ASSUME SpaceAssumption ==
    /\ IsFiniteSet(Bucket) /\ UploadBucket \in Bucket /\ TheUpload \in Upload
    /\ Size \in [Payload \cup Part -> Nat] /\ Joined \in Payload /\ None \notin Payload
    /\ None \notin BucketRow /\ MaxFailures \in Nat
\* Ids are not given twice, and a bucket that was deleted is empty.
ASSUME StartsAssumption == \A start \in Starts :
    /\ start \in Start
    /\ \A c \in Call : WellAsked(start.job[c])
    /\ \A b \in Bucket, k \in Key :
         /\ \A v \in Range(start.table[b][k]) : v.id < start.nextId
         /\ start.buckets[b] # None /\ start.buckets[b].deleted => start.table[b][k] = <<>>

\* A move leads away from its source, and every key to a place of its own.  One that takes
\* a folder onto its own name does not, nor one into the folder around it when the folder
\* holds another of its name.
LeadsAway(j) ==
    j.op = "move" /\ ~Refused(j) => \A i, k \in Sources(j) :
        /\ j.bucket = j.into => Destination(j, i) # k
        /\ Destination(j, i) = Destination(j, k) => i = k

-----------------------------------------------------------------------------
(* Properties. *)

\* UsageService.assertQuota: a bucket, or the buckets of one owner, grow past
\* their limit only by a write whose sums are no longer true when it commits:
\* somebody else stored bytes or changed the limit since, or an upload was
\* completed between the two sums.
Usage(b) == VersionBytes(b) + PartBytes(b)
OwnersUsage(u) == SumFunction([b \in Owned(u) |-> Usage(b)])
Exceeds(now, before, quota) == quota # None /\ now > quota /\ now > before
OvershootsGoByStaleSums ==
    [][\A c \in Call :
         LET x == call[c]
             b == Target(c)
             u == x.ctx.owner IN
         x.at = "commit" /\ call'[c].at # "commit" /\ x.written /\ Alive(b) =>
           /\ Exceeds(Usage(b)', Usage(b), buckets[b].quota) =>
                x.ctx.quota # buckets[b].quota \/ x.bucketSum # Usage(b)
           /\ Exceeds(OwnersUsage(u)', OwnersUsage(u), ownerQuota[u]) =>
                x.quota # ownerQuota[u] \/ x.ownerSum # OwnersUsage(u)]_vars

\* ObjectsService.copyKeys: "a rename in the UI [is] one operation": the latest
\* version of a key that a move takes away is at its destination, unless others wrote
\* over either while the move was under way.  Older versions are not moved.
MovesLoseNothing == \A l \in lost : l[2]

\* ObjectsService.deleteByPrefix "removes every key under prefix", deleteMany
\* attempts every key that DeleteObjects names: none is left but those written
\* since, and those whose failure is reported.
DeletedFoldersAreEmpty ==
    \A c \in Call : call[c].at = "done" =>
        /\ job[c].op = "deletePrefix" =>
               \A k \in Under[job[c].key] : Visible(table, job[c].bucket, k) => k \in excused[c]
        /\ job[c].op = "deleteObjects" =>
               \A k \in NamedKeys(job[c]) : Visible(table, job[c].bucket, k) => k \in excused[c]

\* BucketsService.delete: a bucket takes no version with it, delete markers and
\* old versions included; what it holds was committed after it was counted, by
\* calls that had been let in before.
DeletedBucketsHoldLateWrites ==
    \A b \in Bucket, k \in Key :
        buckets[b] # None /\ buckets[b].deleted /\ table[b][k] # <<>> => <<b, k>> \in late

\* ObjectsService, BucketsService: every call comes to an end, the loops over the
\* keys of a folder included, into which the call itself or another one may write.
CallsFinish == \A c \in Call : <>(call[c].at \in Ended)
=============================================================================
