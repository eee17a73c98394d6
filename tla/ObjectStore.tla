----------------------------- MODULE ObjectStore -----------------------------
(***************************************************************************)
(* The link between metadata rows (Postgres) and payload blobs (the disk)  *)
(* of one bucket: ObjectsService's writes, deletes and multipart uploads,  *)
(* StorageService's files and GcService's sweep, interleaved at every      *)
(* await.  A database transaction is one step here; the module VersionTx   *)
(* takes the transactions apart, and owns the latest-version pointer.      *)
(*                                                                         *)
(* A call is made once, and its identity stands for every random id that   *)
(* it draws: the blob path, the version row's guid, the object row's guid  *)
(* and the upload id of call r are all written r.                          *)
(***************************************************************************)
EXTENDS Naturals

CONSTANTS
    Request,        \* the API calls that may be made
    Key,            \* object keys
    PartNumber,     \* part numbers a client uses (1..10000 in the code)
    Ops,            \* the operations each call of this instance may be
    Settings,       \* what PutBucketVersioning may set in this instance
    Gc,             \* the collector's process
    None,           \* SQL null, and "no row"
    BlobMinAge,     \* GC_BLOB_MIN_AGE_HOURS, in clock ticks
    UploadMaxAge,   \* GC_MULTIPART_MAX_AGE_HOURS, in clock ticks
    CommitDelay,    \* bound: ticks from a blob's last byte to its row's commit
    ReadDelay,      \* bound: ticks the collector takes to read the references
    MaxFailures     \* bound: calls and sweeps that die half-way

WriterOps == {"put", "uploadPart", "complete"}
UploadOps == {"uploadPart", "complete", "abort"}
AllOps == WriterOps \cup UploadOps
            \cup {"delete", "deleteVersion", "createUpload"}

ASSUME IdAssumption ==
    /\ None \notin Request /\ None \notin AllOps
    /\ Gc \notin Request
ASSUME OpsAssumption == Ops \in [Request -> SUBSET AllOps]
ASSUME SettingsAssumption == Settings \subseteq {"enabled", "suspended"}
ASSUME TimeAssumption ==
    /\ BlobMinAge \in Nat /\ UploadMaxAge \in Nat
    /\ CommitDelay \in Nat /\ ReadDelay \in Nat
    /\ CommitDelay + ReadDelay < BlobMinAge
ASSUME FailureAssumption == MaxFailures \in Nat

VARIABLES
    \* The database.
    versioning,     \* bucket.versioning
    object,         \* key -> guid of its object row
    version,        \* guid -> object_version row
    upload,         \* guid -> multipart_upload row
    part,           \* upload -> part number -> multipart_part.storagePath
    \* The disk.
    disk,           \* the blobs that exist
    age,            \* ticks since a blob was last written, or an upload created
    \* The calls: what each is about, and what it holds in memory.
    pc,             \* the statement a process executes next
    op, uploadId, number,
    local,
    doomed,         \* blobs the process is going to delete
    \* The collector's sweep.
    stale,          \* abandoned uploads still to abort
    refs,           \* storage paths found referenced
    old,            \* blobs last written before the cutoff
    span,           \* ticks since the references began to be read
    failures        \* failures so far, up to MaxFailures

db == <<versioning, object, version, upload, part>>
files == <<disk, age>>
calls == <<op, uploadId, number>>
sweep == <<stale, refs, old, span>>
vars == <<db, files, pc, calls, local, doomed, sweep, failures>>

Proc == Request \cup {Gc}
OrNone == Request \cup {None}
MaxAge == IF BlobMinAge > UploadMaxAge THEN BlobMinAge ELSE UploadMaxAge

Versioning == {"disabled", "enabled", "suspended"}
Status == {"inProgress", "completed", "aborted"}
VersionRow == [object : Request, isNull : BOOLEAN, marker : BOOLEAN]
UploadRow == [key : Key, status : Status]

\* The key and the bucket context of the request, then what it has read: the
\* object row of a delete, the version row or previous part blob, the part
\* blobs of a complete or abort, and those a complete has yet to concatenate.
Local == [key : Key \cup {None}, versioning : Versioning \cup {None},
          found : OrNone, row : OrNone,
          stored : SUBSET Request, todo : SUBSET Request]
Nothing == [key |-> None, versioning |-> None, found |-> None, row |-> None,
            stored |-> {}, todo |-> {}]

(***************************************************************************)
(* Control points.  A call's blob is on its way (Pending) from its first   *)
(* byte on disk to the commit of the row that names it.                    *)
(***************************************************************************)
Unwritten == {"idle", "requireUpload", "write", "readParts"}
Pending == {"staged", "concat", "upsertPart"}
Deleting == {"find", "purge", "selectVersion", "dropVersion", "mark"}
Concluding == {"retire", "dropParts", "reap", "done"}
Sweeping == {"idle", "abandon", "readVersionPaths", "readPartPaths", "cutoff",
             "walk"}
Label == Unwritten \cup Pending \cup Deleting \cup Concluding \cup Sweeping
AbortSteps == {"requireUpload", "readParts", "dropParts", "retire", "reap"}

Domains ==
    /\ versioning \in Versioning
    /\ object \in [Key -> OrNone]
    /\ version \in [Request -> VersionRow \cup {None}]
    /\ upload \in [Request -> UploadRow \cup {None}]
    /\ part \in [Request -> [PartNumber -> OrNone]]
    /\ disk \subseteq Request
    /\ age \in [Request -> 0 .. MaxAge]
    /\ pc \in [Proc -> Label]
    /\ op \in [Proc -> AllOps \cup {None}]
    /\ uploadId \in [Proc -> OrNone]
    /\ number \in [Request -> PartNumber \cup {None}]
    /\ local \in [Proc -> Local]
    /\ doomed \in [Proc -> SUBSET Request]
    /\ stale \subseteq Request
    /\ refs \subseteq Request
    /\ old \subseteq Request
    /\ span \in 0 .. ReadDelay
    /\ failures \in 0 .. MaxFailures

\* The type of a storage path: only a call that wrote a payload has one, a delete
\* marker's is null.  Nothing else is ever a file, or handed to deleteBlobs.
Paths == {b \in Request : op[b] \in WriterOps}
TypeOK ==
    /\ Domains
    /\ disk \subseteq Paths
    /\ \A p \in Proc : doomed[p] \subseteq Paths

Init ==
    /\ versioning = "disabled"
    /\ object = [k \in Key |-> None]
    /\ version = [g \in Request |-> None]
    /\ upload = [u \in Request |-> None]
    /\ part = [u \in Request |-> [n \in PartNumber |-> None]]
    /\ disk = {}
    /\ age = [b \in Request |-> 0]
    /\ pc = [p \in Proc |-> "idle"]
    /\ op = [p \in Proc |-> None]
    /\ uploadId = [p \in Proc |-> None]
    /\ number = [r \in Request |-> None]
    /\ local = [p \in Proc |-> Nothing]
    /\ doomed = [p \in Proc |-> {}]
    /\ stale = {} /\ refs = {} /\ old = {}
    /\ span = 0
    /\ failures = 0

-----------------------------------------------------------------------------
(* What the rows say. *)

Rows == {g \in Request : version[g] # None}
RowsOf(o) == {g \in Rows : version[g].object = o}
VersionPaths == {g \in Rows : ~version[g].marker}
PartsOf(u) == {part[u][n] : n \in PartNumber} \ {None}
PartPaths == UNION {PartsOf(u) : u \in Request}
Referenced == VersionPaths \cup PartPaths
InProgress(u) == upload[u] # None /\ upload[u].status = "inProgress"

-----------------------------------------------------------------------------
(* Moving through a call. *)

Goto(p, label) == pc' = [pc EXCEPT ![p] = label]

\* The collector goes on to the next abandoned upload, a call returns.
End(p) == IF p = Gc THEN "abandon" ELSE "done"

\* Any thrown error or early return: what the call held in memory is gone.
Return(p) ==
    /\ Goto(p, End(p))
    /\ local' = [local EXCEPT ![p] = Nothing]
    /\ doomed' = [doomed EXCEPT ![p] = {}]

\* The metadata is changed; S are the storage paths left to delete.
DeleteBlobs(p, S) ==
    /\ doomed' = [doomed EXCEPT ![p] = S]
    /\ local' = [local EXCEPT ![p] = Nothing]
    /\ Goto(p, IF S = {} THEN End(p) ELSE "reap")

Still == UNCHANGED <<versioning, calls, sweep, failures>>

-----------------------------------------------------------------------------
(* A request reaches its handler with the bucket row it was authorized on. *)

Arrive(r, o, k, u, n, label) ==
    /\ pc[r] = "idle" /\ o \in Ops[r]
    /\ op' = [op EXCEPT ![r] = o]
    /\ uploadId' = [uploadId EXCEPT ![r] = u]
    /\ number' = [number EXCEPT ![r] = n]
    /\ local' = [local EXCEPT ![r] = [Nothing EXCEPT !.key = k,
                                                     !.versioning = versioning]]
    /\ Goto(r, label)
    /\ UNCHANGED <<db, files, doomed, sweep, failures>>

StartPut(r) == \E k \in Key : Arrive(r, "put", k, None, None, "write")

StartDelete(r) ==
    \E k \in Key, o \in {"delete", "deleteVersion"} :
        Arrive(r, o, k, None, None, "find")

\* An upload id is known to clients once createMultipartUpload returned it.
StartUploadCall(r) ==
    \E u \in {w \in Request : upload[w] # None} :
        \/ \E n \in PartNumber :
              Arrive(r, "uploadPart", None, u, n, "requireUpload")
        \/ \E o \in {"complete", "abort"} :
              Arrive(r, o, None, u, None, "requireUpload")

CreateMultipartUpload(r) ==
    /\ pc[r] = "idle" /\ "createUpload" \in Ops[r]
    /\ \E k \in Key :
          upload' = [upload EXCEPT ![r] = [key |-> k, status |-> "inProgress"]]
    /\ op' = [op EXCEPT ![r] = "createUpload"]
    /\ age' = [age EXCEPT ![r] = 0]
    /\ Goto(r, "done")
    /\ UNCHANGED <<versioning, object, version, part, disk, uploadId, number,
                   local, doomed, sweep, failures>>

-----------------------------------------------------------------------------
(* Payloads. *)

\* The file is created, and its last byte arrives.
Write(r) ==
    /\ pc[r] = "write"
    /\ disk' = disk \cup {r}
    /\ age' = [age EXCEPT ![r] = 0]
    /\ Goto(r, "staged")
    /\ UNCHANGED <<object, version, upload, part, local, doomed>> /\ Still

\* The stream failed, the payload was too large, or its digest or size was
\* refused: the blob goes, and no row was ever written for it.
Reject(r) ==
    /\ pc[r] = "staged" /\ op[r] \in {"put", "uploadPart"}
    /\ disk' = disk \ {r}
    /\ Return(r)
    /\ UNCHANGED <<object, version, upload, part, age>> /\ Still

Reap(p) ==
    /\ pc[p] = "reap"
    /\ \E b \in doomed[p] :
          /\ disk' = disk \ {b}
          /\ DeleteBlobs(p, doomed[p] \ {b})
    /\ UNCHANGED <<object, version, upload, part, age>> /\ Still

-----------------------------------------------------------------------------
(* Object versions. *)

\* The null version that a write replaces in a bucket that is not versioned.
Replaced(o, null) == {g \in RowsOf(o) : null /\ version[g].isNull}

\* commitVersion: r's row becomes the key's newest, in a fresh object row when
\* the key has none.  A delete marker is committed the same way.
CommitVersion(r) ==
    /\ \/ pc[r] = "staged" /\ op[r] \in {"put", "complete"}
       \/ pc[r] = "mark"
    /\ LET k == IF op[r] = "complete" THEN upload[uploadId[r]].key
                                      ELSE local[r].key
           o == IF object[k] = None THEN r ELSE object[k]
           null == local[r].versioning # "enabled"
           replaced == Replaced(o, null)
           orphaned == replaced \cap VersionPaths
       IN  /\ object' = [object EXCEPT ![k] = o]
           /\ version' = [g \in Request |->
                 IF g = r
                 THEN [object |-> o, isNull |-> null, marker |-> op[r] = "delete"]
                 ELSE IF g \in replaced THEN None ELSE version[g]]
           /\ IF op[r] = "complete"
              THEN /\ doomed' = [doomed EXCEPT ![r] = orphaned]
                   /\ Goto(r, "retire")
                   /\ UNCHANGED local
              ELSE DeleteBlobs(r, orphaned)
    /\ UNCHANGED <<upload, part, files>> /\ Still

\* Deleting a key that is not there is a success; what is done to one that is
\* there is decided on the bucket context of the request.
FindObject(r) ==
    /\ pc[r] = "find"
    /\ LET o == object[local[r].key]
       IN  \/ o = None /\ Return(r)
           \/ /\ o # None
              /\ Goto(r, IF op[r] = "deleteVersion" THEN "selectVersion"
                         ELSE IF local[r].versioning = "disabled" THEN "purge"
                         ELSE "mark")
              /\ local' = [local EXCEPT ![r].found = o]
              /\ UNCHANGED doomed
    /\ UNCHANGED <<object, version, upload, part, files>> /\ Still

\* The key's object row goes with the last of its versions.
DropRows(o, S) ==
    /\ version' = [g \in Request |-> IF g \in S THEN None ELSE version[g]]
    /\ object' = [k \in Key |-> IF object[k] = o /\ RowsOf(o) \subseteq S
                                THEN None ELSE object[k]]

PurgeObject(r) ==
    /\ pc[r] = "purge"
    /\ LET removed == RowsOf(local[r].found)
       IN  /\ DropRows(local[r].found, removed)
           /\ DeleteBlobs(r, removed \cap VersionPaths)
    /\ UNCHANGED <<upload, part, files>> /\ Still

\* The version id names no row of the object, or the row is read before the
\* transaction that removes it begins.
SelectVersion(r) ==
    /\ pc[r] = "selectVersion"
    /\ \/ Return(r)
       \/ /\ \E g \in RowsOf(local[r].found) : local' = [local EXCEPT ![r].row = g]
          /\ Goto(r, "dropVersion")
          /\ UNCHANGED doomed
    /\ UNCHANGED <<object, version, upload, part, files>> /\ Still

\* Deviation: the blob goes while its row is still there to be read.
DropVersionWithBlob(r) ==
    /\ pc[r] = "dropVersion"
    /\ DropRows(local[r].found, {local[r].row})
    /\ disk' = disk \ {local[r].row}
    /\ DeleteBlobs(r, {})
    /\ UNCHANGED <<upload, part, age>> /\ Still

\* Deviation: the row's path is handed on without a look at whether it has one.
DropVersionAndNull(r) ==
    /\ pc[r] = "dropVersion"
    /\ LET g == local[r].row
       IN  /\ DropRows(local[r].found, {g})
           /\ DeleteBlobs(r, {g})
    /\ UNCHANGED <<upload, part, files>> /\ Still

\* The row may be gone by now; its blob is deleted again all the same.
DropVersion(r) ==
    /\ pc[r] = "dropVersion"
    /\ LET g == local[r].row
       IN  /\ DropRows(local[r].found, {g})
           /\ DeleteBlobs(r, IF op[g] = "delete" THEN {} ELSE {g})
    /\ UNCHANGED <<upload, part, files>> /\ Still

-----------------------------------------------------------------------------
(* Multipart uploads. *)

RequireUpload(p) ==
    /\ pc[p] = "requireUpload"
    /\ \/ ~InProgress(uploadId[p]) /\ Return(p)
       \/ /\ InProgress(uploadId[p])
          /\ Goto(p, IF op[p] = "uploadPart" THEN "write" ELSE "readParts")
          /\ UNCHANGED <<local, doomed>>
    /\ UNCHANGED <<object, version, upload, part, files>> /\ Still

\* Deviation: the replaced part's blob is deleted before its row is rewritten.
SelectPreviousPartEagerly(r) ==
    /\ pc[r] = "staged" /\ op[r] = "uploadPart"
    /\ disk' = disk \ {part[uploadId[r]][number[r]]}
    /\ Goto(r, "upsertPart")
    /\ UNCHANGED <<object, version, upload, part, age, local, doomed>> /\ Still

SelectPreviousPart(r) ==
    /\ pc[r] = "staged" /\ op[r] = "uploadPart"
    /\ local' = [local EXCEPT ![r].row = part[uploadId[r]][number[r]]]
    /\ Goto(r, "upsertPart")
    /\ UNCHANGED <<object, version, upload, part, files, doomed>> /\ Still

UpsertPart(r) ==
    /\ pc[r] = "upsertPart"
    /\ part' = [part EXCEPT ![uploadId[r]][number[r]] = r]
    /\ DeleteBlobs(r, {local[r].row} \ {None})
    /\ UNCHANGED <<object, version, upload, files>> /\ Still

\* An abort reads the part rows and deletes them.
ReadPartsToAbort(p) ==
    /\ pc[p] = "readParts" /\ op[p] = "abort"
    /\ local' = [local EXCEPT ![p].stored = PartsOf(uploadId[p])]
    /\ Goto(p, "dropParts")
    /\ UNCHANGED <<object, version, upload, part, files, doomed>> /\ Still

\* A complete matches the client's list against them and opens its own blob;
\* a list that does not match ends the call.
ReadPartsToComplete(r) ==
    /\ pc[r] = "readParts" /\ op[r] = "complete"
    /\ \/ /\ Return(r)
          /\ UNCHANGED files
       \/ /\ \E S \in SUBSET PartsOf(uploadId[r]) \ {{}} :
                local' = [local EXCEPT ![r].stored = PartsOf(uploadId[r]),
                                       ![r].todo = S]
          /\ disk' = disk \cup {r}
          /\ age' = [age EXCEPT ![r] = 0]
          /\ Goto(r, "concat")
          /\ UNCHANGED doomed
    /\ UNCHANGED <<object, version, upload, part>> /\ Still

\* concat: a part blob that is gone fails the call, which removes its own blob.
ConcatPart(r) ==
    /\ pc[r] = "concat"
    /\ \E b \in local[r].todo :
          \/ /\ b \in disk
             /\ local' = [local EXCEPT ![r].todo = local[r].todo \ {b}]
             /\ age' = [age EXCEPT ![r] = 0]
             /\ Goto(r, IF local[r].todo = {b} THEN "staged" ELSE "concat")
             /\ UNCHANGED <<disk, doomed>>
          \/ /\ b \notin disk
             /\ disk' = disk \ {r}
             /\ Return(r)
             /\ UNCHANGED age
    /\ UNCHANGED <<object, version, upload, part>> /\ Still

\* Deviation: an abort removes the parts and leaves the upload in progress.
RetireCompleted(p) ==
    /\ pc[p] = "retire"
    /\ upload' = [upload EXCEPT ![uploadId[p]].status =
                     IF op[p] = "complete" THEN "completed" ELSE @]
    /\ \/ op[p] = "complete" /\ Goto(p, "dropParts") /\ UNCHANGED <<local, doomed>>
       \/ op[p] = "abort" /\ DeleteBlobs(p, local[p].stored)
    /\ UNCHANGED <<object, version, part, files>> /\ Still

\* The status is written without looking at what it was.
Retire(p) ==
    /\ pc[p] = "retire"
    /\ upload' = [upload EXCEPT ![uploadId[p]].status =
                     IF op[p] = "complete" THEN "completed" ELSE "aborted"]
    /\ \/ op[p] = "complete" /\ Goto(p, "dropParts") /\ UNCHANGED <<local, doomed>>
       \/ op[p] = "abort" /\ DeleteBlobs(p, local[p].stored)
    /\ UNCHANGED <<object, version, part, files>> /\ Still

\* Deviation: the parts' blobs are gone before the statement that drops the rows.
DropPartsWithBlobs(p) ==
    /\ pc[p] = "dropParts"
    /\ part' = [part EXCEPT ![uploadId[p]] = [n \in PartNumber |-> None]]
    /\ disk' = disk \ PartsOf(uploadId[p])
    /\ \/ op[p] = "complete" /\ DeleteBlobs(p, doomed[p])
       \/ op[p] = "abort" /\ Goto(p, "retire") /\ UNCHANGED <<local, doomed>>
    /\ UNCHANGED <<object, version, upload, age>> /\ Still

\* Every part row of the upload goes, those written since the read as well.
DropParts(p) ==
    /\ pc[p] = "dropParts"
    /\ part' = [part EXCEPT ![uploadId[p]] = [n \in PartNumber |-> None]]
    /\ \/ op[p] = "complete" /\ DeleteBlobs(p, local[p].stored \cup doomed[p])
       \/ op[p] = "abort" /\ Goto(p, "retire") /\ UNCHANGED <<local, doomed>>
    /\ UNCHANGED <<object, version, upload, files>> /\ Still

-----------------------------------------------------------------------------
(* The collector. *)

StillGc == UNCHANGED <<db, age, number, local, doomed, failures>>

StartSweep ==
    /\ pc[Gc] = "idle"
    /\ stale' = {u \in Request : InProgress(u) /\ age[u] >= UploadMaxAge}
    /\ Goto(Gc, "abandon")
    /\ UNCHANGED <<disk, op, uploadId, refs, old, span>> /\ StillGc

\* The sweep aborts one upload after the other as a client would.
AbandonUpload ==
    /\ pc[Gc] = "abandon"
    /\ \E u \in stale :
          /\ stale' = stale \ {u}
          /\ uploadId' = [uploadId EXCEPT ![Gc] = u]
    /\ op' = [op EXCEPT ![Gc] = "abort"]
    /\ Goto(Gc, "requireUpload")
    /\ UNCHANGED <<disk, refs, old, span>> /\ StillGc

ReadVersionPaths ==
    /\ pc[Gc] = "abandon" /\ stale = {}
    /\ refs' = VersionPaths
    /\ Goto(Gc, "readPartPaths")
    /\ UNCHANGED <<disk, op, uploadId, stale, old, span>> /\ StillGc

ReadPartPaths ==
    /\ pc[Gc] = "readPartPaths"
    /\ refs' = refs \cup PartPaths
    /\ Goto(Gc, "cutoff")
    /\ UNCHANGED <<disk, op, uploadId, stale, old, span>> /\ StillGc

\* Deviation: no safety margin.
OldEnoughAtOnce(b) == b \in disk
OldEnough(b) == age[b] >= BlobMinAge

\* A blob's modification time decides, whenever the walk comes to it.
Cutoff ==
    /\ pc[Gc] = "cutoff"
    /\ old' = {b \in disk : OldEnough(b)}
    /\ span' = 0
    /\ Goto(Gc, "walk")
    /\ UNCHANGED <<disk, op, uploadId, stale, refs>> /\ StillGc

Garbage == (disk \cap old) \ refs

CollectBlob ==
    /\ pc[Gc] = "walk"
    /\ \E b \in Garbage : disk' = disk \ {b}
    /\ UNCHANGED <<pc, op, uploadId, sweep>> /\ StillGc

\* Deviation: the guard is released only when the sweep succeeds.
EndSweepIfWalked ==
    /\ Goto(Gc, IF pc[Gc] = "walk" THEN "idle" ELSE "stuck")
    /\ uploadId' = [uploadId EXCEPT ![Gc] = None]
    /\ stale' = {} /\ refs' = {} /\ old' = {} /\ span' = 0

\* The run is over, well or badly: the guard is released.
EndSweep ==
    /\ Goto(Gc, "idle")
    /\ uploadId' = [uploadId EXCEPT ![Gc] = None]
    /\ stale' = {} /\ refs' = {} /\ old' = {} /\ span' = 0

FinishSweep ==
    /\ pc[Gc] = "walk" /\ Garbage = {}
    /\ EndSweep
    /\ UNCHANGED <<disk, op>> /\ StillGc

-----------------------------------------------------------------------------
(* The world: an administrator, the clock, and failures. *)

\* The bucket controllers let nobody back to "disabled".
SetVersioning ==
    /\ versioning' \in Settings
    /\ UNCHANGED <<object, version, upload, part, files, pc, calls, local, doomed,
                   sweep, failures>>

Reading == pc[Gc] \in {"readPartPaths", "cutoff"}
Older(n) == IF n < MaxAge THEN n + 1 ELSE n
Aging(r) == r \in disk \/ InProgress(r)

\* Time waits for a commit that is due and for the collector's two queries.
Tick ==
    /\ \A r \in Request : pc[r] \in Pending => age[r] < CommitDelay
    /\ Reading => span < ReadDelay
    /\ age' = [r \in Request |-> IF Aging(r) THEN Older(age[r]) ELSE 0]
    /\ span' = IF Reading THEN span + 1 ELSE span
    /\ UNCHANGED <<db, disk, pc, calls, local, doomed, stale, refs, old, failures>>

\* A crash of the process, a lost connection or a disk error ends a call at any
\* await; what it did so far stays done, and nothing is undone.
Fail(r) ==
    /\ pc[r] \notin {"idle", "done"}
    /\ failures < MaxFailures
    /\ failures' = failures + 1
    /\ Return(r)
    /\ UNCHANGED <<db, files, calls, sweep>>

\* An abort that throws is skipped, and the sweep goes on.
FailAbort ==
    /\ pc[Gc] \in AbortSteps
    /\ failures < MaxFailures
    /\ failures' = failures + 1
    /\ Return(Gc)
    /\ UNCHANGED <<db, files, calls, sweep>>

\* A blob that cannot be deleted is left for the next sweep.
FailDelete ==
    /\ pc[Gc] = "walk"
    /\ \E b \in Garbage : old' = old \ {b}
    /\ failures < MaxFailures
    /\ failures' = failures + 1
    /\ UNCHANGED <<db, files, pc, calls, local, doomed, stale, refs, span>>

FailSweep ==
    /\ pc[Gc] # "idle"
    /\ failures < MaxFailures
    /\ failures' = failures + 1
    /\ EndSweep
    /\ local' = [local EXCEPT ![Gc] = Nothing]
    /\ doomed' = [doomed EXCEPT ![Gc] = {}]
    /\ UNCHANGED <<db, files, op, number>>

-----------------------------------------------------------------------------

Serve(r) ==
    \/ Write(r) \/ Reject(r)
    \/ CommitVersion(r) \/ FindObject(r) \/ PurgeObject(r)
    \/ SelectVersion(r) \/ DropVersion(r)
    \/ SelectPreviousPart(r) \/ UpsertPart(r)
    \/ ReadPartsToComplete(r) \/ ConcatPart(r)

AbortOrFinish(p) ==
    \/ RequireUpload(p) \/ ReadPartsToAbort(p) \/ Retire(p) \/ DropParts(p)
    \/ Reap(p)

Collect ==
    \/ StartSweep \/ AbandonUpload
    \/ ReadVersionPaths \/ ReadPartPaths \/ Cutoff \/ CollectBlob \/ FinishSweep

Next ==
    \/ \E r \in Request :
          \/ StartPut(r) \/ StartDelete(r) \/ StartUploadCall(r)
          \/ CreateMultipartUpload(r)
          \/ Serve(r) \/ Fail(r)
    \/ \E p \in Proc : AbortOrFinish(p)
    \/ Collect \/ FailAbort \/ FailDelete \/ FailSweep
    \/ SetVersioning \/ Tick

Spec == Init /\ [][Next]_vars

(***************************************************************************)
(* Fairness: the event loop and the database serve every call that is in   *)
(* flight, the cron job fires again and again, and time passes however     *)
(* often it has to wait for a query (hence SF: sweep after sweep cannot    *)
(* stop the clock).  Nobody is obliged to make a call, and a failure is    *)
(* never obliged to happen.                                                *)
(***************************************************************************)
FairSpec ==
    /\ Spec
    /\ \A r \in Request : WF_vars(Serve(r) \/ AbortOrFinish(r))
    /\ WF_vars(Collect \/ AbortOrFinish(Gc))
    /\ SF_vars(Tick)

-----------------------------------------------------------------------------
(* Properties. *)

\* Blob deletion follows the metadata change: the blob of every version and
\* of every part that a row names is on the disk.
RowsHaveBlobs == Referenced \subseteq disk

\* An upload that is no longer in progress has no part rows, once nobody is
\* working on it: abortMultipartUpload is the path the collector takes so that
\* "the parts, their blobs and the status all move together".  A row left
\* behind would hold its blob for ever, as no later sweep takes that upload.
WorkingOn(p, u) ==
    uploadId[p] = u /\ (IF p = Gc THEN pc[p] \in AbortSteps ELSE pc[p] # "done")
RetiredUploadsHoldNoParts ==
    \A u \in Request :
        /\ upload[u] # None /\ ~InProgress(u)
        /\ \A p \in Proc : ~WorkingOn(p, u)
        => PartsOf(u) = {}

\* A version written under versioning goes only when a client names it: a plain
\* DeleteObject is a hard delete in an unversioned bucket only.
NamedToBeRemoved(g) ==
    \E r \in Request : op[r] = "deleteVersion" /\ local[r].row = g
VersionsGoByName ==
    [][\A g \in Rows : version'[g] = None /\ ~version[g].isNull
                          => NamedToBeRemoved(g)]_vars

\* A blob that no row names any more, or that never got a row, is collected.
Orphan(b) == b \in disk /\ b \notin Referenced /\ pc[b] \notin Pending
OrphansCollected == \A b \in Request : Orphan(b) ~> b \notin disk

\* An upload that nobody completes or aborts is aborted by the collector.
UploadsConclude == \A u \in Request : InProgress(u) ~> ~InProgress(u)

(***************************************************************************)
(* The refinement of BlobLedger.  A blob that a row names and the disk     *)
(* lacks would be "lost", a phase the ledger does not have.                *)
(***************************************************************************)
Phase ==
    LET named == Referenced
    IN  [b \in Request |->
           IF b \in named
           THEN IF b \in disk THEN "claimed" ELSE "lost"
           ELSE IF b \in disk
           THEN IF pc[b] \in Pending THEN "staged" ELSE "released"
           ELSE IF pc[b] \in Unwritten \/ op[b] \notin WriterOps
           THEN "unborn" ELSE "gone"]

Ledger == INSTANCE BlobLedger WITH Blob <- Request, phase <- Phase

\* Every blob lives the life BlobLedger allows: claimed once, erased only after
\* its last row is gone, never claimed again.
LedgerSpec == Ledger!LedgerSpec

=============================================================================
