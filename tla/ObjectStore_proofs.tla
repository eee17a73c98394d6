------------------------- MODULE ObjectStore_proofs -------------------------
(***************************************************************************)
(* Theorems about ObjectStore, for any number of calls, keys and parts.    *)
(***************************************************************************)
EXTENDS ObjectStore, TLAPS

\* Which operations get to which statement.
OpFits ==
    /\ \A r \in Request :
          /\ pc[r] = "write" => op[r] \in {"put", "uploadPart"}
          /\ pc[r] = "staged" => op[r] \in WriterOps
          /\ pc[r] = "upsertPart" => op[r] = "uploadPart"
          /\ pc[r] = "concat" => op[r] = "complete"
          /\ pc[r] = "find" => op[r] \in {"delete", "deleteVersion"}
          /\ pc[r] = "mark" => op[r] = "delete"
          /\ pc[r] = "requireUpload" => op[r] \in UploadOps
          /\ pc[r] \in {"readParts", "dropParts", "retire"}
                => op[r] \in {"complete", "abort"}
    /\ pc[Gc] \in AbortSteps => op[Gc] = "abort"

\* What a call needs to know at a statement, it knows.
KnowsTarget ==
    /\ \A r \in Request :
          /\ pc[r] \in {"find", "mark"} => local[r].key \in Key
          /\ pc[r] \in {"write", "staged"} /\ op[r] = "put" => local[r].key \in Key
          /\ pc[r] = "dropVersion" => local[r].row \in Request
          /\ op[r] = "uploadPart" => number[r] \in PartNumber
          /\ op[r] \in UploadOps => /\ uploadId[r] \in Request
                                    /\ upload[uploadId[r]] \in UploadRow
    /\ pc[Gc] \in AbortSteps => /\ uploadId[Gc] \in Request
                                /\ upload[uploadId[Gc]] \in UploadRow
    /\ \A u \in stale : upload[u] \in UploadRow

TypeInv == Domains /\ OpFits /\ KnowsTarget

\* An empty store is of its type.
LEMMA TypeInit == Init => TypeInv
<1> SUFFICES ASSUME Init PROVE TypeInv
  OBVIOUS
<1>1. Domains
  <2>1. /\ versioning \in Versioning /\ object \in [Key -> OrNone]
        /\ version \in [Request -> VersionRow \cup {None}]
        /\ upload \in [Request -> UploadRow \cup {None}]
        /\ part \in [Request -> [PartNumber -> OrNone]]
    BY DEF Init, Versioning, OrNone
  <2>2. /\ disk \subseteq Request /\ age \in [Request -> 0 .. MaxAge]
        /\ span \in 0 .. ReadDelay /\ failures \in 0 .. MaxFailures
    BY TimeAssumption, FailureAssumption DEF Init, MaxAge
  <2>3. /\ pc \in [Proc -> Label]
        /\ op \in [Proc -> AllOps \cup {None}]
        /\ uploadId \in [Proc -> OrNone]
        /\ number \in [Request -> PartNumber \cup {None}]
    BY DEF Init, Label, Unwritten, OrNone
  <2>4. Nothing \in Local
    BY DEF Nothing, Local, OrNone
  <2>5. /\ local \in [Proc -> Local] /\ doomed \in [Proc -> SUBSET Request]
        /\ stale \subseteq Request /\ refs \subseteq Request /\ old \subseteq Request
    BY <2>4 DEF Init
  <2> QED BY <2>1, <2>2, <2>3, <2>5 DEF Domains
<1>2. OpFits
  BY IdAssumption DEF Init, OpFits, Proc, AbortSteps, UploadOps, WriterOps
<1>3. KnowsTarget
  BY IdAssumption DEF Init, KnowsTarget, Proc, AbortSteps, AllOps, UploadOps, WriterOps
<1> QED BY <1>1, <1>2, <1>3 DEF TypeInv

\* What a call holds in memory stays a record of its kind.
LEMMA LocalFields ==
    /\ Nothing \in Local
    /\ \A l \in Local :
          /\ \A b \in OrNone : /\ [l EXCEPT !.found = b] \in Local
                               /\ [l EXCEPT !.row = b] \in Local
          /\ \A S \in SUBSET Request : /\ [l EXCEPT !.stored = S] \in Local
                                       /\ [l EXCEPT !.todo = S] \in Local
BY DEF Nothing, Local, OrNone

\* A field that is read back is the one that was written.
LEMMA LocalUpdates ==
  ASSUME NEW l \in Local, NEW b, NEW S, NEW T
  PROVE  /\ [l EXCEPT !.found = b].key = l.key
         /\ [l EXCEPT !.found = b].stored = l.stored
         /\ [l EXCEPT !.row = b].row = b
         /\ [l EXCEPT !.row = b].key = l.key
         /\ [l EXCEPT !.row = b].stored = l.stored
         /\ [l EXCEPT !.stored = S].stored = S
         /\ [l EXCEPT !.stored = S, !.todo = T].stored = S
         /\ [l EXCEPT !.todo = T].stored = l.stored
         /\ [l EXCEPT !.todo = T].row = l.row
BY DEF Local

\* Which moves between statements are of the right type.
LEMMA GotoType ==
  ASSUME Domains, NEW p \in Proc, NEW label \in Label, Goto(p, label)
  PROVE  pc' \in [Proc -> Label]
BY DEF Domains, Goto

\* A handler that returns, or the collector that comes to rest.
LEMMA ReturnType ==
  ASSUME Domains, NEW p \in Proc, Return(p)
  PROVE  /\ pc' \in [Proc -> Label]
         /\ local' \in [Proc -> Local]
         /\ doomed' \in [Proc -> SUBSET Request]
<1>1. End(p) \in Label
  BY DEF End, Label, Sweeping, Concluding
<1> QED BY <1>1, LocalFields DEF Domains, Return, Goto

\* storage.deleteMany: a handler goes on to remove files, or has none to remove.
LEMMA DeleteBlobsType ==
  ASSUME Domains, NEW p \in Proc, NEW S \in SUBSET Request, DeleteBlobs(p, S)
  PROVE  /\ pc' \in [Proc -> Label]
         /\ local' \in [Proc -> Local]
         /\ doomed' \in [Proc -> SUBSET Request]
<1>1. (IF S = {} THEN End(p) ELSE "reap") \in Label
  BY DEF End, Label, Sweeping, Concluding
<1> QED BY <1>1, LocalFields DEF Domains, DeleteBlobs, Goto


\* No handler takes a variable out of its type.
LEMMA DomainsStep ==
  ASSUME TypeInv, [Next]_vars
  PROVE  Domains'
<1> USE DEF TypeInv
<1>1. ASSUME NEW r \in Request, NEW o \in Ops[r], NEW k \in Key \cup {None},
             NEW u \in OrNone, NEW n \in PartNumber \cup {None},
             NEW label \in Label, Arrive(r, o, k, u, n, label)
      PROVE  Domains'
  <2>1. r \in Proc /\ o \in AllOps
    BY OpsAssumption DEF Proc
  <2>2. pc' \in [Proc -> Label]
    BY <1>1, <2>1, GotoType DEF Arrive
  <2>3. [Nothing EXCEPT !.key = k, !.versioning = versioning] \in Local
    BY DEF Nothing, Local, OrNone, Domains
  <2>4. local' \in [Proc -> Local]
    BY <1>1, <2>1, <2>3 DEF Arrive, Domains
  <2>5. /\ op' \in [Proc -> AllOps \cup {None}]
        /\ uploadId' \in [Proc -> OrNone]
        /\ number' \in [Request -> PartNumber \cup {None}]
    BY <1>1, <2>1 DEF Arrive, Domains
  <2> QED BY <1>1, <2>2, <2>4, <2>5 DEF Arrive, Domains, db, files, sweep
<1>2. ASSUME NEW r \in Request, StartPut(r) \/ StartDelete(r) \/ StartUploadCall(r)
      PROVE  Domains'
  <2>1. CASE StartPut(r)
    BY <2>1, <1>1 DEF StartPut, Arrive, OrNone, Label, Unwritten
  <2>2. CASE StartDelete(r)
    BY <2>2, <1>1 DEF StartDelete, Arrive, OrNone, Label, Deleting
  <2>3. CASE StartUploadCall(r)
    BY <2>3, <1>1 DEF StartUploadCall, Arrive, OrNone, Label, Unwritten
  <2> QED BY <1>2, <2>1, <2>2, <2>3
<1>3. ASSUME NEW r \in Request, CreateMultipartUpload(r) PROVE Domains'
  <2>1. r \in Proc /\ "done" \in Label /\ "createUpload" \in AllOps
    BY DEF Proc, Label, Concluding, AllOps
  <2>2. pc' \in [Proc -> Label]
    BY <1>3, <2>1, GotoType DEF CreateMultipartUpload
  <2>3. upload' \in [Request -> UploadRow \cup {None}]
    BY <1>3 DEF CreateMultipartUpload, Domains, UploadRow, Status
  <2>4. age' \in [Request -> 0 .. MaxAge] /\ op' \in [Proc -> AllOps \cup {None}]
    BY <1>3, <2>1, TimeAssumption DEF CreateMultipartUpload, Domains, MaxAge
  <2> QED BY <1>3, <2>2, <2>3, <2>4 DEF CreateMultipartUpload, Domains, sweep
<1>4. ASSUME NEW r \in Request, Write(r) PROVE Domains'
  <2>1. r \in Proc /\ "staged" \in Label
    BY DEF Proc, Label, Pending
  <2>2. pc' \in [Proc -> Label]
    BY <1>4, <2>1, GotoType DEF Write
  <2>3. age' \in [Request -> 0 .. MaxAge] /\ disk' \subseteq Request
    BY <1>4, TimeAssumption DEF Write, Domains, MaxAge
  <2> QED BY <1>4, <2>2, <2>3 DEF Write, Domains, Still, calls, sweep
<1>5. ASSUME NEW r \in Request, Reject(r) PROVE Domains'
  BY <1>5, ReturnType DEF Reject, Domains, Still, calls, sweep, Proc
<1>6. ASSUME NEW p \in Proc, Reap(p) PROVE Domains'
  <2>1. PICK b \in doomed[p] : /\ disk' = disk \ {b}
                               /\ DeleteBlobs(p, doomed[p] \ {b})
    BY <1>6 DEF Reap
  <2>2. doomed[p] \ {b} \subseteq Request
    BY DEF Domains
  <2> QED BY <1>6, <2>1, <2>2, DeleteBlobsType DEF Reap, Domains, Still, calls, sweep
<1>7. ASSUME NEW r \in Request, CommitVersion(r) PROVE Domains'
  <2> DEFINE k == IF op[r] = "complete" THEN upload[uploadId[r]].key ELSE local[r].key
             o == IF object[k] = None THEN r ELSE object[k]
             null == local[r].versioning # "enabled"
             replaced == Replaced(o, null)
             orphaned == replaced \cap VersionPaths
             row == [object |-> o, isNull |-> null, marker |-> op[r] = "delete"]
  <2>1. /\ r \in Proc /\ "retire" \in Label
        /\ orphaned \subseteq Request
    BY DEF Proc, Label, Concluding, Replaced, RowsOf, Rows
  <2>2. k \in Key
    BY <1>7 DEF CommitVersion, OpFits, KnowsTarget, WriterOps, UploadOps, UploadRow
  <2>3. /\ object' = [object EXCEPT ![k] = o]
        /\ version' = [g \in Request |-> IF g = r THEN row
                                         ELSE IF g \in replaced THEN None
                                         ELSE version[g]]
        /\ \/ DeleteBlobs(r, orphaned)
           \/ /\ doomed' = [doomed EXCEPT ![r] = orphaned]
              /\ Goto(r, "retire") /\ UNCHANGED local
        /\ UNCHANGED <<upload, part, files>> /\ Still
    BY <1>7 DEF CommitVersion
  <2>4. o \in Request
    BY <2>2 DEF Domains, OrNone
  <2> HIDE DEF k, o, null, replaced, orphaned
  <2>5. row \in VersionRow
    BY <2>4 DEF VersionRow, null
  <2>6. object' \in [Key -> OrNone] /\ version' \in [Request -> VersionRow \cup {None}]
    BY <2>3, <2>4, <2>5 DEF Domains, OrNone
  <2>7. /\ pc' \in [Proc -> Label] /\ local' \in [Proc -> Local]
        /\ doomed' \in [Proc -> SUBSET Request]
    <3>1. CASE DeleteBlobs(r, orphaned)
      BY <3>1, <2>1, DeleteBlobsType
    <3>2. CASE /\ doomed' = [doomed EXCEPT ![r] = orphaned]
               /\ Goto(r, "retire") /\ UNCHANGED local
      BY <3>2, <2>1, GotoType DEF Domains
    <3> QED BY <2>3, <3>1, <3>2
  <2> QED BY <2>3, <2>6, <2>7 DEF Domains, Still, files, calls, sweep
<1>8. ASSUME NEW r \in Request, FindObject(r) PROVE Domains'
  <2>1. CASE Return(r)
    BY <1>8, <2>1, ReturnType DEF FindObject, Domains, Still, files, calls, sweep, Proc
  <2>2. CASE ~Return(r)
    <3>1. PICK label \in {"selectVersion", "purge", "mark"} : Goto(r, label)
      BY <1>8, <2>2 DEF FindObject
    <3>2. object[local[r].key] \in OrNone
      BY <1>8, <2>2 DEF FindObject, KnowsTarget, Domains
    <3>3. /\ local' = [local EXCEPT ![r].found = object[local[r].key]]
          /\ UNCHANGED doomed
      BY <1>8, <2>2 DEF FindObject
    <3>4. local' \in [Proc -> Local]
      BY <3>2, <3>3, LocalFields DEF Domains, Proc
    <3>5. pc' \in [Proc -> Label]
      BY <3>1, GotoType DEF Label, Deleting, Proc
    <3> QED BY <1>8, <3>3, <3>4, <3>5
            DEF FindObject, Domains, Still, files, calls, sweep
  <2> QED BY <2>1, <2>2
<1>9. ASSUME NEW o, NEW S, DropRows(o, S)
      PROVE  /\ version' \in [Request -> VersionRow \cup {None}]
             /\ object' \in [Key -> OrNone]
  BY <1>9 DEF DropRows, Domains, OrNone
<1>10. ASSUME NEW r \in Request, PurgeObject(r) PROVE Domains'
  <2>1. RowsOf(local[r].found) \cap VersionPaths \subseteq Request /\ r \in Proc
    BY DEF RowsOf, Rows, Proc
  <2> QED BY <1>10, <1>9, <2>1, DeleteBlobsType
          DEF PurgeObject, Domains, Still, files, calls, sweep
<1>11. ASSUME NEW r \in Request, SelectVersion(r) PROVE Domains'
  <2>1. CASE Return(r)
    BY <1>11, <2>1, ReturnType DEF SelectVersion, Domains, Still, files, calls, sweep, Proc
  <2>2. CASE ~Return(r)
    <3>1. PICK g \in RowsOf(local[r].found) : local' = [local EXCEPT ![r].row = g]
      BY <1>11, <2>2 DEF SelectVersion
    <3>2. g \in OrNone
      BY DEF RowsOf, Rows, OrNone
    <3>3. local' \in [Proc -> Local]
      BY <3>1, <3>2, LocalFields DEF Domains, Proc
    <3>4. pc' \in [Proc -> Label]
      BY <1>11, <2>2, GotoType DEF SelectVersion, Label, Deleting, Proc
    <3> QED BY <1>11, <2>2, <3>3, <3>4
            DEF SelectVersion, Domains, Still, files, calls, sweep
  <2> QED BY <2>1, <2>2
<1>12. ASSUME NEW r \in Request, DropVersion(r) PROVE Domains'
  <2>1. r \in Proc /\ local[r].row \in Request
    BY <1>12 DEF DropVersion, KnowsTarget, Proc
  <2>2. (IF op[local[r].row] = "delete" THEN {} ELSE {local[r].row}) \subseteq Request
    BY <2>1
  <2> QED BY <1>12, <1>9, <2>1, <2>2, DeleteBlobsType
          DEF DropVersion, Domains, Still, files, calls, sweep
<1>13. ASSUME NEW p \in Proc, RequireUpload(p) PROVE Domains'
  <2>1. CASE Return(p)
    BY <1>13, <2>1, ReturnType DEF RequireUpload, Domains, Still, files, calls, sweep
  <2>2. CASE ~Return(p)
    <3>1. "write" \in Label /\ "readParts" \in Label
      BY DEF Label, Unwritten
    <3>2. pc' \in [Proc -> Label]
      BY <1>13, <2>2, <3>1, GotoType DEF RequireUpload
    <3> QED BY <1>13, <2>2, <3>2 DEF RequireUpload, Domains, Still, files, calls, sweep
  <2> QED BY <2>1, <2>2
<1>14. ASSUME NEW p \in Proc, uploadId[p] \in Request PROVE PartsOf(uploadId[p]) \subseteq Request
  BY <1>14 DEF PartsOf, Domains, OrNone
<1>15. ASSUME NEW r \in Request, SelectPreviousPart(r) PROVE Domains'
  <2>1. /\ r \in Proc /\ "upsertPart" \in Label
        /\ part[uploadId[r]][number[r]] \in OrNone
    BY <1>15 DEF SelectPreviousPart, KnowsTarget, UploadOps, Domains, Proc, Label, Pending
  <2>2. local' \in [Proc -> Local]
    BY <1>15, <2>1, LocalFields DEF SelectPreviousPart, Domains
  <2>3. pc' \in [Proc -> Label]
    BY <1>15, <2>1, GotoType DEF SelectPreviousPart
  <2> QED BY <1>15, <2>2, <2>3 DEF SelectPreviousPart, Domains, Still, files, calls, sweep
<1>16. ASSUME NEW r \in Request, UpsertPart(r) PROVE Domains'
  <2>1. r \in Proc /\ {local[r].row} \ {None} \subseteq Request
    BY DEF Domains, Proc, Local, OrNone
  <2>2. part' \in [Request -> [PartNumber -> OrNone]]
    BY <1>16 DEF UpsertPart, Domains, OrNone
  <2> QED BY <1>16, <2>1, <2>2, DeleteBlobsType
          DEF UpsertPart, Domains, Still, files, calls, sweep
<1>17. ASSUME NEW p \in Proc, pc[p] \in {"readParts", "retire", "dropParts"}
       PROVE  uploadId[p] \in Request /\ upload[uploadId[p]] \in UploadRow
  BY <1>17 DEF OpFits, KnowsTarget, Proc, UploadOps, AbortSteps
<1>18. ASSUME NEW p \in Proc, ReadPartsToAbort(p) PROVE Domains'
  <2>1. "dropParts" \in Label /\ PartsOf(uploadId[p]) \in SUBSET Request
    BY <1>18, <1>14, <1>17 DEF ReadPartsToAbort, Label, Concluding
  <2>2. local' \in [Proc -> Local]
    BY <1>18, <2>1, LocalFields DEF ReadPartsToAbort, Domains
  <2>3. pc' \in [Proc -> Label]
    BY <1>18, <2>1, GotoType DEF ReadPartsToAbort
  <2> QED BY <1>18, <2>2, <2>3 DEF ReadPartsToAbort, Domains, Still, files, calls, sweep
<1>19. ASSUME NEW r \in Request, ReadPartsToComplete(r) PROVE Domains'
  <2>1. r \in Proc
    BY DEF Proc
  <2>2. CASE Return(r) /\ UNCHANGED files
    BY <1>19, <2>1, <2>2, ReturnType
       DEF ReadPartsToComplete, Domains, Still, files, calls, sweep
  <2>3. CASE ~(Return(r) /\ UNCHANGED files)
    <3>1. PICK S \in SUBSET PartsOf(uploadId[r]) \ {{}} :
             local' = [local EXCEPT ![r].stored = PartsOf(uploadId[r]), ![r].todo = S]
      BY <1>19, <2>3 DEF ReadPartsToComplete
    <3>2. PartsOf(uploadId[r]) \in SUBSET Request /\ S \in SUBSET Request
      BY <1>19, <2>1, <1>14, <1>17 DEF ReadPartsToComplete
    <3>3. [local[r] EXCEPT !.stored = PartsOf(uploadId[r]), !.todo = S] \in Local
      BY <3>2, <2>1, LocalFields DEF Domains
    <3>4. local' \in [Proc -> Local]
      BY <3>1, <3>3, <2>1 DEF Domains
    <3>5. pc' \in [Proc -> Label]
      BY <1>19, <2>1, <2>3, GotoType DEF ReadPartsToComplete, Label, Pending
    <3>6. disk' \subseteq Request /\ age' \in [Request -> 0 .. MaxAge]
      <4>1. disk' = disk \cup {r} /\ age' = [age EXCEPT ![r] = 0]
        BY <1>19, <2>3 DEF ReadPartsToComplete
      <4> QED BY <4>1, TimeAssumption DEF Domains, MaxAge
    <3> QED BY <1>19, <2>3, <3>4, <3>5, <3>6
            DEF ReadPartsToComplete, Domains, Still, calls, sweep
  <2> QED BY <2>2, <2>3
<1>20. ASSUME NEW r \in Request, ConcatPart(r) PROVE Domains'
  <2>1. r \in Proc
    BY DEF Proc
  <2>2. CASE Return(r)
    BY <1>20, <2>1, <2>2, ReturnType, TimeAssumption
       DEF ConcatPart, Domains, Still, calls, sweep, MaxAge
  <2>3. CASE ~Return(r)
    <3>1. PICK b \in local[r].todo :
             /\ local' = [local EXCEPT ![r].todo = local[r].todo \ {b}]
             /\ age' = [age EXCEPT ![r] = 0]
             /\ Goto(r, IF local[r].todo = {b} THEN "staged" ELSE "concat")
             /\ UNCHANGED <<disk, doomed>>
      BY <1>20, <2>3 DEF ConcatPart
    <3>2. local[r] \in Local
      BY <2>1 DEF Domains
    <3>3. local[r].todo \ {b} \in SUBSET Request
      BY <3>2 DEF Local
    <3>4. local' \in [Proc -> Local]
      BY <3>1, <3>2, <3>3, <2>1, LocalFields DEF Domains
    <3>5. "staged" \in Label /\ "concat" \in Label
      BY DEF Label, Pending
    <3>6. pc' \in [Proc -> Label]
      BY <3>1, <3>5, <2>1, GotoType
    <3>7. age' \in [Request -> 0 .. MaxAge]
      BY <3>1, TimeAssumption DEF Domains, MaxAge
    <3> QED BY <1>20, <3>1, <3>4, <3>6, <3>7 DEF ConcatPart, Domains, Still, calls, sweep
  <2> QED BY <2>2, <2>3
<1>21. ASSUME NEW p \in Proc, Retire(p) PROVE Domains'
  <2>1. uploadId[p] \in Request /\ upload[uploadId[p]] \in UploadRow
    BY <1>21, <1>17 DEF Retire
  <2>2. upload' \in [Request -> UploadRow \cup {None}]
    <3> DEFINE s == IF op[p] = "complete" THEN "completed" ELSE "aborted"
    <3>1. [upload[uploadId[p]] EXCEPT !.status = s] \in UploadRow
      BY <2>1 DEF UploadRow, Status
    <3>2. upload' = [upload EXCEPT ![uploadId[p]].status = s]
      BY <1>21 DEF Retire
    <3> QED BY <2>1, <3>1, <3>2 DEF Domains
  <2>3. CASE Goto(p, "dropParts") /\ UNCHANGED <<local, doomed>>
    <3>1. pc' \in [Proc -> Label]
      BY <2>3, GotoType DEF Label, Concluding
    <3> QED BY <1>21, <2>2, <2>3, <3>1 DEF Retire, Domains, Still, files, calls, sweep
  <2>4. CASE DeleteBlobs(p, local[p].stored)
    <3>1. local[p].stored \in SUBSET Request
      BY DEF Domains, Local
    <3> QED BY <1>21, <2>2, <2>4, <3>1, DeleteBlobsType
            DEF Retire, Domains, Still, files, calls, sweep
  <2> QED BY <1>21, <2>3, <2>4 DEF Retire
<1>22. ASSUME NEW p \in Proc, DropParts(p) PROVE Domains'
  <2>1. part' \in [Request -> [PartNumber -> OrNone]]
    BY <1>22 DEF DropParts, Domains, OrNone
  <2>2. CASE Goto(p, "retire") /\ UNCHANGED <<local, doomed>>
    <3>1. pc' \in [Proc -> Label]
      BY <2>2, GotoType DEF Label, Concluding
    <3> QED BY <1>22, <2>1, <2>2, <3>1 DEF DropParts, Domains, Still, files, calls, sweep
  <2>3. CASE DeleteBlobs(p, local[p].stored \cup doomed[p])
    <3>1. local[p].stored \cup doomed[p] \in SUBSET Request
      BY DEF Domains, Local
    <3> QED BY <1>22, <2>1, <2>3, <3>1, DeleteBlobsType
            DEF DropParts, Domains, Still, files, calls, sweep
  <2> QED BY <1>22, <2>2, <2>3 DEF DropParts
<1>23. Gc \in Proc /\ \A label \in Sweeping : label \in Label
  BY DEF Proc, Label
<1>24. CASE Collect
  <2>1. ASSUME NEW label \in Sweeping \cup {"requireUpload"}, Goto(Gc, label)
        PROVE  pc' \in [Proc -> Label]
    BY <2>1, <1>23, GotoType DEF Label, Unwritten
  <2>2. CASE StartSweep
    BY <2>1, <2>2 DEF StartSweep, Domains, StillGc, db, Sweeping
  <2>3. CASE AbandonUpload
    <3>1. op' \in [Proc -> AllOps \cup {None}] /\ uploadId' \in [Proc -> OrNone]
      BY <2>3, <1>23 DEF AbandonUpload, Domains, AllOps, UploadOps, OrNone
    <3>2. pc' \in [Proc -> Label]
      BY <2>1, <2>3 DEF AbandonUpload
    <3> QED BY <2>3, <3>1, <3>2 DEF AbandonUpload, Domains, StillGc, db
  <2>4. CASE ReadVersionPaths
    BY <2>1, <2>4 DEF ReadVersionPaths, Domains, StillGc, db, Sweeping, VersionPaths, Rows
  <2>5. CASE ReadPartPaths
    <3>1. PartPaths \subseteq Request
      BY DEF PartPaths, PartsOf, Domains, OrNone
    <3> QED BY <2>1, <2>5, <3>1 DEF ReadPartPaths, Domains, StillGc, db, Sweeping
  <2>6. CASE Cutoff
    BY <2>1, <2>6, TimeAssumption DEF Cutoff, Domains, StillGc, db, Sweeping
  <2>7. CASE CollectBlob
    BY <2>7 DEF CollectBlob, Domains, StillGc, db, sweep
  <2>8. CASE FinishSweep
    <3>1. pc' \in [Proc -> Label] /\ uploadId' \in [Proc -> OrNone]
      BY <2>1, <2>8, <1>23 DEF FinishSweep, EndSweep, Domains, Sweeping, OrNone
    <3> QED BY <2>8, <3>1, TimeAssumption DEF FinishSweep, EndSweep, Domains, StillGc, db
  <2> QED BY <1>24, <2>2, <2>3, <2>4, <2>5, <2>6, <2>7, <2>8 DEF Collect
<1>25. CASE SetVersioning
  BY <1>25, SettingsAssumption
     DEF SetVersioning, Domains, Versioning, files, calls, sweep
<1>26. CASE Tick
  <2>1. age' \in [Request -> 0 .. MaxAge]
    <3>1. \A r \in Request : Older(age[r]) \in 0 .. MaxAge
      BY TimeAssumption DEF Domains, Older, MaxAge
    <3>2. 0 \in 0 .. MaxAge
      BY TimeAssumption DEF MaxAge
    <3> QED BY <1>26, <3>1, <3>2 DEF Tick
  <2>2. span' \in 0 .. ReadDelay
    BY <1>26, TimeAssumption DEF Tick, Domains
  <2> QED BY <1>26, <2>1, <2>2 DEF Tick, Domains, db, calls
<1>27. failures < MaxFailures => failures + 1 \in 0 .. MaxFailures
  BY FailureAssumption DEF Domains
<1>28. ASSUME NEW r \in Request, Fail(r) PROVE Domains'
  BY <1>28, <1>27, ReturnType DEF Fail, Domains, db, files, calls, sweep, Proc
<1>29. CASE FailAbort
  BY <1>29, <1>23, <1>27, ReturnType DEF FailAbort, Domains, db, files, calls, sweep
<1>30. CASE FailSweep
  <2>1. pc' \in [Proc -> Label] /\ uploadId' \in [Proc -> OrNone]
    BY <1>30, <1>23 DEF FailSweep, EndSweep, Goto, Domains, Sweeping, OrNone
  <2>2. local' \in [Proc -> Local] /\ doomed' \in [Proc -> SUBSET Request]
    BY <1>30, <1>23, LocalFields DEF FailSweep, Domains
  <2> QED BY <1>30, <1>27, <2>1, <2>2, TimeAssumption
          DEF FailSweep, EndSweep, Domains, db, files
<1>31. CASE UNCHANGED vars
  BY <1>31 DEF vars, Domains, db, files, calls, sweep
<1>32. ASSUME NEW r \in Request, Serve(r) PROVE Domains'
  BY <1>32, <1>4, <1>5, <1>7, <1>8, <1>10, <1>11, <1>12, <1>15, <1>16, <1>19, <1>20
     DEF Serve
<1>33. ASSUME NEW p \in Proc, AbortOrFinish(p) PROVE Domains'
  BY <1>33, <1>6, <1>13, <1>18, <1>21, <1>22 DEF AbortOrFinish
<1>34. CASE FailDelete
  BY <1>34, <1>27 DEF FailDelete, Domains, db, files, calls
<1> QED BY <1>2, <1>3, <1>24, <1>25, <1>26, <1>28, <1>29, <1>30, <1>31, <1>32, <1>33, <1>34
        DEF Next

\* A handler only reaches the labels of its own operation.
LEMMA OpFitsStep ==
  ASSUME TypeInv, [Next]_vars
  PROVE  OpFits'
<1> USE IdAssumption DEF TypeInv, Domains, Proc, Goto, Return, DeleteBlobs, End
<1>1. ASSUME NEW r \in Request, NEW k, NEW u, NEW n,
             \/ \E o \in {"put"} : Arrive(r, o, k, u, n, "write")
             \/ \E o \in {"delete", "deleteVersion"} : Arrive(r, o, k, u, n, "find")
             \/ \E o \in UploadOps : Arrive(r, o, k, u, n, "requireUpload")
      PROVE  OpFits'
  <2>1. CASE \E o \in {"put"} : Arrive(r, o, k, u, n, "write")
    BY <2>1 DEF OpFits, Arrive, AbortSteps
  <2>2. CASE \E o \in {"delete", "deleteVersion"} : Arrive(r, o, k, u, n, "find")
    BY <2>2 DEF OpFits, Arrive, AbortSteps
  <2>3. CASE \E o \in UploadOps : Arrive(r, o, k, u, n, "requireUpload")
    BY <2>3 DEF OpFits, Arrive, AbortSteps, UploadOps
  <2> QED BY <1>1, <2>1, <2>2, <2>3
<1>2. ASSUME NEW r \in Request, StartPut(r) \/ StartDelete(r) \/ StartUploadCall(r)
      PROVE  OpFits'
  BY <1>1, <1>2 DEF StartPut, StartDelete, StartUploadCall, UploadOps
<1>3. ASSUME NEW r \in Request, CreateMultipartUpload(r) PROVE OpFits'
  BY <1>3 DEF OpFits, CreateMultipartUpload, AbortSteps
<1>4. ASSUME NEW r \in Request, Serve(r) PROVE OpFits'
  <2> USE DEF OpFits, AbortSteps, Still, calls
  <2>1. CASE Write(r)
    BY <2>1 DEF Write, WriterOps
  <2>2. CASE Reject(r)
    BY <2>2 DEF Reject
  <2>3. CASE CommitVersion(r)
    BY <2>3 DEF CommitVersion
  <2>4. CASE FindObject(r)
    BY <2>4 DEF FindObject
  <2>5. CASE PurgeObject(r)
    BY <2>5 DEF PurgeObject
  <2>6. CASE SelectVersion(r)
    BY <2>6 DEF SelectVersion
  <2>7. CASE DropVersion(r)
    BY <2>7 DEF DropVersion
  <2>8. CASE SelectPreviousPart(r)
    BY <2>8 DEF SelectPreviousPart
  <2>9. CASE UpsertPart(r)
    BY <2>9 DEF UpsertPart
  <2>10. CASE ReadPartsToComplete(r)
    BY <2>10 DEF ReadPartsToComplete
  <2>11. CASE ConcatPart(r)
    BY <2>11 DEF ConcatPart, WriterOps
  <2> QED BY <1>4, <2>1, <2>2, <2>3, <2>4, <2>5, <2>6, <2>7, <2>8, <2>9, <2>10, <2>11
          DEF Serve
<1>5. ASSUME NEW p \in Proc, AbortOrFinish(p) PROVE OpFits'
  <2> USE DEF OpFits, AbortSteps, Still, calls
  <2>1. CASE Reap(p)
    BY <2>1 DEF Reap
  <2>2. CASE RequireUpload(p)
    BY <2>2 DEF RequireUpload, UploadOps
  <2>3. CASE ReadPartsToAbort(p)
    BY <2>3 DEF ReadPartsToAbort
  <2>4. CASE Retire(p)
    BY <2>4 DEF Retire
  <2>5. CASE DropParts(p)
    BY <2>5 DEF DropParts
  <2> QED BY <1>5, <2>1, <2>2, <2>3, <2>4, <2>5 DEF AbortOrFinish
<1>6. CASE Collect
  BY <1>6 DEF Collect, StartSweep, AbandonUpload, ReadVersionPaths, ReadPartPaths,
              Cutoff, CollectBlob, FinishSweep, EndSweep, OpFits, AbortSteps
<1>7. CASE SetVersioning \/ Tick \/ UNCHANGED vars
  BY <1>7 DEF SetVersioning, Tick, vars, calls, OpFits
<1>8. ASSUME NEW r \in Request, Fail(r) PROVE OpFits'
  BY <1>8 DEF Fail, calls, OpFits, AbortSteps
<1>9. CASE FailAbort \/ FailDelete \/ FailSweep
  BY <1>9 DEF FailAbort, FailDelete, FailSweep, EndSweep, calls, OpFits, AbortSteps
<1> QED BY <1>2, <1>3, <1>4, <1>5, <1>6, <1>7, <1>8, <1>9 DEF Next

\* A handler on an upload goes on knowing the upload and the part.
LEMMA KnowsTargetStep ==
  ASSUME TypeInv, [Next]_vars
  PROVE  KnowsTarget'
<1> USE IdAssumption DEF TypeInv, Domains, Proc, Goto, Return, DeleteBlobs, End
<1>1. ASSUME NEW r \in Request, StartPut(r) \/ StartDelete(r)
      PROVE  KnowsTarget'
  <2>1. PICK k \in Key, o \in {"put", "delete", "deleteVersion"},
             label \in {"write", "find"} : Arrive(r, o, k, None, None, label)
    BY <1>1 DEF StartPut, StartDelete
  <2> QED BY <2>1 DEF KnowsTarget, Arrive, AbortSteps, UploadOps, db, sweep, Nothing
<1>2. ASSUME NEW r \in Request, StartUploadCall(r) PROVE KnowsTarget'
  <2>1. PICK u \in Request, o \in UploadOps, n \in PartNumber \cup {None} :
             /\ upload[u] # None
             /\ o = "uploadPart" => n \in PartNumber
             /\ Arrive(r, o, None, u, n, "requireUpload")
    BY <1>2 DEF StartUploadCall, UploadOps
  <2> QED BY <2>1 DEF KnowsTarget, Arrive, AbortSteps, UploadOps, db, sweep, Nothing
<1>3. ASSUME NEW r \in Request, CreateMultipartUpload(r) PROVE KnowsTarget'
  BY <1>3 DEF KnowsTarget, CreateMultipartUpload, AbortSteps, UploadOps, UploadRow,
              Status, sweep
<1>4. ASSUME NEW r \in Request, Serve(r) PROVE KnowsTarget'
  <2> USE DEF KnowsTarget, AbortSteps, UploadOps, Still, calls, sweep
  <2>1. CASE Write(r)
    BY <2>1 DEF Write
  <2>2. CASE Reject(r)
    BY <2>2 DEF Reject
  <2>3. CASE CommitVersion(r)
    <3>1. UNCHANGED <<op, uploadId, number, upload, stale>>
      BY <2>3 DEF CommitVersion
    <3>2. r # Gc /\ \E orphaned : \/ Goto(r, "retire") /\ UNCHANGED local
                               \/ DeleteBlobs(r, orphaned)
      <4>1. r # Gc
        OBVIOUS
      <4> DEFINE k == IF op[r] = "complete" THEN upload[uploadId[r]].key ELSE local[r].key
                 o == IF object[k] = None THEN r ELSE object[k]
                 orphaned == Replaced(o, local[r].versioning # "enabled") \cap VersionPaths
      <4>2. \/ Goto(r, "retire") /\ UNCHANGED local
            \/ DeleteBlobs(r, orphaned)
        BY <2>3, Zenon DEF CommitVersion
      <4> HIDE DEF orphaned
      <4> QED BY <4>1, <4>2
    <3>3. /\ \A q \in Proc : q # r => pc'[q] = pc[q] /\ local'[q] = local[q]
          /\ pc'[r] \notin {"find", "mark", "write", "staged", "dropVersion"}
      BY <3>2
    <3>4. /\ \A q \in Request \ {r} : q \in Proc /\ pc'[q] = pc[q] /\ local'[q] = local[q]
          /\ Gc \in Proc /\ pc'[Gc] = pc[Gc]
      BY <3>2, <3>3
    <3> HIDE <2>3, <1>4
    <3> QED BY <3>1, <3>3, <3>4
  <2>4. CASE FindObject(r)
    <3>1. CASE Return(r)
      BY <2>4, <3>1 DEF FindObject
    <3>2. CASE ~Return(r)
      <4>1. /\ pc' = [pc EXCEPT ![r] = pc'[r]]
            /\ pc'[r] \in {"selectVersion", "purge", "mark"}
            /\ local' = [local EXCEPT ![r].found = object[local[r].key]]
            /\ pc[r] = "find"
        BY <2>4, <3>2 DEF FindObject
      <4>2. local'[r].key = local[r].key
        BY <4>1, LocalUpdates
      <4> QED BY <2>4, <4>1, <4>2 DEF FindObject
    <3> QED BY <3>1, <3>2
  <2>5. CASE PurgeObject(r)
    BY <2>5 DEF PurgeObject
  <2>6. CASE SelectVersion(r)
    <3>1. CASE Return(r)
      BY <2>6, <3>1 DEF SelectVersion
    <3>2. CASE ~Return(r)
      <4>1. PICK g \in RowsOf(local[r].found) : local' = [local EXCEPT ![r].row = g]
        BY <2>6, <3>2 DEF SelectVersion
      <4>2. local'[r].row = g /\ g \in Request
        BY <4>1, LocalUpdates DEF RowsOf, Rows
      <4> QED BY <2>6, <3>2, <4>1, <4>2 DEF SelectVersion
    <3> QED BY <3>1, <3>2
  <2>7. CASE DropVersion(r)
    BY <2>7 DEF DropVersion
  <2>8. CASE SelectPreviousPart(r)
    BY <2>8 DEF SelectPreviousPart
  <2>9. CASE UpsertPart(r)
    BY <2>9 DEF UpsertPart
  <2>10. CASE ReadPartsToComplete(r)
    BY <2>10, ZenonT(60) DEF ReadPartsToComplete
  <2>11. CASE ConcatPart(r)
    <3>1. op[r] = "complete" /\ r \in Request /\ r # Gc
      BY <2>11 DEF ConcatPart, OpFits
    <3>2. UNCHANGED <<op, uploadId, number, upload, stale>>
      BY <2>11 DEF ConcatPart
    <3>3. /\ \A q \in Proc : q # r => pc'[q] = pc[q] /\ local'[q] = local[q]
          /\ pc'[r] \notin {"find", "mark", "dropVersion"}
      BY <2>11 DEF ConcatPart
    <3>4. /\ \A q \in Request \ {r} : q \in Proc /\ pc'[q] = pc[q] /\ local'[q] = local[q]
          /\ Gc \in Proc /\ pc'[Gc] = pc[Gc]
      BY <3>1, <3>3
    <3> HIDE <2>11, <1>4
    <3> QED BY <3>1, <3>2, <3>3, <3>4
  <2> QED BY <1>4, <2>1, <2>2, <2>3, <2>4, <2>5, <2>6, <2>7, <2>8, <2>9, <2>10, <2>11
          DEF Serve
<1>5. ASSUME NEW p \in Proc, AbortOrFinish(p) PROVE KnowsTarget'
  <2> USE DEF KnowsTarget, AbortSteps, UploadOps, Still, calls, sweep
  <2>1. CASE Reap(p)
    BY <2>1 DEF Reap
  <2>2. CASE RequireUpload(p)
    BY <2>2 DEF RequireUpload, OpFits
  <2>3. CASE ReadPartsToAbort(p)
    BY <2>3 DEF ReadPartsToAbort
  <2>4. CASE Retire(p)
    <3> DEFINE s == IF op[p] = "complete" THEN "completed" ELSE "aborted"
    <3>1. uploadId[p] \in Request /\ upload[uploadId[p]] \in UploadRow
      BY <2>4 DEF Retire, OpFits
    <3>2. [upload[uploadId[p]] EXCEPT !.status = s] \in UploadRow
      BY <3>1 DEF UploadRow, Status
    <3>3. upload' = [upload EXCEPT ![uploadId[p]].status = s]
      BY <2>4 DEF Retire
    <3>4. \A u \in Request : upload[u] \in UploadRow => upload'[u] \in UploadRow
      BY <3>1, <3>2, <3>3
    <3> QED BY <2>4, <3>4, ZenonT(60) DEF Retire
  <2>5. CASE DropParts(p)
    BY <2>5, SMTT(60) DEF DropParts
  <2> QED BY <1>5, <2>1, <2>2, <2>3, <2>4, <2>5 DEF AbortOrFinish
<1>6. CASE Collect
  <2> USE DEF KnowsTarget, AbortSteps, UploadOps, StillGc, db
  <2>1. CASE StartSweep \/ AbandonUpload
    BY <2>1 DEF StartSweep, AbandonUpload, InProgress
  <2>2. CASE ReadVersionPaths \/ ReadPartPaths \/ Cutoff \/ CollectBlob
    BY <2>2 DEF ReadVersionPaths, ReadPartPaths, Cutoff, CollectBlob, sweep
  <2>3. CASE FinishSweep
    BY <2>3 DEF FinishSweep, EndSweep
  <2> QED BY <1>6, <2>1, <2>2, <2>3 DEF Collect
<1>7. CASE SetVersioning \/ Tick \/ UNCHANGED vars
  BY <1>7 DEF SetVersioning, Tick, vars, db, calls, sweep, KnowsTarget
<1>8. ASSUME NEW r \in Request, Fail(r) PROVE KnowsTarget'
  BY <1>8 DEF Fail, db, calls, sweep, KnowsTarget, AbortSteps
<1>9. CASE FailAbort \/ FailDelete
  BY <1>9 DEF FailAbort, FailDelete, db, calls, sweep, KnowsTarget, AbortSteps
<1>10. CASE FailSweep
  BY <1>10 DEF FailSweep, EndSweep, db, KnowsTarget, AbortSteps, UploadOps
<1> QED BY <1>1, <1>2, <1>3, <1>4, <1>5, <1>6, <1>7, <1>8, <1>9, <1>10 DEF Next

\* The three together, for good.
LEMMA TypeInvariant == Spec => []TypeInv
<1>1. TypeInv /\ [Next]_vars => TypeInv'
  BY DomainsStep, OpFitsStep, KnowsTargetStep DEF TypeInv
<1> QED BY TypeInit, <1>1, PTL DEF Spec

-----------------------------------------------------------------------------
(***************************************************************************)
(* Blob safety.  A blob's call is Open until the row that names the blob   *)
(* is committed or the call ends; a blob is Dead when its call is not Open *)
(* and no row names it.  Dead blobs stay dead, and only dead blobs and a   *)
(* call's own uncommitted blob are ever removed.                           *)
(***************************************************************************)
Open(b) == pc[b] \in Unwritten \cup Pending
Dead(b) == b \notin Referenced /\ ~Open(b)

\* A blob has one place it may be named from, settled by the call that wrote it.
Slot(b, u, n) ==
    ~Open(b) /\ op[b] = "uploadPart" /\ uploadId[b] = u /\ number[b] = n
PlacesAreOwn ==
    /\ \A b \in Rows : /\ ~Open(b) /\ op[b] \in {"put", "complete", "delete"}
                       /\ version[b].marker = (op[b] = "delete")
    /\ \A b, u \in Request, n \in PartNumber :
          part[u][n] = b => Slot(b, u, n)

OpenBlobsOnDisk ==
    \A r \in Request :
       /\ pc[r] \in Unwritten => r \notin disk
       /\ pc[r] \in Pending => r \in disk /\ age[r] <= CommitDelay

\* What calls remember about blobs: the version about to be dropped, the part
\* about to be replaced, and the parts that a complete or an abort has read.
RemembersRow(r) ==
    /\ pc[r] = "dropVersion" => /\ ~Open(local[r].row)
                               /\ op[local[r].row] \in {"put", "complete", "delete"}
    /\ pc[r] = "upsertPart" /\ local[r].row # None
          => Slot(local[r].row, uploadId[r], number[r])
RemembersParts(p) ==
    \A b \in local[p].stored :
       /\ pc[p] \in {"concat", "staged", "retire", "dropParts"}
             /\ op[p] \in {"complete", "abort"}
             => ~Open(b) /\ op[b] = "uploadPart" /\ uploadId[b] = uploadId[p]
       /\ pc[p] = "retire" /\ op[p] = "abort" => Dead(b)
Remembered ==
    /\ \A r \in Request : RemembersRow(r)
    /\ \A p \in Proc : RemembersParts(p)

\* What calls are about to erase was written, and nothing names it any more.
Erasable(b) == Dead(b) /\ op[b] \in WriterOps
DoomedAreDead == \A p \in Proc : \A b \in doomed[p] : Erasable(b)

\* A blob that the collector has not seen referenced is dead, or it was still
\* on its way to a row when the references were read, and is young.
Young(b) == age[b] <= CommitDelay + span
CollectorIsSafe ==
    /\ pc[Gc] = "readPartPaths"
          => \A b \in disk \ refs : Dead(b) \/ Young(b) \/ b \in PartPaths
    /\ pc[Gc] = "cutoff" => \A b \in disk \ refs : Dead(b) \/ Young(b)
    /\ pc[Gc] = "walk" => \A b \in old \ refs : Dead(b)

SafetyInv ==
    /\ TypeInv
    /\ RowsHaveBlobs
    /\ PlacesAreOwn
    /\ OpenBlobsOnDisk
    /\ Remembered
    /\ DoomedAreDead
    /\ CollectorIsSafe

\* An empty store refers to no file.
LEMMA SafetyInit == Init => SafetyInv
<1> SUFFICES ASSUME Init PROVE SafetyInv
  OBVIOUS
<1>1. TypeInv
  BY TypeInit
<1>2. Referenced = {}
  BY DEF Init, Referenced, VersionPaths, Rows, PartPaths, PartsOf
<1>3. RowsHaveBlobs /\ DoomedAreDead
  BY <1>2 DEF Init, RowsHaveBlobs, DoomedAreDead
<1>4. PlacesAreOwn
  BY IdAssumption DEF Init, PlacesAreOwn, VersionPaths, Rows
<1>5. OpenBlobsOnDisk /\ CollectorIsSafe
  BY DEF Init, OpenBlobsOnDisk, CollectorIsSafe, Pending, Proc
<1>6. Remembered
  BY DEF Init, Remembered, RemembersRow, RemembersParts, Proc, Nothing
<1> QED BY <1>1, <1>3, <1>4, <1>5, <1>6 DEF SafetyInv

\* A call that has ended or committed is not reopened, and is about what it was.
LEMMA CallsFrame ==
  ASSUME TypeInv, [Next]_vars, NEW b \in Request
  PROVE  /\ Open(b)' => Open(b)
         /\ pc'[b] \in Unwritten => pc[b] \in Unwritten
         /\ pc[b] # "idle" => /\ op'[b] = op[b]
                              /\ uploadId'[b] = uploadId[b]
                              /\ number'[b] = number[b]
<1> USE IdAssumption DEF TypeInv, Domains, Proc, Goto, Return, DeleteBlobs, End,
        Open, Unwritten, Pending
<1>1. ASSUME NEW r \in Request, NEW o, NEW k, NEW u, NEW n, NEW label,
             Arrive(r, o, k, u, n, label)
      PROVE  /\ pc[r] = "idle"
             /\ \A c \in Request \ {r} : /\ pc'[c] = pc[c] /\ op'[c] = op[c]
                                         /\ uploadId'[c] = uploadId[c]
                                         /\ number'[c] = number[c]
  BY <1>1 DEF Arrive
<1>2. CASE \E r \in Request : StartPut(r) \/ StartDelete(r) \/ StartUploadCall(r)
  BY <1>1, <1>2 DEF StartPut, StartDelete, StartUploadCall
<1>3. CASE \E r \in Request : CreateMultipartUpload(r)
  BY <1>3 DEF CreateMultipartUpload
<1>4. ASSUME NEW r \in Request, Serve(r)
      PROVE  /\ UNCHANGED calls
             /\ \A c \in Request \ {r} : pc'[c] = pc[c]
             /\ pc'[r] \in Unwritten => pc[r] \in Unwritten
             /\ pc'[r] \in Pending => pc[r] \in Unwritten \cup Pending
  <2> USE DEF Still
  <2>1. CASE Write(r) \/ Reject(r) \/ PurgeObject(r) \/ DropVersion(r)
    BY <2>1, ZenonT(60) DEF Write, Reject, PurgeObject, DropVersion
  <2>2. CASE CommitVersion(r)
    BY <2>2, SMTT(60) DEF CommitVersion
  <2>3. CASE FindObject(r)
    BY <2>3 DEF FindObject
  <2>4. CASE SelectVersion(r)
    BY <2>4 DEF SelectVersion
  <2>5. CASE SelectPreviousPart(r) \/ UpsertPart(r)
    BY <2>5 DEF SelectPreviousPart, UpsertPart
  <2>6. CASE ReadPartsToComplete(r)
    BY <2>6 DEF ReadPartsToComplete
  <2>7. CASE ConcatPart(r)
    BY <2>7 DEF ConcatPart
  <2> QED BY <1>4, <2>1, <2>2, <2>3, <2>4, <2>5, <2>6, <2>7 DEF Serve
<1>5. ASSUME NEW p \in Proc, AbortOrFinish(p)
      PROVE  /\ UNCHANGED calls
             /\ \A c \in Proc \ {p} : pc'[c] = pc[c]
             /\ p \in Request =>
                  /\ pc'[p] \in Unwritten => pc[p] \in Unwritten
                  /\ pc'[p] \in Pending => pc[p] \in Unwritten \cup Pending
  BY <1>5 DEF Still, AbortOrFinish, Reap, RequireUpload, ReadPartsToAbort, Retire, DropParts
<1>6. CASE Collect
  BY <1>6 DEF Collect, StartSweep, AbandonUpload, ReadVersionPaths, ReadPartPaths,
              Cutoff, CollectBlob, FinishSweep, EndSweep, StillGc
<1>7. CASE SetVersioning \/ Tick \/ UNCHANGED vars
  BY <1>7 DEF SetVersioning, Tick, vars, calls
<1>8. CASE \E r \in Request : Fail(r)
  BY <1>8 DEF Fail, calls
<1>9. CASE FailAbort \/ FailDelete \/ FailSweep
  BY <1>9 DEF FailAbort, FailDelete, FailSweep, EndSweep, calls
<1>10. CASE \E r \in Request : Serve(r)
  BY <1>4, <1>10 DEF calls
<1>11. CASE \E p \in Proc : AbortOrFinish(p)
  BY <1>5, <1>11 DEF calls
<1> QED BY <1>2, <1>3, <1>6, <1>7, <1>8, <1>9, <1>10, <1>11 DEF Next

\* A row names a blob for the first time when its call commits: as a version,
\* or as the part with the call's own upload and number.
LEMMA NamesFrame ==
  ASSUME TypeInv, [Next]_vars
  PROVE  /\ \A b \in Rows' : b \notin Rows \/ version'[b] # version[b]
               => /\ pc[b] = "mark" \/ (pc[b] = "staged" /\ op[b] # "delete")
                  /\ op[b] \in {"put", "complete", "delete"}
                  /\ version'[b].marker = (op[b] = "delete")
                  /\ ~Open(b)'
         /\ \A b, u \in Request, n \in PartNumber :
               part'[u][n] = b /\ part[u][n] # b
               => /\ pc[b] = "upsertPart" /\ op[b] = "uploadPart"
                  /\ uploadId[b] = u /\ number[b] = n
                  /\ ~Open(b)'
<1> DEFINE VersionsFrame == \A b \in Rows' : b \notin Rows \/ version'[b] # version[b]
               => /\ pc[b] = "mark" \/ (pc[b] = "staged" /\ op[b] # "delete")
                  /\ op[b] \in {"put", "complete", "delete"}
                  /\ version'[b].marker = (op[b] = "delete")
                  /\ ~Open(b)'
           PartsFrame == \A b, u \in Request, n \in PartNumber :
               part'[u][n] = b /\ part[u][n] # b
               => /\ pc[b] = "upsertPart" /\ op[b] = "uploadPart"
                  /\ uploadId[b] = u /\ number[b] = n
                  /\ ~Open(b)'
<1> USE IdAssumption DEF TypeInv, Domains, Proc, Rows
<1>1. (UNCHANGED version => VersionsFrame) /\ (UNCHANGED part => PartsFrame)
  OBVIOUS
<1>2. ASSUME NEW r \in Request, CommitVersion(r) PROVE VersionsFrame /\ PartsFrame
  <2>1. UNCHANGED part
    BY <1>2 DEF CommitVersion
  <2>2. \A g \in Request \ {r} : version'[g] \in {version[g], None}
    BY <1>2 DEF CommitVersion
  <2>3. r \in Rows' => version'[r].marker = (op[r] = "delete")
    BY <1>2 DEF CommitVersion
  <2>4. ~Open(r)'
    BY <1>2 DEF CommitVersion, DeleteBlobs, Goto, End, Open, Unwritten, Pending
  <2>5. /\ pc[r] = "mark" \/ (pc[r] = "staged" /\ op[r] # "delete")
        /\ op[r] \in {"put", "complete", "delete"}
    <3>1. \/ pc[r] = "staged" /\ op[r] \in {"put", "complete"}
          \/ pc[r] = "mark"
      BY <1>2 DEF CommitVersion
    <3>2. pc[r] = "mark" => op[r] = "delete"
      BY DEF OpFits
    <3> QED BY <3>1, <3>2
  <2> QED BY <1>1, <2>1, <2>2, <2>3, <2>4, <2>5
<1>3. ASSUME NEW r \in Request, PurgeObject(r) \/ DropVersion(r)
      PROVE  VersionsFrame /\ PartsFrame
  <2>1. UNCHANGED part /\ \A g \in Request : version'[g] \in {version[g], None}
    BY <1>3 DEF PurgeObject, DropVersion, DropRows
  <2> QED BY <1>1, <2>1
<1>4. ASSUME NEW r \in Request, UpsertPart(r) PROVE VersionsFrame /\ PartsFrame
  <2>1. /\ UNCHANGED version
        /\ part' = [part EXCEPT ![uploadId[r]][number[r]] = r]
        /\ pc[r] = "upsertPart" /\ op[r] = "uploadPart"
    BY <1>4 DEF UpsertPart, OpFits
  <2>2. ~Open(r)'
    BY <1>4 DEF UpsertPart, DeleteBlobs, Goto, End, Open, Unwritten, Pending
  <2>3. \A b, u \in Request, n \in PartNumber :
           part'[u][n] = b /\ part[u][n] # b
           => b = r /\ uploadId[r] = u /\ number[r] = n
    BY <2>1
  <2>4. PartsFrame
    BY <2>1, <2>2, <2>3
  <2> QED BY <1>1, <2>1, <2>4
<1>5. ASSUME NEW p \in Proc, DropParts(p) PROVE VersionsFrame /\ PartsFrame
  <2>1. /\ UNCHANGED version
        /\ part' = [part EXCEPT ![uploadId[p]] = [n \in PartNumber |-> None]]
    BY <1>5 DEF DropParts
  <2>2. \A u \in Request, n \in PartNumber : part'[u][n] \in {part[u][n], None}
    BY <2>1
  <2> QED BY <1>1, <2>1, <2>2
<1>6. CASE \E r \in Request : StartPut(r) \/ StartDelete(r) \/ StartUploadCall(r)
                                \/ CreateMultipartUpload(r) \/ Fail(r)
  BY <1>1, <1>6 DEF StartPut, StartDelete, StartUploadCall, Arrive,
                    CreateMultipartUpload, Fail, db
<1>7. CASE \E r \in Request : Serve(r)
  <2> SUFFICES ASSUME NEW r \in Request, Serve(r) PROVE VersionsFrame /\ PartsFrame
    BY <1>7
  <2>1. CASE \/ Write(r) \/ Reject(r) \/ FindObject(r) \/ SelectVersion(r)
             \/ SelectPreviousPart(r) \/ ReadPartsToComplete(r) \/ ConcatPart(r)
    BY <1>1, <2>1 DEF Write, Reject, FindObject, SelectVersion, SelectPreviousPart,
                      ReadPartsToComplete, ConcatPart
  <2> QED BY <1>2, <1>3, <1>4, <2>1 DEF Serve
<1>8. CASE \E p \in Proc : AbortOrFinish(p)
  BY <1>1, <1>5, <1>8 DEF AbortOrFinish, Reap, RequireUpload, ReadPartsToAbort, Retire
<1>9. CASE Collect \/ FailAbort \/ FailDelete \/ FailSweep \/ SetVersioning \/ Tick \/ UNCHANGED vars
  BY <1>1, <1>9 DEF Collect, StartSweep, AbandonUpload, ReadVersionPaths, ReadPartPaths,
         Cutoff, CollectBlob, FinishSweep, StillGc, db, FailAbort, FailDelete, FailSweep,
         SetVersioning, Tick, vars
<1> QED BY <1>6, <1>7, <1>8, <1>9 DEF Next

\* Files come with their call's blob.  They go when they are dead, or when the
\* call itself gives up a blob that it has not committed.
LEMMA DiskFrame ==
  ASSUME TypeInv, DoomedAreDead, CollectorIsSafe, [Next]_vars
  PROVE  /\ \A b \in disk' \ disk : /\ pc[b] \in Unwritten
                                    /\ pc'[b] \in Pending
                                    /\ age'[b] = 0
         /\ \A b \in disk \ disk' :
               Dead(b) \/ (/\ pc[b] \in Pending /\ ~Open(b)'
                           /\ UNCHANGED <<version, part>>)
<1> USE IdAssumption DEF TypeInv, Domains, Proc
<1>1. ASSUME NEW r \in Request, Write(r) \/ ReadPartsToComplete(r)
      PROVE  \/ UNCHANGED disk
             \/ /\ disk' = disk \cup {r}
                /\ pc[r] \in Unwritten /\ pc'[r] \in Pending /\ age'[r] = 0
  <2>1. CASE Write(r)
    BY <2>1 DEF Write, Goto, Unwritten, Pending
  <2>2. CASE ReadPartsToComplete(r) /\ ~UNCHANGED files
    <3>1. /\ disk' = disk \cup {r} /\ age' = [age EXCEPT ![r] = 0]
          /\ pc[r] = "readParts" /\ pc' = [pc EXCEPT ![r] = "concat"]
      BY <2>2 DEF ReadPartsToComplete, Goto
    <3> QED BY <3>1 DEF Unwritten, Pending
  <2> QED BY <1>1, <2>1, <2>2 DEF files
<1>2. ASSUME NEW r \in Request, Reject(r) \/ ConcatPart(r)
      PROVE  \/ UNCHANGED disk
             \/ /\ disk' = disk \ {r} /\ pc[r] \in Pending /\ ~Open(r)'
                /\ UNCHANGED <<version, part>>
  BY <1>2 DEF Reject, ConcatPart, Return, Goto, End, Open, Unwritten, Pending
<1>3. ASSUME NEW p \in Proc, Reap(p)
      PROVE  \E b \in doomed[p] : disk' = disk \ {b} /\ Dead(b)
  BY <1>3 DEF Reap, DoomedAreDead, Erasable
<1>4. CASE CollectBlob
  BY <1>4 DEF CollectBlob, Garbage, CollectorIsSafe
<1>5. CASE UNCHANGED disk
  BY <1>5
<1>6. CASE \E r \in Request : StartPut(r) \/ StartDelete(r) \/ StartUploadCall(r)
                                \/ CreateMultipartUpload(r) \/ Fail(r)
  BY <1>5, <1>6 DEF StartPut, StartDelete, StartUploadCall, Arrive,
                    CreateMultipartUpload, Fail, files
<1>7. CASE \E r \in Request : Serve(r)
  <2> SUFFICES ASSUME NEW r \in Request, Serve(r), ~UNCHANGED disk
               PROVE  \/ Write(r) \/ ReadPartsToComplete(r)
                      \/ Reject(r) \/ ConcatPart(r)
    BY <1>1, <1>2, <1>5, <1>7
  <2> QED BY DEF Serve, CommitVersion, FindObject, PurgeObject, SelectVersion, DropVersion,
                 SelectPreviousPart, UpsertPart, files
<1>8. CASE \E p \in Proc : AbortOrFinish(p)
  BY <1>3, <1>5, <1>8 DEF AbortOrFinish, RequireUpload, ReadPartsToAbort, Retire,
                          DropParts, files
<1>9. CASE Collect \/ FailAbort \/ FailDelete \/ FailSweep \/ SetVersioning \/ Tick \/ UNCHANGED vars
  BY <1>4, <1>5, <1>9 DEF Collect, StartSweep, AbandonUpload, ReadVersionPaths,
         ReadPartPaths, Cutoff, FinishSweep, files, FailAbort, FailDelete, FailSweep,
         SetVersioning, Tick, vars
<1> QED BY <1>6, <1>7, <1>8, <1>9 DEF Next

\* commitVersion: a path becomes that of a version when its writer commits.
LEMMA NewVersionPaths ==
  ASSUME TypeInv, [Next]_vars, NEW b \in VersionPaths', b \notin VersionPaths
  PROVE  pc[b] = "staged" /\ ~Open(b)'
<1>1. b \in Rows' /\ (b \notin Rows \/ version'[b] # version[b])
  BY DEF VersionPaths
<1>2. op[b] # "delete" /\ b \in Request
  BY <1>1, NamesFrame DEF VersionPaths, Rows
<1> QED BY <1>1, <1>2, NamesFrame DEF TypeInv, OpFits

\* What is dead stays dead, and a blob keeps its place.
LEMMA DeadStable ==
  ASSUME TypeInv, [Next]_vars, NEW b \in Request
  PROVE  /\ Dead(b) => Dead(b)'
         /\ \A u, n : Slot(b, u, n) => Slot(b, u, n)'
<1>1. ASSUME Dead(b) PROVE Dead(b)'
  <2>1. ~Open(b) /\ ~Open(b)'
    BY <1>1, CallsFrame DEF Dead
  <2>2. b \notin VersionPaths'
    BY <1>1, <2>1, NewVersionPaths DEF Dead, Referenced, Open, Pending
  <2>3. b \notin PartPaths'
    <3>1. SUFFICES ASSUME NEW u \in Request, NEW n \in PartNumber, part'[u][n] = b
                   PROVE  FALSE
      BY DEF PartPaths, PartsOf
    <3>2. part[u][n] # b
      BY <1>1, IdAssumption DEF Dead, Referenced, PartPaths, PartsOf
    <3> QED BY <2>1, <3>1, <3>2, NamesFrame DEF Open, Pending
  <2> QED BY <2>1, <2>2, <2>3 DEF Dead, Referenced
<1>2. ASSUME NEW u, NEW n, Slot(b, u, n) PROVE Slot(b, u, n)'
  BY <1>2, CallsFrame DEF Slot, Open, Unwritten
<1> QED BY <1>1, <1>2

\* A row goes on being at the path its own request made.
LEMMA PlacesStep ==
  ASSUME TypeInv, PlacesAreOwn, [Next]_vars
  PROVE  PlacesAreOwn'
<1>1. ASSUME NEW b \in Rows'
      PROVE  /\ ~Open(b)' /\ op'[b] \in {"put", "complete", "delete"}
             /\ version'[b].marker = (op'[b] = "delete")
  <2>1. b \in Request
    BY DEF Rows
  <2>2. CASE b \in Rows /\ version'[b] = version[b]
    BY <2>1, <2>2, CallsFrame DEF PlacesAreOwn, Open, Unwritten
  <2>3. CASE b \notin Rows \/ version'[b] # version[b]
    BY <2>1, <2>3, NamesFrame, CallsFrame
  <2> QED BY <2>2, <2>3
<1>2. ASSUME NEW b \in Request, NEW u \in Request, NEW n \in PartNumber,
             part'[u][n] = b
      PROVE  Slot(b, u, n)'
  <2>1. CASE part[u][n] = b
    BY <2>1, DeadStable DEF PlacesAreOwn
  <2>2. CASE part[u][n] # b
    <3>1. /\ pc[b] = "upsertPart" /\ op[b] = "uploadPart"
          /\ uploadId[b] = u /\ number[b] = n /\ ~Open(b)'
      BY <1>2, <2>2, NamesFrame
    <3> QED BY <3>1, CallsFrame DEF Slot
  <2> QED BY <2>1, <2>2
<1> QED BY <1>1, <1>2 DEF PlacesAreOwn

\* A named blob is not open: its one name came with the end of its call.
LEMMA NamedIsClosed ==
  TypeInv /\ PlacesAreOwn => \A b \in Referenced : b \in Request /\ ~Open(b) /\ ~Dead(b)
<1> SUFFICES ASSUME TypeInv, PlacesAreOwn, NEW b \in Referenced
             PROVE  b \in Request /\ ~Open(b) /\ ~Dead(b)
  OBVIOUS
<1>1. ~Dead(b)
  BY DEF Dead
<1>2. CASE b \in VersionPaths
  BY <1>1, <1>2 DEF PlacesAreOwn, VersionPaths, Rows
<1>3. CASE b \in PartPaths
  <2>1. PICK u \in Request, n \in PartNumber : part[u][n] = b /\ b # None
    BY <1>3 DEF PartPaths, PartsOf
  <2> QED BY <1>1, <2>1 DEF PlacesAreOwn, Slot, TypeInv, Domains, OrNone
<1> QED BY <1>2, <1>3 DEF Referenced

\* No step leaves a row without its file.
LEMMA RowsHaveBlobsStep ==
  ASSUME SafetyInv, [Next]_vars
  PROVE  RowsHaveBlobs'
<1> USE DEF SafetyInv
<1> SUFFICES ASSUME NEW b \in Referenced' PROVE b \in disk'
  BY DEF RowsHaveBlobs
<1>1. CASE b \in Referenced
  <2>1. b \in disk /\ ~Open(b) /\ ~Dead(b)
    BY <1>1, NamedIsClosed DEF RowsHaveBlobs
  <2> QED BY <2>1, DiskFrame DEF Open
<1>2. CASE b \notin Referenced
  <2>1. b \in Request /\ pc[b] \in Pending
    <3>1. CASE b \in VersionPaths'
      BY <1>2, <3>1, NewVersionPaths DEF Referenced, VersionPaths, Rows, Pending
    <3>2. CASE b \in PartPaths'
      <4>1. PICK u \in Request, n \in PartNumber : part'[u][n] = b /\ b # None
        BY <3>2 DEF PartPaths, PartsOf
      <4>2. part[u][n] # b
        BY <1>2, <4>1 DEF Referenced, PartPaths, PartsOf
      <4>3. b \in Request
        BY <4>1, DomainsStep DEF Domains, OrNone
      <4> QED BY <4>1, <4>2, <4>3, NamesFrame DEF Pending
    <3> QED BY <3>1, <3>2 DEF Referenced
  <2>2. b \in disk
    BY <2>1 DEF OpenBlobsOnDisk
  <2>3. ~UNCHANGED <<version, part>>
    BY <1>2 DEF Referenced, VersionPaths, Rows, PartPaths, PartsOf
  <2> QED BY <2>1, <2>2, <2>3, DiskFrame DEF Dead, Open
<1> QED BY <1>1, <1>2

\* Blobs age with the clock only, and a call is Pending once its blob is there.
LEMMA AgeFrame ==
  ASSUME TypeInv, [Next]_vars, NEW b \in Request
  PROVE  /\ age'[b] <= age[b] \/ (Tick /\ age'[b] <= age[b] + 1)
         /\ pc[b] \in Unwritten /\ pc'[b] \in Pending => b \in disk' /\ age'[b] = 0
<1> USE IdAssumption DEF TypeInv, Domains, Proc, Goto
<1> DEFINE Stages == pc[b] \in Unwritten /\ pc'[b] \in Pending
<1>1. age[b] \in Nat
  BY TimeAssumption DEF MaxAge
<1>2. CASE \E r \in Request : StartPut(r) \/ StartDelete(r) \/ StartUploadCall(r)
  <2>1. PICK r \in Request, o \in AllOps, k \in Key \cup {None}, u \in OrNone,
             n \in PartNumber \cup {None}, label \in {"write", "find", "requireUpload"} :
             Arrive(r, o, k, u, n, label)
    BY <1>2 DEF StartPut, StartDelete, StartUploadCall, OrNone, AllOps, WriterOps, UploadOps
  <2>2. UNCHANGED age /\ ~Stages
    BY <2>1 DEF Arrive, files, Unwritten, Pending
  <2> QED BY <1>1, <2>2
<1>3. CASE \E r \in Request : CreateMultipartUpload(r)
  BY <1>1, <1>3 DEF CreateMultipartUpload, Unwritten, Pending
<1>4. CASE \E r \in Request : Fail(r)
  BY <1>1, <1>4 DEF Fail, Return, End, files, Unwritten, Pending
<1>5. CASE \E r \in Request : Serve(r)
  <2> SUFFICES ASSUME NEW r \in Request, Serve(r)
               PROVE  /\ age'[b] <= age[b]
                      /\ Stages => b \in disk' /\ age'[b] = 0
    BY <1>5
  <2> USE DEF Unwritten, Pending
  <2>1. CASE Write(r)
    BY <1>1, <2>1 DEF Write
  <2>2. CASE Reject(r) \/ FindObject(r) \/ SelectVersion(r)
    BY <1>1, <2>2, SMTT(60) DEF Reject, FindObject, SelectVersion, Return, End, files
  <2>3. CASE CommitVersion(r)
    BY <1>1, <2>3 DEF CommitVersion, DeleteBlobs, End, files
  <2>4. CASE PurgeObject(r) \/ DropVersion(r) \/ UpsertPart(r)
    BY <1>1, <2>4, SMTT(60) DEF PurgeObject, DropVersion, UpsertPart, DeleteBlobs, End, files
  <2>5. CASE SelectPreviousPart(r)
    BY <1>1, <2>5 DEF SelectPreviousPart, files
  <2>6. CASE ReadPartsToComplete(r)
    <3>1. CASE Return(r) /\ UNCHANGED files
      BY <1>1, <3>1 DEF Return, End, files
    <3>2. CASE /\ disk' = disk \cup {r} /\ age' = [age EXCEPT ![r] = 0]
               /\ pc' = [pc EXCEPT ![r] = "concat"]
      BY <1>1, <3>2
    <3> QED BY <2>6, <3>1, <3>2 DEF ReadPartsToComplete
  <2>7. CASE ConcatPart(r)
    <3>1. pc[r] = "concat" /\ \A c \in Request \ {r} : pc'[c] = pc[c]
      BY <2>7 DEF ConcatPart, Return
    <3>2. age' \in {age, [age EXCEPT ![r] = 0]}
      BY <2>7 DEF ConcatPart
    <3> QED BY <1>1, <3>1, <3>2
  <2> QED BY <2>1, <2>2, <2>3, <2>4, <2>5, <2>6, <2>7 DEF Serve
<1>6. CASE \E p \in Proc : AbortOrFinish(p)
  BY <1>1, <1>6 DEF AbortOrFinish, Reap, RequireUpload, ReadPartsToAbort, Retire,
                    DropParts, DeleteBlobs, Return, End, files, Unwritten, Pending
<1>7. CASE Collect
  BY <1>1, <1>7 DEF Collect, StartSweep, AbandonUpload, ReadVersionPaths, ReadPartPaths,
       Cutoff, CollectBlob, FinishSweep, EndSweep, StillGc, Unwritten, Pending
<1>8. CASE Tick
  BY <1>1, <1>8 DEF Tick, Older, Unwritten, Pending
<1>9. CASE FailAbort \/ FailDelete \/ FailSweep \/ SetVersioning \/ UNCHANGED vars
  BY <1>1, <1>9 DEF FailAbort, FailDelete, FailSweep, EndSweep, SetVersioning, Return, End, files, vars,
                    Unwritten, Pending
<1> QED BY <1>2, <1>3, <1>4, <1>5, <1>6, <1>7, <1>8, <1>9 DEF Next

\* createWriteStream, rename: a file is there once its writer has written it.
LEMMA OpenBlobsStep ==
  ASSUME SafetyInv, [Next]_vars
  PROVE  OpenBlobsOnDisk'
<1> USE DEF SafetyInv
<1> SUFFICES ASSUME NEW r \in Request
             PROVE  /\ pc'[r] \in Unwritten => r \notin disk'
                    /\ pc'[r] \in Pending => r \in disk' /\ age'[r] <= CommitDelay
  BY DEF OpenBlobsOnDisk
<1>1. ASSUME pc'[r] \in Unwritten PROVE r \notin disk'
  BY <1>1, CallsFrame, DiskFrame DEF OpenBlobsOnDisk, Unwritten, Pending
<1>2. ASSUME pc'[r] \in Pending PROVE r \in disk' /\ age'[r] <= CommitDelay
  <2>1. CASE pc[r] \in Pending
    <3>1. r \in disk /\ ~Dead(r) /\ Open(r)'
      BY <1>2, <2>1 DEF OpenBlobsOnDisk, Dead, Open
    <3>2. r \in disk'
      BY <3>1, DiskFrame
    <3>3. age[r] <= CommitDelay /\ age[r] \in Nat /\ age'[r] \in Nat
      BY <2>1, DomainsStep, TimeAssumption DEF OpenBlobsOnDisk, TypeInv, Domains, MaxAge
    <3>4. Tick => age[r] < CommitDelay
      BY <2>1 DEF Tick
    <3> QED BY <3>2, <3>3, <3>4, AgeFrame, TimeAssumption
  <2>2. CASE pc[r] \in Unwritten
    BY <1>2, <2>2, AgeFrame, TimeAssumption
  <2> QED BY <1>2, <2>1, <2>2, CallsFrame DEF Open
<1> QED BY <1>1, <1>2

\* Once the part rows of an upload are dropped, the parts that were read are dead.
LEMMA DroppedPartsAreDead ==
  ASSUME SafetyInv, [Next]_vars, NEW p \in Proc, DropParts(p), NEW b \in local[p].stored
  PROVE  b \in Request /\ Erasable(b)'
<1> USE IdAssumption DEF SafetyInv
<1>1. /\ b \in Request /\ ~Open(b) /\ op[b] = "uploadPart" /\ uploadId[b] = uploadId[p]
      /\ uploadId[p] \in Request
  BY DEF DropParts, Remembered, RemembersParts, TypeInv, Domains, Local, OpFits, KnowsTarget,
         Proc, UploadOps, AbortSteps
<1>2. b \notin VersionPaths'
  BY <1>1 DEF DropParts, PlacesAreOwn, VersionPaths, Rows
<1>3. \A v \in Request, m \in PartNumber : part'[v][m] # b
  BY <1>1 DEF DropParts, PlacesAreOwn, Slot, TypeInv, Domains
<1>4. ~Open(b)' /\ op'[b] = "uploadPart"
  BY <1>1, CallsFrame DEF Open, Unwritten
<1> QED BY <1>1, <1>2, <1>3, <1>4
        DEF Erasable, Dead, Referenced, PartPaths, PartsOf, WriterOps

\* Blobs lose their last name in the step that dooms them.
\* What may be erased may be erased for good.
LEMMA ErasableStable ==
  ASSUME TypeInv, [Next]_vars, NEW b \in Request, Erasable(b)
  PROVE  Erasable(b)'
<1>1. Dead(b)' /\ pc[b] # "idle"
  BY DeadStable DEF Erasable, Dead, Open, Unwritten
<1> QED BY <1>1, CallsFrame DEF Erasable

LEMMA DoomedStep ==
  ASSUME SafetyInv, [Next]_vars
  PROVE  DoomedAreDead'
<1> USE IdAssumption DEF SafetyInv
<1>1. ASSUME NEW p \in Proc, NEW S \in SUBSET Request, \A b \in S : Erasable(b)',
             \A q \in Proc : doomed'[q] \subseteq doomed[q] \/ (q = p /\ doomed'[q] \subseteq S)
      PROVE  DoomedAreDead'
  BY <1>1, ErasableStable DEF DoomedAreDead, TypeInv, Domains
<1>2. ASSUME \A q \in Proc : doomed'[q] \subseteq doomed[q] PROVE DoomedAreDead'
  BY <1>2, ErasableStable DEF DoomedAreDead, TypeInv, Domains
<1>3. ASSUME NEW p \in Proc, NEW S \in SUBSET Request, \A b \in S : Erasable(b)',
             DeleteBlobs(p, S)
      PROVE  DoomedAreDead'
  BY <1>1, <1>3 DEF DeleteBlobs, TypeInv, Domains
<1>4. ASSUME NEW p \in Proc, Return(p) PROVE DoomedAreDead'
  BY <1>2, <1>4 DEF Return, TypeInv, Domains
\* A version blob whose row goes in this step.
<1>5. ASSUME NEW b \in VersionPaths, version'[b] = None PROVE b \in Request /\ Erasable(b)'
  <2>1. b \in Request /\ ~Open(b) /\ op[b] \in {"put", "complete"}
    BY DEF PlacesAreOwn, VersionPaths, Rows
  <2>2. ~Open(b)' /\ op'[b] \in {"put", "complete"}
    BY <2>1, CallsFrame DEF Open, Unwritten
  <2>3. b \notin VersionPaths' /\ b \notin PartPaths'
    BY <1>5, <2>1, <2>2, PlacesStep
       DEF VersionPaths, Rows, PartPaths, PartsOf, PlacesAreOwn, Slot
  <2> QED BY <2>1, <2>2, <2>3 DEF Erasable, Dead, Referenced, WriterOps
<1>6. ASSUME NEW r \in Request, CommitVersion(r) PROVE DoomedAreDead'
  <2>1. PICK S \in SUBSET VersionPaths :
           /\ \A g \in S : g = r \/ version'[g] = None
           /\ \/ DeleteBlobs(r, S)
              \/ doomed' = [doomed EXCEPT ![r] = S]
    BY <1>6 DEF CommitVersion, Replaced, RowsOf, Rows
  <2>2. r \notin VersionPaths
    <3>1. Open(r) \/ op[r] = "delete"
      BY <1>6 DEF CommitVersion, TypeInv, OpFits, Open, Pending
    <3> QED BY <3>1 DEF PlacesAreOwn, VersionPaths
  <2>3. \A b \in S : b \in Request /\ Erasable(b)'
    BY <1>5, <2>1, <2>2
  <2>4. S \in SUBSET Request /\ r \in Proc
    BY <2>3 DEF Proc
  <2>5. CASE DeleteBlobs(r, S)
    BY <1>3, <2>3, <2>4, <2>5
  <2>6. CASE doomed' = [doomed EXCEPT ![r] = S]
    BY <1>1, <2>3, <2>4, <2>6 DEF TypeInv, Domains
  <2> QED BY <2>1, <2>5, <2>6
<1>7. ASSUME NEW r \in Request, PurgeObject(r) PROVE DoomedAreDead'
  <2> DEFINE S == RowsOf(local[r].found) \cap VersionPaths
  <2>1. DeleteBlobs(r, S) /\ \A g \in S : version'[g] = None
    BY <1>7 DEF PurgeObject, DropRows, RowsOf, Rows
  <2>2. \A b \in S : b \in Request /\ Erasable(b)'
    BY <1>5, <2>1
  <2> QED BY <1>3, <2>1, <2>2 DEF Proc
<1>8. ASSUME NEW r \in Request, DropVersion(r) PROVE DoomedAreDead'
  <2>1. PICK g \in Request : g = local[r].row /\ ~Open(g) /\ op[g] \in {"put", "complete", "delete"}
    BY <1>8 DEF DropVersion, Remembered, RemembersRow, TypeInv, KnowsTarget
  <2> DEFINE S == IF op[g] = "delete" THEN {} ELSE {g}
  <2>5. DeleteBlobs(r, S) /\ version'[g] = None
    BY <1>8, <2>1 DEF DropVersion, DropRows
  <2>2. ~Open(g)' /\ op'[g] = op[g]
    BY <2>1, CallsFrame DEF Open, Unwritten
  <2>3. g \notin VersionPaths' /\ g \notin PartPaths'
    BY <2>1, <2>5, <2>2, PlacesStep DEF VersionPaths, Rows, PartPaths, PartsOf, PlacesAreOwn, Slot
  <2>4. ASSUME op[g] # "delete" PROVE Erasable(g)'
    BY <2>1, <2>2, <2>3, <2>4 DEF Erasable, Dead, Referenced, WriterOps
  <2> QED BY <1>3, <2>5, <2>4 DEF Proc
<1>9. ASSUME NEW r \in Request, UpsertPart(r) PROVE DoomedAreDead'
  <2>1. PICK b \in OrNone : b = local[r].row
    BY DEF TypeInv, Domains, Local, Proc
  <2>2. PICK u \in Request, n \in PartNumber : u = uploadId[r] /\ n = number[r]
    BY <1>9 DEF UpsertPart, TypeInv, OpFits, KnowsTarget, UploadOps
  <2>3. /\ DeleteBlobs(r, {b} \ {None}) /\ UNCHANGED version
        /\ part' = [part EXCEPT ![u][n] = r] /\ pc[r] = "upsertPart"
    BY <1>9, <2>1, <2>2 DEF UpsertPart
  <2>4. ASSUME b # None PROVE b \in Request /\ Erasable(b)'
    <3>1. b \in Request /\ Slot(b, u, n) /\ b # r
      BY <2>1, <2>2, <2>3, <2>4 DEF Remembered, RemembersRow, OrNone, Slot, Open, Pending
    <3>2. b \notin VersionPaths'
      BY <2>3, <3>1 DEF Slot, PlacesAreOwn, VersionPaths, Rows
    <3>3. \A v \in Request, m \in PartNumber : part'[v][m] # b
      BY <2>3, <3>1 DEF Slot, PlacesAreOwn, TypeInv, Domains
    <3>4. ~Open(b)' /\ op'[b] = "uploadPart"
      BY <3>1, CallsFrame DEF Slot, Open, Unwritten
    <3> QED BY <3>1, <3>2, <3>3, <3>4
            DEF Erasable, Dead, Referenced, PartPaths, PartsOf, WriterOps
  <2> QED BY <1>3, <2>1, <2>3, <2>4 DEF Proc, OrNone
<1>10. ASSUME NEW p \in Proc, Retire(p) PROVE DoomedAreDead'
  <2>1. CASE op[p] = "complete"
    BY <1>2, <1>10, <2>1 DEF Retire
  <2>2. CASE op[p] = "abort"
    <3>1. DeleteBlobs(p, local[p].stored) /\ local[p].stored \in SUBSET Request
      BY <1>10, <2>2 DEF Retire, TypeInv, Domains, Local
    <3>2. \A b \in local[p].stored : Erasable(b)'
      BY <1>10, <2>2, <3>1, ErasableStable
         DEF Retire, Remembered, RemembersParts, Erasable, WriterOps
    <3> QED BY <1>3, <3>1, <3>2
  <2> QED BY <1>10, <2>1, <2>2 DEF Retire
<1>12. ASSUME NEW p \in Proc, DropParts(p) PROVE DoomedAreDead'
  <2>1. CASE op[p] = "abort"
    BY <1>2, <1>12, <2>1 DEF DropParts
  <2>2. CASE op[p] = "complete"
    <3>1. DeleteBlobs(p, local[p].stored \cup doomed[p])
      BY <1>12, <2>2 DEF DropParts
    <3>2. \A b \in local[p].stored \cup doomed[p] : b \in Request /\ Erasable(b)'
      BY DroppedPartsAreDead, <1>12, ErasableStable DEF DoomedAreDead, TypeInv, Domains
    <3> QED BY <1>3, <3>1, <3>2
  <2> QED BY <1>12, <2>1, <2>2 DEF DropParts
<1>13. ASSUME NEW p \in Proc, Reap(p) PROVE DoomedAreDead'
  BY <1>2, <1>13 DEF Reap, DeleteBlobs, TypeInv, Domains
<1>14. CASE \E r \in Request : Serve(r)
  <2> SUFFICES ASSUME NEW r \in Request, Serve(r) PROVE DoomedAreDead'
    BY <1>14
  <2>1. CASE \/ Write(r) \/ SelectPreviousPart(r)
    BY <1>2, <2>1 DEF Write, SelectPreviousPart
  <2>2. CASE Reject(r) \/ FindObject(r) \/ SelectVersion(r)
             \/ ReadPartsToComplete(r) \/ ConcatPart(r)
    <3>1. Return(r) \/ UNCHANGED doomed
      BY <2>2 DEF Reject, FindObject, SelectVersion, ReadPartsToComplete, ConcatPart
    <3> QED BY <1>2, <1>4, <3>1 DEF Proc
  <2> QED BY <1>6, <1>7, <1>8, <1>9, <2>1, <2>2 DEF Serve
<1>15. CASE \E p \in Proc : AbortOrFinish(p)
  <2> SUFFICES ASSUME NEW p \in Proc, AbortOrFinish(p) PROVE DoomedAreDead'
    BY <1>15
  <2>1. CASE RequireUpload(p) \/ ReadPartsToAbort(p)
    <3>1. Return(p) \/ UNCHANGED doomed
      BY <2>1 DEF RequireUpload, ReadPartsToAbort
    <3> QED BY <1>2, <1>4, <3>1
  <2> QED BY <1>10, <1>12, <1>13, <2>1 DEF AbortOrFinish
<1>16. CASE \E r \in Request : StartPut(r) \/ StartDelete(r) \/ StartUploadCall(r)
                                 \/ CreateMultipartUpload(r)
  BY <1>2, <1>16 DEF StartPut, StartDelete, StartUploadCall, Arrive, CreateMultipartUpload
<1>17. CASE (\E r \in Request : Fail(r)) \/ FailAbort
  BY <1>4, <1>17 DEF Fail, FailAbort, Proc
<1>18. CASE Collect \/ SetVersioning \/ Tick \/ UNCHANGED vars
  BY <1>2, <1>18 DEF Collect, StartSweep, AbandonUpload, ReadVersionPaths, ReadPartPaths,
       Cutoff, CollectBlob, FinishSweep, StillGc, SetVersioning, Tick, vars
<1>19. CASE FailDelete \/ FailSweep
  BY <1>2, <1>19 DEF FailDelete, FailSweep, TypeInv, Domains
<1> QED BY <1>14, <1>15, <1>16, <1>17, <1>18, <1>19 DEF Next

\* What a handler has read and not yet removed stays safe to remove.
LEMMA RememberedStep ==
  ASSUME SafetyInv, [Next]_vars
  PROVE  Remembered'
<1> USE IdAssumption DEF SafetyInv
\* What a process remembers holds as long as it does not move.
<1>1. ASSUME NEW r \in Request, UNCHANGED <<pc[r], local[r], uploadId[r], number[r]>>
      PROVE  RemembersRow(r)'
  <2>1. RemembersRow(r)
    BY DEF Remembered
  <2>2. ASSUME pc[r] = "dropVersion"
        PROVE  /\ ~Open(local[r].row)'
               /\ op'[local'[r].row] \in {"put", "complete", "delete"}
    <3>1. PICK g \in Request : /\ g = local[r].row /\ ~Open(g)
                               /\ op[g] \in {"put", "complete", "delete"}
      BY <2>1, <2>2 DEF RemembersRow, TypeInv, KnowsTarget
    <3>2. ~Open(g)' /\ op'[g] = op[g]
      BY <3>1, CallsFrame DEF Open, Unwritten
    <3> QED BY <1>1, <3>1, <3>2 DEF Open
  <2>3. ASSUME pc[r] = "upsertPart", local[r].row # None
        PROVE  Slot(local[r].row, uploadId[r], number[r])'
    <3>1. PICK b \in Request : b = local[r].row
      BY <2>3 DEF TypeInv, Domains, Local, OrNone, Proc
    <3>2. Slot(b, uploadId[r], number[r])
      BY <2>1, <2>3, <3>1 DEF RemembersRow
    <3>3. /\ ~Open(b)' /\ op'[b] = "uploadPart"
          /\ uploadId'[b] = uploadId[r] /\ number'[b] = number[r]
      BY <3>2, CallsFrame DEF Slot, Open, Unwritten
    <3> QED BY <1>1, <3>1, <3>3 DEF Slot, Open
  <2> QED BY <1>1, <2>2, <2>3 DEF RemembersRow
<1>2. ASSUME NEW p \in Proc, local'[p].stored = local[p].stored,
             UNCHANGED <<op[p], uploadId[p]>>,
             \/ UNCHANGED pc[p]
             \/ /\ op[p] = "complete"
                /\ pc[p] \in {"concat", "staged", "retire", "dropParts"}
      PROVE  RemembersParts(p)'
  <2>1. RemembersParts(p) /\ local[p].stored \subseteq Request
    BY DEF Remembered, TypeInv, Domains, Local
  <2> SUFFICES ASSUME NEW b \in local[p].stored
               PROVE  /\ pc'[p] \in {"concat", "staged", "retire", "dropParts"}
                            /\ op'[p] \in {"complete", "abort"}
                            => /\ ~Open(b)' /\ op'[b] = "uploadPart"
                               /\ uploadId'[b] = uploadId'[p]
                      /\ pc'[p] = "retire" /\ op'[p] = "abort" => Dead(b)'
    BY <1>2 DEF RemembersParts
  <2>2. b \in Request
    BY <2>1
  <2>3. pc[p] = "retire" /\ op[p] = "abort" => Dead(b)'
    BY <2>1, <2>2, DeadStable DEF RemembersParts
  <2>4. ~Open(b) /\ op[b] = "uploadPart" /\ uploadId[b] = uploadId[p]
        => ~Open(b)' /\ op'[b] = "uploadPart" /\ uploadId'[b] = uploadId[p]
    BY <2>2, CallsFrame DEF Open, Unwritten
  <2> QED BY <1>2, <2>1, <2>3, <2>4 DEF RemembersParts
<1>3. ASSUME NEW p \in Proc, UNCHANGED calls,
             \A q \in Proc \ {p} : UNCHANGED <<pc[q], local[q]>>,
             p \in Request => RemembersRow(p)', RemembersParts(p)'
      PROVE  Remembered'
  BY <1>1, <1>2, <1>3 DEF Remembered, calls, Proc
<1>4. ASSUME NEW p \in Proc,
             pc'[p] \notin {"dropVersion", "upsertPart", "concat", "staged", "retire",
                            "dropParts"}
      PROVE  RemembersRow(p)' /\ RemembersParts(p)'
  BY <1>4 DEF RemembersRow, RemembersParts
<1>5. ASSUME NEW p \in Proc, UNCHANGED calls,
             Return(p) \/ (\E S : DeleteBlobs(p, S))
      PROVE  Remembered'
  <2>1. /\ pc'[p] \in {"reap", "done", "abandon"}
        /\ \A q \in Proc \ {p} : UNCHANGED <<pc[q], local[q]>>
    BY <1>5 DEF Return, DeleteBlobs, Goto, End, TypeInv, Domains
  <2> QED BY <1>3, <1>4, <1>5, <2>1
<1>6. ASSUME NEW r \in Request, NEW o, NEW k, NEW u, NEW n,
             NEW label \in {"write", "find", "requireUpload"}, Arrive(r, o, k, u, n, label)
      PROVE  Remembered'
  <2>1. /\ pc'[r] = label
        /\ \A q \in Proc \ {r} : UNCHANGED <<pc[q], local[q], op[q], uploadId[q]>>
        /\ \A q \in Request \ {r} : UNCHANGED number[q]
    BY <1>6 DEF Arrive, Goto, TypeInv, Domains, Proc
  <2>2. RemembersRow(r)' /\ RemembersParts(r)'
    BY <1>4, <2>1 DEF Proc
  <2> QED BY <1>1, <1>2, <2>1, <2>2 DEF Remembered, Proc
<1>7. ASSUME NEW r \in Request, StartPut(r) \/ StartDelete(r) \/ StartUploadCall(r)
      PROVE  Remembered'
  BY <1>6, <1>7 DEF StartPut, StartDelete, StartUploadCall
<1>8. ASSUME NEW r \in Request, CreateMultipartUpload(r) PROVE Remembered'
  <2>1. /\ pc'[r] = "done" /\ UNCHANGED <<local, uploadId, number>>
        /\ \A q \in Proc \ {r} : UNCHANGED <<pc[q], op[q]>>
    BY <1>8 DEF CreateMultipartUpload, Goto, TypeInv, Domains, Proc
  <2>2. RemembersRow(r)' /\ RemembersParts(r)'
    BY <1>4, <2>1 DEF Proc
  <2> QED BY <1>1, <1>2, <2>1, <2>2 DEF Remembered, Proc
\* A call's step to another statement that keeps or drops what it remembers.
<1>9. ASSUME NEW p \in Proc, UNCHANGED <<calls, local>>, NEW label, Goto(p, label),
             \/ label \notin {"dropVersion", "upsertPart", "concat", "staged", "retire",
                              "dropParts"}
             \/ /\ op[p] = "complete" /\ label \notin {"dropVersion", "upsertPart"}
                /\ pc[p] \in {"concat", "staged", "retire", "dropParts"}
             \/ op[p] \notin {"complete", "abort"} /\ label = "staged"
      PROVE  Remembered'
  <2>1. pc'[p] = label /\ \A q \in Proc \ {p} : UNCHANGED pc[q]
    BY <1>9 DEF Goto, TypeInv, Domains
  <2>2. RemembersRow(p)'
    BY <1>9, <2>1 DEF RemembersRow
  <2>3. RemembersParts(p)'
    BY <1>2, <1>4, <1>9, <2>1 DEF RemembersParts, calls
  <2> QED BY <1>3, <1>9, <2>1, <2>2, <2>3
\* The part rows that an abort or a complete reads.
<1>20. ASSUME NEW p \in Proc, UNCHANGED calls, pc[p] = "readParts",
              pc'[p] \in {"concat", "dropParts"},
              local'[p].stored = PartsOf(uploadId[p])
       PROVE  RemembersRow(p)' /\ RemembersParts(p)'
  <2>1. PICK u \in Request : u = uploadId[p]
    BY <1>20 DEF TypeInv, OpFits, KnowsTarget, Proc, UploadOps, AbortSteps
  <2>2. ASSUME NEW b \in PartsOf(u)
        PROVE  ~Open(b)' /\ op'[b] = "uploadPart" /\ uploadId'[b] = u
    <3>1. PICK n \in PartNumber : part[u][n] = b /\ b \in Request
      BY DEF PartsOf, TypeInv, Domains, OrNone
    <3> QED BY <3>1, DeadStable DEF PlacesAreOwn, Slot
  <2> QED BY <1>20, <2>1, <2>2 DEF RemembersRow, RemembersParts, Open, calls
<1>10. ASSUME NEW r \in Request, Serve(r) PROVE Remembered'
  <2>1. r \in Proc
    BY DEF Proc
  <2>2. UNCHANGED calls
    BY <1>10 DEF Serve, Write, Reject, CommitVersion, FindObject, PurgeObject, SelectVersion,
                 DropVersion, SelectPreviousPart, UpsertPart, ReadPartsToComplete,
                 ConcatPart, Still
  <2>3. CASE Write(r)
    <3>1. op[r] \notin {"complete", "abort"}
      BY <2>3 DEF Write, TypeInv, OpFits
    <3> QED BY <1>9, <2>1, <2>2, <2>3, <3>1 DEF Write
  <2>4. CASE Reject(r) \/ PurgeObject(r) \/ DropVersion(r) \/ UpsertPart(r)
    BY <1>5, <2>1, <2>2, <2>4 DEF Reject, PurgeObject, DropVersion, UpsertPart
  <2>5. CASE CommitVersion(r)
    <3>1. CASE op[r] = "complete"
      <4>1. UNCHANGED local /\ Goto(r, "retire")
        BY <2>5, <3>1 DEF CommitVersion
      <4>2. pc[r] = "staged"
        BY <2>5, <3>1 DEF CommitVersion, TypeInv, OpFits
      <4> QED BY <1>9, <2>1, <2>2, <3>1, <4>1, <4>2
    <3>2. CASE op[r] # "complete"
      BY <1>5, <2>1, <2>2, <2>5, <3>2 DEF CommitVersion
    <3> QED BY <3>1, <3>2
  <2>6. CASE FindObject(r)
    <3>1. CASE Return(r)
      BY <1>5, <2>1, <2>2, <3>1
    <3>2. CASE ~Return(r)
      <4>1. /\ pc'[r] \in {"selectVersion", "purge", "mark"}
            /\ \A q \in Proc \ {r} : UNCHANGED <<pc[q], local[q]>>
        BY <2>1, <2>6, <3>2 DEF FindObject, Goto, TypeInv, Domains
      <4> QED BY <1>3, <1>4, <2>1, <2>2, <4>1
    <3> QED BY <3>1, <3>2
  <2>7. CASE SelectVersion(r)
    <3>1. CASE Return(r)
      BY <1>5, <2>1, <2>2, <3>1
    <3>2. CASE ~Return(r)
      <4>1. PICK g \in RowsOf(local[r].found) : local' = [local EXCEPT ![r].row = g]
        BY <2>7, <3>2 DEF SelectVersion
      <4>2. g \in Request /\ g \in Rows
        BY DEF RowsOf, Rows
      <4>3. ~Open(g)' /\ op'[g] \in {"put", "complete", "delete"}
        BY <4>2, CallsFrame DEF PlacesAreOwn, Open, Unwritten
      <4>4. /\ pc'[r] = "dropVersion" /\ local'[r].row = g
            /\ \A q \in Proc \ {r} : UNCHANGED <<pc[q], local[q]>>
        <5>1. local[r] \in Local /\ pc' = [pc EXCEPT ![r] = "dropVersion"]
          BY <2>1, <2>7, <3>2 DEF SelectVersion, Goto, TypeInv, Domains
        <5> QED BY <2>1, <4>1, <5>1, LocalUpdates DEF TypeInv, Domains
      <4>5. RemembersRow(r)' /\ RemembersParts(r)'
        BY <4>3, <4>4 DEF RemembersRow, RemembersParts, Open
      <4> QED BY <1>3, <2>1, <2>2, <4>4, <4>5
    <3> QED BY <3>1, <3>2
  <2>8. CASE SelectPreviousPart(r)
    <3>1. PICK u \in Request, n \in PartNumber : u = uploadId[r] /\ n = number[r]
      BY <2>8 DEF SelectPreviousPart, TypeInv, KnowsTarget, UploadOps
    <3>2. PICK b \in OrNone : b = part[u][n]
      BY DEF TypeInv, Domains
    <3>3. /\ pc'[r] = "upsertPart" /\ local'[r].row = b
          /\ \A q \in Proc \ {r} : UNCHANGED <<pc[q], local[q]>>
      <4>1. /\ local[r] \in Local /\ pc' = [pc EXCEPT ![r] = "upsertPart"]
            /\ local' = [local EXCEPT ![r].row = b]
        BY <2>1, <2>8, <3>1, <3>2 DEF SelectPreviousPart, Goto, TypeInv, Domains
      <4> QED BY <2>1, <4>1, LocalUpdates DEF TypeInv, Domains
    <3>4. ASSUME b # None PROVE Slot(b, u, n)'
      BY <3>2, <3>4, DeadStable DEF PlacesAreOwn, OrNone
    <3>5. RemembersRow(r)' /\ RemembersParts(r)'
      BY <2>2, <3>1, <3>3, <3>4 DEF RemembersRow, RemembersParts, Slot, Open, calls
    <3> QED BY <1>3, <2>1, <2>2, <3>3, <3>5
  <2>9. CASE ReadPartsToComplete(r)
    <3>1. CASE Return(r)
      BY <1>5, <2>1, <2>2, <3>1
    <3>2. CASE ~Return(r)
      <4>1. PICK S \in SUBSET PartsOf(uploadId[r]) \ {{}} :
               local' = [local EXCEPT ![r].stored = PartsOf(uploadId[r]), ![r].todo = S]
        BY <2>9, <3>2 DEF ReadPartsToComplete
      <4>2. /\ pc'[r] = "concat" /\ local'[r].stored = PartsOf(uploadId[r])
            /\ \A q \in Proc \ {r} : UNCHANGED <<pc[q], local[q]>>
        <5>1. local[r] \in Local /\ pc' = [pc EXCEPT ![r] = "concat"]
          BY <2>1, <2>9, <3>2 DEF ReadPartsToComplete, Goto, TypeInv, Domains
        <5> QED BY <2>1, <4>1, <5>1, LocalUpdates DEF TypeInv, Domains
      <4>3. RemembersRow(r)' /\ RemembersParts(r)'
        BY <1>20, <2>1, <2>2, <2>9, <4>2 DEF ReadPartsToComplete
      <4> QED BY <1>3, <2>1, <2>2, <4>2, <4>3
    <3> QED BY <3>1, <3>2
  <2>10. CASE ConcatPart(r)
    <3>1. CASE Return(r)
      BY <1>5, <2>1, <2>2, <3>1
    <3>2. CASE ~Return(r)
      <4>1. PICK b \in local[r].todo :
               /\ local' = [local EXCEPT ![r].todo = local[r].todo \ {b}]
               /\ Goto(r, IF local[r].todo = {b} THEN "staged" ELSE "concat")
        BY <2>10, <3>2 DEF ConcatPart
      <4>2. /\ pc'[r] \in {"staged", "concat"} /\ local'[r].stored = local[r].stored
            /\ \A q \in Proc \ {r} : UNCHANGED <<pc[q], local[q]>>
        <5>1. local[r] \in Local
          BY <2>1 DEF TypeInv, Domains
        <5> QED BY <2>1, <4>1, <5>1, LocalUpdates DEF Goto, TypeInv, Domains
      <4>3. pc[r] = "concat" /\ op[r] = "complete"
        BY <2>10 DEF ConcatPart, TypeInv, OpFits
      <4>4. RemembersRow(r)' /\ RemembersParts(r)'
        BY <1>2, <2>1, <2>2, <4>2, <4>3 DEF RemembersRow, calls
      <4> QED BY <1>3, <2>1, <2>2, <4>2, <4>4
    <3> QED BY <3>1, <3>2
  <2> QED BY <1>10, <2>3, <2>4, <2>5, <2>6, <2>7, <2>8, <2>9, <2>10 DEF Serve
<1>11. ASSUME NEW p \in Proc, AbortOrFinish(p) PROVE Remembered'
  <2>1. UNCHANGED calls
    BY <1>11 DEF AbortOrFinish, Reap, RequireUpload, ReadPartsToAbort, Retire, DropParts, Still
  <2>2. CASE Reap(p)
    BY <1>5, <2>1, <2>2 DEF Reap
  <2>3. CASE RequireUpload(p)
    <3>1. CASE Return(p)
      BY <1>5, <2>1, <3>1
    <3>2. CASE ~Return(p)
      BY <1>9, <2>1, <2>3, <3>2 DEF RequireUpload
    <3> QED BY <3>1, <3>2
  <2>4. CASE ReadPartsToAbort(p)
    <3>1. /\ pc'[p] = "dropParts" /\ local'[p].stored = PartsOf(uploadId[p])
          /\ \A q \in Proc \ {p} : UNCHANGED <<pc[q], local[q]>>
      <4>1. /\ local[p] \in Local /\ pc' = [pc EXCEPT ![p] = "dropParts"]
            /\ local' = [local EXCEPT ![p].stored = PartsOf(uploadId[p])]
        BY <2>4 DEF ReadPartsToAbort, Goto, TypeInv, Domains
      <4> QED BY <4>1, LocalUpdates DEF TypeInv, Domains
    <3> QED BY <1>3, <1>20, <2>1, <2>4, <3>1 DEF ReadPartsToAbort
  <2>5. CASE Retire(p)
    <3>1. CASE op[p] = "complete"
      BY <1>9, <2>1, <2>5, <3>1 DEF Retire
    <3>2. CASE op[p] = "abort"
      BY <1>5, <2>1, <2>5, <3>2 DEF Retire
    <3> QED BY <2>5, <3>1, <3>2 DEF Retire
  <2>6. CASE DropParts(p)
    <3>1. CASE op[p] = "complete"
      BY <1>5, <2>1, <2>6, <3>1 DEF DropParts
    <3>2. CASE op[p] = "abort"
      <4>1. /\ pc[p] = "dropParts" /\ pc'[p] = "retire" /\ UNCHANGED local
            /\ \A q \in Proc \ {p} : UNCHANGED pc[q]
        BY <2>6, <3>2 DEF DropParts, Goto, TypeInv, Domains
      <4>2. ASSUME NEW b \in local[p].stored
            PROVE  /\ ~Open(b)' /\ op'[b] = "uploadPart" /\ uploadId'[b] = uploadId[p]
                   /\ Dead(b)'
        <5>1. b \in Request /\ Dead(b)'
          BY <2>6, DroppedPartsAreDead DEF Erasable
        <5>2. ~Open(b) /\ op[b] = "uploadPart" /\ uploadId[b] = uploadId[p]
          BY <3>2, <4>1 DEF Remembered, RemembersParts
        <5> QED BY <5>1, <5>2, CallsFrame DEF Open, Unwritten
      <4>3. RemembersRow(p)' /\ RemembersParts(p)'
        BY <2>1, <4>1, <4>2 DEF RemembersRow, RemembersParts, calls
      <4> QED BY <1>3, <2>1, <4>1, <4>3
    <3> QED BY <2>6, <3>1, <3>2 DEF DropParts
  <2> QED BY <1>11, <2>2, <2>3, <2>4, <2>5, <2>6 DEF AbortOrFinish
\* The collector remembers nothing between two aborts.
<1>12. CASE Collect \/ FailDelete \/ FailSweep
  <2>1. /\ pc'[Gc] \in Sweeping \cup {"requireUpload"} /\ UNCHANGED <<number>>
        /\ \A q \in Request : UNCHANGED <<pc[q], local[q], op[q], uploadId[q]>>
    BY <1>12 DEF Collect, StartSweep, AbandonUpload, ReadVersionPaths, ReadPartPaths,
         Cutoff, CollectBlob, FinishSweep, EndSweep, FailDelete, FailSweep, StillGc, Goto,
         Sweeping, calls, TypeInv, Domains, Proc
  <2>2. RemembersParts(Gc)'
    BY <1>4, <2>1 DEF Proc, Sweeping
  <2> QED BY <1>1, <1>2, <2>1, <2>2 DEF Remembered, Proc
<1>13. CASE (\E r \in Request : Fail(r)) \/ FailAbort
  BY <1>5, <1>13 DEF Fail, FailAbort, Proc
<1>14. CASE SetVersioning \/ Tick \/ UNCHANGED vars
  <2>1. UNCHANGED <<calls, pc, local>>
    BY <1>14 DEF SetVersioning, Tick, vars, calls
  <2> QED BY <1>1, <1>2, <2>1 DEF Remembered, Proc, calls
<1> QED BY <1>7, <1>8, <1>10, <1>11, <1>12, <1>13, <1>14 DEF Next

\* The collector's own steps apart, nobody touches its sweep but the clock.
LEMMA SweepFrame ==
  ASSUME TypeInv, [Next]_vars, pc'[Gc] \in {"readPartPaths", "cutoff", "walk"},
         ~ReadVersionPaths, ~ReadPartPaths, ~Cutoff
  PROVE  /\ pc'[Gc] = pc[Gc] /\ UNCHANGED refs /\ old' \subseteq old
         /\ UNCHANGED span \/ Tick
<1> USE IdAssumption DEF TypeInv, Domains, Proc, Goto, Return, DeleteBlobs, End
<1>1. CASE \E r \in Request : StartPut(r) \/ StartDelete(r) \/ StartUploadCall(r)
                                \/ CreateMultipartUpload(r) \/ Fail(r)
  BY <1>1, ZenonT(60) DEF StartPut, StartDelete, StartUploadCall, Arrive, CreateMultipartUpload, Fail, sweep
<1>2. CASE \E r \in Request : Serve(r)
  <2> SUFFICES ASSUME NEW r \in Request, Serve(r)
               PROVE  pc'[Gc] = pc[Gc] /\ UNCHANGED sweep
    BY <1>2 DEF sweep
  <2>1. CASE Write(r) \/ Reject(r)
    BY <2>1, SMTT(60) DEF Write, Reject, Still
  <2>2. CASE CommitVersion(r)
    BY <2>2, SMTT(60) DEF CommitVersion, Still
  <2>3. CASE FindObject(r) \/ PurgeObject(r)
    BY <2>3, SMTT(60) DEF FindObject, PurgeObject, Still
  <2>4. CASE SelectVersion(r) \/ DropVersion(r) \/ SelectPreviousPart(r) \/ UpsertPart(r)
    BY <2>4, SMTT(60) DEF SelectVersion, DropVersion, SelectPreviousPart, UpsertPart, Still
  <2>5. CASE ReadPartsToComplete(r) \/ ConcatPart(r)
    BY <2>5 DEF ReadPartsToComplete, ConcatPart, Still
  <2> QED BY <2>1, <2>2, <2>3, <2>4, <2>5 DEF Serve
<1>3. CASE \E p \in Proc : AbortOrFinish(p)
  BY <1>3 DEF AbortOrFinish, Reap, RequireUpload, ReadPartsToAbort, Retire, DropParts,
              Still, sweep
<1>4. CASE Collect
  BY <1>4 DEF Collect, StartSweep, AbandonUpload, CollectBlob, FinishSweep, EndSweep, sweep
<1>5. CASE FailAbort \/ FailDelete \/ FailSweep
  BY <1>5 DEF FailAbort, FailDelete, FailSweep, EndSweep
<1>6. CASE SetVersioning \/ Tick \/ UNCHANGED vars
  BY <1>6 DEF SetVersioning, Tick, vars, sweep
<1> QED BY <1>1, <1>2, <1>3, <1>4, <1>5, <1>6 DEF Next

\* GcService.run: what the collector has read stays enough to spare what is referred to.
LEMMA CollectorStep ==
  ASSUME SafetyInv, [Next]_vars
  PROVE  CollectorIsSafe'
<1> USE IdAssumption DEF SafetyInv
<1>1. disk \subseteq Request /\ disk' \subseteq Request /\ old \subseteq Request
  BY DomainsStep DEF TypeInv, Domains
\* A blob that is dead, young or a part's stays so while the collector reads.
<1>2. ASSUME pc'[Gc] = pc[Gc], pc[Gc] \in {"readPartPaths", "cutoff"},
             UNCHANGED span \/ Tick, NEW b \in disk'
      PROVE  /\ b \notin disk => Young(b)'
             /\ Young(b) => Young(b)'
             /\ Dead(b) => Dead(b)'
             /\ b \in PartPaths => Dead(b)' \/ b \in PartPaths'
  <2>1. /\ b \in Request /\ span \in Nat /\ span' \in Nat /\ age[b] \in Nat
        /\ age'[b] \in Nat /\ CommitDelay \in Nat
    BY <1>1, DomainsStep, TimeAssumption DEF TypeInv, Domains, MaxAge
  <2>2. b \notin disk => Young(b)'
    BY <2>1, DiskFrame DEF Young
  <2>3. Young(b) => Young(b)'
    <3>1. Tick => span' = span + 1
      BY <1>2 DEF Tick, Reading
    <3> QED BY <1>2, <2>1, <3>1, AgeFrame DEF Young
  <2>4. ASSUME b \in PartPaths PROVE Dead(b)' \/ b \in PartPaths'
    <3>1. ~Open(b) /\ op[b] = "uploadPart"
      BY <2>4 DEF PartPaths, PartsOf, PlacesAreOwn, Slot, TypeInv, Domains, OrNone
    <3>2. ~Open(b)' /\ op'[b] = "uploadPart"
      BY <2>1, <3>1, CallsFrame DEF Open, Unwritten
    <3>3. b \notin VersionPaths'
      BY <3>2, PlacesStep DEF PlacesAreOwn, VersionPaths
    <3> QED BY <3>2, <3>3 DEF Dead, Referenced
  <2> QED BY <2>1, <2>2, <2>3, <2>4, DeadStable
<1>3. CASE ReadVersionPaths
  <2>1. /\ pc'[Gc] = "readPartPaths" /\ refs' = VersionPaths
        /\ UNCHANGED <<db, disk, age, span>> /\ \A r \in Request : pc'[r] = pc[r]
    BY <1>3 DEF ReadVersionPaths, StillGc, Goto, TypeInv, Domains, Proc
  <2>2. ASSUME NEW b \in disk \ VersionPaths
        PROVE  Dead(b) \/ Young(b) \/ b \in PartPaths
    <3>1. CASE Open(b)
      <4>1. age[b] <= CommitDelay /\ age[b] \in Nat /\ span \in Nat
        BY <1>1, <3>1, TimeAssumption DEF OpenBlobsOnDisk, Open, TypeInv, Domains, MaxAge
      <4> QED BY <4>1, TimeAssumption DEF Young
    <3>2. CASE ~Open(b)
      BY <3>2 DEF Dead, Referenced
    <3> QED BY <3>1, <3>2
  <2>3. \A b \in Request : Dead(b) => Dead(b)'
    BY DeadStable
  <2>4. \A b \in Request : Young(b) => Young(b)'
    BY <2>1 DEF Young
  <2>5. PartPaths' = PartPaths
    BY <2>1 DEF PartPaths, PartsOf, db
  <2> QED BY <1>1, <2>1, <2>2, <2>3, <2>4, <2>5 DEF CollectorIsSafe
<1>4. CASE ReadPartPaths
  <2>1. /\ pc'[Gc] = "cutoff" /\ refs' = refs \cup PartPaths /\ pc[Gc] = "readPartPaths"
        /\ UNCHANGED <<disk, age, span>>
    BY <1>4 DEF ReadPartPaths, StillGc, Goto, TypeInv, Domains, Proc
  <2>2. \A b \in Request : (Dead(b) => Dead(b)') /\ (Young(b) => Young(b)')
    BY <2>1, DeadStable DEF Young
  <2> QED BY <1>1, <2>1, <2>2 DEF CollectorIsSafe
<1>5. CASE Cutoff
  <2>1. /\ pc'[Gc] = "walk" /\ pc[Gc] = "cutoff" /\ UNCHANGED refs
        /\ old' = {b \in disk : OldEnough(b)}
    BY <1>5 DEF Cutoff, Goto, TypeInv, Domains, Proc
  <2>2. ASSUME NEW b \in disk, OldEnough(b) PROVE ~Young(b)
    <3>1. span <= ReadDelay /\ span \in Nat /\ age[b] \in Nat
      BY <1>1, TimeAssumption DEF TypeInv, Domains, MaxAge
    <3> QED BY <2>2, <3>1, TimeAssumption DEF OldEnough, Young
  <2>3. \A b \in old' \ refs : Dead(b) /\ b \in Request
    BY <1>1, <2>1, <2>2 DEF CollectorIsSafe
  <2> QED BY <2>1, <2>3, DeadStable DEF CollectorIsSafe
<1>6. CASE ~ReadVersionPaths /\ ~ReadPartPaths /\ ~Cutoff
  <2>1. CASE pc'[Gc] \in {"readPartPaths", "cutoff"}
    BY <1>2, <1>6, <2>1, SweepFrame DEF CollectorIsSafe
  <2>2. CASE pc'[Gc] = "walk"
    BY <1>1, <1>6, <2>2, SweepFrame, DeadStable DEF CollectorIsSafe
  <2>3. CASE pc'[Gc] \notin {"readPartPaths", "cutoff", "walk"}
    BY <2>3 DEF CollectorIsSafe
  <2> QED BY <2>1, <2>2, <2>3
<1> QED BY <1>3, <1>4, <1>5, <1>6

\* The inductive invariant: rows, the handlers between two statements, and the collector.
THEOREM SafetyInvariant == Spec => []SafetyInv
<1>1. SafetyInv /\ [Next]_vars => SafetyInv'
  <2> SUFFICES ASSUME SafetyInv, [Next]_vars PROVE SafetyInv'
    OBVIOUS
  <2>1. TypeInv'
    BY DomainsStep, OpFitsStep, KnowsTargetStep DEF SafetyInv, TypeInv
  <2>2. PlacesAreOwn'
    BY PlacesStep DEF SafetyInv
  <2> QED BY <2>1, <2>2, RowsHaveBlobsStep, OpenBlobsStep, RememberedStep, DoomedStep,
             CollectorStep DEF SafetyInv
<1> QED BY SafetyInit, <1>1, PTL DEF Spec

(* No payload is ever lost: whatever calls, deletes, aborts, crashes and sweeps *)
(* interleave, the blob of every version and part that a row names is on disk.  *)
THEOREM BlobSafety == Spec => []RowsHaveBlobs
<1>1. SafetyInv => RowsHaveBlobs
  BY DEF SafetyInv
<1> QED BY SafetyInvariant, <1>1, PTL

-----------------------------------------------------------------------------
(***************************************************************************)
(* ObjectStore implements BlobLedger.                                      *)
(***************************************************************************)

\* Only a call that writes has a blob, and its operation is what it was.
FilesAreWritten == \A b \in disk : op[b] \in WriterOps

\* Only writers leave files.
LEMMA FilesStep ==
  ASSUME SafetyInv, FilesAreWritten, [Next]_vars
  PROVE  FilesAreWritten'
<1> USE IdAssumption DEF SafetyInv
<1> SUFFICES ASSUME NEW b \in disk' PROVE op'[b] \in WriterOps
  BY DEF FilesAreWritten
<1>1. b \in Request
  BY DomainsStep DEF Domains
<1>2. CASE b \in disk
  <2>1. pc[b] # "idle" /\ op[b] \in WriterOps
    BY <1>1, <1>2 DEF FilesAreWritten, OpenBlobsOnDisk, Unwritten
  <2> QED BY <1>1, <2>1, CallsFrame
<1>3. CASE b \notin disk
  <2>1. pc'[b] \in Pending
    BY <1>3, DiskFrame
  <2>2. OpFits'
    BY OpFitsStep
  <2> QED BY <1>1, <2>1, <2>2 DEF OpFits, Pending, WriterOps
<1> QED BY <1>2, <1>3

(* Every variable stays within its type: in particular no call reaches a       *)
(* statement for an upload, a key or a version row that it does not know, a    *)
(* multipart_upload row, once inserted, is never without a status, and only    *)
(* paths at which a payload was written are handed to deleteBlobs.             *)
THEOREM TypeCorrect == Spec => []TypeOK
<1>1. Init => FilesAreWritten
  BY DEF Init, FilesAreWritten
<1>2. SafetyInv /\ FilesAreWritten /\ [Next]_vars => FilesAreWritten'
  BY FilesStep
<1>3. SafetyInv /\ FilesAreWritten => TypeOK
  BY DEF SafetyInv, TypeInv, Domains, FilesAreWritten, DoomedAreDead, Erasable, Paths, TypeOK
<1> QED BY SafetyInvariant, <1>1, <1>2, <1>3, PTL DEF Spec

\* A step moves one open call, or removes one dead blob.
LEMMA OneMover ==
  ASSUME TypeInv, [Next]_vars, NEW a \in Request
  PROVE  \E c \in Request : \A b \in Request \ {c} :
            /\ Open(b) => pc'[b] = pc[b]
            /\ b \in disk /\ ~Open(b) => b \in disk'
<1> USE IdAssumption DEF TypeInv, Domains, Proc, Goto, Return, DeleteBlobs
<1>1. CASE \E r \in Request : StartPut(r) \/ StartDelete(r) \/ StartUploadCall(r)
                                \/ CreateMultipartUpload(r) \/ Fail(r)
  <2> SUFFICES ASSUME NEW r \in Request, \/ StartPut(r) \/ StartDelete(r)
                                         \/ StartUploadCall(r)
                                         \/ CreateMultipartUpload(r) \/ Fail(r)
               PROVE  (\A b \in Request \ {r} : pc'[b] = pc[b]) /\ UNCHANGED disk
    BY <1>1
  <2>1. CASE StartPut(r) \/ StartDelete(r) \/ StartUploadCall(r)
    BY <2>1 DEF StartPut, StartDelete, StartUploadCall, Arrive, files
  <2>2. CASE CreateMultipartUpload(r) \/ Fail(r)
    BY <2>2 DEF CreateMultipartUpload, Fail, files
  <2> QED BY <2>1, <2>2
<1>2. CASE \E r \in Request : Serve(r)
  <2> SUFFICES ASSUME NEW r \in Request, Serve(r)
               PROVE  \A b \in Request \ {r} : pc'[b] = pc[b] /\ (b \in disk => b \in disk')
    BY <1>2
  <2>1. CASE Write(r) \/ Reject(r) \/ CommitVersion(r) \/ FindObject(r) \/ PurgeObject(r)
    BY <2>1 DEF Write, Reject, CommitVersion, FindObject, PurgeObject, files
  <2>2. CASE SelectVersion(r) \/ DropVersion(r) \/ SelectPreviousPart(r) \/ UpsertPart(r)
    BY <2>2 DEF SelectVersion, DropVersion, SelectPreviousPart, UpsertPart, files
  <2>3. CASE ReadPartsToComplete(r) \/ ConcatPart(r)
    BY <2>3 DEF ReadPartsToComplete, ConcatPart, files
  <2> QED BY <2>1, <2>2, <2>3 DEF Serve
<1>3. CASE \E p \in Proc : Reap(p)
  <2>3. PICK p \in Proc : Reap(p)
    BY <1>3
  <2>1. PICK c \in doomed[p] :
           /\ pc[p] = "reap" /\ disk' = disk \ {c}
           /\ \A q \in Proc \ {p} : pc'[q] = pc[q]
    BY <2>3 DEF Reap
  <2>2. c \in Request /\ \A b \in Request : Open(b) => b # p
    BY <2>1 DEF Open, Unwritten, Pending
  <2> QED BY <2>1, <2>2
<1>4. CASE \E p \in Proc : RequireUpload(p) \/ ReadPartsToAbort(p) \/ Retire(p) \/ DropParts(p)
  <2>1. PICK p \in Proc : /\ \A b \in Proc \ {p} : pc'[b] = pc[b]
                          /\ UNCHANGED disk
    BY <1>4 DEF RequireUpload, ReadPartsToAbort, Retire, DropParts, files
  <2> QED BY <2>1
<1>5. CASE Collect \/ FailAbort \/ FailDelete \/ FailSweep \/ SetVersioning \/ Tick \/ UNCHANGED vars
  <2>1. \A b \in Request : pc'[b] = pc[b]
    BY <1>5 DEF Collect, StartSweep, AbandonUpload, ReadVersionPaths, ReadPartPaths, Cutoff,
         CollectBlob, FinishSweep, EndSweep, FailAbort, FailDelete, FailSweep, SetVersioning, Tick, vars
  <2>2. \E c \in Request : disk \ {c} \subseteq disk'
    BY <1>5 DEF Collect, StartSweep, AbandonUpload, ReadVersionPaths, ReadPartPaths, Cutoff,
         CollectBlob, Garbage, FinishSweep, FailAbort, FailDelete, FailSweep, SetVersioning, Tick, vars,
         files
  <2> QED BY <2>1, <2>2
<1> QED BY <1>1, <1>2, <1>3, <1>4, <1>5 DEF Next, AbortOrFinish

\* What the phase of a blob is, condition by condition.
LEMMA PhaseCases ==
  ASSUME RowsHaveBlobs, NEW b \in Request
  PROVE  /\ b \in Referenced => Phase[b] = "claimed"
         /\ b \notin Referenced /\ b \in disk /\ pc[b] \in Pending => Phase[b] = "staged"
         /\ b \notin Referenced /\ b \in disk /\ pc[b] \notin Pending => Phase[b] = "released"
         /\ b \notin Referenced /\ b \notin disk
               /\ (pc[b] \in Unwritten \/ op[b] \notin WriterOps) => Phase[b] = "unborn"
         /\ b \notin Referenced /\ b \notin disk
               /\ pc[b] \notin Unwritten /\ op[b] \in WriterOps => Phase[b] = "gone"
BY DEF Phase, RowsHaveBlobs

\* What one step of the store is to one file, seen as a phase of its life.
LEMMA PhaseStep ==
  ASSUME SafetyInv, FilesAreWritten, [Next]_vars, NEW b \in Request
  PROVE  /\ Phase'[b] # Phase[b] => <<Phase[b], Phase'[b]>> \in Ledger!Life
         /\ Phase'[b] # Phase[b] /\ Phase[b] # "claimed"
               => (Open(b) /\ pc'[b] # pc[b]) \/ (b \in disk /\ ~Open(b) /\ b \notin disk')
<1> USE IdAssumption DEF SafetyInv
<1> DEFINE now == Phase[b]
           then == Phase'[b]
<1>1. /\ pc[b] \in Unwritten => b \notin disk
      /\ pc[b] \in Pending => b \in disk /\ op[b] \in WriterOps
      /\ b \in disk => op[b] \in WriterOps
      /\ b \in Referenced => b \in disk /\ ~Open(b) /\ ~Dead(b)
  BY NamedIsClosed DEF OpenBlobsOnDisk, FilesAreWritten, RowsHaveBlobs
<1>2. /\ pc'[b] \in Unwritten => pc[b] \in Unwritten
      /\ pc'[b] \in Pending => pc[b] \in Pending \/ pc[b] \in Unwritten
      /\ pc[b] # "idle" => op'[b] = op[b]
      /\ Open(b) = (pc[b] \in Unwritten \/ pc[b] \in Pending)
      /\ Open(b)' = (pc'[b] \in Unwritten \/ pc'[b] \in Pending)
  BY CallsFrame DEF Open
<1>3. /\ b \in disk' /\ b \notin disk => pc[b] \in Unwritten /\ pc'[b] \in Pending
      /\ b \notin disk' /\ b \in disk => Dead(b) \/ (pc[b] \in Pending /\ ~Open(b)')
  BY DiskFrame
<1>4. RowsHaveBlobs' /\ (b \in Referenced' => b \in disk' /\ ~Open(b)' /\ ~Dead(b)')
  <2>1. PlacesAreOwn' /\ RowsHaveBlobs'
    BY RowsHaveBlobsStep, PlacesStep
  <2>2. b \in VersionPaths' => ~Open(b)'
    BY <2>1 DEF PlacesAreOwn, VersionPaths
  <2>3. b \in PartPaths' => ~Open(b)'
    BY <2>1 DEF PlacesAreOwn, Slot, PartPaths, PartsOf
  <2> QED BY <2>1, <2>2, <2>3 DEF RowsHaveBlobs, Dead, Referenced
<1>5. Dead(b) => Dead(b)'
  BY DeadStable
<1>6. /\ b \in Referenced => now = "claimed"
      /\ b \notin Referenced /\ b \in disk /\ pc[b] \in Pending => now = "staged"
      /\ b \notin Referenced /\ b \in disk /\ pc[b] \notin Pending => now = "released"
      /\ b \notin Referenced /\ b \notin disk
            /\ (pc[b] \in Unwritten \/ op[b] \notin WriterOps) => now = "unborn"
      /\ b \notin Referenced /\ b \notin disk
            /\ pc[b] \notin Unwritten /\ op[b] \in WriterOps => now = "gone"
  BY PhaseCases
<1>7. /\ b \in Referenced' => then = "claimed"
      /\ b \notin Referenced' /\ b \in disk' /\ pc'[b] \in Pending => then = "staged"
      /\ b \notin Referenced' /\ b \in disk' /\ pc'[b] \notin Pending => then = "released"
      /\ b \notin Referenced' /\ b \notin disk'
            /\ (pc'[b] \in Unwritten \/ op'[b] \notin WriterOps) => then = "unborn"
      /\ b \notin Referenced' /\ b \notin disk'
            /\ pc'[b] \notin Unwritten /\ op'[b] \in WriterOps => then = "gone"
  BY <1>4 DEF Phase
<1>8. b \notin Referenced /\ b \in Referenced' => pc[b] \in Pending
  <2>1. ASSUME b \notin PartPaths, b \in PartPaths' PROVE pc[b] \in Pending
    <3>1. PICK u \in Request, n \in PartNumber : part'[u][n] = b
      BY <2>1 DEF PartPaths, PartsOf
    <3>2. part[u][n] # b
      BY <2>1 DEF PartPaths, PartsOf
    <3> QED BY <3>1, <3>2, NamesFrame DEF Pending
  <2> QED BY <2>1, NewVersionPaths DEF Referenced, Pending
<1>9. pc'[b] \in Pending => b \in disk'
  BY OpenBlobsStep DEF OpenBlobsOnDisk
<1>10. ~(pc[b] \in Pending /\ pc[b] \in Unwritten) /\ (pc[b] = "idle" => pc[b] \in Unwritten)
  BY DEF Pending, Unwritten
<1> HIDE DEF now, then
<1>11. CASE b \in Referenced
  <2>1. b \in disk' /\ ~Open(b)'
    BY <1>1, <1>2, <1>3, <1>11
  <2>2. now = "claimed" /\ then \in {"claimed", "released"}
    BY <1>2, <1>6, <1>7, <1>11, <2>1
  <2> QED BY <2>2 DEF Ledger!Life, now, then
<1>12. CASE b \notin Referenced /\ pc[b] \in Pending
  <2>1. /\ now = "staged"
        /\ then \in {"staged", "claimed", "released", "gone"}
        /\ Open(b) /\ (then # "staged" => pc'[b] # pc[b])
    BY <1>1, <1>2, <1>3, <1>4, <1>6, <1>7, <1>10, <1>12 DEF Dead
  <2> QED BY <2>1 DEF Ledger!Life, now, then
<1>13. CASE b \notin Referenced /\ b \in disk /\ pc[b] \notin Pending
  <2>1. /\ ~Open(b) /\ Dead(b) /\ Dead(b)'
        /\ op'[b] = op[b] /\ op[b] \in WriterOps
    BY <1>1, <1>2, <1>5, <1>10, <1>13 DEF Dead
  <2>2. /\ now = "released" /\ then \in {"released", "gone"}
        /\ then # "released" => b \notin disk'
    BY <1>2, <1>6, <1>7, <1>13, <2>1 DEF Dead
  <2> QED BY <1>13, <2>1, <2>2 DEF Ledger!Life, now, then
<1>14. CASE b \notin Referenced /\ b \notin disk /\ pc[b] \in Unwritten
  <2>1. now = "unborn" /\ Open(b) /\ b \notin Referenced'
    BY <1>2, <1>6, <1>8, <1>10, <1>14
  <2>2. /\ then \in {"unborn", "staged", "gone"}
        /\ then # "unborn" => pc'[b] # pc[b]
    BY <1>3, <1>7, <1>9, <1>10, <1>14, <2>1
  <2> QED BY <2>1, <2>2 DEF Ledger!Life, now, then
<1>15. CASE b \notin Referenced /\ b \notin disk /\ ~Open(b)
  <2>1. /\ Dead(b)' /\ op'[b] = op[b] /\ b \notin disk'
        /\ pc[b] \notin Unwritten /\ pc'[b] \notin Unwritten
    BY <1>2, <1>3, <1>5, <1>10, <1>15 DEF Dead
  <2>2. then = now
    BY <1>6, <1>7, <1>15, <2>1 DEF Dead
  <2> QED BY <2>2 DEF now, then
<1> QED BY <1>1, <1>2, <1>11, <1>12, <1>13, <1>14, <1>15

\* Every step of the store is a step of the ledger, or leaves it as it was.
LEMMA LedgerStep ==
  ASSUME SafetyInv, FilesAreWritten, [Next]_vars
  PROVE  [Ledger!LedgerNext]_Phase
<1>1. Phase' \in [Request -> Ledger!Phases]
  <2>1. RowsHaveBlobs'
    BY RowsHaveBlobsStep
  <2> QED BY <2>1 DEF Phase, RowsHaveBlobs, Ledger!Phases
<1>2. \A b \in Request : Phase[b] # Phase'[b] => <<Phase[b], Phase'[b]>> \in Ledger!Life
  BY PhaseStep
<1>3. PICK c \in Request \cup {None} : \A b \in Request \ {c} :
         /\ Open(b) => pc'[b] = pc[b]
         /\ b \in disk /\ ~Open(b) => b \in disk'
  BY OneMover DEF SafetyInv
<1>4. \A b \in Request : Phase[b] # Phase'[b] /\ Phase[b] # "claimed" => b = c
  BY <1>3, PhaseStep
<1> QED BY <1>1, <1>2, <1>4 DEF Ledger!LedgerNext

\* The store starts where the ledger starts.
LEMMA LedgerInit ==
  Init => Ledger!LedgerInit /\ FilesAreWritten
<1> SUFFICES ASSUME Init PROVE Ledger!LedgerInit /\ FilesAreWritten
  OBVIOUS
<1>1. Referenced = {}
  BY DEF Init, Referenced, VersionPaths, Rows, PartPaths, PartsOf
<1> QED BY <1>1 DEF Init, Phase, Ledger!LedgerInit, FilesAreWritten, Unwritten, Proc

(* What a client is promised about one payload holds of the whole store: it is  *)
(* claimed by a row once, erased only after its last row is gone, and whatever  *)
(* a call leaves behind when it dies can no longer be claimed by anyone.        *)
THEOREM ImplementsLedger == Spec => LedgerSpec
<1>1. SafetyInv /\ FilesAreWritten /\ [Next]_vars
        => FilesAreWritten' /\ [Ledger!LedgerNext]_Phase
  BY FilesStep, LedgerStep
<1> QED BY SafetyInvariant, LedgerInit, <1>1, PTL DEF Spec, LedgerSpec, Ledger!LedgerSpec
=============================================================================
