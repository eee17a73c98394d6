------------------------------ MODULE VersionTx ------------------------------
(***************************************************************************)
(* The transactions of ObjectsService on one key, statement by statement,  *)
(* as Postgres runs them at READ COMMITTED: a statement sees what is       *)
(* committed when it runs and what its own transaction wrote, a row that   *)
(* another transaction has written makes it wait, and a deadlock is broken *)
(* by ending one of those that wait.  ObjectStore takes each transaction   *)
(* for one step; here is what becomes of that, and of the pointer to the   *)
(* latest version.  Rows of other keys share nothing with these.           *)
(*                                                                         *)
(* As in ObjectStore, the guid of the version row and of the object row    *)
(* that call t may insert are both written t.                              *)
(***************************************************************************)
EXTENDS Naturals, FiniteSets

CONSTANTS
    Call,       \* the calls that may be made on the key
    Ops,        \* the operations each call of this instance may be
    None        \* SQL null, and "no row"

Puts == {"putNull", "putVersion"}
AllOps == Puts \cup {"deleteVersion", "purge", "read"}

ASSUME CallAssumption == IsFiniteSet(Call) /\ None \notin Call \cup AllOps
ASSUME OpsAssumption == Ops \in [Call -> SUBSET AllOps]

VARIABLES
    \* The key's object row, committed: its guid and its latestVersionGuid.
    current, latest,
    holder,     \* the transaction that has written it, and
    draft,      \* what it will be when that transaction commits
    \* The version rows, and the transactions that have deleted them.
    version,
    eraser,
    \* The calls.
    pc, op,
    born,       \* createdAt of the row a call inserts: when its transaction began
    found,      \* the object row it works on
    row,        \* the version row it has read
    newest,     \* the version row it has chosen for the latest
    todo,       \* the version rows its DELETE has still to lock
    reported    \* the version rows whose blobs it deletes once committed

objectRow == <<current, latest, holder, draft>>
rows == <<version, eraser>>
memory == <<op, born, found, row, newest, todo, reported>>
vars == <<objectRow, rows, pc, memory>>

OrNone == Call \cup {None}
VersionRow == [object : Call, isNull : BOOLEAN, createdAt : 1 .. Cardinality(Call)]
ObjectRow == [guid : OrNone, latest : OrNone]
NoObject == [guid |-> None, latest |-> None]
ASSUME NoneAssumption == None \notin VersionRow   \* no row passes for a missing one

Ended == {"served", "missed", "nothing", "committed", "failed"}
InTransaction == {"upsert", "replace", "insert", "point", "remove", "choose",
                  "repoint", "scan", "purge", "dropObject", "checkRefs", "commit"}
Label == {"ready", "find", "select", "readVersion"} \cup InTransaction \cup Ended

Domains ==
    /\ current \in OrNone /\ latest \in OrNone
    /\ holder \in OrNone /\ draft \in ObjectRow
    /\ version \in [Call -> VersionRow \cup {None}]
    /\ eraser \in [Call -> OrNone]
    /\ pc \in [Call -> Label]
    /\ op \in [Call -> AllOps \cup {None}]
    /\ born \in [Call -> 0 .. Cardinality(Call)]
    /\ found \in [Call -> OrNone] /\ row \in [Call -> OrNone]
    /\ newest \in [Call -> OrNone]
    /\ todo \in [Call -> SUBSET Call] /\ reported \in [Call -> SUBSET Call]

\* latestVersionGuid may be null in the table, as a new key is inserted before its
\* first version; a transaction that commits one has set it.
TypeOK == Domains /\ (current = None <=> latest = None)

Init ==
    /\ current = None /\ latest = None
    /\ holder = None /\ draft = NoObject
    /\ version = [g \in Call |-> None]
    /\ eraser = [g \in Call |-> None]
    /\ pc = [t \in Call |-> "ready"]
    /\ op = [t \in Call |-> None]
    /\ born = [t \in Call |-> 0]
    /\ found = [t \in Call |-> None] /\ row = [t \in Call |-> None]
    /\ newest = [t \in Call |-> None]
    /\ todo = [t \in Call |-> {}] /\ reported = [t \in Call |-> {}]

-----------------------------------------------------------------------------
(* What statements see, lock and leave. *)

Committed == {g \in Call : version[g] # None /\ pc[g] = "committed"}
Visible(t) == {g \in Committed \cup {t} : version[g] # None /\ eraser[g] # t}
OfObject(S, o) == {g \in S : version[g].object = o}

Goto(t, label) == pc' = [pc EXCEPT ![t] = label]

\* The object row o, if it is still there, is written by t as soon as no other
\* transaction has it.
WriteObject(t, o, value, then) ==
    \/ /\ current = o /\ holder = None
       /\ holder' = t /\ draft' = value
       /\ Goto(t, then)
       /\ UNCHANGED <<current, latest>>
    \/ /\ current # o
       /\ Goto(t, "commit")
       /\ UNCHANGED objectRow

\* What the call held in memory is gone, but for the paths it returns.
Forget(t, paths) ==
    /\ found' = [found EXCEPT ![t] = None]
    /\ row' = [row EXCEPT ![t] = None]
    /\ newest' = [newest EXCEPT ![t] = None]
    /\ todo' = [todo EXCEPT ![t] = {}]
    /\ reported' = [reported EXCEPT ![t] = paths]
    /\ UNCHANGED <<op, born>>

\* Whatever t wrote is undone, and its locks are released.
Undo(t) ==
    /\ Goto(t, "failed")
    /\ Forget(t, {})
    /\ version' = [version EXCEPT ![t] = None]
    /\ eraser' = [g \in Call |-> IF eraser[g] = t THEN None ELSE eraser[g]]
    /\ holder' = IF holder = t THEN None ELSE holder
    /\ draft' = IF holder = t THEN NoObject ELSE draft
    /\ UNCHANGED <<current, latest>>

Commit(t) ==
    /\ pc[t] = "commit"
    /\ version' = [g \in Call |-> IF eraser[g] = t THEN None ELSE version[g]]
    /\ eraser' = [g \in Call |-> IF eraser[g] = t THEN None ELSE eraser[g]]
    /\ \/ /\ holder = t
          /\ current' = draft.guid /\ latest' = draft.latest
          /\ holder' = None /\ draft' = NoObject
       \/ holder # t /\ UNCHANGED objectRow
    /\ Goto(t, "committed")
    /\ Forget(t, reported[t])

-----------------------------------------------------------------------------
(* A call comes in. *)

Begun == {t \in Call : born[t] > 0}
Timestamp == Cardinality(Begun) + 1

Start(t) ==
    /\ pc[t] = "ready"
    /\ \E o \in Ops[t] :
          /\ op' = [op EXCEPT ![t] = o]
          /\ Goto(t, IF o \in Puts THEN "upsert" ELSE "find")
          /\ born' = IF o \in Puts THEN [born EXCEPT ![t] = Timestamp] ELSE born
    /\ UNCHANGED <<objectRow, rows, found, row, newest, todo, reported>>

\* Read outside of any transaction; a key that is not there ends the call.
FindObject(t) ==
    /\ pc[t] = "find"
    /\ \/ current = None /\ Goto(t, "nothing") /\ UNCHANGED <<found, row>>
       \/ /\ current # None
          /\ found' = [found EXCEPT ![t] = current]
          /\ row' = [row EXCEPT ![t] = latest]
          /\ Goto(t, CASE op[t] = "read" -> "readVersion"
                       [] op[t] = "deleteVersion" -> "select"
                       [] op[t] = "purge" -> "scan")
    /\ UNCHANGED <<objectRow, rows, op, born, newest, todo, reported>>

\* getVersion: the version that the object row pointed at.
ReadVersion(t) ==
    /\ pc[t] = "readVersion"
    /\ Goto(t, IF row[t] \in Committed THEN "served" ELSE "missed")
    /\ UNCHANGED <<objectRow, rows, memory>>

-----------------------------------------------------------------------------
(* commitVersion *)

\* Deviation: ON CONFLICT DO NOTHING leaves a row that exists unlocked.
UpsertWithoutLock(t) ==
    /\ pc[t] = "upsert" /\ (current = None => holder = None)
    /\ found' = [found EXCEPT ![t] = IF current = None THEN t ELSE current]
    /\ IF current # None THEN UNCHANGED <<holder, draft>>
       ELSE holder' = t /\ draft' = [guid |-> t, latest |-> None]
    /\ Goto(t, IF op[t] = "putNull" THEN "replace" ELSE "insert")
    /\ UNCHANGED <<current, latest, rows, op, born, row, newest, todo, reported>>

\* The unique key makes an insert wait for whoever inserts or deletes the row,
\* and the update of a row that exists waits for whoever has written it.
UpsertObject(t) ==
    /\ pc[t] = "upsert" /\ holder = None
    /\ LET o == IF current = None THEN t ELSE current
       IN  /\ found' = [found EXCEPT ![t] = o]
           /\ draft' = [guid |-> o, latest |-> latest]
    /\ holder' = t
    /\ Goto(t, IF op[t] = "putNull" THEN "replace" ELSE "insert")
    /\ UNCHANGED <<current, latest, rows, op, born, row, newest, todo, reported>>

NullRows(t) == {g \in OfObject(Visible(t), found[t]) : version[g].isNull}

\* Deviation: the paths of the rows that were deleted are not returned.
ReplaceSilently(t) ==
    /\ pc[t] = "replace"
    /\ \A g \in NullRows(t) : eraser[g] = None
    /\ eraser' = [g \in Call |-> IF g \in NullRows(t) THEN t ELSE eraser[g]]
    /\ Goto(t, "insert")
    /\ UNCHANGED <<objectRow, version, memory>>

\* Deviation: the DELETE lost its condition on the version id in RETURNING only.
ReplaceAndReportAll(t) ==
    /\ pc[t] = "replace"
    /\ \A g \in NullRows(t) : eraser[g] = None
    /\ eraser' = [g \in Call |-> IF g \in NullRows(t) THEN t ELSE eraser[g]]
    /\ reported' = [reported EXCEPT ![t] = OfObject(Visible(t), found[t])]
    /\ Goto(t, "insert")
    /\ UNCHANGED <<objectRow, version, op, born, found, row, newest, todo>>

ReplaceNull(t) ==
    /\ pc[t] = "replace"
    /\ \A g \in NullRows(t) : eraser[g] = None
    /\ eraser' = [g \in Call |-> IF g \in NullRows(t) THEN t ELSE eraser[g]]
    /\ reported' = [reported EXCEPT ![t] = NullRows(t)]
    /\ Goto(t, "insert")
    /\ UNCHANGED <<objectRow, version, op, born, found, row, newest, todo>>

InsertVersion(t) ==
    /\ pc[t] = "insert"
    /\ version' = [version EXCEPT ![t] = [object |-> found[t],
                                          isNull |-> op[t] = "putNull",
                                          createdAt |-> born[t]]]
    /\ Goto(t, "point")
    /\ UNCHANGED <<objectRow, eraser, memory>>

\* Deviation: the update is made conditional on the pointer it replaces, and
\* nothing in SQL equals null.
PointIfUnmoved(t) ==
    /\ pc[t] = "point"
    /\ draft' = [draft EXCEPT !.latest = IF @ = None THEN None ELSE t]
    /\ Goto(t, "commit")
    /\ UNCHANGED <<current, latest, holder, rows, memory>>

\* Deviation: the pointer is set when the key is new only.
PointOnce(t) ==
    /\ pc[t] = "point"
    /\ draft' = [draft EXCEPT !.latest = IF @ = None THEN t ELSE @]
    /\ Goto(t, "commit")
    /\ UNCHANGED <<current, latest, holder, rows, memory>>

PointAtVersion(t) ==
    /\ pc[t] = "point"
    /\ draft' = [draft EXCEPT !.latest = t]
    /\ Goto(t, "commit")
    /\ UNCHANGED <<current, latest, holder, rows, memory>>

-----------------------------------------------------------------------------
(* deleteVersion *)

\* The row is read before the transaction begins, or it is not there.
SelectVersion(t) ==
    /\ pc[t] = "select"
    /\ \/ Goto(t, "nothing") /\ UNCHANGED <<row, reported>>
       \/ \E g \in OfObject(Committed, found[t]) :
             /\ row' = [row EXCEPT ![t] = g]
             /\ reported' = [reported EXCEPT ![t] = {g}]
             /\ Goto(t, "remove")
    /\ UNCHANGED <<objectRow, rows, op, born, found, newest, todo>>

RemoveVersion(t) ==
    /\ pc[t] = "remove"
    /\ LET g == row[t]
       IN  \/ version[g] = None /\ UNCHANGED eraser
           \/ /\ version[g] # None /\ eraser[g] = None
              /\ eraser' = [eraser EXCEPT ![g] = t]
    /\ Goto(t, "choose")
    /\ UNCHANGED <<objectRow, version, memory>>

\* A row that another transaction is about to remove is still seen, one that
\* another transaction is about to add is not.
ChooseNewest(t) ==
    /\ pc[t] = "choose"
    /\ LET left == OfObject(Visible(t), found[t])
       IN  \/ left = {} /\ Goto(t, "dropObject") /\ UNCHANGED newest
           \/ /\ \E g \in left :
                    /\ \A h \in left : version[h].createdAt <= version[g].createdAt
                    /\ newest' = [newest EXCEPT ![t] = g]
              /\ Goto(t, "repoint")
    /\ UNCHANGED <<objectRow, rows, op, born, found, row, todo, reported>>

\* Deviation: the early return leaves the transaction open.
RepointAndLeave(t) ==
    /\ pc[t] = "repoint"
    /\ WriteObject(t, found[t], [guid |-> found[t], latest |-> newest[t]], "repoint")
    /\ UNCHANGED <<rows, memory>>

Repoint(t) ==
    /\ pc[t] = "repoint"
    /\ WriteObject(t, found[t], [guid |-> found[t], latest |-> newest[t]], "commit")
    /\ UNCHANGED <<rows, memory>>

-----------------------------------------------------------------------------
(* purgeObject, and the end of a key *)

ScanVersions(t) ==
    /\ pc[t] = "scan"
    /\ todo' = [todo EXCEPT ![t] = OfObject(Committed, found[t])]
    /\ Goto(t, IF todo'[t] = {} THEN "dropObject" ELSE "purge")
    /\ UNCHANGED <<objectRow, rows, op, born, found, row, newest, reported>>

\* The rows are locked one after the other; one that has gone is passed over.
PurgeVersion(t) ==
    /\ pc[t] = "purge"
    /\ \E g \in todo[t] :
          /\ todo' = [todo EXCEPT ![t] = @ \ {g}]
          /\ Goto(t, IF todo[t] = {g} THEN "dropObject" ELSE "purge")
          /\ \/ version[g] = None /\ UNCHANGED <<eraser, reported>>
             \/ /\ version[g] # None /\ eraser[g] = None
                /\ eraser' = [eraser EXCEPT ![g] = t]
                /\ reported' = [reported EXCEPT ![t] = @ \cup {g}]
    /\ UNCHANGED <<objectRow, version, op, born, found, row, newest>>

DropObject(t) ==
    /\ pc[t] = "dropObject"
    /\ WriteObject(t, found[t], NoObject, "checkRefs")
    /\ UNCHANGED <<rows, memory>>

\* Deviation: object_version.object_guid has no foreign key.
LeaveRefs(t) ==
    /\ pc[t] = "checkRefs"
    /\ Goto(t, "commit") /\ UNCHANGED <<objectRow, rows, memory>>

\* The foreign key of object_version: the statement fails on a row that still
\* names the object row, and waits for one that is being removed.
CheckRefs(t) ==
    /\ pc[t] = "checkRefs"
    /\ LET left == OfObject(Visible(t), found[t])
       IN  \/ left = {} /\ Goto(t, "commit") /\ UNCHANGED <<objectRow, rows, memory>>
           \/ (\E g \in left : eraser[g] = None) /\ Undo(t)

-----------------------------------------------------------------------------
(* Waiting. *)

WaitsFor(t) ==
    (CASE pc[t] = "upsert" -> {holder}
       [] pc[t] = "replace" -> {eraser[g] : g \in NullRows(t)}
       [] pc[t] = "remove" -> {eraser[row[t]]}
       [] pc[t] = "purge" -> {eraser[g] : g \in todo[t]}
       [] pc[t] \in {"repoint", "dropObject"} ->
             {h \in {holder} : current = found[t]}
       [] pc[t] = "checkRefs" ->
             {eraser[g] : g \in OfObject(Visible(t), found[t])}
       [] OTHER -> {}) \ {None, t}

Deadlocked(t) ==
    \E S \in SUBSET {s \in Call : WaitsFor(s) # {}} :
        /\ t \in S
        /\ \A s \in S : /\ WaitsFor(s) \cap S # {}
                        /\ \E u \in S : s \in WaitsFor(u)

\* Postgres ends one of the transactions of a cycle.
BreakDeadlock(t) == Deadlocked(t) /\ Undo(t)

\* A statement fails, or the connection is lost before the commit.
Fail(t) == pc[t] \in InTransaction /\ Undo(t)

-----------------------------------------------------------------------------

Execute(t) ==
    \/ FindObject(t) \/ ReadVersion(t)
    \/ UpsertObject(t) \/ ReplaceNull(t) \/ InsertVersion(t) \/ PointAtVersion(t)
    \/ SelectVersion(t) \/ RemoveVersion(t) \/ ChooseNewest(t) \/ Repoint(t)
    \/ ScanVersions(t) \/ PurgeVersion(t) \/ DropObject(t) \/ CheckRefs(t)
    \/ Commit(t)

Next == \E t \in Call : Start(t) \/ Execute(t) \/ BreakDeadlock(t) \/ Fail(t)

Spec == Init /\ [][Next]_vars

\* The database serves every statement that need not wait, and breaks deadlocks.
FairSpec ==
    /\ Spec
    /\ \A t \in Call : WF_vars(Execute(t)) /\ WF_vars(BreakDeadlock(t))

-----------------------------------------------------------------------------
(* Properties. *)

\* The blobs that a transaction hands to deleteBlobs belong to rows that are
\* gone: this is what lets ObjectStore delete them afterwards, one by one.
ReportedRowsAreGone ==
    \A t \in Call : pc[t] = "committed" => \A g \in reported[t] : version[g] = None

\* No blob is forgotten: the row of every version that was removed is reported
\* by a transaction that committed, however the deletes overlap.
RemovedRowsAreReported ==
    \A g \in Call : pc[g] = "committed" /\ op[g] \in Puts /\ version[g] = None
        => \E t \in Call : pc[t] = "committed" /\ g \in reported[t]

\* Two writes of a key in a bucket that is not versioned never meet on the
\* unique index of (object, version id): delete-then-insert takes turns on the
\* upserted object row.
NullVersionIsOne ==
    \A g, h \in Call :
        /\ version[g] # None /\ version[h] # None
        /\ version[g].object = version[h].object
        /\ version[g].isNull /\ version[h].isNull
        /\ eraser[g] # h /\ eraser[h] # g
        => g = h

\* No version is out of reach: the object row of every version is the key's.
VersionsHaveTheirKey == \A g \in Committed : version[g].object = current

\* As long as nobody deletes a version by its id, overlapping writes and purges
\* leave the key pointing at a version that exists.
PointerHolds ==
    \/ \E t \in Call : op[t] = "deleteVersion" /\ pc[t] = "committed"
    \/ current # None => latest \in OfObject(Committed, current)

\* A call that has come in comes to an end: no transaction waits for ever.
CallsEnd == \A t \in Call : pc[t] # "ready" ~> pc[t] \in Ended

\* deleteVersion: "the key itself disappears with its last version".
KeyGoesWithItsLastVersion ==
    current # None => OfObject(Committed, current) # {}

\* put replaces the null version "in place": a read of a key that stays there
\* finds the version it should serve.
ReadsServeTheKey ==
    [][\A t \in Call : pc[t] = "readVersion" /\ pc'[t] = "missed"
                          => current # found[t]]_vars

=============================================================================
