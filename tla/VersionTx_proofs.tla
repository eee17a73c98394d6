--------------------------- MODULE VersionTx_proofs ---------------------------
(***************************************************************************)
(* What holds of any number of overlapping transactions on one key.        *)
(***************************************************************************)
EXTENDS VersionTx, TLAPS, FiniteSetTheorems

\* Where a call can be with the operation it is.
OpFits ==
    \A t \in Call :
       /\ pc[t] \in {"upsert", "insert", "point"} => op[t] \in Puts
       /\ pc[t] = "replace" => op[t] = "putNull"
       /\ pc[t] = "find" => op[t] \in AllOps \ Puts
       /\ pc[t] \in {"select", "remove", "choose", "repoint"} => op[t] = "deleteVersion"
       /\ pc[t] \in {"scan", "purge"} => op[t] = "purge"
       /\ pc[t] \in {"dropObject", "checkRefs"} => op[t] \in {"deleteVersion", "purge"}
       /\ pc[t] = "commit" => op[t] \in Puts \cup {"deleteVersion", "purge"}

\* When a call has its timestamp, and the object row it works on.
Knows ==
    \A t \in Call :
       /\ pc[t] = "ready" => born[t] = 0
       /\ pc[t] \in {"upsert", "replace", "insert"} => born[t] > 0
       /\ pc[t] \in {"select"} \cup (InTransaction \ {"upsert"}) => found[t] \in Call

TypeInv == Domains /\ OpFits /\ Knows

\* The tables before the first transaction are of their types.
LEMMA TypeInit == Init => TypeInv
<1> SUFFICES ASSUME Init PROVE TypeInv
  OBVIOUS
<1>1. 0 \in 0 .. Cardinality(Call)
  BY CallAssumption, FS_CardinalityType
<1>2. Domains
  BY <1>1 DEF Init, Domains, OrNone, ObjectRow, NoObject, Label
<1>3. OpFits /\ Knows
  BY DEF Init, OpFits, Knows, InTransaction
<1> QED BY <1>2, <1>3 DEF TypeInv

\* A call that has not begun leaves room for its timestamp.
LEMMA TimestampFits ==
  ASSUME TypeInv, NEW t \in Call, pc[t] = "ready"
  PROVE  Timestamp \in 1 .. Cardinality(Call)
<1>1. Begun \subseteq Call \ {t}
  BY DEF Begun, TypeInv, Knows
<1>2. /\ IsFiniteSet(Call \ {t}) /\ Cardinality(Call \ {t}) = Cardinality(Call) - 1
  BY CallAssumption, FS_RemoveElement
<1>3. IsFiniteSet(Begun) /\ Cardinality(Begun) <= Cardinality(Call \ {t})
  BY <1>1, <1>2, FS_Subset
<1>4. Cardinality(Begun) \in Nat /\ Cardinality(Call) \in Nat
  BY <1>3, CallAssumption, FS_CardinalityType
<1> QED BY <1>2, <1>3, <1>4 DEF Timestamp

\* A rollback leaves every variable within its type.
LEMMA UndoTyped ==
  ASSUME TypeInv, NEW t \in Call, Undo(t)
  PROVE  TypeInv'
<1>1. Domains'
  BY DEF TypeInv, Domains, Undo, Goto, Forget, OrNone, ObjectRow, NoObject, Label, Ended
<1>2. OpFits'
  BY DEF TypeInv, Domains, OpFits, Undo, Goto, Forget
<1>3. Knows'
  BY DEF TypeInv, Domains, Knows, Undo, Goto, Forget, InTransaction
<1> QED BY <1>1, <1>2, <1>3 DEF TypeInv

\* No statement takes a variable out of its type.
LEMMA TypeStep == TypeInv /\ [Next]_vars => TypeInv'
<1> SUFFICES ASSUME TypeInv, [Next]_vars PROVE TypeInv'
  OBVIOUS
<1> USE DEF TypeInv, objectRow, rows, memory
<1>0. CASE UNCHANGED vars
  BY <1>0 DEF vars, Domains, OpFits, Knows
<1> SUFFICES ASSUME NEW t \in Call,
                    Start(t) \/ Execute(t) \/ BreakDeadlock(t) \/ Fail(t)
             PROVE  TypeInv'
  BY <1>0 DEF Next
<1>1. CASE Start(t)
  <2>1. Timestamp \in 1 .. Cardinality(Call) /\ Cardinality(Call) \in Nat
    BY <1>1, TimestampFits, CallAssumption, FS_CardinalityType DEF Start
  <2>2. PICK o \in AllOps :
             /\ op' = [op EXCEPT ![t] = o]
             /\ pc' = [pc EXCEPT ![t] = IF o \in Puts THEN "upsert" ELSE "find"]
             /\ born' = IF o \in Puts THEN [born EXCEPT ![t] = Timestamp] ELSE born
    BY <1>1, OpsAssumption DEF Start, Goto
  <2>3. Timestamp \in 0 .. Cardinality(Call)
    BY <2>1
  <2>4. born' \in [Call -> 0 .. Cardinality(Call)]
    BY <2>2, <2>3 DEF Domains
  <2>5. pc' \in [Call -> Label] /\ op' \in [Call -> AllOps \cup {None}]
    BY <2>2 DEF Domains, Label, InTransaction
  <2>6. Domains'
    BY <1>1, <2>4, <2>5 DEF Start, Domains
  <2>7. OpFits'
    BY <2>2 DEF Domains, OpFits
  <2>8. Knows'
    BY <1>1, <2>1, <2>2 DEF Start, Domains, Knows, InTransaction
  <2> QED BY <2>6, <2>7, <2>8
<1>2. CASE FindObject(t)
  <2>1. op[t] \in {"read", "deleteVersion", "purge"}
    BY <1>2 DEF FindObject, OpFits, AllOps, Puts
  <2>2. CASE current = None /\ Goto(t, "nothing") /\ UNCHANGED <<found, row>>
    <3>1. pc' \in [Call -> Label]
      BY <2>2 DEF Goto, Domains, Label, Ended
    <3> QED BY <1>2, <2>2, <3>1 DEF FindObject, Goto, Domains, OpFits, Knows,
       InTransaction
  <2>3. ASSUME NEW l \in {"readVersion", "select", "scan"}, pc' = [pc EXCEPT ![t] = l],
               l = "select" => op[t] = "deleteVersion", l = "scan" => op[t] = "purge",
               current # None, found' = [found EXCEPT ![t] = current],
               row' = [row EXCEPT ![t] = latest]
        PROVE  TypeInv'
    <3>1. pc' \in [Call -> Label]
      BY <2>3 DEF Domains, Label, InTransaction
    <3>2. Domains'
      BY <1>2, <2>3, <3>1 DEF FindObject, Domains
    <3>3. OpFits'
      BY <1>2, <2>3 DEF FindObject, Domains, OpFits
    <3>4. Knows'
      BY <1>2, <2>3 DEF FindObject, Domains, Knows, InTransaction, OrNone
    <3> QED BY <3>2, <3>3, <3>4
  <2> QED BY <1>2, <2>1, <2>2, <2>3 DEF FindObject, Goto
<1>3. CASE ReadVersion(t)
  <2>1. Domains'
    BY <1>3 DEF ReadVersion, Goto, Domains, OpFits, Knows, Label, InTransaction,
       Ended, OrNone, ObjectRow
  <2>2. OpFits'
    BY <1>3 DEF ReadVersion, Goto, Domains, OpFits, Puts, AllOps
  <2>3. Knows'
    BY <1>3, CallAssumption DEF ReadVersion, Goto, Domains, OpFits, Knows,
       InTransaction, OrNone
  <2> QED BY <2>1, <2>2, <2>3
<1>4. CASE UpsertObject(t)
  <2>1. Domains'
    BY <1>4 DEF UpsertObject, Goto, Domains, OpFits, Knows, Label, InTransaction,
       Ended, OrNone, ObjectRow
  <2>2. OpFits'
    BY <1>4 DEF UpsertObject, Goto, Domains, OpFits, Puts, AllOps
  <2>3. Knows'
    BY <1>4, CallAssumption DEF UpsertObject, Goto, Domains, OpFits, Knows,
       InTransaction, OrNone
  <2> QED BY <2>1, <2>2, <2>3
<1>5. CASE ReplaceNull(t)
  <2>1. NullRows(t) \subseteq Call
    BY DEF NullRows, OfObject, Visible, Committed
  <2>2. eraser' \in [Call -> OrNone] /\ reported' \in [Call -> SUBSET Call]
    BY <1>5, <2>1 DEF ReplaceNull, Domains, OrNone
  <2>3. Domains'
    BY <1>5, <2>2 DEF ReplaceNull, Goto, Domains, Label, InTransaction
  <2>4. OpFits'
    BY <1>5 DEF ReplaceNull, Goto, Domains, OpFits, Puts
  <2>5. Knows'
    BY <1>5 DEF ReplaceNull, Goto, Domains, Knows, InTransaction
  <2> QED BY <2>3, <2>4, <2>5
<1>6. CASE InsertVersion(t)
  <2>1. Domains'
    BY <1>6 DEF InsertVersion, Goto, Domains, OpFits, Knows, Label, InTransaction,
       Ended, OrNone, ObjectRow, VersionRow, Puts
  <2>2. OpFits'
    BY <1>6 DEF InsertVersion, Goto, Domains, OpFits, Puts, AllOps, VersionRow, Puts
  <2>3. Knows'
    BY <1>6, CallAssumption DEF InsertVersion, Goto, Domains, OpFits, Knows,
       InTransaction, OrNone, VersionRow, Puts
  <2> QED BY <2>1, <2>2, <2>3
<1>7. CASE PointAtVersion(t)
  <2>1. Domains'
    BY <1>7 DEF PointAtVersion, Goto, Domains, OpFits, Knows, Label, InTransaction,
       Ended, OrNone, ObjectRow, ObjectRow
  <2>2. OpFits'
    BY <1>7 DEF PointAtVersion, Goto, Domains, OpFits, Puts, AllOps, ObjectRow
  <2>3. Knows'
    BY <1>7, CallAssumption DEF PointAtVersion, Goto, Domains, OpFits, Knows,
       InTransaction, OrNone, ObjectRow
  <2> QED BY <2>1, <2>2, <2>3
<1>8. CASE SelectVersion(t)
  <2>1. CASE Goto(t, "nothing") /\ UNCHANGED <<row, reported>>
    BY <1>8, <2>1 DEF SelectVersion, Goto, Domains, OpFits, Knows, Label,
       InTransaction, Ended
  <2>2. ASSUME NEW g \in Call, Goto(t, "remove"), row' = [row EXCEPT ![t] = g],
               reported' = [reported EXCEPT ![t] = {g}]
        PROVE  TypeInv'
    <3>1. Domains'
      BY <1>8, <2>2 DEF SelectVersion, Goto, Domains, Label, InTransaction, OrNone
    <3>2. OpFits'
      BY <1>8, <2>2 DEF SelectVersion, Goto, Domains, OpFits
    <3>3. pc[t] = "select" /\ found[t] \in Call /\ UNCHANGED <<born, found>>
      BY <1>8 DEF SelectVersion, Knows
    <3>4. Knows'
      BY <2>2, <3>3 DEF Goto, Domains, Knows, InTransaction
    <3> QED BY <3>1, <3>2, <3>4
  <2> QED BY <1>8, <2>1, <2>2 DEF SelectVersion, OfObject, Committed
<1>9. CASE RemoveVersion(t)
  <2>1. Domains'
    BY <1>9 DEF RemoveVersion, Goto, Domains, OpFits, Knows, Label, InTransaction,
       Ended, OrNone, ObjectRow
  <2>2. OpFits'
    BY <1>9 DEF RemoveVersion, Goto, Domains, OpFits, Puts, AllOps
  <2>3. Knows'
    BY <1>9, CallAssumption DEF RemoveVersion, Goto, Domains, OpFits, Knows,
       InTransaction, OrNone
  <2> QED BY <2>1, <2>2, <2>3
<1>10. CASE ChooseNewest(t)
  <2>1. Domains'
    BY <1>10 DEF ChooseNewest, Goto, Domains, OpFits, Knows, Label, InTransaction,
       Ended, OrNone, ObjectRow, OfObject, Visible, Committed
  <2>2. OpFits'
    BY <1>10 DEF ChooseNewest, Goto, Domains, OpFits, Puts, AllOps, OfObject,
       Visible, Committed
  <2>3. Knows'
    BY <1>10, CallAssumption DEF ChooseNewest, Goto, Domains, OpFits, Knows,
       InTransaction, OrNone, OfObject, Visible, Committed
  <2> QED BY <2>1, <2>2, <2>3
<1>11. CASE Repoint(t)
  <2>1. Domains'
    BY <1>11 DEF Repoint, Goto, Domains, OpFits, Knows, Label, InTransaction, Ended,
       OrNone, ObjectRow, WriteObject
  <2>2. OpFits'
    BY <1>11 DEF Repoint, Goto, Domains, OpFits, Puts, AllOps, WriteObject
  <2>3. Knows'
    BY <1>11, CallAssumption DEF Repoint, Goto, Domains, OpFits, Knows,
       InTransaction, OrNone, WriteObject
  <2> QED BY <2>1, <2>2, <2>3
<1>12. CASE ScanVersions(t)
  <2>1. Domains'
    BY <1>12 DEF ScanVersions, Goto, Domains, OpFits, Knows, Label, InTransaction,
       Ended, OrNone, ObjectRow, OfObject, Committed
  <2>2. OpFits'
    BY <1>12 DEF ScanVersions, Goto, Domains, OpFits, Puts, AllOps, OfObject, Committed
  <2>3. Knows'
    BY <1>12, CallAssumption DEF ScanVersions, Goto, Domains, OpFits, Knows,
       InTransaction, OrNone, OfObject, Committed
  <2> QED BY <2>1, <2>2, <2>3
<1>13. CASE PurgeVersion(t)
  <2>1. Domains'
    BY <1>13 DEF PurgeVersion, Goto, Domains, OpFits, Knows, Label, InTransaction,
       Ended, OrNone, ObjectRow
  <2>2. OpFits'
    BY <1>13 DEF PurgeVersion, Goto, Domains, OpFits, Puts, AllOps
  <2>3. Knows'
    BY <1>13, CallAssumption DEF PurgeVersion, Goto, Domains, OpFits, Knows,
       InTransaction, OrNone
  <2> QED BY <2>1, <2>2, <2>3
<1>14. CASE DropObject(t)
  <2>1. Domains'
    BY <1>14 DEF DropObject, Goto, Domains, OpFits, Knows, Label, InTransaction,
       Ended, OrNone, ObjectRow, WriteObject, NoObject
  <2>2. OpFits'
    BY <1>14 DEF DropObject, Goto, Domains, OpFits, Puts, AllOps, WriteObject, NoObject
  <2>3. Knows'
    BY <1>14, CallAssumption DEF DropObject, Goto, Domains, OpFits, Knows,
       InTransaction, OrNone, WriteObject, NoObject
  <2> QED BY <2>1, <2>2, <2>3
<1>15. CASE Commit(t)
  <2>1. Domains'
    BY <1>15 DEF Commit, Goto, Domains, OpFits, Knows, Label, InTransaction, Ended,
       OrNone, ObjectRow, Forget, NoObject
  <2>2. OpFits'
    BY <1>15 DEF Commit, Goto, Domains, OpFits, Puts, AllOps, Forget, NoObject
  <2>3. Knows'
    BY <1>15, CallAssumption DEF Commit, Goto, Domains, OpFits, Knows, InTransaction,
       OrNone, Forget, NoObject
  <2> QED BY <2>1, <2>2, <2>3
<1>16. CASE CheckRefs(t)
  <2>1. CASE Undo(t)
    BY <2>1, UndoTyped
  <2>2. CASE Goto(t, "commit") /\ UNCHANGED <<objectRow, rows, memory>>
    BY <1>16, <2>2 DEF CheckRefs, Goto, Domains, OpFits, Knows, Label, InTransaction
  <2> QED BY <1>16, <2>1, <2>2 DEF CheckRefs
<1>90. CASE BreakDeadlock(t) \/ Fail(t)
  BY <1>90, UndoTyped DEF BreakDeadlock, Fail
<1> QED BY <1>1, <1>2, <1>3, <1>4, <1>5, <1>6, <1>7, <1>8, <1>9, <1>10, <1>11,
   <1>12, <1>13, <1>14, <1>15, <1>16, <1>90 DEF Execute

-----------------------------------------------------------------------------
(* Safety. *)

\* A transaction that writes the object row holds it until it ends, and what it
\* works on is the committed row, or the one it has inserted.
Writing == {"replace", "insert", "point", "checkRefs"}
LockIsHeld ==
    /\ \A t \in Call : pc[t] \in Writing \/ (pc[t] = "commit" /\ op[t] \in Puts)
                          => holder = t
    /\ holder # None => pc[holder] \in Writing \cup {"commit"}
DraftIsSound ==
    holder # None =>
       /\ op[holder] \in Puts =>
             /\ found[holder] = IF current = None THEN holder ELSE current
             /\ draft.guid = found[holder]
             /\ pc[holder] = "commit" => draft.latest = holder
       /\ op[holder] \notin Puts =>
             /\ found[holder] = current
             /\ \/ draft = NoObject
                \/ draft.guid = current /\ op[holder] = "deleteVersion"
                      /\ pc[holder] = "commit"
             /\ draft = NoObject /\ pc[holder] = "commit"
                   => \A g \in Committed : eraser[g] = holder

\* The version rows: there is one for each put that has come that far.
RowsAreWritten ==
    \A g \in Call :
       /\ version[g] # None =>
             /\ op[g] \in Puts /\ pc[g] \in {"point", "commit", "committed"}
             /\ version[g].isNull <=> op[g] = "putNull"
             /\ pc[g] # "committed" => version[g].object = found[g]
       /\ pc[g] = "point" \/ (pc[g] = "commit" /\ op[g] \in Puts) => version[g] # None

\* What a transaction has deleted it reports, and what it reports is deleted
\* or soon will be.
Fresh == {"ready", "upsert", "replace", "find", "select", "scan"}
Erasing == {"insert", "point", "choose", "repoint", "purge", "dropObject",
            "checkRefs", "commit"}
ErasedRows ==
    \A g \in Call : eraser[g] # None =>
       /\ version[g] # None /\ pc[g] = "committed"
       /\ pc[eraser[g]] \in Erasing /\ g \in reported[eraser[g]]
       /\ op[eraser[g]] = "purge" => version[g].object = found[eraser[g]]
ReportedRows ==
    \A t \in Call :
       /\ pc[t] \in Fresh => reported[t] = {}
       /\ pc[t] = "remove" => row[t] \in Call /\ reported[t] = {row[t]}
       /\ \A g \in reported[t] :
             /\ pc[g] = "committed"
             /\ pc[t] \in Erasing => version[g] = None \/ eraser[g] = t
             /\ pc[t] = "committed" => version[g] = None
RowsToErase ==
    \A t \in Call :
       /\ pc[t] \in Fresh => todo[t] = {}
       /\ \A g \in todo[t] :
             /\ pc[g] = "committed"
             /\ version[g] # None => version[g].object = found[t]

\* A null version is written after every other has been deleted.
NullsTakeTurns ==
    /\ \A g, h \in Committed : version[g].isNull /\ version[h].isNull => g = h
    /\ \A t \in Call : pc[t] \in {"insert", "point", "commit"} /\ op[t] = "putNull"
          => \A g \in Committed : version[g].isNull => eraser[g] = t

\* A purge that leaves the object row alone has deleted nothing.
PurgeTakesAll ==
    \A t \in Call : pc[t] = "commit" /\ op[t] = "purge"
                       => holder = t \/ \A g \in Call : eraser[g] # t

Safe ==
    /\ LockIsHeld /\ DraftIsSound
    /\ RowsAreWritten /\ VersionsHaveTheirKey
    /\ ErasedRows /\ ReportedRows /\ RowsToErase
    /\ NullsTakeTurns /\ RemovedRowsAreReported
    /\ PurgeTakesAll /\ PointerHolds

TxInv == TypeInv /\ Safe

\* The row that a put inserts.
LEMMA IsNullField ==
  ASSUME NEW r, NEW o, NEW p, NEW q, NEW c,
         r = [object |-> o, isNull |-> p = q, createdAt |-> c]
  PROVE  r.isNull <=> p = q
OBVIOUS
\* A row made of typed columns is a row.
LEMMA RowIsTyped ==
  ASSUME NEW r, NEW o \in Call, NEW p, NEW q, NEW c \in 1 .. Cardinality(Call),
         r = [object |-> o, isNull |-> p = q, createdAt |-> c]
  PROVE  r \in VersionRow
BY DEF VersionRow

\* The tables before the first transaction are consistent.
LEMMA SafeInit == Init => Safe
BY CallAssumption DEF Init, Safe, LockIsHeld, DraftIsSound, RowsAreWritten,
   VersionsHaveTheirKey,
   Committed, ErasedRows, ReportedRows, RowsToErase, NullsTakeTurns,
   RemovedRowsAreReported, PurgeTakesAll, PointerHolds, Writing, NoObject, Fresh

\* BEGIN.
LEMMA StartSafe ==
  ASSUME TxInv, NEW t \in Call, Start(t)
  PROVE  Safe'
<1> USE CallAssumption DEF TxInv, TypeInv, Safe, objectRow, rows, memory
<1>1. LockIsHeld'
  BY DEF Start, Goto, LockIsHeld, Writing
<1>2. DraftIsSound'
  BY DEF Start, Goto, DraftIsSound, LockIsHeld, Committed, Writing
<1>3. RowsAreWritten'
  BY DEF Start, Goto, RowsAreWritten
<1>4. VersionsHaveTheirKey'
  BY DEF Start, Goto, VersionsHaveTheirKey, Committed
<1>5. ErasedRows'
  BY DEF Start, Goto, ErasedRows, Erasing
<1>6. ReportedRows'
  BY DEF Start, Goto, ReportedRows, Fresh
<1>7. RowsToErase'
  BY DEF Start, Goto, RowsToErase, Fresh
<1>8. NullsTakeTurns'
  BY DEF Start, Goto, NullsTakeTurns, Committed
<1>9. RemovedRowsAreReported'
  BY DEF Start, Goto, RemovedRowsAreReported
<1>10. PurgeTakesAll'
  BY DEF Start, Goto, PurgeTakesAll
<1>11. PointerHolds'
  BY DEF Start, Goto, PointerHolds, Committed, OfObject
<1> QED BY <1>1, <1>2, <1>3, <1>4, <1>5, <1>6, <1>7, <1>8, <1>9, <1>10, <1>11

\* The select of the object row, with or without its lock.
LEMMA FindObjectSafe ==
  ASSUME TxInv, NEW t \in Call, FindObject(t)
  PROVE  Safe'
<1> USE CallAssumption DEF TxInv, TypeInv, Safe, objectRow, rows, memory
<1>0. /\ pc[t] = "find" /\ op[t] \notin Puts
      /\ \E l \in {"nothing", "readVersion", "select", "scan"} :
            /\ pc' = [pc EXCEPT ![t] = l]
            /\ l = "select" => op[t] = "deleteVersion"
            /\ l = "scan" => op[t] = "purge"
      /\ \E f : found' = [found EXCEPT ![t] = f]
      /\ \E g : row' = [row EXCEPT ![t] = g]
      /\ UNCHANGED <<objectRow, rows, op, born, newest, todo, reported>>
  <2>1. op[t] \in {"read", "deleteVersion", "purge"} /\ op[t] \notin Puts
    BY DEF FindObject, OpFits, AllOps, Puts
  <2>2. found = [found EXCEPT ![t] = found[t]] /\ row = [row EXCEPT ![t] = row[t]]
    BY DEF Domains
  <2> QED BY <2>1, <2>2 DEF FindObject, Goto
<1>1. LockIsHeld'
  BY <1>0 DEF LockIsHeld, Writing
<1>2. DraftIsSound'
  BY <1>0 DEF DraftIsSound, LockIsHeld, Committed, Writing
<1>3. RowsAreWritten'
  BY <1>0 DEF RowsAreWritten
<1>4. VersionsHaveTheirKey'
  BY <1>0 DEF VersionsHaveTheirKey, Committed
<1>5. ErasedRows'
  BY <1>0 DEF ErasedRows, Erasing
<1>6. ReportedRows'
  BY <1>0 DEF ReportedRows, Fresh
<1>7. RowsToErase'
  BY <1>0 DEF RowsToErase, Fresh
<1>8. NullsTakeTurns'
  BY <1>0 DEF NullsTakeTurns, Committed
<1>9. RemovedRowsAreReported'
  BY <1>0 DEF RemovedRowsAreReported
<1>10. PurgeTakesAll'
  BY <1>0 DEF PurgeTakesAll
<1>11. PointerHolds'
  BY <1>0 DEF PointerHolds, Committed, OfObject
<1> QED BY <1>1, <1>2, <1>3, <1>4, <1>5, <1>6, <1>7, <1>8, <1>9, <1>10, <1>11

\* The select of one version.
LEMMA ReadVersionSafe ==
  ASSUME TxInv, NEW t \in Call, ReadVersion(t)
  PROVE  Safe'
<1> USE CallAssumption DEF TxInv, TypeInv, Safe, objectRow, rows, memory
<1>1. LockIsHeld'
  BY DEF ReadVersion, Goto, LockIsHeld, Writing
<1>2. DraftIsSound'
  BY DEF ReadVersion, Goto, DraftIsSound, Committed
<1>3. RowsAreWritten'
  BY DEF ReadVersion, Goto, RowsAreWritten
<1>4. VersionsHaveTheirKey'
  BY DEF ReadVersion, Goto, VersionsHaveTheirKey, Committed
<1>5. ErasedRows'
  BY DEF ReadVersion, Goto, ErasedRows, Erasing
<1>6. ReportedRows'
  BY DEF ReadVersion, Goto, ReportedRows, Erasing, Fresh
<1>7. RowsToErase'
  BY DEF ReadVersion, Goto, RowsToErase, Fresh
<1>8. NullsTakeTurns'
  BY DEF ReadVersion, Goto, NullsTakeTurns, Committed
<1>9. RemovedRowsAreReported'
  BY DEF ReadVersion, Goto, RemovedRowsAreReported
<1>10. PurgeTakesAll'
  BY DEF ReadVersion, Goto, PurgeTakesAll
<1>11. PointerHolds'
  BY DEF ReadVersion, Goto, PointerHolds, Committed, OfObject
<1> QED BY <1>1, <1>2, <1>3, <1>4, <1>5, <1>6, <1>7, <1>8, <1>9, <1>10, <1>11

\* insert ... on conflict do update: the lock is taken.
LEMMA UpsertObjectSafe ==
  ASSUME TxInv, NEW t \in Call, UpsertObject(t)
  PROVE  Safe'
<1> USE CallAssumption DEF TxInv, TypeInv, Safe, objectRow, rows, memory
<1>1. LockIsHeld'
  BY DEF UpsertObject, Goto, Domains, LockIsHeld, Writing
<1>2. DraftIsSound'
  BY DEF UpsertObject, Goto, Domains, DraftIsSound, OpFits
<1>3. RowsAreWritten'
  BY DEF UpsertObject, Goto, RowsAreWritten
<1>4. VersionsHaveTheirKey'
  BY DEF UpsertObject, Goto, VersionsHaveTheirKey, Committed
<1>5. ErasedRows'
  BY DEF UpsertObject, Goto, ErasedRows, Erasing
<1>6. ReportedRows'
  BY DEF UpsertObject, Goto, ReportedRows, Fresh
<1>7. RowsToErase'
  BY DEF UpsertObject, Goto, RowsToErase, Fresh
<1>8. NullsTakeTurns'
  BY DEF UpsertObject, Goto, NullsTakeTurns, Committed
<1>9. RemovedRowsAreReported'
  BY DEF UpsertObject, Goto, RemovedRowsAreReported
<1>10. PurgeTakesAll'
  BY DEF UpsertObject, Goto, PurgeTakesAll
<1>11. PointerHolds'
  BY DEF UpsertObject, Goto, PointerHolds, Committed, OfObject
<1> QED BY <1>1, <1>2, <1>3, <1>4, <1>5, <1>6, <1>7, <1>8, <1>9, <1>10, <1>11

\* The null version is removed and its path reported.
LEMMA ReplaceNullSafe ==
  ASSUME TxInv, NEW t \in Call, ReplaceNull(t)
  PROVE  Safe'
<1> USE CallAssumption DEF TxInv, TypeInv, Safe, objectRow, rows, memory
<1>1. LockIsHeld'
  BY DEF ReplaceNull, Goto, LockIsHeld, Writing
<1>2. DraftIsSound'
  BY DEF ReplaceNull, Goto, DraftIsSound, Committed
<1>3. RowsAreWritten'
  BY DEF ReplaceNull, Goto, RowsAreWritten
<1>4. VersionsHaveTheirKey'
  BY DEF ReplaceNull, Goto, VersionsHaveTheirKey, Committed
<1>5. ErasedRows'
  BY DEF ReplaceNull, Goto, Domains, ErasedRows, RowsAreWritten, Erasing, NullRows,
     OfObject, Visible, Committed
<1>6. ReportedRows'
  BY DEF ReplaceNull, Goto, Domains, ReportedRows, RowsAreWritten, Fresh, NullRows,
     OfObject, Visible, Committed
<1>7. RowsToErase'
  BY DEF ReplaceNull, Goto, RowsToErase, Fresh
<1>8. NullsTakeTurns'
  <2>1. Committed' = Committed
    BY DEF ReplaceNull, Goto, Domains, Committed
  <2>2. ASSUME NEW g \in Committed, version[g].isNull PROVE eraser'[g] = t
    <3>1. g \in Call /\ version[g] # None /\ version[g].object = current
      BY <2>2 DEF Committed, VersionsHaveTheirKey
    <3>2. current # None
      BY <3>1 DEF Domains, VersionRow
    <3>3. found[t] = current
      BY <3>2 DEF ReplaceNull, OpFits, Puts, Writing, LockIsHeld, DraftIsSound
    <3>4. eraser[g] # t => g \in NullRows(t)
      BY <2>2, <3>1, <3>3 DEF NullRows, OfObject, Visible
    <3> QED BY <3>1, <3>4 DEF ReplaceNull, Domains
  <2>3. ASSUME NEW u \in Call, u # t, pc[u] \in {"insert", "point", "commit"}, op[u] = "putNull"
        PROVE  FALSE
    BY <2>3 DEF ReplaceNull, OpFits, LockIsHeld, Writing, Puts
  <2> QED BY <2>1, <2>2, <2>3 DEF ReplaceNull, Goto, Domains, NullsTakeTurns, Committed
<1>9. RemovedRowsAreReported'
  BY DEF ReplaceNull, Goto, RemovedRowsAreReported
<1>10. PurgeTakesAll'
  BY DEF ReplaceNull, Goto, PurgeTakesAll
<1>11. PointerHolds'
  BY DEF ReplaceNull, Goto, PointerHolds, Committed, OfObject
<1> QED BY <1>1, <1>2, <1>3, <1>4, <1>5, <1>6, <1>7, <1>8, <1>9, <1>10, <1>11

\* The new version is written.
LEMMA InsertVersionSafe ==
  ASSUME TxInv, NEW t \in Call, InsertVersion(t)
  PROVE  Safe'
<1> USE CallAssumption DEF TxInv, TypeInv, Safe, objectRow, rows, memory
<1>1. LockIsHeld'
  BY DEF InsertVersion, Goto, LockIsHeld, Writing
<1>2. DraftIsSound'
  BY DEF InsertVersion, Goto, DraftIsSound, Committed
<1>3. RowsAreWritten'
  <2>0. version'[t] = [object |-> found[t], isNull |-> op[t] = "putNull",
                       createdAt |-> born[t]]
    BY DEF InsertVersion, Domains
  <2>1. /\ version'[t] # None /\ version'[t].object = found[t]
        /\ version'[t].isNull <=> op[t] = "putNull"
    <3>1. version'[t].isNull <=> op[t] = "putNull"
      <4> DEFINE o == found[t]
                 c == born[t]
                 q == op[t]
                 r == version'[t]
      <4>1. r = [object |-> o, isNull |-> q = "putNull", createdAt |-> c]
        BY <2>0
      <4> HIDE DEF o, c, q, r
      <4>2. r.isNull <=> q = "putNull"
        BY <4>1, IsNullField
      <4> QED BY <4>2 DEF q, r
    <3>2. version'[t] # None
      <4>1. found[t] \in Call /\ born[t] \in 1 .. Cardinality(Call)
        BY CallAssumption, FS_CardinalityType DEF InsertVersion, Knows, Domains,
           InTransaction
      <4>2. version'[t] \in VersionRow
        BY <2>0, <4>1, RowIsTyped, ZenonT(60)
      <4> QED BY <4>2, NoneAssumption
    <3> QED BY <2>0, <3>1, <3>2
  <2>2. \A g \in Call \ {t} : version'[g] = version[g] /\ pc'[g] = pc[g]
    BY DEF InsertVersion, Goto, Domains
  <2>3. pc'[t] = "point" /\ op[t] \in Puts /\ UNCHANGED <<op, found>>
    BY DEF InsertVersion, Goto, Domains, OpFits
  <2> QED BY <2>1, <2>2, <2>3 DEF RowsAreWritten
<1>4. VersionsHaveTheirKey'
  BY DEF InsertVersion, Goto, VersionsHaveTheirKey, Committed
<1>5. ErasedRows'
  BY DEF InsertVersion, Goto, ErasedRows, Erasing
<1>6. ReportedRows'
  BY DEF InsertVersion, Goto, ReportedRows, Erasing, Fresh
<1>7. RowsToErase'
  BY DEF InsertVersion, Goto, RowsToErase, Fresh
<1>8. NullsTakeTurns'
  BY DEF InsertVersion, Goto, NullsTakeTurns, Committed
<1>9. RemovedRowsAreReported'
  BY DEF InsertVersion, Goto, RemovedRowsAreReported
<1>10. PurgeTakesAll'
  BY DEF InsertVersion, Goto, PurgeTakesAll
<1>11. PointerHolds'
  BY DEF InsertVersion, Goto, PointerHolds, Committed, OfObject
<1> QED BY <1>1, <1>2, <1>3, <1>4, <1>5, <1>6, <1>7, <1>8, <1>9, <1>10, <1>11

\* The object row is made to point at it.
LEMMA PointAtVersionSafe ==
  ASSUME TxInv, NEW t \in Call, PointAtVersion(t)
  PROVE  Safe'
<1> USE CallAssumption DEF TxInv, TypeInv, Safe, objectRow, rows, memory
<1>1. LockIsHeld'
  BY DEF PointAtVersion, Goto, LockIsHeld, Writing
<1>2. DraftIsSound'
  BY DEF PointAtVersion, DraftIsSound, LockIsHeld, OpFits, Writing
<1>3. RowsAreWritten'
  BY DEF PointAtVersion, Goto, RowsAreWritten
<1>4. VersionsHaveTheirKey'
  BY DEF PointAtVersion, Goto, VersionsHaveTheirKey, Committed
<1>5. ErasedRows'
  BY DEF PointAtVersion, Goto, ErasedRows, Erasing
<1>6. ReportedRows'
  BY DEF PointAtVersion, Goto, ReportedRows, Erasing, Fresh
<1>7. RowsToErase'
  BY DEF PointAtVersion, Goto, RowsToErase, Fresh
<1>8. NullsTakeTurns'
  BY DEF PointAtVersion, Goto, NullsTakeTurns, Committed
<1>9. RemovedRowsAreReported'
  BY DEF PointAtVersion, Goto, RemovedRowsAreReported
<1>10. PurgeTakesAll'
  BY DEF PointAtVersion, Goto, PurgeTakesAll, LockIsHeld, Writing
<1>11. PointerHolds'
  BY DEF PointAtVersion, Goto, PointerHolds, Committed, OfObject
<1> QED BY <1>1, <1>2, <1>3, <1>4, <1>5, <1>6, <1>7, <1>8, <1>9, <1>10, <1>11

\* The select of the version to remove.
LEMMA SelectVersionSafe ==
  ASSUME TxInv, NEW t \in Call, SelectVersion(t)
  PROVE  Safe'
<1> USE CallAssumption DEF TxInv, TypeInv, Safe, objectRow, rows, memory
<1>1. LockIsHeld'
  BY DEF SelectVersion, Goto, Domains, OrNone, LockIsHeld, Writing
<1>2. DraftIsSound'
  BY DEF SelectVersion, Goto, Domains, OrNone, DraftIsSound, Committed, OfObject
<1>3. RowsAreWritten'
  BY DEF SelectVersion, Goto, Domains, RowsAreWritten
<1>4. VersionsHaveTheirKey'
  BY DEF SelectVersion, Goto, Domains, VersionsHaveTheirKey, Committed, Puts, Writing
<1>5. ErasedRows'
  BY DEF SelectVersion, Goto, Domains, OrNone, ErasedRows, Erasing
<1>6. ReportedRows'
  BY DEF SelectVersion, Goto, Domains, ReportedRows, Erasing, Fresh, OfObject, Committed
<1>7. RowsToErase'
  BY DEF SelectVersion, Goto, Domains, RowsToErase, Fresh
<1>8. NullsTakeTurns'
  BY DEF SelectVersion, Goto, Domains, NullsTakeTurns, Committed, OfObject
<1>9. RemovedRowsAreReported'
  BY DEF SelectVersion, Goto, Domains, RemovedRowsAreReported
<1>10. PurgeTakesAll'
  BY DEF SelectVersion, Goto, Domains, PurgeTakesAll
<1>11. PointerHolds'
  BY DEF SelectVersion, Goto, Domains, PointerHolds, Committed, OfObject
<1> QED BY <1>1, <1>2, <1>3, <1>4, <1>5, <1>6, <1>7, <1>8, <1>9, <1>10, <1>11

\* deleteVersion removes it and reports its path.
LEMMA RemoveVersionSafe ==
  ASSUME TxInv, NEW t \in Call, RemoveVersion(t)
  PROVE  Safe'
<1> USE CallAssumption DEF TxInv, TypeInv, Safe, objectRow, rows, memory
<1>1. LockIsHeld'
  BY DEF RemoveVersion, Goto, LockIsHeld, Writing
<1>2. DraftIsSound'
  BY DEF RemoveVersion, Goto, Domains, DraftIsSound, Committed
<1>3. RowsAreWritten'
  BY DEF RemoveVersion, Goto, RowsAreWritten
<1>4. VersionsHaveTheirKey'
  BY DEF RemoveVersion, Goto, VersionsHaveTheirKey, Committed
<1>5. ErasedRows'
  BY DEF RemoveVersion, Goto, Domains, ErasedRows, ReportedRows, OpFits, Erasing
<1>6. ReportedRows'
  BY DEF RemoveVersion, Goto, Domains, ReportedRows, Fresh
<1>7. RowsToErase'
  BY DEF RemoveVersion, Goto, RowsToErase, Fresh
<1>8. NullsTakeTurns'
  BY DEF RemoveVersion, Goto, Domains, NullsTakeTurns, Committed
<1>9. RemovedRowsAreReported'
  BY DEF RemoveVersion, Goto, RemovedRowsAreReported
<1>10. PurgeTakesAll'
  BY DEF RemoveVersion, Goto, Domains, PurgeTakesAll
<1>11. PointerHolds'
  BY DEF RemoveVersion, Goto, PointerHolds, Committed, OfObject
<1> QED BY <1>1, <1>2, <1>3, <1>4, <1>5, <1>6, <1>7, <1>8, <1>9, <1>10, <1>11

\* What is left is ordered by its time.
LEMMA ChooseNewestSafe ==
  ASSUME TxInv, NEW t \in Call, ChooseNewest(t)
  PROVE  Safe'
<1> USE CallAssumption DEF TxInv, TypeInv, Safe, objectRow, rows, memory
<1>1. LockIsHeld'
  BY DEF ChooseNewest, Goto, Domains, OrNone, LockIsHeld, Writing
<1>2. DraftIsSound'
  BY DEF ChooseNewest, Goto, Domains, OrNone, DraftIsSound, Committed
<1>3. RowsAreWritten'
  BY DEF ChooseNewest, Goto, Domains, RowsAreWritten
<1>4. VersionsHaveTheirKey'
  BY DEF ChooseNewest, Goto, Domains, VersionsHaveTheirKey, Committed
<1>5. ErasedRows'
  BY DEF ChooseNewest, Goto, Domains, OrNone, ErasedRows, Erasing
<1>6. ReportedRows'
  BY DEF ChooseNewest, Goto, Domains, ReportedRows, Erasing, Fresh
<1>7. RowsToErase'
  BY DEF ChooseNewest, Goto, Domains, RowsToErase, Fresh
<1>8. NullsTakeTurns'
  BY DEF ChooseNewest, Goto, Domains, NullsTakeTurns, Committed
<1>9. RemovedRowsAreReported'
  BY DEF ChooseNewest, Goto, Domains, RemovedRowsAreReported
<1>10. PurgeTakesAll'
  BY DEF ChooseNewest, Goto, Domains, PurgeTakesAll
<1>11. PointerHolds'
  BY DEF ChooseNewest, Goto, Domains, PointerHolds, Committed, OfObject
<1> QED BY <1>1, <1>2, <1>3, <1>4, <1>5, <1>6, <1>7, <1>8, <1>9, <1>10, <1>11

\* The object row is made to point at the newest one left.
LEMMA RepointSafe ==
  ASSUME TxInv, NEW t \in Call, Repoint(t)
  PROVE  Safe'
<1> USE CallAssumption DEF TxInv, TypeInv, Safe, objectRow, rows, memory
<1>1. LockIsHeld'
  BY DEF Repoint, Goto, Domains, OrNone, LockIsHeld, OpFits, Writing, Puts, WriteObject
<1>2. DraftIsSound'
  <2>1. op[t] = "deleteVersion" /\ found[t] \in Call
    BY DEF Repoint, OpFits, Knows, InTransaction
  <2>2. CASE current # found[t]
    <3>1. holder # t
      BY DEF Repoint, LockIsHeld, Writing
    <3>2. /\ pc' = [pc EXCEPT ![t] = "commit"] /\ pc[t] = "repoint"
          /\ UNCHANGED <<objectRow, rows, memory>>
      BY <2>2 DEF Repoint, WriteObject, Goto
    <3>3. Committed' = Committed
      BY <3>2 DEF Domains, Committed
    <3>4. holder # None => pc'[holder] = pc[holder]
      BY <3>1, <3>2 DEF Domains, OrNone
    <3> QED BY <3>1, <3>2, <3>3, <3>4 DEF DraftIsSound
  <2>3. CASE current = found[t]
    <3>1. holder' = t /\ draft' = [guid |-> found[t], latest |-> newest[t]]
      BY <2>3 DEF Repoint, WriteObject
    <3>2. draft' # NoObject /\ draft'.guid = current
      BY <2>1, <2>3, <3>1 DEF NoObject
    <3> QED BY <2>1, <2>3, <3>1, <3>2
            DEF Repoint, WriteObject, Goto, Domains, DraftIsSound, Puts
  <2> QED BY <2>2, <2>3
<1>3. RowsAreWritten'
  BY DEF Repoint, Goto, Domains, RowsAreWritten, OpFits, Puts, WriteObject
<1>4. VersionsHaveTheirKey'
  BY DEF Repoint, Goto, Domains, VersionsHaveTheirKey, Committed, WriteObject
<1>5. ErasedRows'
  BY DEF Repoint, Goto, Domains, OrNone, ErasedRows, Erasing, WriteObject
<1>6. ReportedRows'
  BY DEF Repoint, Goto, Domains, ReportedRows, Erasing, Fresh, WriteObject
<1>7. RowsToErase'
  BY DEF Repoint, Goto, Domains, RowsToErase, Fresh, WriteObject
<1>8. NullsTakeTurns'
  BY DEF Repoint, Goto, Domains, NullsTakeTurns, OpFits, Committed, WriteObject
<1>9. RemovedRowsAreReported'
  BY DEF Repoint, Goto, Domains, RemovedRowsAreReported, WriteObject
<1>10. PurgeTakesAll'
  BY DEF Repoint, Goto, Domains, PurgeTakesAll, OpFits, WriteObject
<1>11. PointerHolds'
  BY DEF Repoint, Goto, Domains, PointerHolds, Committed, OfObject, WriteObject
<1> QED BY <1>1, <1>2, <1>3, <1>4, <1>5, <1>6, <1>7, <1>8, <1>9, <1>10, <1>11

\* The select of all the versions of a key.
LEMMA ScanVersionsSafe ==
  ASSUME TxInv, NEW t \in Call, ScanVersions(t)
  PROVE  Safe'
<1> USE CallAssumption DEF TxInv, TypeInv, Safe, objectRow, rows, memory
<1>1. LockIsHeld'
  BY DEF ScanVersions, Goto, LockIsHeld, Writing
<1>2. DraftIsSound'
  BY DEF ScanVersions, Goto, DraftIsSound, Committed
<1>3. RowsAreWritten'
  BY DEF ScanVersions, Goto, RowsAreWritten
<1>4. VersionsHaveTheirKey'
  BY DEF ScanVersions, Goto, VersionsHaveTheirKey, Committed
<1>5. ErasedRows'
  BY DEF ScanVersions, Goto, ErasedRows, Erasing
<1>6. ReportedRows'
  BY DEF ScanVersions, Goto, ReportedRows, Fresh
<1>7. RowsToErase'
  BY DEF ScanVersions, Goto, Domains, RowsToErase, Fresh, OfObject, Committed
<1>8. NullsTakeTurns'
  BY DEF ScanVersions, Goto, NullsTakeTurns, Committed
<1>9. RemovedRowsAreReported'
  BY DEF ScanVersions, Goto, RemovedRowsAreReported
<1>10. PurgeTakesAll'
  BY DEF ScanVersions, Goto, PurgeTakesAll
<1>11. PointerHolds'
  BY DEF ScanVersions, Goto, PointerHolds, Committed, OfObject
<1> QED BY <1>1, <1>2, <1>3, <1>4, <1>5, <1>6, <1>7, <1>8, <1>9, <1>10, <1>11

\* They are removed one after the other, and their paths reported.
LEMMA PurgeVersionSafe ==
  ASSUME TxInv, NEW t \in Call, PurgeVersion(t)
  PROVE  Safe'
<1> USE CallAssumption DEF TxInv, TypeInv, Safe, objectRow, rows, memory
<1>0. PICK g \in Call :
         /\ pc[t] = "purge" /\ op[t] = "purge"
         /\ g \in todo[t] /\ pc[g] = "committed"
         /\ version[g] # None => version[g].object = found[t]
         /\ todo' = [todo EXCEPT ![t] = @ \ {g}]
         /\ \E l \in {"purge", "dropObject"} : pc' = [pc EXCEPT ![t] = l]
         /\ \/ version[g] = None /\ UNCHANGED <<eraser, reported>>
            \/ /\ version[g] # None /\ eraser[g] = None
               /\ eraser' = [eraser EXCEPT ![g] = t]
               /\ reported' = [reported EXCEPT ![t] = @ \cup {g}]
         /\ UNCHANGED <<objectRow, version, op, born, found, row, newest>>
  <2>1. pc[t] = "purge" /\ op[t] = "purge"
    BY DEF PurgeVersion, OpFits
  <2>2. \A g \in todo[t] :
           /\ g \in Call /\ pc[g] = "committed"
           /\ version[g] # None => version[g].object = found[t]
    <3>1. todo[t] \subseteq Call
      BY DEF Domains
    <3> QED BY <3>1 DEF RowsToErase
  <2>3. PICK g \in todo[t] :
           /\ todo' = [todo EXCEPT ![t] = @ \ {g}]
           /\ Goto(t, IF todo[t] = {g} THEN "dropObject" ELSE "purge")
           /\ \/ version[g] = None /\ UNCHANGED <<eraser, reported>>
              \/ /\ version[g] # None /\ eraser[g] = None
                 /\ eraser' = [eraser EXCEPT ![g] = t]
                 /\ reported' = [reported EXCEPT ![t] = @ \cup {g}]
    BY DEF PurgeVersion
  <2>4. \E l \in {"purge", "dropObject"} : pc' = [pc EXCEPT ![t] = l]
    BY <2>3 DEF Goto
  <2>5. UNCHANGED <<objectRow, version, op, born, found, row, newest>>
    BY DEF PurgeVersion
  <2>6. g \in Call /\ g \in todo[t] /\ pc[g] = "committed"
        /\ (version[g] # None => version[g].object = found[t])
    BY <2>2
  <2> QED BY <2>1, <2>3, <2>4, <2>5, <2>6
<1>1. LockIsHeld'
  BY <1>0 DEF LockIsHeld, Writing
<1>2. DraftIsSound'
  BY <1>0 DEF DraftIsSound, Committed
<1>3. RowsAreWritten'
  BY <1>0 DEF RowsAreWritten
<1>4. VersionsHaveTheirKey'
  BY <1>0 DEF VersionsHaveTheirKey, Committed
<1>5. ErasedRows'
  BY <1>0 DEF Domains, OrNone, ErasedRows, Erasing
<1>6. ReportedRows'
  BY <1>0 DEF Domains, ReportedRows, Erasing, Fresh
<1>7. RowsToErase'
  BY <1>0 DEF RowsToErase, Fresh
<1>8. NullsTakeTurns'
  BY <1>0 DEF Domains, NullsTakeTurns, Committed
<1>9. RemovedRowsAreReported'
  BY <1>0 DEF Domains, RemovedRowsAreReported
<1>10. PurgeTakesAll'
  BY <1>0 DEF Domains, PurgeTakesAll
<1>11. PointerHolds'
  BY <1>0 DEF PointerHolds, Committed, OfObject
<1> QED BY <1>1, <1>2, <1>3, <1>4, <1>5, <1>6, <1>7, <1>8, <1>9, <1>10, <1>11

\* The object row is removed.
LEMMA DropObjectSafe ==
  ASSUME TxInv, NEW t \in Call, DropObject(t)
  PROVE  Safe'
<1> USE CallAssumption DEF TxInv, TypeInv, Safe, objectRow, rows, memory
<1>1. LockIsHeld'
  BY DEF DropObject, Goto, Domains, OrNone, LockIsHeld, OpFits, Writing, Puts,
     WriteObject
<1>2. DraftIsSound'
  BY DEF DropObject, Goto, Domains, OrNone, DraftIsSound, OpFits, Committed, Puts,
     WriteObject
<1>3. RowsAreWritten'
  BY DEF DropObject, Goto, Domains, RowsAreWritten, OpFits, Puts, WriteObject
<1>4. VersionsHaveTheirKey'
  BY DEF DropObject, Goto, Domains, VersionsHaveTheirKey, Committed, WriteObject
<1>5. ErasedRows'
  BY DEF DropObject, Goto, Domains, OrNone, ErasedRows, Erasing, WriteObject
<1>6. ReportedRows'
  BY DEF DropObject, Goto, Domains, ReportedRows, Erasing, Fresh, WriteObject
<1>7. RowsToErase'
  BY DEF DropObject, Goto, Domains, RowsToErase, Fresh, WriteObject
<1>8. NullsTakeTurns'
  BY DEF DropObject, Goto, Domains, NullsTakeTurns, OpFits, Committed, WriteObject
<1>9. RemovedRowsAreReported'
  BY DEF DropObject, Goto, Domains, RemovedRowsAreReported, WriteObject
<1>10. PurgeTakesAll'
  <2>1. ASSUME current # found[t], op[t] = "purge" PROVE \A g \in Call : eraser[g] # t
    BY <2>1 DEF ErasedRows, VersionsHaveTheirKey, Committed
  <2>2. holder \in {None, holder'}
    BY DEF DropObject, WriteObject
  <2>3. op' = op /\ eraser' = eraser
    BY DEF DropObject
  <2>4. \/ current # found[t] /\ pc' = [pc EXCEPT ![t] = "commit"]
        \/ pc' = [pc EXCEPT ![t] = "checkRefs"]
    BY DEF DropObject, WriteObject, Goto
  <2> QED BY <2>1, <2>2, <2>3, <2>4 DEF Domains, PurgeTakesAll
<1>11. PointerHolds'
  BY DEF DropObject, Goto, Domains, PointerHolds, Committed, OfObject, WriteObject
<1> QED BY <1>1, <1>2, <1>3, <1>4, <1>5, <1>6, <1>7, <1>8, <1>9, <1>10, <1>11

\* The foreign key finds no version that refers to a removed row.
LEMMA CheckRefsPassSafe ==
  ASSUME TxInv, NEW t \in Call, pc[t] = "checkRefs", OfObject(Visible(t), found[t]) = {},
         Goto(t, "commit"), UNCHANGED <<objectRow, rows, memory>>
  PROVE  Safe'
<1> USE CallAssumption DEF TxInv, TypeInv, Safe, objectRow, rows, memory
<1>1. LockIsHeld'
  BY DEF Goto, LockIsHeld, Writing
<1>2. DraftIsSound'
  <2>1. holder = t /\ op[t] \notin Puts /\ found[t] = current
    BY DEF LockIsHeld, Writing, OpFits, Puts, DraftIsSound
  <2>2. \A g \in Committed : eraser[g] = t
    BY <2>1 DEF VersionsHaveTheirKey, Committed, OfObject, Visible
  <2>3. Committed' = Committed
    BY DEF Goto, Domains, Committed, RowsAreWritten
  <2> QED BY <2>1, <2>2, <2>3 DEF DraftIsSound, Goto, Domains
<1>3. RowsAreWritten'
  BY DEF Goto, RowsAreWritten, OpFits, Puts
<1>4. VersionsHaveTheirKey'
  BY DEF Goto, VersionsHaveTheirKey, Committed
<1>5. ErasedRows'
  BY DEF Goto, ErasedRows, Erasing
<1>6. ReportedRows'
  BY DEF Goto, ReportedRows, Erasing, Fresh
<1>7. RowsToErase'
  BY DEF Goto, RowsToErase, Fresh
<1>8. NullsTakeTurns'
  BY DEF Goto, NullsTakeTurns, OpFits, Committed
<1>9. RemovedRowsAreReported'
  BY DEF Goto, RemovedRowsAreReported
<1>10. PurgeTakesAll'
  BY DEF Goto, PurgeTakesAll, LockIsHeld, Writing
<1>11. PointerHolds'
  BY DEF Goto, PointerHolds, Committed, OfObject
<1> QED BY <1>1, <1>2, <1>3, <1>4, <1>5, <1>6, <1>7, <1>8, <1>9, <1>10, <1>11

\* A rollback, whatever it undoes.
LEMMA UndoSafe ==
  ASSUME TxInv, NEW t \in Call, Undo(t), pc[t] \in InTransaction
  PROVE  Safe'
<1> USE CallAssumption DEF TxInv, TypeInv, Safe, objectRow, rows, memory
<1>1. LockIsHeld'
  BY DEF Undo, Goto, Domains, LockIsHeld, Writing, Forget
<1>2. DraftIsSound'
  BY DEF Undo, Goto, DraftIsSound, Committed, Forget
<1>3. RowsAreWritten'
  BY DEF Undo, Goto, Domains, RowsAreWritten, Forget
<1>4. VersionsHaveTheirKey'
  BY DEF Undo, Goto, VersionsHaveTheirKey, Committed
<1>5. ErasedRows'
  BY DEF Undo, Goto, ErasedRows, Forget, InTransaction
<1>6. ReportedRows'
  BY DEF Undo, Goto, Domains, ReportedRows, Forget, InTransaction
<1>7. RowsToErase'
  BY DEF Undo, Goto, Domains, RowsToErase, Forget, InTransaction
<1>8. NullsTakeTurns'
  BY DEF Undo, Goto, Domains, NullsTakeTurns, Committed, Forget
<1>9. RemovedRowsAreReported'
  BY DEF Undo, Goto, RemovedRowsAreReported, Forget, InTransaction
<1>10. PurgeTakesAll'
  BY DEF Undo, Goto, PurgeTakesAll, Forget
<1>11. PointerHolds'
  BY DEF Undo, Goto, PointerHolds, Committed, OfObject, Forget, InTransaction
<1> QED BY <1>1, <1>2, <1>3, <1>4, <1>5, <1>6, <1>7, <1>8, <1>9, <1>10, <1>11

\* A commit, whatever it makes visible.
LEMMA CommitSafe ==
  ASSUME TxInv, NEW t \in Call, Commit(t)
  PROVE  Safe'
<1> USE CallAssumption DEF TxInv, TypeInv, Safe, objectRow, rows, memory
<1>a. op[t] \in Puts <=> version[t] # None
  BY DEF Commit, RowsAreWritten
<1>b. op[t] \in Puts => holder = t
  BY DEF Commit, LockIsHeld
<1>c. eraser[t] # t
  BY DEF Commit, ErasedRows
<1>d. \A g \in Call : g \in Committed'
           <=> version[g] # None /\ eraser[g] # t /\ (g = t \/ g \in Committed)
  BY DEF Commit, Goto, Domains, Committed
<1>e. \A g \in Committed' : version'[g] = version[g] /\ g \in Call
  BY DEF Commit, Domains, Committed
<1>f. \A g \in Committed : g \in Call /\ version[g].object = current /\ current \in Call
  BY DEF Committed, VersionsHaveTheirKey, Domains, VersionRow
<1>1. LockIsHeld'
  BY DEF Commit, Goto, Domains, LockIsHeld, Writing, Forget
<1>2. DraftIsSound'
  BY DEF Commit, Goto, DraftIsSound, LockIsHeld, RowsAreWritten, Committed, Forget
<1>3. RowsAreWritten'
  <2>1. \A g \in Call : version'[g] # None => version'[g] = version[g]
    BY DEF Commit, Domains
  <2>2. \A g \in Call : pc[g] # "committed" => version'[g] = version[g]
    BY DEF Commit, Domains, ErasedRows
  <2>3. op' = op /\ pc' = [pc EXCEPT ![t] = "committed"]
        /\ \A g \in Call \ {t} : found'[g] = found[g]
    BY DEF Commit, Goto, Forget, Domains
  <2> QED BY <1>a, <2>1, <2>2, <2>3 DEF Commit, Domains, RowsAreWritten
<1>4. VersionsHaveTheirKey'
  <2>1. CASE holder # t
    <3>1. current' = current /\ version[t] = None
      BY <2>1, <1>a, <1>b DEF Commit
    <3> QED BY <3>1, <1>d, <1>e, <1>f DEF VersionsHaveTheirKey
  <2>2. CASE holder = t /\ op[t] \in Puts
    <3>1. current' = found[t] /\ version[t].object = found[t]
      BY <2>2, <1>a, CallAssumption DEF Commit, DraftIsSound, RowsAreWritten
    <3>2. current # None => current' = current
      BY <2>2, <3>1, CallAssumption DEF DraftIsSound
    <3> QED BY <3>1, <3>2, <1>d, <1>e, <1>f, CallAssumption DEF VersionsHaveTheirKey
  <2>3. CASE holder = t /\ op[t] \notin Puts
    <3>1. current' = draft.guid /\ version[t] = None
      BY <2>3, <1>a, CallAssumption DEF Commit
    <3>2. current' = current \/ \A g \in Committed : eraser[g] = t
      BY <2>3, <3>1, CallAssumption DEF Commit, DraftIsSound
    <3> QED BY <3>1, <3>2, <1>d, <1>e, <1>f DEF VersionsHaveTheirKey
  <2> QED BY <2>1, <2>2, <2>3
<1>5. ErasedRows'
  BY DEF Commit, Goto, ErasedRows, Forget
<1>6. ReportedRows'
  BY DEF Commit, Goto, Domains, ReportedRows, Erasing, Fresh, Forget
<1>7. RowsToErase'
  <2>1. todo' = [todo EXCEPT ![t] = {}] /\ pc' = [pc EXCEPT ![t] = "committed"]
        /\ \A u \in Call \ {t} : found'[u] = found[u]
    BY DEF Commit, Goto, Forget, Domains
  <2>2. \A g \in Call : version'[g] # None => version'[g] = version[g]
    BY DEF Commit, Domains
  <2>3. \A u \in Call \ {t} : todo'[u] = todo[u] /\ pc'[u] = pc[u]
    BY <2>1 DEF Domains
  <2>4. todo'[t] = {} /\ \A g \in Call : pc[g] = "committed" => pc'[g] = "committed"
    BY <2>1 DEF Domains
  <2>5. \A u \in Call : todo[u] \subseteq Call
    BY DEF Domains
  <2> QED BY <2>1, <2>2, <2>3, <2>4, <2>5 DEF RowsToErase
<1>8. NullsTakeTurns'
  <2>1. \A g \in Committed : version[g].isNull /\ op[t] = "putNull" => eraser[g] = t
    BY DEF Commit, NullsTakeTurns
  <2>2. version[t] # None => (version[t].isNull <=> op[t] = "putNull")
    BY DEF RowsAreWritten
  <2>3. \A g, h \in Committed' : version'[g].isNull /\ version'[h].isNull => g = h
    BY <2>1, <2>2, <1>d, <1>e DEF NullsTakeTurns
  <2>4. ASSUME NEW u \in Call, pc'[u] \in {"insert", "point", "commit"}, op'[u] = "putNull",
               NEW g \in Committed', version'[g].isNull
        PROVE  eraser'[g] = u
    <3>1. u # t /\ pc[u] = pc'[u] /\ op[u] = "putNull"
      BY <2>4 DEF Commit, Goto, Forget, Domains
    <3>2. holder = u
      BY <2>4, <3>1 DEF LockIsHeld, Writing, Puts
    <3>3. g \in Committed /\ version[g].isNull
      BY <2>4, <3>1, <3>2, <1>a, <1>b, <1>d, <1>e
    <3>4. eraser[g] = u
      BY <2>4, <3>1, <3>3 DEF NullsTakeTurns
    <3> QED BY <3>1, <3>3, <3>4, <1>f DEF Commit, Domains
  <2> QED BY <2>3, <2>4 DEF NullsTakeTurns
<1>9. RemovedRowsAreReported'
  BY DEF Commit, Goto, Domains, RemovedRowsAreReported, RowsAreWritten, ErasedRows,
     Forget
<1>10. PurgeTakesAll'
  BY DEF Commit, Goto, PurgeTakesAll, Forget
<1>11. PointerHolds'
  <2> SUFFICES ASSUME ~ \E u \in Call : op'[u] = "deleteVersion" /\ pc'[u] = "committed",
                      current' # None
               PROVE  (latest \in OfObject(Committed, current))'
    BY DEF PointerHolds
  <2>1. op' = op /\ pc' = [pc EXCEPT ![t] = "committed"]
    BY DEF Commit, Goto, Forget
  <2>2. op[t] # "deleteVersion"
    BY <2>1 DEF Domains
  <2>3. ~ \E u \in Call : op[u] = "deleteVersion" /\ pc[u] = "committed"
    BY <2>1 DEF Domains
  <2>4. CASE holder = t /\ op[t] \in Puts
    <3>1. current' = found[t] /\ latest' = t /\ version[t].object = found[t]
      BY <2>4, <1>a, CallAssumption DEF Commit, DraftIsSound, RowsAreWritten
    <3> QED BY <2>4, <3>1, <1>a, <1>c, <1>d, <1>e DEF OfObject
  <2>5. CASE holder = t /\ op[t] \notin Puts
    <3>1. draft = NoObject
      BY <2>5, <2>2, CallAssumption DEF Commit, DraftIsSound
    <3> QED BY <2>5, <3>1, CallAssumption DEF Commit, NoObject
  <2>6. CASE holder # t
    <3>1. op[t] = "purge" => \A g \in Call : eraser[g] # t
      BY <2>6 DEF Commit, PurgeTakesAll
    <3>2. op[t] = "purge"
      BY <2>2, <2>6, <1>b DEF Commit, OpFits
    <3>3. UNCHANGED <<current, latest>>
      BY <2>6 DEF Commit
    <3>4. \A g \in Call : eraser[g] # t
      BY <3>1, <3>2
    <3>5. latest \in Committed /\ version[latest].object = current
      BY <2>3, <3>3 DEF PointerHolds, OfObject
    <3>6. latest \in Committed' /\ version'[latest] = version[latest]
      BY <3>4, <3>5, <1>d, <1>e, <1>f DEF Committed
    <3> QED BY <3>3, <3>5, <3>6 DEF OfObject
  <2> QED BY <2>4, <2>5, <2>6
<1> QED BY <1>1, <1>2, <1>3, <1>4, <1>5, <1>6, <1>7, <1>8, <1>9, <1>10, <1>11

-----------------------------------------------------------------------------
(* The theorems. *)

\* Only a transaction can wait.
LEMMA OnlyTransactionsWait ==
  ASSUME NEW t \in Call, Deadlocked(t)
  PROVE  pc[t] \in InTransaction
<1>1. WaitsFor(t) # {}
  BY DEF Deadlocked
<1>2. ASSUME pc[t] \notin InTransaction PROVE WaitsFor(t) = {}
  BY <1>2 DEF WaitsFor, InTransaction
<1> QED BY <1>1, <1>2

\* No statement of any transaction breaks the invariant.
LEMMA SafeStep == TxInv /\ [Next]_vars => Safe'
<1> SUFFICES ASSUME TxInv, [Next]_vars PROVE Safe'
  OBVIOUS
<1>1. CASE UNCHANGED vars
  BY <1>1 DEF TxInv, Safe, vars, objectRow, rows, memory, LockIsHeld, DraftIsSound,
     RowsAreWritten, VersionsHaveTheirKey, Committed, ErasedRows, ReportedRows,
     RowsToErase, NullsTakeTurns, RemovedRowsAreReported, PurgeTakesAll,
     PointerHolds, OfObject
<1>2. ASSUME NEW t \in Call, Undo(t), pc[t] \in InTransaction PROVE Safe'
  BY <1>2, UndoSafe
<1>3. ASSUME NEW t \in Call, CheckRefs(t) PROVE Safe'
  <2>1. pc[t] = "checkRefs" /\ pc[t] \in InTransaction
    BY <1>3 DEF CheckRefs, InTransaction
  <2>2. \/ Undo(t)
        \/ /\ OfObject(Visible(t), found[t]) = {}
           /\ Goto(t, "commit") /\ UNCHANGED <<objectRow, rows, memory>>
    BY <1>3 DEF CheckRefs
  <2> QED BY <1>2, <2>1, <2>2, CheckRefsPassSafe
<1>4. ASSUME NEW t \in Call, BreakDeadlock(t) \/ Fail(t) PROVE Safe'
  BY <1>2, <1>4, OnlyTransactionsWait DEF BreakDeadlock, Fail
<1>5. ASSUME NEW t \in Call, Start(t) \/ Execute(t) PROVE Safe'
  BY <1>3, <1>5, StartSafe, FindObjectSafe, ReadVersionSafe, UpsertObjectSafe,
     ReplaceNullSafe, InsertVersionSafe, PointAtVersionSafe, SelectVersionSafe,
     RemoveVersionSafe, ChooseNewestSafe, RepointSafe, ScanVersionsSafe,
     PurgeVersionSafe, DropObjectSafe, CommitSafe
     DEF Execute
<1> QED BY <1>1, <1>4, <1>5 DEF Next

\* The inductive invariant of the three transactions and of the tables.
THEOREM Invariance == Spec => []TxInv
<1>1. Init => TxInv
  BY TypeInit, SafeInit DEF TxInv
<1>2. TxInv /\ [Next]_vars => TxInv'
  BY TypeStep, SafeStep DEF TxInv
<1> QED BY <1>1, <1>2, PTL DEF Spec

\* A key that is committed has a pointer, and so has the row that a transaction
\* is about to commit.
Pointed ==
    /\ current = None <=> latest = None
    /\ \A t \in Call : pc[t] = "repoint" => newest[t] \in Call
    /\ holder # None /\ pc[holder] = "commit" /\ draft # NoObject
          => draft.guid \in Call /\ draft.latest \in Call

\* No statement commits a key without a pointer.
LEMMA PointedStep == TxInv /\ Pointed /\ [Next]_vars => Pointed'
<1> SUFFICES ASSUME TxInv, Pointed, [Next]_vars PROVE Pointed'
  OBVIOUS
<1> USE CallAssumption DEF TxInv, TypeInv, objectRow, rows, memory
<1>1. CASE UNCHANGED vars
  BY <1>1 DEF vars, Pointed
<1>2. ASSUME NEW t \in Call, Undo(t) PROVE Pointed'
  BY <1>2 DEF Undo, Goto, Forget, Pointed, Domains, NoObject
<1>3. ASSUME NEW t \in Call, UNCHANGED <<objectRow, newest>>, NEW l,
             Goto(t, l), l \notin {"repoint", "commit"}
      PROVE  Pointed'
  BY <1>3 DEF Goto, Pointed, Domains
<1>4. ASSUME NEW t \in Call, Start(t) \/ FindObject(t) PROVE Pointed'
  <2>1. UNCHANGED <<objectRow, newest>>
    BY <1>4 DEF Start, FindObject
  <2>2. \E l : Goto(t, l) /\ l \notin {"repoint", "commit"}
    <3>1. CASE Start(t)
      BY <3>1 DEF Start
    <3>2. CASE FindObject(t)
      <4>1. op[t] \in {"read", "deleteVersion", "purge"}
        BY <3>2 DEF FindObject, OpFits, AllOps, Puts
      <4> QED BY <3>2, <4>1 DEF FindObject
    <3> QED BY <1>4, <3>1, <3>2
  <2> QED BY <1>3, <2>1, <2>2
<1>5. ASSUME NEW t \in Call,
             \/ ReadVersion(t) \/ ReplaceNull(t) \/ InsertVersion(t) \/ SelectVersion(t)
             \/ RemoveVersion(t) \/ ScanVersions(t) \/ PurgeVersion(t)
      PROVE  Pointed'
  <2>1. UNCHANGED <<objectRow, newest>>
    BY <1>5 DEF ReadVersion, ReplaceNull, InsertVersion, SelectVersion, RemoveVersion,
                ScanVersions, PurgeVersion
  <2>2. \E l : Goto(t, l) /\ l \notin {"repoint", "commit"}
    BY <1>5 DEF ReadVersion, ReplaceNull, InsertVersion, SelectVersion, RemoveVersion,
                ScanVersions, PurgeVersion
  <2> QED BY <1>3, <2>1, <2>2
<1>6. ASSUME NEW t \in Call, UpsertObject(t) PROVE Pointed'
  BY <1>6 DEF UpsertObject, Goto, Pointed, Domains
<1>7. ASSUME NEW t \in Call, PointAtVersion(t) PROVE Pointed'
  <2>1. /\ holder = t /\ op[t] \in Puts /\ found[t] \in Call
        /\ draft.guid = found[t] /\ draft \in ObjectRow
    BY <1>7 DEF PointAtVersion, Safe, LockIsHeld, Writing, DraftIsSound, OpFits, Knows,
                InTransaction, Domains
  <2>2. /\ draft' = [draft EXCEPT !.latest = t]
        /\ pc' = [pc EXCEPT ![t] = "commit"]
        /\ UNCHANGED <<current, latest, holder, newest>>
    BY <1>7 DEF PointAtVersion, Goto
  <2>3. draft'.guid = found[t] /\ draft'.latest = t
    BY <2>1, <2>2 DEF ObjectRow
  <2> QED BY <2>1, <2>2, <2>3 DEF Pointed, Domains
<1>8. ASSUME NEW t \in Call, ChooseNewest(t) PROVE Pointed'
  <2>1. UNCHANGED objectRow
    BY <1>8 DEF ChooseNewest
  <2>2. CASE Goto(t, "dropObject") /\ UNCHANGED newest
    BY <1>3, <2>1, <2>2
  <2>3. CASE Goto(t, "repoint")
    <3>1. PICK g \in Call : newest' = [newest EXCEPT ![t] = g]
      BY <1>8, <2>3 DEF ChooseNewest, Goto, OfObject, Visible, Committed, Domains
    <3> QED BY <2>1, <2>3, <3>1 DEF Goto, Pointed, Domains
  <2> QED BY <1>8, <2>2, <2>3 DEF ChooseNewest
<1>9. ASSUME NEW t \in Call, Repoint(t) PROVE Pointed'
  <2>1. /\ found[t] \in Call /\ newest[t] \in Call /\ UNCHANGED newest
        /\ pc[t] = "repoint" /\ holder # t
    BY <1>9 DEF Repoint, Knows, InTransaction, Pointed, Safe, LockIsHeld, Writing
  <2>2. CASE /\ holder' = t /\ UNCHANGED <<current, latest>>
             /\ draft' = [guid |-> found[t], latest |-> newest[t]] /\ Goto(t, "commit")
    BY <2>1, <2>2 DEF Goto, Pointed, Domains
  <2>3. CASE Goto(t, "commit") /\ UNCHANGED objectRow
    BY <2>1, <2>3 DEF Goto, Pointed, Domains
  <2> QED BY <1>9, <2>2, <2>3 DEF Repoint, WriteObject
<1>10. ASSUME NEW t \in Call, DropObject(t) PROVE Pointed'
  <2>1. pc[t] = "dropObject" /\ holder # t /\ UNCHANGED newest
    BY <1>10 DEF DropObject, Safe, LockIsHeld, Writing
  <2>2. CASE /\ holder' = t /\ draft' = NoObject /\ Goto(t, "checkRefs")
             /\ UNCHANGED <<current, latest>>
    BY <2>1, <2>2 DEF Goto, Pointed, Domains
  <2>3. CASE Goto(t, "commit") /\ UNCHANGED objectRow
    BY <2>1, <2>3 DEF Goto, Pointed, Domains
  <2> QED BY <1>10, <2>2, <2>3 DEF DropObject, WriteObject
<1>11. ASSUME NEW t \in Call, CheckRefs(t) PROVE Pointed'
  <2>1. CASE Goto(t, "commit") /\ UNCHANGED <<objectRow, rows, memory>>
    <3>1. pc[t] = "checkRefs" /\ holder = t /\ op[t] \notin Puts
      BY <1>11 DEF CheckRefs, Safe, LockIsHeld, Writing, OpFits, Puts
    <3>2. draft = NoObject
      BY <3>1 DEF Safe, DraftIsSound
    <3> QED BY <2>1, <3>1, <3>2 DEF Goto, Pointed, Domains
  <2> QED BY <1>2, <1>11, <2>1 DEF CheckRefs
<1>12. ASSUME NEW t \in Call, Commit(t) PROVE Pointed'
  <2>1. /\ pc[t] = "commit" /\ pc' = [pc EXCEPT ![t] = "committed"]
        /\ newest' = [newest EXCEPT ![t] = None]
    BY <1>12 DEF Commit, Goto, Forget
  <2>2. CASE /\ holder = t /\ current' = draft.guid /\ latest' = draft.latest
             /\ holder' = None /\ draft' = NoObject
    <3>1. draft.guid = None <=> draft.latest = None
      BY <2>1, <2>2 DEF Pointed, NoObject
    <3> QED BY <2>1, <2>2, <3>1 DEF Pointed, Domains
  <2>3. CASE holder # t /\ UNCHANGED objectRow
    BY <2>1, <2>3 DEF Pointed, Domains
  <2> QED BY <1>12, <2>2, <2>3 DEF Commit
<1>13. ASSUME NEW t \in Call,
              Start(t) \/ Execute(t) \/ BreakDeadlock(t) \/ Fail(t)
       PROVE  Pointed'
  BY <1>13, <1>2, <1>4, <1>5, <1>6, <1>7, <1>8, <1>9, <1>10, <1>11, <1>12
     DEF Execute, BreakDeadlock, Fail
<1> QED BY <1>1, <1>13 DEF Next

\* Every variable keeps its type, no timestamp is handed out beyond the number of
\* calls, and no key is committed without a pointer to its latest version,
\* however many transactions overlap.
THEOREM TypeCorrect == Spec => []TypeOK
<1>1. Init => Pointed
  BY DEF Init, Pointed
<1>2. TxInv /\ Pointed => TypeOK
  BY DEF TxInv, TypeInv, Pointed, TypeOK
<1> QED BY <1>1, <1>2, PointedStep, Invariance, PTL DEF Spec

\* The paths that a committed commitVersion, deleteVersion or purgeObject returns
\* for deletion are those of rows that are gone.
THEOREM ReportsAreTrue == Spec => []ReportedRowsAreGone
<1>1. TxInv => ReportedRowsAreGone
  BY DEF TxInv, TypeInv, Domains, Safe, ReportedRows, ReportedRowsAreGone
<1> QED BY <1>1, Invariance, PTL

\* The path of every version row that was removed is returned by the transaction
\* that removed it, however the deletes overlap.
THEOREM NothingIsForgotten == Spec => []RemovedRowsAreReported
<1>1. TxInv => RemovedRowsAreReported
  BY DEF TxInv, Safe
<1> QED BY <1>1, Invariance, PTL

\* commitVersion never has two rows of the version id 'null' for one object in
\* front of the unique index: its delete-then-insert holds the object row.
THEOREM NullIsUnique == Spec => []NullVersionIsOne
<1>1. TxInv => NullVersionIsOne
  <2> SUFFICES ASSUME TxInv, NEW g \in Call, NEW h \in Call,
                      version[g] # None, version[h] # None,
                      version[g].isNull, version[h].isNull,
                      eraser[g] # h, eraser[h] # g
               PROVE  g = h
    BY DEF NullVersionIsOne
  <2> USE DEF TxInv, Safe
  <2>1. ASSUME NEW x \in {g, h}
        PROVE  /\ op[x] = "putNull" /\ pc[x] \in {"point", "commit", "committed"}
               /\ pc[x] # "committed" => holder = x
    BY <2>1 DEF RowsAreWritten, LockIsHeld, Writing, Puts
  <2>2. CASE g \in Committed /\ h \in Committed
    BY <2>2 DEF NullsTakeTurns
  <2>3. CASE g \notin Committed /\ h \notin Committed
    BY <2>1, <2>3 DEF Committed
  <2>4. ASSUME NEW x \in {g, h}, NEW y \in {g, h}, x \in Committed, y \notin Committed
        PROVE  eraser[x] = y
    BY <2>1, <2>4 DEF Committed, NullsTakeTurns
  <2>5. CASE g \in Committed /\ h \notin Committed
    BY <2>4, <2>5
  <2>6. CASE g \notin Committed /\ h \in Committed
    BY <2>4, <2>6
  <2> QED BY <2>2, <2>3, <2>5, <2>6
<1> QED BY <1>1, Invariance, PTL

\* No transaction leaves a version whose object row is not the key's: what is
\* listed and read through the object row is all there is.
THEOREM VersionsAreReachable == Spec => []VersionsHaveTheirKey
<1>1. TxInv => VersionsHaveTheirKey
  BY DEF TxInv, Safe
<1> QED BY <1>1, Invariance, PTL

\* latestVersionGuid names a version that exists as long as no version has been
\* deleted by its id.
THEOREM PointerIsSound == Spec => []PointerHolds
<1>1. TxInv => PointerHolds
  BY DEF TxInv, Safe
<1> QED BY <1>1, Invariance, PTL

=============================================================================
