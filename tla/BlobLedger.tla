----------------------------- MODULE BlobLedger -----------------------------
(***************************************************************************)
(* What the blob store promises, without a database, a disk or a collector *)
(* in sight: the life of one stored payload.  It is staged once, claimed   *)
(* by a row at most once, and erased only when no row claims it and none   *)
(* ever will again.                                                        *)
(***************************************************************************)
CONSTANT Blob

VARIABLE phase

Phases == {"unborn", "staged", "claimed", "released", "gone"}

Life ==
    { <<"unborn", "staged">>,       \* its first byte is on the disk
      <<"unborn", "gone">>,         \* its call ended without storing anything
      <<"staged", "gone">>,         \* its call refused it
      <<"staged", "released">>,     \* its call died and left it behind
      <<"staged", "claimed">>,      \* a row that names it is committed
      <<"claimed", "released">>,    \* that row is deleted
      <<"released", "gone">> }      \* the file is removed

LedgerInit == phase = [b \in Blob |-> "unborn"]

\* One blob moves at a time, but any number of rows may go with that step.
LedgerNext ==
    LET before == phase
        after == phase'
    IN  /\ after \in [Blob -> Phases]
        /\ \A b \in Blob : before[b] # after[b] => <<before[b], after[b]>> \in Life
        /\ \A b, c \in Blob :
              /\ before[b] # after[b] /\ before[b] # "claimed"
              /\ before[c] # after[c] /\ before[c] # "claimed"
              => b = c

LedgerSpec == LedgerInit /\ [][LedgerNext]_phase

=============================================================================
