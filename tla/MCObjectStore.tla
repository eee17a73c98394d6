--------------------------- MODULE MCObjectStore ---------------------------
(* ObjectStore on a few calls. *)
EXTENDS ObjectStore, TLC

CONSTANTS r1, r2, r3, r4

AnyVersionOp == [r \in Request |-> {"put", "delete", "deleteVersion"}]
Multipart ==
  (r1 :> {"createUpload"}) @@ (r2 :> {"uploadPart"}) @@ (r3 :> {"uploadPart"})
  @@ (r4 :> {"complete", "abort"})

Mixed ==
  (r1 :> {"put", "createUpload"}) @@ (r2 :> {"put", "uploadPart"})
  @@ (r3 :> {"delete", "complete", "abort"})

\* One part sent while the upload is aborted; a plain delete among two puts.
OneAbort == (r1 :> {"createUpload"}) @@ (r2 :> {"uploadPart"}) @@ (r3 :> {"abort"})
PutsAndDelete == (r1 :> {"put"}) @@ (r2 :> {"put"}) @@ (r3 :> {"delete"})

\* Calls with the same operations are interchangeable.
AllAlike == Permutations(Request)
PartsAlike == Permutations({r2, r3})
=============================================================================
