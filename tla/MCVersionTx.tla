---------------------------- MODULE MCVersionTx ----------------------------
(* Small instances of VersionTx. *)
EXTENDS VersionTx, TLC

CONSTANTS p1, p2, d1, d2

Mixed == (p1 :> Puts) @@ (p2 :> Puts) @@ (d1 :> {"deleteVersion", "purge"})
            @@ (d2 :> {"deleteVersion", "purge", "putNull", "read"})
TwoDeletes == (p1 :> {"putVersion"}) @@ (p2 :> {"putVersion"})
            @@ (d1 :> {"deleteVersion"}) @@ (d2 :> {"deleteVersion"})
PutsAndRead == (p1 :> {"putNull"}) @@ (p2 :> {"putNull"}) @@ (d1 :> {"read"})
            @@ (d2 :> {"putNull"})

=============================================================================
