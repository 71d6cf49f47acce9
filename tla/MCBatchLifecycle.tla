---------------------------- MODULE MCBatchLifecycle ----------------------------
(* Small instances of BatchLifecycle: the records of the scopes.            *)
EXTENDS BatchLifecycle, TLC

CONSTANTS S, T, r1, r2

(* The records of each scope, without and with a record in common.          *)
Shared == S :> {r1, r2} @@ T :> {r2}
OneEach == S :> {r1} @@ T :> {r2}
OneScope == S :> {r1}

=============================================================================
