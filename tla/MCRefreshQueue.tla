-------------------------- MODULE MCRefreshQueue --------------------------
(* Instances of RefreshQueue for TLC. *)
EXTENDS RefreshQueue, TLC

CONSTANTS k1, r1, r2, e1, o1

MCKeys == {k1}
MCRunners == {r1, r2}
MCEnqueuers == {e1}
MCOperators == {o1}
=============================================================================
