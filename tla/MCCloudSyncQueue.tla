-------------------------- MODULE MCCloudSyncQueue --------------------------
(***************************************************************************)
(* Instances of CloudSyncQueue for TLC.  Workers are interchangeable;      *)
(* tasks are not, their ids order the claims.                              *)
(***************************************************************************)
EXTENDS CloudSyncQueue, TLC

WorkerSymmetry == Permutations(Workers)
=============================================================================
