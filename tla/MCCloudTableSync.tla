-------------------------- MODULE MCCloudTableSync --------------------------
(***************************************************************************)
(* Instances of CloudTableSync for TLC.  Rows and executions are model     *)
(* values and interchangeable in the runs that check no liveness.          *)
(***************************************************************************)
EXTENDS CloudTableSync, TLC

RowSymmetry == Permutations(Keys)
RowAndWorkerSymmetry == Permutations(Keys) \cup Permutations(Workers)
=============================================================================
