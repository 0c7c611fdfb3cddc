-------------------------------- MODULE Sums --------------------------------
(***************************************************************************)
(* What a column adds up to over a set of rows.                            *)
(***************************************************************************)
EXTENDS Integers, FiniteSetsExt

SumOf(f, S) == MapThenSumSet(LAMBDA x : f[x], S)
=============================================================================
