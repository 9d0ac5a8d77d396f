-------------------------------- MODULE Sums --------------------------------
(***************************************************************************)
(* The sum of the values a function takes on a finite set, the form in     *)
(* which the ledgers of the other modules are added up.  The operator      *)
(* translates no code by itself; lemmas about it are in SumLemmas.         *)
(***************************************************************************)
EXTENDS FiniteSetsExt

SumOver(f, S) == MapThenSumSet(LAMBDA x : f[x], S)
=============================================================================
