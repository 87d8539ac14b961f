-------------------------------- MODULE Rows --------------------------------
(***************************************************************************)
(* What the modules of one database share: a row that does not exist, and  *)
(* a column that is null.                                                  *)
(***************************************************************************)
EXTENDS Integers, FiniteSets, FiniteSetsExt, Functions, TLC

CONSTANT None

\* A null number counts as zero.
Or0(n) == IF n = None THEN 0 ELSE n
=============================================================================
