--------------------------- MODULE MCLesplanLifecycle ---------------------------
(***************************************************************************)
(* TLC instances of LesplanLifecycle.  The calls are model values and take *)
(* any operation, so permuting them is a symmetry of the safety runs.      *)
(***************************************************************************)
EXTENDS LesplanLifecycle, TLC

CallSymmetry == Permutations(Calls)
==================================================================================
