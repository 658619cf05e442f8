----------------------------- MODULE MCReconciler -----------------------------
(* Reconciler for TLC: the allowed resource and others, of other sizes.      *)
EXTENDS Reconciler

DefSize == [n \in Names |-> IF n = AllowedCR THEN 3 ELSE 5]

===============================================================================
