---------------------------- MODULE MCEventBus -----------------------------
(***************************************************************************)
(* Instances of EventBus for TLC.  Handles on subscriptions are alike.     *)
(***************************************************************************)
EXTENDS EventBus, TLC

HandleSymmetry == Permutations(Subs)

=============================================================================
