----------------------- MODULE MCInteractionRegistry -----------------------
(***************************************************************************)
(* The registry of questions over small sets: questions of a kind are      *)
(* interchangeable, and so are messages.                                   *)
(***************************************************************************)
EXTENDS InteractionRegistry, TLC

IdSymmetry ==
  {f @@ g @@ h : f \in Permutations(ChoiceIds), g \in Permutations(SecretIds),
                 h \in Permutations(Messages)}

=============================================================================
