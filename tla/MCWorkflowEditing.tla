-------------------------- MODULE MCWorkflowEditing --------------------------
(* Model values for TLC: users, and the definitions but the default one. *)
EXTENDS WorkflowEditing, TLC

EditingSymmetry ==
  Permutations(Clients) \cup Permutations(Definitions \ {Default})

=============================================================================
