------------------------- MODULE MCWorkflowContract -------------------------
(* The module contract_drafts.cfg instantiates: the ids are model values. *)
EXTENDS WorkflowContract

=============================================================================
