------------------------- MODULE MCWorkflowOrdering -------------------------
(* The module ordering_graphs.cfg instantiates: the nodes are model values. *)
EXTENDS WorkflowOrdering

=============================================================================
