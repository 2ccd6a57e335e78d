--------------------------- MODULE WorkflowGraph ---------------------------
(***************************************************************************)
(* What a workflow definition has to be for a run to make sense, stated    *)
(* without an algorithm: the reference for the checks of the contract and  *)
(* for the ordering of the worker.                                         *)
(*                                                                         *)
(* A graph is a record of its manual triggers and of its edges, pairs of   *)
(* a source and a target.                                                  *)
(***************************************************************************)

Sources(graph, n) == {edge[1] : edge \in {e \in graph.edges : e[2] = n}}

Targets(graph, n) == {edge[2] : edge \in {e \in graph.edges : e[1] = n}}

\* Every set of nodes has one that depends on no other node of the set.
Acyclic(graph, nodes) ==
  \A S \in SUBSET nodes : S # {} => \E n \in S : Sources(graph, n) \cap S = {}

Closed(graph, S) == \A n \in S : Targets(graph, n) \subseteq S

\* What paths from a set of nodes lead to: it is in every closed set around them.
ReachableFrom(graph, from, universe) ==
  {n \in universe :
     \A S \in SUBSET universe : from \subseteq S /\ Closed(graph, S) => n \in S}

\* Triggers start a run: there is one, and none waits for another node.
TriggersStart(graph) ==
  /\ graph.triggers # {}
  /\ \A t \in graph.triggers : Sources(graph, t) = {}

Executable(graph, nodes) ==
  /\ TriggersStart(graph)
  /\ Acyclic(graph, nodes)
  /\ nodes \subseteq ReachableFrom(graph, graph.triggers, nodes)

=============================================================================
