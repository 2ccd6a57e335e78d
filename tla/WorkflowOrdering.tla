-------------------------- MODULE WorkflowOrdering --------------------------
(***************************************************************************)
(* How the worker turns a definition that passed the contract into the     *)
(* sequence of nodes it runs: orderWorkflowNodes, and the loop that gives  *)
(* each node the outputs of its sources.  Source:                          *)
(* apps/execution-worker/src/index.ts.                                     *)
(*                                                                         *)
(* parseWorkflowDefinition has applied the contract again just before, so  *)
(* nodes are unique, edges join two of them, and no pair is joined twice:  *)
(* a set of pairs stands for the edges.  What the order of the arrays      *)
(* decides, which trigger and which freed node comes first, is a choice.   *)
(***************************************************************************)
EXTENDS WorkflowGraph, Naturals, Sequences, FiniteSets, Functions

CONSTANT Nodes

ASSUME NodesAssumption == IsFiniteSet(Nodes) /\ {"REQUEST", "NONE"} \cap Nodes = {}

VARIABLES definition,  \* the parsed definition
          queue,       \* nodes that wait for no other node
          incoming,    \* incomingCounts: sources not yet placed, per node
          ordered,     \* orderedNodes; visitedNodeIds holds the same nodes
          status,      \* ORDERING, RUNNING, FINISHED, or UNORDERED
          position,    \* rounds of the loop over the ordered nodes so far
          currentInput,  \* where the last output comes from
          outputs      \* nodeOutputs: where the output of each node comes from

vars == <<definition, queue, incoming, ordered, status, position, currentInput, outputs>>

run == <<position, currentInput, outputs>>

\* The contract refuses an edge from a node to itself.
Definitions == [triggers : SUBSET Nodes,
                edges : SUBSET {e \in Nodes \X Nodes : e[1] # e[2]}]

\* The sequences an array of these nodes can be.
Arrangements(S) == {s \in [1..Cardinality(S) -> S] : Range(s) = S}

\* What the input of an execution or the output of a node is named by: REQUEST, or
\* the node that made it.
Origins == Nodes \cup {"REQUEST"}

Visited == Range(ordered)

Init ==
  /\ definition \in {d \in Definitions : Executable(d, Nodes)}
  /\ queue \in Arrangements(definition.triggers)
  /\ incoming = [n \in Nodes |-> Cardinality(Sources(definition, n))]
  /\ ordered = <<>>
  /\ status = "ORDERING"
  /\ position = 0
  /\ currentInput = "REQUEST"
  /\ outputs = [n \in Nodes |-> "NONE"]

\* Mutant: every node that waits is counted down, target of n or not.
CountDownAll(n) == [t \in Nodes |-> incoming[t] - 1]

\* The inner loop over the targets of n.
CountDown(n) ==
  [t \in Nodes |-> IF t \in Targets(definition, n) THEN incoming[t] - 1 ELSE incoming[t]]

\* Mutant: the count is compared before the source is taken off.
FreedTooLate(n) == {t \in Targets(definition, n) : incoming[t] = 0}

Freed(n) == {t \in Targets(definition, n) : incoming[t] = 1}

\* Mutant: freed nodes are put in front of the triggers that wait.
PlaceNodeDepthFirst ==
  /\ status = "ORDERING"
  /\ queue # <<>>
  /\ LET n == Head(queue)
     IN /\ ordered' = Append(ordered, n)
        /\ incoming' = CountDown(n)
        /\ \E freed \in Arrangements(Freed(n)) : queue' = freed \o Tail(queue)
  /\ UNCHANGED <<definition, status, run>>

\* One round of the loop.  A node that was placed before is skipped.
PlaceNode ==
  /\ status = "ORDERING"
  /\ queue # <<>>
  /\ LET n == Head(queue)
     IN IF n \in Visited
        THEN /\ queue' = Tail(queue)
             /\ UNCHANGED <<ordered, incoming>>
        ELSE /\ ordered' = Append(ordered, n)
             /\ incoming' = CountDown(n)
             /\ \E freed \in Arrangements(Freed(n)) : queue' = Tail(queue) \o freed
  /\ UNCHANGED <<definition, status, run>>

\* The check after the loop: an order is an order of all nodes, or an error.
FinishOrdering ==
  /\ status = "ORDERING"
  /\ queue = <<>>
  /\ status' = IF Len(ordered) = Cardinality(Nodes) THEN "RUNNING" ELSE "UNORDERED"
  /\ UNCHANGED <<definition, queue, incoming, ordered, run>>

\* A trigger hands its input on, and its input is the fallback: it has no sources.
Output(n) == IF n \in definition.triggers THEN currentInput ELSE n

\* Mutant: the output of a node is not stored.
RunNodeForgets ==
  /\ status = "RUNNING"
  /\ position < Len(ordered)
  /\ position' = position + 1
  /\ currentInput' = Output(ordered[position + 1])
  /\ UNCHANGED <<definition, queue, incoming, ordered, status, outputs>>

\* A round of the loop over the ordered nodes that ends well.
RunNode ==
  /\ status = "RUNNING"
  /\ position < Len(ordered)
  /\ LET n == ordered[position + 1]
     IN /\ outputs' = [outputs EXCEPT ![n] = Output(n)]
        /\ currentInput' = Output(n)
  /\ position' = position + 1
  /\ UNCHANGED <<definition, queue, incoming, ordered, status>>

\* Mutant: the loop stops one node short.
FinishRunEarly ==
  /\ status = "RUNNING"
  /\ position + 1 = Len(ordered)
  /\ status' = "FINISHED"
  /\ UNCHANGED <<definition, queue, incoming, ordered, run>>

FinishRun ==
  /\ status = "RUNNING"
  /\ position = Len(ordered)
  /\ status' = "FINISHED"
  /\ UNCHANGED <<definition, queue, incoming, ordered, run>>

Next == PlaceNode \/ FinishOrdering \/ RunNode \/ FinishRun

Spec == Init /\ [][Next]_vars /\ WF_vars(Next)

-----------------------------------------------------------------------------
TypeOK ==
  /\ definition \in Definitions
  /\ queue \in Seq(Nodes)
  /\ incoming \in [Nodes -> Nat]
  /\ ordered \in Seq(Nodes)
  /\ status \in {"ORDERING", "RUNNING", "FINISHED", "UNORDERED"}
  /\ position \in 0..Len(ordered)
  /\ currentInput \in Origins
  /\ outputs \in [Nodes -> Origins \cup {"NONE"}]

\* orderWorkflowNodes never throws workflow_definition_unordered for a definition
\* the contract accepts (index.ts:783): the two sets of rules agree.
NeverUnordered == status # "UNORDERED"

\* Whatever has been placed, everything it depends on was placed before it.
Topological ==
  \A i \in DOMAIN ordered : \A m \in Sources(definition, ordered[i]) :
    \E j \in 1..(i - 1) : ordered[j] = m

\* The decrements of incomingCounts count what they are meant to count, so no count
\* falls below zero and none reaches zero twice.
CountsWaiting ==
  \A n \in Nodes : incoming[n] = Cardinality(Sources(definition, n) \ Visited)

\* getNodeInput finds the output of every source when a node is about to run: the
\* fallbacks for a missing output (index.ts:807 and 811) never happen.
InputsAreThere ==
  status = "RUNNING" /\ position < Len(ordered)
    => \A m \in Sources(definition, ordered[position + 1]) : outputs[m] # "NONE"

\* Every trigger gets the input of the execution, also the second and the third one,
\* although what it is given is the output of whichever node ran last (index.ts:604).
TriggersGetRequest ==
  \A t \in definition.triggers : outputs[t] \in {"NONE", "REQUEST"}

\* The loops end, and an accepted definition runs every node once.
EveryNodeRuns ==
  <>(/\ status = "FINISHED" /\ Len(ordered) = Cardinality(Nodes)
     /\ \A n \in Nodes : outputs[n] # "NONE")

=============================================================================
