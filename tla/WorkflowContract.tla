-------------------------- MODULE WorkflowContract --------------------------
(***************************************************************************)
(* What a workflow definition goes through before it is stored or run: the *)
(* refinement of workflowDefinitionSchema, with its search for unreachable *)
(* nodes and its search for cycles.  Source:                               *)
(* packages/contracts/src/workflow-definition.ts, shared by the API, the   *)
(* worker and the editor.                                                  *)
(*                                                                         *)
(* A draft is any two arrays, of nodes and of edges: node ids may repeat,  *)
(* and an edge may join nodes that are not there.  The shape of one node   *)
(* or edge, and the ids of edges, are left out.                            *)
(***************************************************************************)
EXTENDS WorkflowGraph, Arrays, SequencesExt

CONSTANTS Ids,       \* the ids nodes and edges mention
          MaxNodes,  \* bound: length of the array of nodes (100 in the code)
          MaxEdges   \* bound: length of the array of edges (200 in the code)

ASSUME BoundsAssumption == MaxNodes \in Nat \ {0} /\ MaxEdges \in Nat

VARIABLES draft,     \* the definition under test
          phase,     \* the part of the refinement that runs next
          issues,    \* the kinds of issues reported so far
          queue,     \* validateReachability: nodes to look at
          reached,   \* validateReachability: reachableNodeIds
          roots,     \* validateAcyclicGraph: nodes its last loop has not visited
          stack,     \* validateAcyclicGraph: calls of visit, innermost first
          visiting,  \* validateAcyclicGraph: visitingNodeIds
          visited    \* validateAcyclicGraph: visitedNodeIds

vars == <<draft, phase, issues, queue, reached, roots, stack, visiting, visited>>

search == <<queue, reached>>
walk == <<roots, stack, visiting, visited>>

DraftNodes == [id : Ids, trigger : BOOLEAN]

Drafts == [nodes : SeqOf(DraftNodes, MaxNodes) \ {<<>>},
           edges : SeqOf(Ids \X Ids, MaxEdges)]

NodeIds == [i \in DOMAIN draft.nodes |-> draft.nodes[i].id]

\* The trigger ids in the order of their set, that of their first occurrence.
TriggerIds ==
  LET isFirst(i) == /\ draft.nodes[i].trigger
                    /\ \A j \in 1..(i - 1) : draft.nodes[j] # draft.nodes[i]
      firsts == Keep([i \in DOMAIN draft.nodes |-> i], {i \in DOMAIN draft.nodes : isFirst(i)})
  IN [k \in DOMAIN firsts |-> draft.nodes[firsts[k]].id]

\* Mutant: the map is filled from the wrong end of the edges.
OutgoingReversed(n) ==
  LET into == Keep(draft.edges, Ids \X {n})
  IN [i \in DOMAIN into |-> into[i][1]]

\* outgoingEdges: the targets of n in the order of the array.
Outgoing(n) ==
  LET out == Keep(draft.edges, {n} \X Ids)
  IN [i \in DOMAIN out |-> out[i][2]]

Issue(kind, found) == IF found THEN {kind} ELSE {}

Init ==
  /\ draft \in Drafts
  /\ phase = "LISTS"
  /\ issues = {}
  /\ queue = <<>> /\ reached = {}
  /\ roots = <<>> /\ stack = <<>> /\ visiting = {} /\ visited = {}

\* What the loops over nodes and edges report.
ListIssues ==
  Issue("repeated node", ~IsInjective(NodeIds))
    \cup Issue("no trigger", TriggerIds = <<>>)
    \cup Issue("unknown node",
               \E edge \in Range(draft.edges) : ~({edge[1], edge[2]} \subseteq Range(NodeIds)))
    \cup Issue("self edge", \E edge \in Range(draft.edges) : edge[1] = edge[2])
    \cup Issue("repeated edge", ~IsInjective(draft.edges))
    \cup Issue("edge into trigger",
               \E edge \in Range(draft.edges) : Contains(TriggerIds, edge[2]))

CheckLists ==
  /\ phase = "LISTS"
  /\ issues' = ListIssues
  /\ phase' = "REACH"
  /\ queue' = TriggerIds
  /\ UNCHANGED <<draft, reached, walk>>

-----------------------------------------------------------------------------
(* validateReachability: breadth first from the triggers. *)

\* Mutant: a node is looked at as often as it is found.
LookAgain ==
  /\ phase = "REACH" /\ queue # <<>>
  /\ queue' = Tail(queue) \o Outgoing(Head(queue))
  /\ reached' = reached \cup {Head(queue)}
  /\ UNCHANGED <<draft, phase, issues, walk>>

Look ==
  /\ phase = "REACH" /\ queue # <<>>
  /\ LET n == Head(queue)
     IN IF n \in reached
        THEN queue' = Tail(queue) /\ UNCHANGED reached
        ELSE queue' = Tail(queue) \o Outgoing(n) /\ reached' = reached \cup {n}
  /\ UNCHANGED <<draft, phase, issues, walk>>

FinishReachability ==
  /\ phase = "REACH" /\ queue = <<>>
  /\ issues' = issues \cup Issue("unreachable node", ~(Range(NodeIds) \subseteq reached))
  /\ phase' = "CYCLES"
  /\ roots' = NodeIds
  /\ UNCHANGED <<draft, search, stack, visiting, visited>>

-----------------------------------------------------------------------------
(* validateAcyclicGraph: depth first from every node. *)

Call(n) == [node |-> n, rest |-> Outgoing(n)]

\* Reports the cycle and leaves both loops.
ReportCycle == issues' = issues \cup {"cycle"} /\ phase' = "DONE" /\ UNCHANGED walk

\* Mutant: only the walk from the first node is made.
VisitFirstRoot ==
  /\ phase = "CYCLES" /\ stack = <<>> /\ roots # <<>>
  /\ roots' = <<>>
  /\ stack' = <<Call(Head(roots))>>
  /\ visiting' = {Head(roots)}
  /\ UNCHANGED <<draft, phase, issues, search, visited>>

\* The last loop asks for the next node.
VisitRoot ==
  /\ phase = "CYCLES" /\ stack = <<>> /\ roots # <<>>
  /\ LET n == Head(roots)
     IN /\ roots' = Tail(roots)
        /\ IF n \in visited
           THEN UNCHANGED <<stack, visiting, visited>>
           ELSE /\ stack' = <<Call(n)>>
                /\ visiting' = visiting \cup {n}
                /\ UNCHANGED visited
  /\ UNCHANGED <<draft, phase, issues, search>>

\* The innermost call asks for its next target: a node it is inside of is a cycle,
\* a node that was left before is not looked at again.
VisitTarget ==
  /\ phase = "CYCLES" /\ stack # <<>> /\ stack[1].rest # <<>>
  /\ LET target == Head(stack[1].rest)
         caller == [stack EXCEPT ![1].rest = Tail(@)]
     IN \/ target \in visiting /\ ReportCycle
        \/ /\ target \notin visiting
           /\ IF target \in visited
              THEN stack' = caller /\ UNCHANGED visiting
              ELSE stack' = <<Call(target)>> \o caller /\ visiting' = visiting \cup {target}
           /\ UNCHANGED <<phase, issues, roots, visited>>
  /\ UNCHANGED <<draft, search>>

\* Mutant: a node that was left still counts as being visited.
LeaveWithoutDelete ==
  /\ phase = "CYCLES" /\ stack # <<>> /\ stack[1].rest = <<>>
  /\ visited' = visited \cup {stack[1].node}
  /\ stack' = Tail(stack)
  /\ UNCHANGED <<draft, phase, issues, search, roots, visiting>>

\* The innermost call returns true.
Leave ==
  /\ phase = "CYCLES" /\ stack # <<>> /\ stack[1].rest = <<>>
  /\ visiting' = visiting \ {stack[1].node}
  /\ visited' = visited \cup {stack[1].node}
  /\ stack' = Tail(stack)
  /\ UNCHANGED <<draft, phase, issues, search, roots>>

FinishAcyclic ==
  /\ phase = "CYCLES" /\ stack = <<>> /\ roots = <<>>
  /\ phase' = "DONE"
  /\ UNCHANGED <<draft, issues, search, walk>>

Next == \/ CheckLists \/ Look \/ FinishReachability
        \/ VisitRoot \/ VisitTarget \/ Leave \/ FinishAcyclic

Spec == Init /\ [][Next]_vars /\ WF_vars(Next)

-----------------------------------------------------------------------------
\* The graph the two arrays describe.
Graph == [triggers |-> {node.id : node \in {v \in Range(draft.nodes) : v.trigger}},
          edges    |-> Range(draft.edges)]

TypeOK ==
  /\ phase \in {"LISTS", "REACH", "CYCLES", "DONE"}
  /\ queue \in Seq(Ids) /\ roots \in Seq(Ids)
  /\ reached \subseteq Ids /\ visited \subseteq Ids
  /\ visiting = {stack[i].node : i \in DOMAIN stack}
  /\ visiting \cap visited = {}

\* The contract accepts a draft exactly when the graph it describes can be run: its
\* searches (workflow-definition.ts:159 and 194) find what their reference says.
AcceptsExecutable ==
  phase = "DONE" =>
    (issues = {} <=> /\ IsInjective(NodeIds) /\ IsInjective(draft.edges)
                     /\ Graph.edges \subseteq Range(NodeIds) \X Range(NodeIds)
                     /\ Executable(Graph, Range(NodeIds)))

\* A search reports what is there, whatever else is wrong with the draft: repeated or
\* unknown nodes neither hide a cycle nor invent one (workflow-definition.ts:202).
SearchesAreExact ==
  phase = "DONE" =>
    /\ "cycle" \in issues
         <=> ~Acyclic(Graph, ReachableFrom(Graph, Range(NodeIds), Ids))
    /\ "unreachable node" \in issues
         <=> ~(Range(NodeIds) \subseteq ReachableFrom(Graph, Graph.triggers, Ids))

\* Both searches end, also on a graph with cycles.
ValidationEnds == <>(phase = "DONE")

=============================================================================
