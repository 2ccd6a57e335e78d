--------------------------- MODULE WorkflowDraft ---------------------------
(***************************************************************************)
(* The draft of a workflow definition while its user edits it: the canvas, *)
(* the inspectors and the dialogs of the workflow page, from "Edit         *)
(* workflow" to a save.  Source: apps/web/src/features/workflows/ and      *)
(* apps/web/src/features/workflow-canvas/.                                 *)
(*                                                                         *)
(* The canvas is laid out after every change, on the thread that handles   *)
(* the gestures: the page takes no gesture before it is done.  What other  *)
(* users and the API do to the page is in WorkflowEditing.  Names, texts   *)
(* and positions of nodes are left out, and so is a viewer, who cannot     *)
(* edit.                                                                   *)
(***************************************************************************)
EXTENDS Arrays, SequencesExt, FiniteSetsExt, WorkflowGraph

CONSTANTS Initial,        \* definitions the workflow may be stored with
          CredentialType, \* the provider of each credential of the workspace
          None,           \* no selection, no credential, no provider
          MaxNodes,       \* bound: nodes a gesture may lead to (100 in the contract)
          MaxEdits        \* bound: changes of the draft

ASSUME BoundsAssumption == MaxNodes \in Nat /\ MaxEdits \in Nat

VARIABLES saved,  \* the definition the workflow query holds
          draft,  \* draftDefinition
          page,   \* isEditing, the selection and the node the dialog edits
          layout, \* getNodeLevels: its queue and its levels
          edits   \* the changes made so far

vars == <<saved, draft, page, layout, edits>>

Types == {"TRIGGER", "TRANSFORM", "AI"}
Providers == {"DETERMINISTIC"} \cup Range(CredentialType)

\* A node's id is the name of its type with a number; an edge is named after
\* its ends, perhaps with a suffix.  "a-to-t-2" may be the second name for an
\* edge to t and the first one for an edge to t-2.
EdgeId(from, to, k) ==
  IF to[2] = 1 /\ k > 1 THEN <<from, to[1], k, 1>> ELSE <<from, to[1], to[2], k>>

\* valid: the rest of the node's config passes the schema of its type.
Plain == [provider |-> None, credential |-> None, valid |-> TRUE]
NewAi == [provider |-> "DETERMINISTIC", credential |-> None, valid |-> TRUE]

IdsOf(d) == {d.nodes[i].id : i \in DOMAIN d.nodes}
IsTrigger(n) == n[1] = "TRIGGER"
Incident(edge, S) == edge.from \in S \/ edge.to \in S

Graph(d) == [triggers |-> {n \in IdsOf(d) : IsTrigger(n)},
             edges |-> {<<e.from, e.to>> : e \in Range(d.edges)}]

\* workflowDefinitionSchema, as WorkflowContract checks it.
Accepted(d) ==
  /\ d.nodes # <<>>
  /\ \A i \in DOMAIN d.nodes : d.nodes[i].config.valid
  /\ IsInjective([i \in DOMAIN d.nodes |-> d.nodes[i].id])
  /\ IsInjective([i \in DOMAIN d.edges |-> d.edges[i].id])
  /\ IsInjective([i \in DOMAIN d.edges |-> <<d.edges[i].from, d.edges[i].to>>])
  /\ Graph(d).edges \subseteq IdsOf(d) \X IdsOf(d)
  /\ Executable(Graph(d), IdsOf(d))

Configs == [provider : Providers \cup {None}, credential : DOMAIN CredentialType \cup {None},
            valid : BOOLEAN]
DraftNodes == [id : Types \X Nat, config : Configs]
Edge(id, from, to) == [id |-> id, from |-> from, to |-> to]

\* The shape of a definition; an edge may have any name.
IsDefinition(d) ==
  /\ d = [nodes |-> d.nodes, edges |-> d.edges]
  /\ d.nodes \in Seq(DraftNodes)
  /\ d.edges \in Seq(Range(d.edges))
  /\ \A e \in Range(d.edges) : e = Edge(e.id, e.from, e.to)

\* The API stores what the contract accepts.
ASSUME InitialAssumption == \A d \in Initial : IsDefinition(d) /\ Accepted(d)

----------------------------------------------------------------------------
(***************************************************************************)
(* The layout.                                                             *)
(***************************************************************************)

Outgoing(d, n) ==
  LET out == Keep(d.edges, {e \in Range(d.edges) : e.from = n})
  IN [i \in DOMAIN out |-> out[i].to]

\* getNodeLevels before its loop: the nodes without an incoming edge.
StartLayout(d) ==
  LET roots == Keep(d.nodes, {v \in Range(d.nodes) : Sources(Graph(d), v.id) = {}})
      ids == [i \in DOMAIN roots |-> roots[i].id]
  IN [queue |-> ids, level |-> [n \in Range(ids) |-> 0]]

Active == IF page.editing THEN draft ELSE saved
Ready == layout.queue = <<>>

\* On a cycle the loop raises the levels for ever; the bound of the model is
\* the first level no acyclic graph has.
Hung == \E n \in DOMAIN layout.level : layout.level[n] > Len(Active.nodes)

\* Mutant: a target whose level is known is not queued again.
RequeueNew(targets, level) == Keep(targets, Range(targets) \ DOMAIN level)

\* A target is queued again whenever a source of it is.
Requeue(targets, level) == targets

\* One turn of the loop.
LayOut ==
  /\ ~Ready /\ ~Hung
  /\ LET n == Head(layout.queue)
         level == layout.level
         targets == Outgoing(Active, n)
         next == level[n] + 1
     IN layout' =
          [queue |-> Tail(layout.queue) \o Requeue(targets, level),
           level |-> [m \in DOMAIN level \cup Range(targets) |->
                        IF m \notin Range(targets) THEN level[m]
                        ELSE IF m \in DOMAIN level THEN Max({level[m], next})
                        ELSE next]]
  /\ UNCHANGED <<saved, draft, page, edits>>

----------------------------------------------------------------------------
(***************************************************************************)
(* The page.                                                               *)
(***************************************************************************)

\* Mutant: the effects are missing.
ReselectNever(p, d) == p

\* The effects that follow a render: the selected node and the node of the
\* dialog are among the nodes on screen, or the first one and none.
Reselect(p, d) ==
  [p EXCEPT !.node = IF @ \in IdsOf(d) THEN @
                     ELSE IF d.nodes = <<>> THEN None ELSE d.nodes[1].id,
            !.dialog = IF @ \in IdsOf(d) THEN @ ELSE None]

\* The page renders d.
Shows(p, d) ==
  /\ page' = Reselect(p, d)
  /\ layout' = IF d = Active THEN layout ELSE StartLayout(d)

Init ==
  /\ saved \in Initial /\ draft = saved
  /\ page = Reselect([editing |-> FALSE, node |-> None, edge |-> None,
                      dialog |-> None], saved)
  /\ layout = StartLayout(saved)
  /\ edits = 0

\* updateDraftDefinition, handleDefinitionChange.
Change(d, p) ==
  /\ edits < MaxEdits /\ edits' = edits + 1
  /\ draft' = d
  /\ Shows(p, d)
  /\ UNCHANGED saved

\* The dialog is modal.
Free == Ready /\ page.dialog = None
Editing == Free /\ page.editing
InDialog == Ready /\ page.dialog # None

SelectNode(n) ==
  /\ Free
  /\ page' = [page EXCEPT !.node = n, !.edge = None]
  /\ UNCHANGED <<saved, draft, layout, edits>>

\* A click on an edge leaves the node selected.
SelectEdge(e) ==
  /\ Free
  /\ page' = [page EXCEPT !.edge = e.id]
  /\ UNCHANGED <<saved, draft, layout, edits>>

StartEditing ==
  /\ Free /\ ~page.editing
  /\ Shows([page EXCEPT !.editing = TRUE], draft)
  /\ UNCHANGED <<saved, draft, edits>>

\* "Edit node", or a double click on it: starts editing as well.
OpenNodeEditor(n) ==
  /\ Free
  /\ Shows([page EXCEPT !.editing = TRUE, !.node = n, !.edge = None, !.dialog = n],
           draft)
  /\ UNCHANGED <<saved, draft, edits>>

CloseNodeEditor ==
  /\ InDialog
  /\ page' = [page EXCEPT !.dialog = None]
  /\ UNCHANGED <<saved, draft, layout, edits>>

----------------------------------------------------------------------------
(***************************************************************************)
(* Nodes.                                                                  *)
(***************************************************************************)

\* createNodeId: the first number that is free.
NewId(type) ==
  <<type, Min({k \in 1..(MaxNodes + 1) : <<type, k>> \notin IdsOf(draft)})>>

\* create of the catalog entry of the type.
NewNode(type) ==
  [id |-> NewId(type), config |-> IF type = "AI" THEN NewAi ELSE Plain]

AddNode(type) ==
  /\ Editing /\ Len(draft.nodes) < MaxNodes
  /\ LET node == NewNode(type) IN
       Change([draft EXCEPT !.nodes = Append(@, node)],
              [page EXCEPT !.node = node.id, !.edge = None])

Without(d, S) ==
  [nodes |-> Keep(d.nodes, {v \in Range(d.nodes) : v.id \notin S}),
   edges |-> Keep(d.edges, {e \in Range(d.edges) : ~Incident(e, S)})]

\* "Delete node" of the dialog.
DeleteNode ==
  /\ InDialog
  /\ Change(Without(draft, {page.dialog}),
            [page EXCEPT !.dialog = None,
                         !.node = IF @ = page.dialog THEN None ELSE @])

UpdateNode(n, config) ==
  Change([draft EXCEPT !.nodes = [i \in DOMAIN @ |->
            IF @[i].id = n THEN [@[i] EXCEPT !.config = config] ELSE @[i]]], page)

\* The config of the node in the dialog.
Edited == LET i == CHOOSE i \in DOMAIN draft.nodes : draft.nodes[i].id = page.dialog
          IN draft.nodes[i].config
EditsAi == InDialog /\ page.dialog[1] = "AI"

\* Any other field: what its user types may pass the schema or not.
EditConfig ==
  /\ InDialog
  /\ UpdateNode(page.dialog, [Edited EXCEPT !.valid = ~@])

\* Mutant: the credential is kept.
WithProviderOnly(config, provider) == [config EXCEPT !.provider = provider]

\* A change of the provider forgets the credential.
WithProvider(config, provider) ==
  [config EXCEPT !.provider = provider, !.credential = None]

ChangeProvider(provider) ==
  /\ EditsAi /\ provider # Edited.provider
  /\ UpdateNode(page.dialog, WithProvider(Edited, provider))

\* getCompatibleAiCredentials
Compatible(provider) ==
  {c \in DOMAIN CredentialType : CredentialType[c] = provider}

PickCredential(c) ==
  /\ EditsAi /\ Edited.provider # "DETERMINISTIC"
  /\ c \in Compatible(Edited.provider) \cup {None}
  /\ c # Edited.credential
  /\ UpdateNode(page.dialog, [Edited EXCEPT !.credential = c])

----------------------------------------------------------------------------
(***************************************************************************)
(* Edges.                                                                  *)
(***************************************************************************)

\* FlowPilotNode: a trigger has no handle to draw to.
Joinable(from, to) == from # to /\ ~IsTrigger(to)

\* handleConnect: an edge is drawn between the handles of two nodes.  addEdge
\* keeps an edge with the same ends, and nothing asks whether the id is free
\* or a cycle is closed.
Connect(from, to) ==
  /\ Editing /\ Joinable(from, to)
  /\ LET id == EdgeId(from, to, 1)
         joined == \E e \in Range(draft.edges) : e.from = from /\ e.to = to
     IN Change(IF joined THEN draft
               ELSE [draft EXCEPT !.edges = Append(@, Edge(id, from, to))],
               [page EXCEPT !.edge = id])

Others(id) == Keep(draft.edges, {e \in Range(draft.edges) : e.id # id})

\* "Delete edge" of the inspector and the button on the edge.
DeleteEdge(id) ==
  /\ Editing
  /\ Change([draft EXCEPT !.edges = Others(id)], [page EXCEPT !.edge = None])

\* validateEdgeDraft: also what is wrong elsewhere in the draft is an error.
EdgeRefused(id, from, to) ==
  \/ from = to \/ IsTrigger(to)
  \/ \E e \in Range(Others(id)) : e.from = from /\ e.to = to
  \/ ~Accepted([draft EXCEPT !.edges =
                  Append(Others(id), Edge(None, from, to))])

\* Mutant: the edge keeps its name.
KeptEdgeId(id, from, to) == id

\* getUniqueEdgeId
UniqueEdgeId(id, from, to) ==
  LET taken == {e.id : e \in Range(Others(id))}
      k == Min({j \in 1..(Len(draft.edges) + 1) : EdgeId(from, to, j) \notin taken})
  IN EdgeId(from, to, k)

\* updateSelectedEdge: one end of the selected edge is chosen anew.
UpdateSelectedEdge(from, to) ==
  /\ Editing
  /\ \E i \in DOMAIN draft.edges : LET e == draft.edges[i] IN
       /\ e.id = page.edge /\ \A j \in 1..(i - 1) : draft.edges[j].id # e.id
       /\ (from = e.from) # (to = e.to)
       /\ ~EdgeRefused(e.id, from, to)
       /\ LET id == UniqueEdgeId(e.id, from, to) IN
            Change([draft EXCEPT !.edges = [j \in DOMAIN @ |->
                      IF @[j].id = e.id THEN Edge(id, from, to) ELSE @[j]]],
                   [page EXCEPT !.edge = id])

\* The Delete key: React Flow removes the highlighted nodes S, the edges of S
\* and the highlighted edges, first the edges, then the nodes.  Each of the
\* two handlers replaces the draft by what it makes of the draft on screen;
\* handleEdgesChange does so in a state updater, which runs at once or, if the
\* canvas has updates pending, after handleNodesChange: the nodes are back.
PressDelete(S, ids) ==
  LET left == {e \in Range(draft.edges) : e.id \notin ids /\ ~Incident(e, S)}
      byEdges == [draft EXCEPT !.edges = Keep(@, left)]
      byNodes == Without(draft, S)
  IN /\ Editing
     /\ \/ S # {} /\ Change(byNodes, page)
        \/ byEdges # draft /\ Change(byEdges, page)

----------------------------------------------------------------------------
\* saveDefinition; that the API may refuse is in WorkflowEditing.
Save ==
  /\ Editing /\ draft # saved /\ Accepted(draft)
  /\ saved' = draft
  /\ page' = [page EXCEPT !.editing = FALSE]
  /\ UNCHANGED <<draft, layout, edits>>

DiscardDraft ==
  /\ Editing
  /\ draft' = saved
  /\ Shows([page EXCEPT !.editing = FALSE], saved)
  /\ UNCHANGED <<saved, edits>>

Gesture ==
  \/ StartEditing \/ CloseNodeEditor \/ DeleteNode \/ EditConfig \/ Save \/ DiscardDraft
  \/ \E n \in IdsOf(Active) : SelectNode(n) \/ OpenNodeEditor(n)
  \/ \E e \in Range(Active.edges) : SelectEdge(e) \/ DeleteEdge(e.id)
  \/ \E type \in Types : AddNode(type)
  \/ \E p \in Providers : ChangeProvider(p)
  \/ \E c \in DOMAIN CredentialType \cup {None} : PickCredential(c)
  \/ \E from, to \in IdsOf(draft) : Connect(from, to) \/ UpdateSelectedEdge(from, to)
  \/ \E S \in SUBSET IdsOf(draft), ids \in SUBSET {page.edge} : PressDelete(S, ids)

Next == LayOut \/ Gesture

Spec == Init /\ [][Next]_vars

----------------------------------------------------------------------------
(***************************************************************************)
(* Properties.                                                             *)
(***************************************************************************)

NamedAfterEnds(d) == \A e \in Range(d.edges) : e.id = EdgeId(e.from, e.to, 1)

\* Every variable has its type: what is selected and what the dialog edits is
\* on screen, whatever was deleted, discarded or saved in between.
TypeOK ==
  /\ Accepted(saved)
  /\ page.editing \in BOOLEAN
  /\ page.node \in IdsOf(Active) \cup IF Active.nodes = <<>> THEN {None} ELSE {}
  /\ page.dialog \in IdsOf(Active) \cup {None}
  /\ page.dialog # None => page.editing
  /\ DOMAIN layout.level \subseteq IdsOf(Active)
  /\ edits \in 0..MaxEdits

\* Whatever is added, deleted, drawn, bent and renamed: the nodes of a draft
\* have different ids, its edges join two different nodes of it and never lead
\* into a trigger, and no two edges have the same name or the same ends, unless
\* the stored definition was made elsewhere, with names of its own.
DraftIsWellFormed ==
  LET ids == IdsOf(draft) IN
  /\ IsInjective([i \in DOMAIN draft.nodes |-> draft.nodes[i].id])
  /\ \A e \in Range(draft.edges) : /\ {e.from, e.to} \subseteq ids
                                   /\ e.from # e.to /\ ~IsTrigger(e.to)
  /\ NamedAfterEnds(saved) =>
       /\ IsInjective([i \in DOMAIN draft.edges |-> draft.edges[i].id])
       /\ IsInjective([i \in DOMAIN draft.edges |-> <<draft.edges[i].from, draft.edges[i].to>>])

\* A node is drawn to the right of every node it depends on, and only a cycle
\* keeps the layout from ending.
LayoutFollowsEdges ==
  /\ Hung => ~Acyclic(Graph(Active), IdsOf(Active))
  /\ Ready => \A e \in Range(Active.edges) :
       e.from \in DOMAIN layout.level => layout.level[e.to] > layout.level[e.from]

Fitting(d) ==
  \A i \in DOMAIN d.nodes : LET config == d.nodes[i].config IN
    config.credential # None => CredentialType[config.credential] = config.provider

\* A prompt never names the credential of another provider than its own, if none of the
\* stored definitions does: the API does not ask.
CredentialFits == Fitting(draft)

=============================================================================
