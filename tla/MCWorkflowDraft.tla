-------------------------- MODULE MCWorkflowDraft --------------------------
(* Stored definitions and credentials for TLC. *)
EXTENDS WorkflowDraft

T == <<"TRIGGER", 1>>
A == <<"TRANSFORM", 1>>
B == <<"TRANSFORM", 2>>
C == <<"TRANSFORM", 3>>
P == <<"AI", 1>>

Node(n) == [id |-> n, config |-> Plain]
Prompt == [id |-> P, config |-> [provider |-> "OPENAI", credential |-> "KEY", valid |-> TRUE]]
Named(from, to) == Edge(EdgeId(from, to, 1), from, to)

\* A prompt behind a trigger; the same with an edge the editor did not name; a
\* branch that is longer than the one drawn before it.
Definitions ==
  {[nodes |-> <<Node(T), Prompt>>, edges |-> <<Named(T, P)>>],
   [nodes |-> <<Node(T), Prompt, Node(A)>>,
    edges |-> <<Edge(EdgeId(T, A, 1), T, P), Named(P, A)>>],
   [nodes |-> <<Node(T), Node(A), Node(B), Node(C)>>,
    edges |-> <<Named(T, B), Named(B, C), Named(T, A), Named(A, B)>>]}

CredentialTypes == [KEY |-> "OPENAI", SPARE |-> "CLAUDE"]

=============================================================================
