----------------------- MODULE WorkflowOrderingProofs -----------------------
(***************************************************************************)
(* Theorems about WorkflowOrdering, for any finite set of nodes: what the  *)
(* contract accepts is always ordered, after its dependencies, and every   *)
(* node finds the outputs it needs.                                        *)
(***************************************************************************)
EXTENDS WorkflowOrdering, FiniteSetTheorems, SequenceTheorems, TLAPS

(* Sequences and their elements.                                           *)

LEMMA RangeOfAppend ==
  ASSUME NEW S, NEW s \in Seq(S), NEW e \in S
  PROVE  Range(Append(s, e)) = Range(s) \cup {e}
<1>1. Append(s, e) = s \o <<e>> /\ <<e>> \in Seq(S)
  BY AppendIsConcat
<1>2. Range(<<e>>) = {e}
  <2>1. Range(<<e>>) = {<<e>>[i] : i \in 1..Len(<<e>>)}
    BY <1>1, RangeEquality
  <2>2. Len(<<e>>) = 1 /\ <<e>>[1] = e
    OBVIOUS
  <2>3. \A i \in 1..1 : i = 1
    OBVIOUS
  <2> DEFINE r == <<e>>
  <2>4. \A i \in 1..Len(r) : r[i] = e
    BY <2>2, <2>3
  <2>5. 1 \in 1..Len(r)
    BY <2>2
  <2> HIDE DEF r
  <2> QED
    BY <2>1, <2>4, <2>5 DEF r
<1>3. Range(s \o <<e>>) = Range(s) \cup Range(<<e>>)
  BY <1>1, RangeConcatenation
<1> QED
  BY <1>1, <1>2, <1>3

LEMMA RangeOfTail ==
  ASSUME NEW S, NEW s \in Seq(S), s # <<>>
  PROVE  /\ Head(s) \in S /\ Tail(s) \in Seq(S)
         /\ Range(s) = {Head(s)} \cup Range(Tail(s))
<1>1. /\ Head(s) \in S /\ Tail(s) \in Seq(S)
      /\ Len(Tail(s)) = Len(s) - 1
      /\ \A i \in 1..Len(Tail(s)) : Tail(s)[i] = s[i + 1]
  BY HeadTailProperties
<1>2. Range(s) = {s[i] : i \in 1..Len(s)}
  BY RangeEquality
<1>3. Range(Tail(s)) = {Tail(s)[i] : i \in 1..Len(Tail(s))}
  BY <1>1, RangeEquality
<1>4. Len(s) \in Nat \ {0} /\ Head(s) = s[1]
  BY LenProperties, EmptySeq
<1>5. ASSUME NEW i \in 1..Len(s) PROVE s[i] \in {Head(s)} \cup Range(Tail(s))
  <2>1. CASE i = 1
    BY <2>1, <1>4
  <2>2. CASE i # 1
    <3>1. i - 1 \in 1..Len(Tail(s)) /\ (i - 1) + 1 = i
      BY <2>2, <1>1, <1>4
    <3> QED
      BY <3>1, <1>1, <1>3
  <2> QED
    BY <2>1, <2>2
<1>6. ASSUME NEW i \in 1..Len(Tail(s)) PROVE Tail(s)[i] \in Range(s)
  <2>1. i + 1 \in 1..Len(s)
    BY <1>1, <1>4
  <2> QED
    BY <2>1, <1>1, <1>2
<1>7. Head(s) \in Range(s)
  BY <1>2, <1>4
<1> QED
  BY <1>1, <1>2, <1>3, <1>5, <1>6, <1>7

\* An arrangement of some nodes is a sequence of them.
LEMMA ArrangementIsSeq ==
  ASSUME NEW S \in SUBSET Nodes, NEW s \in Arrangements(S)
  PROVE  s \in Seq(Nodes) /\ Range(s) = S
<1>1. IsFiniteSet(S)
  BY NodesAssumption, FS_Subset
<1>2. Cardinality(S) \in Nat
  BY <1>1, FS_CardinalityType
<1>3. s \in [1..Cardinality(S) -> S] /\ Range(s) = S
  BY DEF Arrangements
<1>4. s \in Seq(S)
  BY <1>2, <1>3, IsASeq
<1> QED
  BY <1>3, <1>4, SeqMonotonic

\* A sequence that names every node once is as long as there are nodes.
LEMMA LengthOfOrder ==
  ASSUME NEW s \in Seq(Nodes), IsInjective(s), Range(s) = Nodes
  PROVE  Len(s) = Cardinality(Nodes)
<1>1. Len(s) \in Nat /\ DOMAIN s = 1..Len(s) /\ s \in [1..Len(s) -> Nodes]
  BY LenProperties
<1>2. s \in Bijection(1..Len(s), Nodes)
  BY <1>1 DEF Bijection, Injection, Surjection, IsInjective, Range
<1>3. /\ IsFiniteSet(1..Len(s)) /\ Cardinality(1..Len(s)) = Len(s)
  BY <1>1, FS_Interval
<1>4. ExistsBijection(1..Len(s), Nodes)
  BY <1>2 DEF ExistsBijection
<1> QED
  BY <1>3, <1>4, FS_Bijection

-----------------------------------------------------------------------------
(* The inductive invariant.                                                *)

\* A queued node waits for nothing.
QueuedAreFree ==
  \A n \in Range(queue) : Sources(definition, n) \subseteq Visited

\* A node that waits for nothing is not forgotten.
FreeAreQueued ==
  \A n \in Nodes :
    Sources(definition, n) \subseteq Visited => n \in Visited \cup Range(queue)

\* The nodes the second loop has been through have an output.
RanHaveOutputs ==
  \A i \in 1..position : outputs[ordered[i]] # "NONE"

\* The first loop is over.
Ordered == status # "ORDERING" => Visited = Nodes

IInv ==
  /\ TypeOK /\ NeverUnordered /\ Topological /\ CountsWaiting
  /\ Executable(definition, Nodes) /\ IsInjective(ordered)
  /\ QueuedAreFree /\ FreeAreQueued /\ Ordered /\ RanHaveOutputs
  /\ status = "ORDERING" => position = 0

-----------------------------------------------------------------------------
(* Facts about accepted graphs.                                            *)

LEMMA SourcesAreNodes ==
  ASSUME definition \in Definitions, NEW n \in Nodes
  PROVE  /\ Sources(definition, n) \subseteq Nodes
         /\ IsFiniteSet(Sources(definition, n))
         /\ n \notin Sources(definition, n)
         /\ Targets(definition, n) \subseteq Nodes
         /\ \A t : t \in Targets(definition, n) <=> n \in Sources(definition, t)
<1>1. \A e \in definition.edges : e \in Nodes \X Nodes /\ e[1] # e[2]
  BY DEF Definitions
<1>2. /\ Sources(definition, n) \subseteq Nodes
      /\ n \notin Sources(definition, n)
      /\ Targets(definition, n) \subseteq Nodes
  BY <1>1 DEF Sources, Targets
<1>3. IsFiniteSet(Sources(definition, n))
  BY <1>2, NodesAssumption, FS_Subset
<1>4. \A t : t \in Targets(definition, n) <=> n \in Sources(definition, t)
  BY <1>1 DEF Sources, Targets
<1> QED
  BY <1>2, <1>3, <1>4

\* Only a trigger waits for nothing from the start: every other node is reached
\* along an edge.
LEMMA UnawaitedIsTrigger ==
  ASSUME definition \in Definitions, Executable(definition, Nodes),
         NEW n \in Nodes, Sources(definition, n) = {}
  PROVE  n \in definition.triggers
<1> SUFFICES ASSUME n \notin definition.triggers
             PROVE  FALSE
  OBVIOUS
<1> DEFINE S == Nodes \ {n}
<1>1. S \in SUBSET Nodes /\ definition.triggers \subseteq S
  BY DEF Definitions
<1>2. Closed(definition, S)
  <2> SUFFICES ASSUME NEW m \in S, NEW t \in Targets(definition, m)
               PROVE  t \in S
    BY DEF Closed
  <2>1. t \in Nodes /\ m \in Sources(definition, t)
    BY SourcesAreNodes
  <2> QED
    BY <2>1
<1>3. n \in ReachableFrom(definition, definition.triggers, Nodes)
  BY DEF Executable
<1>4. n \in S
  BY <1>1, <1>2, <1>3 DEF ReachableFrom
<1> QED
  BY <1>4

LEMMA InitIInv == Init => IInv
<1> SUFFICES ASSUME Init PROVE IInv
  OBVIOUS
<1>1. definition \in Definitions /\ Executable(definition, Nodes)
  BY DEF Init
<1>2. queue \in Seq(Nodes) /\ Range(queue) = definition.triggers
  <2>1. definition.triggers \in SUBSET Nodes /\ queue \in Arrangements(definition.triggers)
    BY <1>1 DEF Init, Definitions
  <2> QED
    BY <2>1, ArrangementIsSeq
<1>3. ordered = <<>> /\ Visited = {} /\ position = 0 /\ status = "ORDERING"
  BY DEF Init, Visited, Range
<1>4. \A n \in Nodes : Cardinality(Sources(definition, n)) \in Nat
  BY <1>1, SourcesAreNodes, FS_CardinalityType
<1>5. TypeOK
  BY <1>1, <1>2, <1>3, <1>4 DEF Init, TypeOK, Origins
<1>6. CountsWaiting
  BY <1>3 DEF Init, CountsWaiting
<1>7. Topological /\ IsInjective(ordered) /\ RanHaveOutputs
  BY <1>3 DEF Topological, IsInjective, RanHaveOutputs
<1>8. QueuedAreFree
  BY <1>1, <1>2 DEF QueuedAreFree, Executable, TriggersStart
<1>9. FreeAreQueued
  BY <1>1, <1>2, <1>3, UnawaitedIsTrigger DEF FreeAreQueued
<1> QED
  BY <1>1, <1>3, <1>5, <1>6, <1>7, <1>8, <1>9 DEF IInv, NeverUnordered, Ordered

-----------------------------------------------------------------------------
(* The steps.                                                              *)

\* A round of the first loop.
LEMMA PlaceNodeStep ==
  ASSUME IInv, PlaceNode
  PROVE  IInv'
<1> DEFINE n == Head(queue)
<1>1. /\ definition \in Definitions /\ queue \in Seq(Nodes) /\ ordered \in Seq(Nodes)
      /\ incoming \in [Nodes -> Nat] /\ queue # <<>> /\ status = "ORDERING"
      /\ definition' = definition /\ status' = status /\ position' = position
      /\ currentInput' = currentInput /\ outputs' = outputs /\ position = 0
  BY DEF IInv, TypeOK, PlaceNode, run
<1>2. /\ n \in Nodes /\ Tail(queue) \in Seq(Nodes)
      /\ Range(queue) = {n} \cup Range(Tail(queue))
  BY <1>1, RangeOfTail
<1>3. \A m \in Nodes : Sources(definition', m) = Sources(definition, m)
  BY <1>1
<1>4. CASE n \in Visited
  <2>1. queue' = Tail(queue) /\ ordered' = ordered /\ incoming' = incoming
    BY <1>4 DEF PlaceNode
  <2>2. Visited' = Visited
    BY <2>1 DEF Visited
  <2>3. TypeOK'
    BY <1>1, <1>2, <2>1 DEF IInv, TypeOK
  <2>4. /\ NeverUnordered' /\ Topological' /\ CountsWaiting' /\ IsInjective(ordered')
        /\ Executable(definition', Nodes) /\ Ordered' /\ RanHaveOutputs'
    BY <1>1, <2>1, <2>2
    DEF IInv, NeverUnordered, Topological, CountsWaiting, Ordered, RanHaveOutputs
  <2>5. QueuedAreFree'
    BY <1>1, <1>2, <2>1, <2>2 DEF IInv, QueuedAreFree
  <2>6. FreeAreQueued'
    BY <1>1, <1>2, <1>4, <2>1, <2>2 DEF IInv, FreeAreQueued
  <2> QED
    BY <1>1, <2>3, <2>4, <2>5, <2>6 DEF IInv
<1>5. CASE n \notin Visited
  <2>1. PICK freed \in Arrangements(Freed(n)) :
          /\ ordered' = Append(ordered, n)
          /\ incoming' = CountDown(n)
          /\ queue' = Tail(queue) \o freed
    BY <1>5 DEF PlaceNode
  <2>2. freed \in Seq(Nodes) /\ Range(freed) = Freed(n)
    <3>1. Freed(n) \in SUBSET Nodes
      BY <1>1, <1>2, SourcesAreNodes DEF Freed
    <3> QED
      BY <3>1, ArrangementIsSeq
  <2>3. /\ queue' \in Seq(Nodes)
        /\ Range(queue') = Range(Tail(queue)) \cup Freed(n)
    <3>1. Tail(queue) \o freed \in Seq(Nodes)
      BY <1>2, <2>2, ConcatProperties
    <3>2. \A s, t \in Seq(Nodes) : Range(s \o t) = Range(s) \cup Range(t)
      BY RangeConcatenation
    <3>3. Range(Tail(queue) \o freed) = Range(Tail(queue)) \cup Range(freed)
      BY <1>2, <2>2, <3>2, Zenon
    <3> QED
      BY <2>1, <2>2, <3>1, <3>3
  <2>4. /\ ordered' \in Seq(Nodes) /\ Len(ordered') = Len(ordered) + 1
        /\ \A i \in 1..Len(ordered) : ordered'[i] = ordered[i]
        /\ ordered'[Len(ordered) + 1] = n
        /\ Visited' = Visited \cup {n}
    BY <1>1, <1>2, <2>1, AppendProperties, RangeOfAppend DEF Visited
  <2>5. /\ Len(ordered) \in Nat /\ DOMAIN ordered = 1..Len(ordered)
        /\ DOMAIN ordered' = 1..(Len(ordered) + 1)
        /\ Visited = {ordered[i] : i \in 1..Len(ordered)}
    BY <1>1, <2>4, LenProperties, RangeEquality DEF Visited
  <2>6. ASSUME NEW t \in Nodes
        PROVE  /\ IsFiniteSet(Sources(definition, t) \ Visited)
               /\ incoming[t] = Cardinality(Sources(definition, t) \ Visited)
               /\ Sources(definition, t) \ Visited'
                    = (Sources(definition, t) \ Visited) \ {n}
               /\ t \in Targets(definition, n) <=> n \in Sources(definition, t) \ Visited
    <3>1. IsFiniteSet(Sources(definition, t))
      BY <1>1, SourcesAreNodes
    <3>2. IsFiniteSet(Sources(definition, t) \ Visited)
      BY <3>1, FS_Subset
    <3> QED
      BY <1>1, <1>2, <1>5, <2>4, <3>2, SourcesAreNodes DEF IInv, CountsWaiting
  <2>7. CountsWaiting' /\ incoming' \in [Nodes -> Nat]
    <3>1. ASSUME NEW t \in Nodes
          PROVE  /\ incoming'[t] = Cardinality(Sources(definition, t) \ Visited')
                 /\ incoming'[t] \in Nat
      <4> DEFINE waiting == Sources(definition, t) \ Visited
      <4>1. /\ IsFiniteSet(waiting \ {n})
            /\ Cardinality(waiting \ {n}) =
                 IF n \in waiting THEN Cardinality(waiting) - 1 ELSE Cardinality(waiting)
            /\ Cardinality(waiting \ {n}) \in Nat
        BY <2>6, FS_RemoveElement, FS_CardinalityType
      <4>2. incoming'[t] = IF n \in waiting THEN incoming[t] - 1 ELSE incoming[t]
        BY <2>1, <2>6 DEF CountDown
      <4> QED
        BY <2>6, <4>1, <4>2
    <3>2. incoming' \in [Nodes -> Nat]
      <4>1. DOMAIN incoming' = Nodes /\ incoming' = [t \in Nodes |-> incoming'[t]]
        BY <2>1 DEF CountDown
      <4> QED
        BY <3>1, <4>1
    <3> QED
      BY <1>1, <3>1, <3>2 DEF CountsWaiting
  <2>8. TypeOK'
    BY <1>1, <2>3, <2>4, <2>5, <2>7 DEF IInv, TypeOK
  <2>9. Topological'
    <3> SUFFICES ASSUME NEW i \in 1..(Len(ordered) + 1),
                        NEW m \in Sources(definition, ordered'[i])
                 PROVE  \E j \in 1..(i - 1) : ordered'[j] = m
      BY <1>1, <2>5 DEF Topological
    <3>1. CASE i \in 1..Len(ordered)
      <4>1. PICK j \in 1..(i - 1) : ordered[j] = m
        BY <2>4, <2>5, <3>1 DEF IInv, Topological
      <4>2. j \in 1..Len(ordered)
        BY <2>5, <3>1
      <4> QED
        BY <2>4, <4>1, <4>2
    <3>2. CASE i = Len(ordered) + 1
      <4>1. m \in Visited
        BY <1>2, <2>4, <3>2 DEF IInv, QueuedAreFree
      <4>2. PICK j \in 1..Len(ordered) : ordered[j] = m
        BY <2>5, <4>1
      <4> QED
        BY <2>4, <2>5, <3>2, <4>2
    <3> QED
      BY <2>5, <3>1, <3>2
  <2>10. IsInjective(ordered')
    <3>1. \A i \in 1..Len(ordered) : ordered[i] # n
      BY <1>5, <2>5
    <3> QED
      BY <2>4, <2>5, <3>1 DEF IInv, IsInjective
  <2>11. QueuedAreFree'
    <3> SUFFICES ASSUME NEW t \in Range(Tail(queue)) \cup Freed(n)
                 PROVE  Sources(definition, t) \subseteq Visited'
      BY <1>1, <2>3 DEF QueuedAreFree
    <3>1. CASE t \in Range(Tail(queue))
      BY <1>2, <2>4, <3>1 DEF IInv, QueuedAreFree
    <3>2. CASE t \in Freed(n)
      <4>1. /\ t \in Nodes /\ incoming[t] = 1 /\ n \in Sources(definition, t) \ Visited
        BY <1>1, <1>2, <2>6, <3>2, SourcesAreNodes DEF Freed
      <4>2. PICK m : Sources(definition, t) \ Visited = {m}
        BY <2>6, <4>1, FS_Singleton
      <4> QED
        BY <2>4, <4>1, <4>2
    <3> QED
      BY <3>1, <3>2
  <2>12. FreeAreQueued'
    <3> SUFFICES ASSUME NEW t \in Nodes, Sources(definition, t) \subseteq Visited'
                 PROVE  t \in Visited' \cup Range(queue')
      BY <1>1 DEF FreeAreQueued
    <3>1. CASE Sources(definition, t) \subseteq Visited
      BY <1>2, <2>3, <2>4, <3>1 DEF IInv, FreeAreQueued
    <3>2. CASE ~(Sources(definition, t) \subseteq Visited)
      <4>1. Sources(definition, t) \ Visited = {n}
        BY <2>4, <3>2
      <4>2. incoming[t] = 1 /\ t \in Targets(definition, n)
        BY <2>6, <4>1, FS_Singleton
      <4> QED
        BY <2>3, <4>2 DEF Freed
    <3> QED
      BY <3>1, <3>2
  <2>13. NeverUnordered' /\ Executable(definition', Nodes) /\ Ordered' /\ RanHaveOutputs'
    <3>1. \A i \in 1..0 : FALSE
      OBVIOUS
    <3> QED
      BY <1>1, <3>1 DEF IInv, NeverUnordered, Ordered, RanHaveOutputs
  <2> QED
    BY <1>1, <2>7, <2>8, <2>9, <2>10, <2>11, <2>12, <2>13 DEF IInv
<1> QED
  BY <1>4, <1>5

\* The check after the first loop: nothing that is left over waits for nothing that
\* is left over, and an acyclic graph has no such rest but the empty one.
LEMMA FinishOrderingStep ==
  ASSUME IInv, FinishOrdering
  PROVE  IInv'
<1>1. /\ definition \in Definitions /\ ordered \in Seq(Nodes)
      /\ status = "ORDERING" /\ queue = <<>> /\ position = 0
      /\ UNCHANGED <<definition, queue, incoming, ordered, position, currentInput, outputs>>
  BY DEF IInv, TypeOK, FinishOrdering, run
<1>2. Visited = Nodes
  <2>1. Visited \subseteq Nodes
    BY <1>1, RangeOfSeq DEF Visited
  <2>2. ASSUME Nodes \ Visited # {}
        PROVE  FALSE
    <3>1. PICK n \in Nodes \ Visited : Sources(definition, n) \cap (Nodes \ Visited) = {}
      BY <2>2 DEF IInv, Executable, Acyclic
    <3>2. Sources(definition, n) \subseteq Visited
      BY <1>1, <3>1, SourcesAreNodes
    <3>3. Range(queue) = {}
      BY <1>1 DEF Range
    <3> QED
      BY <3>1, <3>2, <3>3 DEF IInv, FreeAreQueued
  <2> QED
    BY <2>1, <2>2
<1>3. Len(ordered) = Cardinality(Nodes)
  BY <1>1, <1>2, LengthOfOrder DEF IInv, Visited
<1>4. status' = "RUNNING"
  BY <1>3 DEF FinishOrdering
<1>5. Visited' = Visited
  BY <1>1 DEF Visited
<1>6. TypeOK' /\ NeverUnordered' /\ Topological' /\ CountsWaiting'
  BY <1>1, <1>4, <1>5 DEF IInv, TypeOK, NeverUnordered, Topological, CountsWaiting
<1>7. /\ Executable(definition', Nodes) /\ IsInjective(ordered') /\ QueuedAreFree'
      /\ FreeAreQueued' /\ RanHaveOutputs'
  BY <1>1, <1>5 DEF IInv, QueuedAreFree, FreeAreQueued, RanHaveOutputs
<1> QED
  BY <1>2, <1>4, <1>5, <1>6, <1>7 DEF IInv, Ordered

\* Steps of the second loop leave the order alone.
LEMMA RunStep ==
  ASSUME IInv, RunNode \/ FinishRun
  PROVE  IInv'
<1>1. /\ UNCHANGED <<definition, queue, incoming, ordered>>
      /\ status = "RUNNING" /\ status' \in {"RUNNING", "FINISHED"}
      /\ ordered \in Seq(Nodes) /\ position \in Nat /\ Len(ordered) \in Nat
  BY LenProperties DEF IInv, TypeOK, RunNode, FinishRun
<1>2. Visited' = Visited
  BY <1>1 DEF Visited
<1>3. /\ NeverUnordered' /\ Topological' /\ CountsWaiting' /\ IsInjective(ordered')
      /\ Executable(definition', Nodes) /\ QueuedAreFree' /\ FreeAreQueued' /\ Ordered'
      /\ status' = "ORDERING" => position' = 0
  BY <1>1, <1>2
  DEF IInv, NeverUnordered, Topological, CountsWaiting, QueuedAreFree, FreeAreQueued, Ordered
<1>4. CASE RunNode
  <2> DEFINE n == ordered[position + 1]
  <2>1. /\ position < Len(ordered) /\ position' = position + 1
        /\ outputs' = [outputs EXCEPT ![n] = Output(n)]
        /\ currentInput' = Output(n) /\ status' = status
    BY <1>4 DEF RunNode
  <2>2. n \in Nodes
    BY <1>1, <2>1, ElementOfSeq
  <2>3. Output(n) \in Origins /\ Output(n) # "NONE"
    BY <2>2, NodesAssumption DEF IInv, TypeOK, Output, Origins
  <2>4. TypeOK'
    BY <1>1, <2>1, <2>2, <2>3 DEF IInv, TypeOK
  <2>5. RanHaveOutputs'
    <3> SUFFICES ASSUME NEW i \in 1..(position + 1)
                 PROVE  outputs'[ordered[i]] # "NONE"
      BY <1>1, <2>1 DEF RanHaveOutputs
    <3>1. ordered[i] \in Nodes
      BY <1>1, <2>1, ElementOfSeq
    <3>2. CASE i = position + 1
      BY <2>1, <2>2, <2>3, <3>2 DEF IInv, TypeOK
    <3>3. CASE i # position + 1
      <4>1. i \in 1..position
        BY <1>1, <3>3
      <4> QED
        BY <2>1, <2>3, <3>1, <4>1 DEF IInv, TypeOK, RanHaveOutputs
    <3> QED
      BY <3>2, <3>3
  <2> QED
    BY <1>3, <2>4, <2>5 DEF IInv
<1>5. CASE FinishRun
  <2>1. TypeOK' /\ RanHaveOutputs'
    BY <1>1, <1>5 DEF FinishRun, run, IInv, TypeOK, RanHaveOutputs
  <2> QED
    BY <1>3, <2>1 DEF IInv
<1> QED
  BY <1>4, <1>5

LEMMA StutterStep ==
  ASSUME IInv, UNCHANGED vars
  PROVE  IInv'
BY DEF vars, IInv, TypeOK, NeverUnordered, Topological, CountsWaiting, QueuedAreFree,
       FreeAreQueued, RanHaveOutputs, Ordered, Visited

LEMMA InvariantHolds == Spec => []IInv
<1>1. IInv /\ [Next]_vars => IInv'
  BY PlaceNodeStep, FinishOrderingStep, RunStep, StutterStep DEF Next
<1> QED
  BY InitIInv, <1>1, PTL DEF Spec

-----------------------------------------------------------------------------
(* The theorems.                                                           *)

\* Every reachable state is well typed; in particular no count of waiting sources
\* falls below zero (index.ts:774).
THEOREM TypeCorrect == Spec => []TypeOK
<1>1. IInv => TypeOK
  BY DEF IInv
<1> QED
  BY <1>1, InvariantHolds, PTL

\* A definition that passes the contract is never refused by the worker for want of
\* an order (index.ts:783).
THEOREM AcceptedIsOrdered == Spec => []NeverUnordered
<1>1. IInv => NeverUnordered
  BY DEF IInv
<1> QED
  BY <1>1, InvariantHolds, PTL

\* A node is placed after everything it depends on (index.ts:771).
THEOREM OrderIsTopological == Spec => []Topological
<1>1. IInv => Topological
  BY DEF IInv
<1> QED
  BY <1>1, InvariantHolds, PTL

\* A count is the number of sources still to be placed (index.ts:774).
THEOREM CountsAreExact == Spec => []CountsWaiting
<1>1. IInv => CountsWaiting
  BY DEF IInv
<1> QED
  BY <1>1, InvariantHolds, PTL

\* A node that runs finds the outputs of all its sources (index.ts:807 and 811).
THEOREM InputsAreAlwaysThere == Spec => []InputsAreThere
<1>1. ASSUME IInv PROVE InputsAreThere
  <2> SUFFICES ASSUME status = "RUNNING", position < Len(ordered),
                      NEW m \in Sources(definition, ordered[position + 1])
               PROVE  outputs[m] # "NONE"
    BY DEF InputsAreThere
  <2>1. /\ position \in Nat /\ Len(ordered) \in Nat /\ DOMAIN ordered = 1..Len(ordered)
    BY <1>1, LenProperties DEF IInv, TypeOK
  <2>2. position + 1 \in DOMAIN ordered
    BY <2>1
  <2>3. PICK j \in 1..((position + 1) - 1) : ordered[j] = m
    BY <1>1, <2>2 DEF IInv, Topological
  <2>4. j \in 1..position
    BY <2>1, <2>3
  <2> QED
    BY <1>1, <2>3, <2>4 DEF IInv, RanHaveOutputs
<1> QED
  BY <1>1, InvariantHolds, PTL


-----------------------------------------------------------------------------
(* Triggers run first.                                                     *)

\* In s, no trigger comes after another node.
Lead(s) ==
  \A i, j \in 1..Len(s) :
    i < j /\ s[j] \in definition.triggers => s[i] \in definition.triggers

\* Nor does one wait while another node is placed.
TriggersFirst ==
  /\ Lead(ordered) /\ Lead(queue)
  /\ \A i \in 1..Len(ordered), j \in 1..Len(queue) :
       queue[j] \in definition.triggers => ordered[i] \in definition.triggers

\* What a trigger is given, as long as only triggers have run.
RequestIsHandedOn ==
  (\A i \in 1..position : ordered[i] \in definition.triggers) => currentInput = "REQUEST"

FirstInv == IInv /\ TriggersFirst /\ RequestIsHandedOn /\ TriggersGetRequest

LEMMA FirstInit == Init => FirstInv
<1>. SUFFICES ASSUME Init PROVE FirstInv
  OBVIOUS
<1>1. IInv
  BY InitIInv
<1>2. /\ ordered = <<>> /\ queue \in Seq(Nodes) /\ Range(queue) = definition.triggers
      /\ currentInput = "REQUEST" /\ outputs = [n \in Nodes |-> "NONE"]
  <2>1. definition.triggers \in SUBSET Nodes /\ queue \in Arrangements(definition.triggers)
    BY DEF Init, Definitions
  <2>. QED
    BY <2>1, ArrangementIsSeq DEF Init
<1>3. \A i \in 1..Len(queue) : queue[i] \in definition.triggers
  BY <1>2, RangeEquality
<1>4. Lead(queue)
  BY <1>3 DEF Lead
<1>5. 1..Len(ordered) = {}
  BY <1>2
<1>6. TriggersFirst
  BY <1>4, <1>5 DEF TriggersFirst, Lead
<1>7. TriggersGetRequest
  BY <1>1, <1>2 DEF TriggersGetRequest, IInv, TypeOK, Definitions
<1>. QED
  BY <1>1, <1>2, <1>6, <1>7 DEF FirstInv, RequestIsHandedOn

\* A node that is freed has a source, so it is no trigger.
LEMMA FreedIsNoTrigger ==
  ASSUME IInv, NEW n \in Nodes, NEW freed \in Arrangements(Freed(n))
  PROVE  /\ freed \in Seq(Nodes)
         /\ \A i \in 1..Len(freed) : freed[i] \notin definition.triggers
<1>1. definition \in Definitions /\ Executable(definition, Nodes)
  BY DEF IInv, TypeOK
<1>2. Freed(n) \subseteq Nodes /\ \A t \in Freed(n) : n \in Sources(definition, t)
  BY <1>1, SourcesAreNodes DEF Freed
<1>3. freed \in Seq(Nodes) /\ Range(freed) = Freed(n)
  BY <1>2, ArrangementIsSeq
<1>4. \A t \in Freed(n) : t \notin definition.triggers
  BY <1>1, <1>2 DEF Executable, TriggersStart
<1>. QED
  BY <1>3, <1>4, RangeEquality

LEMMA PlaceNodeFirst ==
  ASSUME FirstInv, PlaceNode
  PROVE  TriggersFirst'
<1>. DEFINE n == Head(queue)
            rest == Tail(queue)
            T == definition.triggers
<1>1. /\ queue \in Seq(Nodes) /\ ordered \in Seq(Nodes) /\ queue # <<>>
      /\ definition' = definition /\ IInv
  BY DEF FirstInv, IInv, TypeOK, PlaceNode
<1>2. /\ n \in Nodes /\ n = queue[1] /\ rest \in Seq(Nodes) /\ Len(rest) = Len(queue) - 1
      /\ Len(queue) \in Nat /\ 1 <= Len(queue) /\ Len(ordered) \in Nat
      /\ \A i \in 1..Len(rest) : rest[i] = queue[i + 1]
  <2>1. Len(queue) \in Nat /\ Len(queue) # 0
    BY <1>1, LenProperties, EmptySeq
  <2>. QED
    BY <1>1, <2>1, HeadTailProperties, LenProperties
<1>3. \A i \in 1..Len(rest) : i + 1 \in 1..Len(queue) /\ 1 \in 1..Len(queue) /\ 1 < i + 1
  BY <1>2
<1>4. /\ \A i, j \in 1..Len(rest) : i < j /\ rest[j] \in T => rest[i] \in T
      /\ \A j \in 1..Len(rest) : rest[j] \in T => n \in T
      /\ \A i \in 1..Len(ordered), j \in 1..Len(rest) : rest[j] \in T => ordered[i] \in T
      /\ \A i \in 1..Len(ordered) : n \in T => ordered[i] \in T
  <2>1. \A i, j \in 1..Len(rest) : i < j => i + 1 < j + 1
    BY <1>2
  <2>2. 1 \in 1..Len(queue)
    BY <1>2
  <2>. HIDE DEF rest
  <2>. QED
    BY <1>2, <1>3, <2>1, <2>2 DEF FirstInv, TriggersFirst, Lead
<1>5. CASE n \in Visited
  <2>1. queue' = rest /\ ordered' = ordered
    BY <1>5 DEF PlaceNode
  <2>. HIDE DEF rest
  <2>. QED
    BY <1>1, <1>4, <2>1 DEF FirstInv, TriggersFirst, Lead
<1>6. CASE n \notin Visited
  <2>1. PICK freed \in Arrangements(Freed(n)) : ordered' = Append(ordered, n) /\ queue' = rest \o freed
    BY <1>6 DEF PlaceNode
  <2>2. freed \in Seq(Nodes) /\ \A i \in 1..Len(freed) : freed[i] \notin T
    BY <1>1, <1>2, FreedIsNoTrigger
  <2>3. /\ Len(ordered') = Len(ordered) + 1
        /\ \A i \in 1..Len(ordered) : ordered'[i] = ordered[i]
        /\ ordered'[Len(ordered) + 1] = n
    BY <1>1, <1>2, <2>1, AppendProperties
  <2>4. \A j \in 1..Len(queue') : queue'[j] \in T => j \in 1..Len(rest) /\ queue'[j] = rest[j]
    <3>1. /\ Len(queue') = Len(rest) + Len(freed) /\ Len(freed) \in Nat /\ Len(rest) \in Nat
          /\ \A i \in 1..(Len(rest) + Len(freed)) :
               queue'[i] = IF i <= Len(rest) THEN rest[i] ELSE freed[i - Len(rest)]
      BY <1>2, <2>1, <2>2, ConcatProperties, LenProperties
    <3>2. \A i \in 1..(Len(rest) + Len(freed)) :
            IF i <= Len(rest) THEN i \in 1..Len(rest) ELSE i - Len(rest) \in 1..Len(freed)
      BY <3>1
    <3>. HIDE DEF rest
    <3>. QED
      BY <2>2, <3>1, <3>2
  <2>5. \A i \in 1..Len(rest) : i \in 1..Len(queue') /\ queue'[i] = rest[i]
    <3>1. /\ Len(queue') = Len(rest) + Len(freed) /\ Len(freed) \in Nat /\ Len(rest) \in Nat
          /\ \A i \in 1..(Len(rest) + Len(freed)) :
               queue'[i] = IF i <= Len(rest) THEN rest[i] ELSE freed[i - Len(rest)]
      BY <1>2, <2>1, <2>2, ConcatProperties, LenProperties
    <3>. HIDE DEF rest
    <3>. QED
      BY <3>1
  <2>6. \A i, j \in 1..Len(queue') :
          i < j /\ queue'[j] \in T => queue'[i] \in T
    <3>1. ASSUME NEW i \in 1..Len(queue'), NEW j \in 1..Len(rest), i < j
          PROVE  i \in 1..Len(rest)
      BY <1>2, <3>1, <2>1, <2>2, ConcatProperties, LenProperties
    <3>. HIDE DEF rest
    <3>. QED
      BY <1>4, <2>4, <2>5, <3>1
  <2>7. \A i \in 1..Len(ordered') : i \in 1..Len(ordered) \/ i = Len(ordered) + 1
    BY <1>2, <2>3
  <2>8. \A i, j \in 1..Len(ordered') :
          i < j /\ ordered'[j] \in T => ordered'[i] \in T
    <3>1. \A i, j \in 1..Len(ordered') : i < j => i \in 1..Len(ordered)
      BY <1>2, <2>3
    <3>2. \A i, j \in 1..Len(ordered) : i < j /\ ordered[j] \in T => ordered[i] \in T
      BY DEF FirstInv, TriggersFirst, Lead
    <3>. HIDE DEF n, T
    <3>. QED
      BY <1>4, <2>3, <2>7, <3>1, <3>2
  <2>9. \A i \in 1..Len(ordered'), j \in 1..Len(queue') :
          queue'[j] \in T => ordered'[i] \in T
    <3>. HIDE DEF n, T, rest
    <3>. QED
      BY <1>4, <2>3, <2>4, <2>7
  <2>. QED
    BY <1>1, <2>6, <2>8, <2>9 DEF TriggersFirst, Lead
<1>. QED
  BY <1>5, <1>6

LEMMA RunNodeFirst ==
  ASSUME FirstInv, RunNode
  PROVE  RequestIsHandedOn' /\ TriggersGetRequest'
<1>. DEFINE n == ordered[position + 1]
<1>1. /\ position \in Nat /\ Len(ordered) \in Nat /\ position < Len(ordered)
      /\ ordered \in Seq(Nodes) /\ outputs \in [Nodes -> Origins \cup {"NONE"}]
      /\ definition' = definition /\ ordered' = ordered /\ position' = position + 1
      /\ currentInput' = Output(n) /\ outputs' = [outputs EXCEPT ![n] = Output(n)]
      /\ definition.triggers \subseteq Nodes
  BY LenProperties DEF FirstInv, IInv, TypeOK, RunNode, Definitions
<1>2. n \in Nodes
  BY <1>1, ElementOfSeq
<1>3. n \in definition.triggers => Output(n) = "REQUEST"
  <2>1. ASSUME n \in definition.triggers, NEW i \in 1..position
        PROVE  ordered[i] \in definition.triggers
    <3>1. i \in 1..Len(ordered) /\ position + 1 \in 1..Len(ordered) /\ i < position + 1
      BY <1>1
    <3>. QED
      BY <2>1, <3>1 DEF FirstInv, TriggersFirst, Lead
  <2>. QED
    BY <2>1 DEF FirstInv, RequestIsHandedOn, Output
<1>4. TriggersGetRequest'
  <2>. HIDE DEF n
  <2>. QED
    BY <1>1, <1>2, <1>3 DEF FirstInv, TriggersGetRequest
<1>5. RequestIsHandedOn'
  <2>1. position + 1 \in 1..(position + 1)
    BY <1>1
  <2>. QED
    BY <1>1, <1>3, <2>1 DEF RequestIsHandedOn
<1>. QED
  BY <1>4, <1>5

LEMMA FirstStep == FirstInv /\ [Next]_vars => FirstInv'
<1>. SUFFICES ASSUME FirstInv, [Next]_vars PROVE FirstInv'
  OBVIOUS
<1>1. IInv'
  BY PlaceNodeStep, FinishOrderingStep, RunStep, StutterStep DEF FirstInv, Next
<1>2. CASE PlaceNode
  <2>1. UNCHANGED <<definition, position, currentInput, outputs>> /\ position = 0
    BY <1>2 DEF PlaceNode, run, FirstInv, IInv
  <2>2. 1..position = {}
    BY <2>1
  <2>3. currentInput = "REQUEST"
    BY <2>2 DEF FirstInv, RequestIsHandedOn
  <2>4. RequestIsHandedOn' /\ TriggersGetRequest'
    BY <2>1, <2>3 DEF FirstInv, RequestIsHandedOn, TriggersGetRequest
  <2>. QED
    BY <1>1, <1>2, <2>4, PlaceNodeFirst DEF FirstInv
<1>3. CASE RunNode
  <2>1. TriggersFirst'
    BY <1>3 DEF RunNode, FirstInv, TriggersFirst, Lead
  <2>. QED
    BY <1>1, <1>3, <2>1, RunNodeFirst DEF FirstInv
<1>4. CASE FinishOrdering \/ FinishRun \/ UNCHANGED vars
  <2>1. UNCHANGED <<definition, queue, ordered, position, currentInput, outputs>>
    BY <1>4 DEF FinishOrdering, FinishRun, run, vars
  <2>. QED
    BY <1>1, <2>1 DEF FirstInv, TriggersFirst, Lead, RequestIsHandedOn, TriggersGetRequest
<1>. QED
  BY <1>2, <1>3, <1>4 DEF Next

\* Every trigger gets the input of the execution, however many there are: triggers are
\* placed before all other nodes, so the output of the node that ran last is that input
\* when one of them runs (index.ts:604 and 771-806).
THEOREM TriggersAlwaysGetRequest == Spec => []TriggersGetRequest
<1>1. FirstInv => TriggersGetRequest
  BY DEF FirstInv
<1>. QED
  BY <1>1, FirstInit, FirstStep, PTL DEF Spec

-----------------------------------------------------------------------------
(* Every node is placed in one round and run in one.                       *)

Distinct(s) == \A i, j \in 1..Len(s) : s[i] = s[j] => i = j

LEMMA DistinctTail ==
  ASSUME NEW S, NEW s \in Seq(S), s # <<>>, Distinct(s)
  PROVE  Distinct(Tail(s)) /\ Head(s) \notin Range(Tail(s))
<1>1. /\ Tail(s) \in Seq(S) /\ Len(Tail(s)) = Len(s) - 1 /\ Head(s) = s[1]
      /\ \A i \in 1..Len(Tail(s)) : Tail(s)[i] = s[i + 1]
      /\ Len(s) \in Nat \ {0}
  BY HeadTailProperties, EmptySeq, LenProperties
<1>2. DOMAIN Tail(s) = 1..Len(Tail(s))
  BY <1>1, LenProperties
<1>3. \A i \in 1..Len(Tail(s)) : i + 1 \in 1..Len(s) /\ i + 1 # 1
  BY <1>1
<1>4. Distinct(Tail(s))
  BY <1>1, <1>3 DEF Distinct
<1>5. 1 \in 1..Len(s)
  BY <1>1
<1>6. \A i \in 1..Len(Tail(s)) : Tail(s)[i] # Head(s)
  BY <1>1, <1>3, <1>5 DEF Distinct
<1>. QED
  BY <1>2, <1>4, <1>6 DEF Range

LEMMA DistinctConcat ==
  ASSUME NEW S, NEW s \in Seq(S), NEW t \in Seq(S), Distinct(s), Distinct(t),
         Range(s) \cap Range(t) = {}
  PROVE  Distinct(s \o t)
<1>1. /\ Len(s) \in Nat /\ DOMAIN s = 1..Len(s) /\ Len(t) \in Nat /\ DOMAIN t = 1..Len(t)
      /\ Len(s \o t) = Len(s) + Len(t)
  BY LenProperties, ConcatProperties
<1>2. PICK a, b, all : a = Len(s) /\ b = Len(t) /\ all = s \o t
  OBVIOUS
<1>3. \A i \in 1..(a + b) : all[i] = IF i <= a THEN s[i] ELSE t[i - a]
  BY <1>2, ConcatProperties
<1>. SUFFICES ASSUME NEW i \in 1..(a + b), NEW j \in 1..(a + b), all[i] = all[j]
              PROVE  i = j
  BY <1>1, <1>2 DEF Distinct
<1>4. CASE i <= a /\ j <= a
  BY <1>1, <1>2, <1>3, <1>4 DEF Distinct
<1>5. CASE ~(i <= a) /\ ~(j <= a)
  <2>1. i - a \in 1..b /\ j - a \in 1..b /\ t[i - a] = t[j - a]
    BY <1>1, <1>2, <1>3, <1>5
  <2>2. i - a = j - a
    BY <1>2, <2>1 DEF Distinct
  <2>. QED
    BY <1>1, <1>2, <2>2
<1>6. \A k \in 1..a, l \in 1..b : s[k] # t[l]
  BY <1>1, <1>2 DEF Range
<1>7. CASE i <= a /\ ~(j <= a)
  BY <1>1, <1>2, <1>3, <1>6, <1>7
<1>8. CASE ~(i <= a) /\ j <= a
  BY <1>1, <1>2, <1>3, <1>6, <1>8
<1>. QED
  BY <1>4, <1>5, <1>7, <1>8

LEMMA ArrangementIsDistinct ==
  ASSUME NEW S \in SUBSET Nodes, NEW s \in Arrangements(S)
  PROVE  Distinct(s)
<1>1. IsFiniteSet(S) /\ Cardinality(S) \in Nat
  BY NodesAssumption, FS_Subset, FS_CardinalityType
<1>2. PICK n : n = Cardinality(S)
  OBVIOUS
<1>3. s \in [1..n -> S] /\ Range(s) = S
  BY <1>2 DEF Arrangements
<1>4. s \in Surjection(1..n, S)
  BY <1>3 DEF Surjection, Range
<1>5. IsFiniteSet(1..n) /\ Cardinality(1..n) = n
  BY <1>1, <1>2, FS_Interval
<1>6. s \in Injection(1..n, S)
  BY <1>2, <1>4, <1>5, FS_SurjSameCardinalityImpliesInj
<1>7. Len(s) = n
  BY <1>1, <1>2, <1>3, ArrangementIsSeq, LenProperties
<1>. QED
  BY <1>6, <1>7 DEF Injection, IsInjective, Distinct

\* No node is queued twice, or after it was placed.
QueuedOnce == Distinct(queue) /\ Range(queue) \cap Visited = {}

OnceInv == IInv /\ QueuedOnce /\ (status = "FINISHED" => position = Len(ordered))

\* A node is freed when the last of its sources is placed, and only then.
LEMMA PlaceNodeOnce ==
  ASSUME OnceInv, PlaceNode
  PROVE  Len(ordered') = Len(ordered) + 1 /\ QueuedOnce'
<1>. DEFINE n == Head(queue)
<1>1. /\ definition \in Definitions /\ queue \in Seq(Nodes) /\ ordered \in Seq(Nodes)
      /\ queue # <<>> /\ Distinct(queue) /\ Range(queue) \cap Visited = {}
  BY DEF OnceInv, QueuedOnce, IInv, TypeOK, PlaceNode
<1>2. /\ n \in Nodes /\ Tail(queue) \in Seq(Nodes)
      /\ Range(queue) = {n} \cup Range(Tail(queue))
  BY <1>1, RangeOfTail
<1>3. Distinct(Tail(queue)) /\ n \notin Range(Tail(queue))
  BY <1>1, DistinctTail
<1>4. n \notin Visited
  BY <1>1, <1>2
<1>5. PICK freed \in Arrangements(Freed(n)) :
        ordered' = Append(ordered, n) /\ queue' = Tail(queue) \o freed
  BY <1>4 DEF PlaceNode
<1>6. Freed(n) \in SUBSET Nodes
  BY <1>1, <1>2, SourcesAreNodes DEF Freed
<1>7. freed \in Seq(Nodes) /\ Range(freed) = Freed(n) /\ Distinct(freed)
  BY <1>6, ArrangementIsSeq, ArrangementIsDistinct
<1>8. Len(ordered') = Len(ordered) + 1 /\ Visited' = Visited \cup {n}
  BY <1>1, <1>2, <1>5, AppendProperties, RangeOfAppend DEF Visited
<1>9. ASSUME NEW t \in Freed(n)
      PROVE  t \notin Range(queue) /\ t \notin Visited /\ t # n
  <2>1. t \in Nodes /\ n \in Sources(definition, t)
    BY <1>1, <1>2, <1>6, SourcesAreNodes DEF Freed
  <2>2. t \notin Range(queue)
    BY <1>4, <2>1 DEF OnceInv, IInv, QueuedAreFree
  <2>3. t \notin Visited
    <3>. SUFFICES ASSUME t \in Visited PROVE FALSE
      OBVIOUS
    <3>1. PICK i \in DOMAIN ordered : ordered[i] = t
      BY DEF Visited, Range
    <3>2. PICK j \in 1..(i - 1) : ordered[j] = n
      BY <2>1, <3>1 DEF OnceInv, IInv, Topological
    <3>3. j \in DOMAIN ordered
      BY <1>1, <3>1, <3>2, LenProperties
    <3>. QED
      BY <1>4, <3>2, <3>3 DEF Visited, Range
  <2>. QED
    BY <1>1, <1>2, <2>1, <2>2, <2>3, SourcesAreNodes
<1>10. Distinct(queue') /\ Range(queue') = Range(Tail(queue)) \cup Freed(n)
  <2>1. PICK rest : rest = Tail(queue)
    OBVIOUS
  <2>2. Range(rest) \cap Range(freed) = {}
    BY <1>2, <1>7, <1>9, <2>1
  <2>3. Distinct(rest \o freed)
    BY <1>2, <1>3, <1>7, <2>1, <2>2, DistinctConcat
  <2>4. Range(rest \o freed) = Range(rest) \cup Range(freed)
    <3>1. \A s, t \in Seq(Nodes) : Range(s \o t) = Range(s) \cup Range(t)
      BY RangeConcatenation
    <3>. QED
      BY <1>2, <1>7, <2>1, <3>1, Zenon
  <2>. QED
    BY <1>5, <1>7, <2>1, <2>3, <2>4
<1>11. Range(queue') \cap Visited' = {}
  BY <1>1, <1>2, <1>3, <1>8, <1>9, <1>10
<1>. QED
  BY <1>8, <1>10, <1>11 DEF QueuedOnce

\* The rounds of both loops and the two changes of the status.
Progress ==
  Len(ordered) + position
    + IF status = "ORDERING" THEN 0 ELSE IF status = "RUNNING" THEN 1 ELSE 2

LEMMA OnceInit == Init => OnceInv
<1>. SUFFICES ASSUME Init PROVE OnceInv
  OBVIOUS
<1>1. IInv
  BY InitIInv
<1>2. definition.triggers \in SUBSET Nodes /\ queue \in Arrangements(definition.triggers)
  BY DEF Init, Definitions
<1>3. Distinct(queue)
  BY <1>2, ArrangementIsDistinct
<1>4. Visited = {} /\ status = "ORDERING"
  BY DEF Init, Visited, Range
<1>. QED
  BY <1>1, <1>3, <1>4 DEF OnceInv, QueuedOnce

LEMMA OnceStep ==
  ASSUME OnceInv, Next
  PROVE  OnceInv' /\ Progress' = Progress + 1
<1>1. IInv' /\ IInv
  BY PlaceNodeStep, FinishOrderingStep, RunStep DEF OnceInv, Next
<1>2. Len(ordered) \in Nat /\ position \in Nat /\ Len(ordered') \in Nat
  BY <1>1, LenProperties DEF IInv, TypeOK
<1>3. CASE PlaceNode
  <2>1. status = "ORDERING" /\ status' = status /\ position' = position
    BY <1>3 DEF PlaceNode, run
  <2>2. Len(ordered') = Len(ordered) + 1 /\ QueuedOnce'
    BY <1>3, PlaceNodeOnce
  <2>. QED
    BY <1>1, <1>2, <2>1, <2>2 DEF OnceInv, Progress
<1>4. CASE FinishOrdering
  <2>1. /\ status = "ORDERING" /\ status' \in {"RUNNING", "UNORDERED"}
        /\ UNCHANGED <<queue, ordered, position>>
    BY <1>4 DEF FinishOrdering, run
  <2>2. status' = "RUNNING"
    BY <1>1, <2>1 DEF IInv, NeverUnordered
  <2>. QED
    BY <1>1, <1>2, <2>1, <2>2 DEF OnceInv, QueuedOnce, Visited, Progress
<1>5. CASE RunNode
  <2>1. /\ status = "RUNNING" /\ position' = position + 1
        /\ UNCHANGED <<queue, ordered, status>>
    BY <1>5 DEF RunNode
  <2>. QED
    BY <1>1, <1>2, <2>1 DEF OnceInv, QueuedOnce, Visited, Progress
<1>6. CASE FinishRun
  <2>1. /\ status = "RUNNING" /\ status' = "FINISHED" /\ position = Len(ordered)
        /\ UNCHANGED <<queue, ordered, position>>
    BY <1>6 DEF FinishRun, run
  <2>. QED
    BY <1>1, <1>2, <2>1 DEF OnceInv, QueuedOnce, Visited, Progress
<1>. QED
  BY <1>3, <1>4, <1>5, <1>6 DEF Next

LEMMA OnceHolds == Spec => []OnceInv
<1>1. ASSUME OnceInv, UNCHANGED vars PROVE OnceInv'
  BY <1>1, StutterStep DEF OnceInv, QueuedOnce, Visited, vars
<1>2. OnceInv /\ [Next]_vars => OnceInv'
  BY <1>1, OnceStep
<1>. QED
  BY <1>2, OnceInit, PTL DEF Spec

\* A run that ends well has run every node of its definition, each of them once
\* (index.ts:599-691).
THEOREM FinishedRunsAreComplete ==
  Spec => [](status = "FINISHED" => /\ Len(ordered) = Cardinality(Nodes)
                                    /\ \A n \in Nodes : outputs[n] # "NONE")
<1>1. ASSUME OnceInv, status = "FINISHED"
      PROVE  Len(ordered) = Cardinality(Nodes) /\ \A n \in Nodes : outputs[n] # "NONE"
  <2>1. ordered \in Seq(Nodes) /\ Visited = Nodes /\ position = Len(ordered)
    BY <1>1 DEF OnceInv, IInv, TypeOK, Ordered
  <2>2. Len(ordered) = Cardinality(Nodes)
    BY <1>1, <2>1, LengthOfOrder DEF OnceInv, IInv, Visited
  <2>3. ASSUME NEW n \in Nodes PROVE outputs[n] # "NONE"
    <3>1. PICK i \in 1..Len(ordered) : ordered[i] = n
      BY <2>1, LenProperties DEF Visited, Range
    <3>. QED
      BY <1>1, <2>1, <3>1 DEF OnceInv, IInv, RanHaveOutputs
  <2>. QED
    BY <2>2, <2>3
<1>. QED
  BY <1>1, OnceHolds, PTL

\* The loops end, also on a graph with many paths: no round skips a node that was placed
\* before (index.ts:760), so ordering and running take two rounds for each node and no more.
THEOREM RunsAreBounded ==
  Spec => /\ [][Progress' = Progress + 1]_vars
          /\ [](Progress <= 2 * Cardinality(Nodes) + 2)
<1>1. OnceInv /\ [Next]_vars => [Progress' = Progress + 1]_vars
  BY OnceStep
<1>2. ASSUME OnceInv PROVE Progress <= 2 * Cardinality(Nodes) + 2
  <2>1. ordered \in Seq(Nodes) /\ IsInjective(ordered) /\ position \in 0..Len(ordered)
    BY <1>2 DEF OnceInv, IInv, TypeOK
  <2>2. PICK size : size = Len(ordered)
    OBVIOUS
  <2>3. size \in Nat /\ ordered \in [1..size -> Nodes]
    BY <2>1, <2>2, LenProperties
  <2>4. ordered \in Injection(1..size, Nodes)
    BY <2>1, <2>3 DEF Injection, IsInjective
  <2>5. Cardinality(1..size) = size /\ Cardinality(Nodes) \in Nat
    BY <2>3, FS_Interval, NodesAssumption, FS_CardinalityType
  <2>6. size <= Cardinality(Nodes)
    BY <2>4, <2>5, NodesAssumption, FS_Injection
  <2>. QED
    BY <2>1, <2>2, <2>3, <2>5, <2>6 DEF Progress
<1>. QED
  BY <1>1, <1>2, OnceHolds, PTL DEF Spec

=============================================================================
