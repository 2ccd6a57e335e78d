----------------------- MODULE WorkflowContractProofs -----------------------
(***************************************************************************)
(* Theorems about WorkflowContract, for every set of ids and every length  *)
(* of the two arrays: the searches of the contract are exact, whatever is  *)
(* wrong with the draft, and it accepts what can be run and nothing else.  *)
(***************************************************************************)
EXTENDS WorkflowContract, WellFoundedInduction, SequenceTheorems, TLAPS

Nodes == Range(NodeIds)

\* What the two searches look for.
Reachable == ReachableFrom(Graph, Graph.triggers, Ids)
Walkable == ReachableFrom(Graph, Nodes, Ids)

CallType == [node : Ids, rest : Seq(Ids)]

TypeInv ==
  /\ draft \in Drafts
  /\ phase \in {"LISTS", "REACH", "CYCLES", "DONE"}
  /\ queue \in Seq(Ids) /\ roots \in Seq(Ids) /\ stack \in Seq(CallType)
  /\ reached \subseteq Ids /\ visited \subseteq Ids

\* What has been reported when a phase begins.
ReachIssues == ListIssues \cup Issue("unreachable node", ~(Nodes \subseteq Reachable))
AllIssues == ReachIssues \cup Issue("cycle", ~Acyclic(Graph, Walkable))

IssuesInv ==
  issues = CASE phase = "LISTS" -> {}
             [] phase = "REACH" -> ListIssues
             [] phase = "CYCLES" -> ReachIssues
             [] phase = "DONE" -> AllIssues

\* Breadth first: what is not looked at yet is in the queue.
ReachInv ==
  /\ phase = "LISTS" => reached = {}
  /\ phase = "REACH" =>
    /\ reached \cup Range(queue) \subseteq Reachable
    /\ Graph.triggers \subseteq reached \cup Range(queue)
    /\ \A n \in reached : Targets(Graph, n) \subseteq reached \cup Range(queue)

\* The node the call at place i is waiting for.
Inner(i) == IF i = 1 THEN {} ELSE {stack[i - 1].node}

\* The calls of visit: a path of nodes, no node twice, and each call has seen to it that
\* the targets it has left behind are visited, but for the one it is waiting for.
StackInv ==
  /\ \A i, j \in 1..Len(stack) : stack[i].node = stack[j].node => i = j
  /\ \A i \in 1..Len(stack) :
       /\ stack[i].node \in Walkable \ visited
       /\ Inner(i) \cup Range(stack[i].rest) \subseteq Targets(Graph, stack[i].node)
       /\ Targets(Graph, stack[i].node) \subseteq visited \cup Range(stack[i].rest) \cup Inner(i)

\* Depth first: what is visited is closed and has no cycle.
WalkInv ==
  /\ phase \notin {"CYCLES", "DONE"} => stack = <<>> /\ visited = {} /\ roots = <<>>
  /\ visiting = {stack[i].node : i \in 1..Len(stack)}
  /\ StackInv
  /\ visited \subseteq Walkable
  /\ Closed(Graph, visited)
  /\ Acyclic(Graph, visited)
  /\ phase = "CYCLES" =>
       /\ Range(roots) \subseteq Nodes
       /\ Nodes \subseteq visited \cup visiting \cup Range(roots)

CInv == TypeInv /\ IssuesInv /\ ReachInv /\ WalkInv

-----------------------------------------------------------------------------
(* Arrays.                                                                 *)

NatLess == {p \in Nat \X Nat : p[1] < p[2]}

LEMMA LeastNatural ==
  ASSUME NEW T, T \subseteq Nat, T # {}
  PROVE  \E n \in T : \A m \in T : n <= m
<1>1. IsWellFoundedOn(NatLess, Nat)
  <2>1. OpToRel(<, Nat) = NatLess
    BY DEF OpToRel, NatLess
  <2>. QED
    BY <2>1, NatLessThanWellFounded
<1>2. PICK n \in T : \A m \in T : ~(<<m, n>> \in NatLess)
  <2>1. T \in SUBSET Nat /\ T # {}
    OBVIOUS
  <2>. QED
    BY <1>1, <2>1, WFMin
<1>3. \A m \in T : n <= m
  <2>. SUFFICES ASSUME NEW m \in T PROVE n <= m
    OBVIOUS
  <2>1. <<m, n>> \notin NatLess
    BY <1>2
  <2>2. m \in Nat /\ n \in Nat
    OBVIOUS
  <2>3. <<m, n>> \in NatLess <=> m < n
    BY <2>2 DEF NatLess
  <2>. QED
    BY <2>1, <2>2, <2>3
<1>. QED
  BY <1>3

\* The function of the definition of Keep, up to n.
IsKept(f, s, passing, n) ==
  f = [i \in 0..n |->
         IF i = 0 THEN <<>>
         ELSE IF s[i] \in passing THEN Append(f[i - 1], s[i]) ELSE f[i - 1]]

LEMMA KeptExists ==
  ASSUME NEW s, NEW passing, NEW n \in Nat
  PROVE  \E f : IsKept(f, s, passing, n)
<1>. DEFINE T == {m \in Nat : ~\E f : IsKept(f, s, passing, m)}
<1>. SUFFICES ASSUME T # {} PROVE FALSE
  OBVIOUS
<1>0. T \subseteq Nat
  OBVIOUS
<1>1. PICK m \in T : \A k \in T : m <= k
  <2>. HIDE DEF T
  <2>. QED
    BY <1>0, LeastNatural
<1>2. m # 0
  <2>1. IsKept([i \in 0..0 |-> <<>>], s, passing, 0)
    BY DEF IsKept
  <2>. QED
    BY <2>1
<1>3. m \in Nat /\ m - 1 \in Nat /\ ~(m <= m - 1)
  BY <1>2
<1>4. PICK f : IsKept(f, s, passing, m - 1)
  BY <1>3, <1>1
<1>5. PICK last : last = IF s[m] \in passing THEN Append(f[m - 1], s[m]) ELSE f[m - 1]
  OBVIOUS
<1>6. PICK g : g = [i \in 0..m |-> IF i = m THEN last ELSE f[i]]
  OBVIOUS
<1>7. \A i \in 0..m : g[i] = IF i = m THEN last ELSE f[i]
  BY <1>6
<1>8. \A i \in 0..m - 1 : f[i] = IF i = 0 THEN <<>>
                                 ELSE IF s[i] \in passing THEN Append(f[i - 1], s[i]) ELSE f[i - 1]
  BY <1>4 DEF IsKept
<1>9. ASSUME NEW i \in 0..m
      PROVE  g[i] = IF i = 0 THEN <<>>
                    ELSE IF s[i] \in passing THEN Append(g[i - 1], s[i]) ELSE g[i - 1]
  <2>1. CASE i = 0
    BY <2>1, <1>2, <1>3, <1>7, <1>8
  <2>2. CASE i # 0 /\ i # m
    <3>1. i \in 0..m - 1 /\ i - 1 \in 0..m /\ i - 1 # m
      BY <2>2, <1>3
    <3>2. g[i] = f[i] /\ g[i - 1] = f[i - 1]
      BY <3>1, <2>2, <1>7
    <3>. QED
      BY <3>1, <3>2, <2>2, <1>8
  <2>3. CASE i = m
    <3>1. m - 1 \in 0..m /\ m - 1 # m
      BY <1>3
    <3>2. g[m] = last /\ g[m - 1] = f[m - 1]
      BY <3>1, <1>3, <1>7
    <3>. QED
      BY <3>2, <2>3, <1>2, <1>5
  <2>. QED
    BY <2>1, <2>2, <2>3
<1>10. IsKept(g, s, passing, m)
  BY <1>6, <1>9 DEF IsKept
<1>. QED
  BY <1>10

\* What Keep returns.
LEMMA KeepProperties ==
  ASSUME NEW S, NEW s \in Seq(S), NEW passing
  PROVE  /\ Keep(s, passing) \in Seq(S)
         /\ Range(Keep(s, passing)) = Range(s) \cap passing
<1>1. Len(s) \in Nat /\ \A i \in 1..Len(s) : s[i] \in S
  BY ElementOfSeq, LenProperties
<1>2. PICK f : IsKept(f, s, passing, Len(s)) /\ Keep(s, passing) = f[Len(s)]
  <2>1. PICK f : f = CHOOSE g : IsKept(g, s, passing, Len(s))
    OBVIOUS
  <2>2. IsKept(f, s, passing, Len(s))
    BY <1>1, <2>1, KeptExists
  <2>3. Keep(s, passing) = f[Len(s)]
    BY <2>1 DEF Keep, IsKept
  <2>. QED
    BY <2>2, <2>3
<1>3. /\ f[0] = <<>>
      /\ \A i \in 1..Len(s) :
           f[i] = IF s[i] \in passing THEN Append(f[i - 1], s[i]) ELSE f[i - 1]
  <2>1. \A i \in 0..Len(s) :
          f[i] = IF i = 0 THEN <<>>
                 ELSE IF s[i] \in passing THEN Append(f[i - 1], s[i]) ELSE f[i - 1]
    BY <1>2 DEF IsKept
  <2>2. 0 \in 0..Len(s) /\ \A i \in 1..Len(s) : i \in 0..Len(s) /\ i # 0
    BY <1>1
  <2>. QED
    BY <2>1, <2>2
<1>. DEFINE Good(i) == /\ f[i] \in Seq(S)
                       /\ \A x : (\E k \in 1..Len(f[i]) : f[i][k] = x)
                                   <=> x \in passing /\ \E j \in 1..i : s[j] = x
            T == {i \in 0..Len(s) : ~Good(i)}
<1>4. ASSUME T # {} PROVE FALSE
  <2>1. T \subseteq Nat
    BY <1>1
  <2>2. PICK m \in T : \A k \in T : m <= k
    <3>. HIDE DEF T
    <3>. QED
      BY <1>4, <2>1, LeastNatural
  <2>3. Good(0)
    <3>1. Len(<<>>) = 0 /\ 1..0 = {} /\ <<>> \in Seq(S)
      OBVIOUS
    <3>. QED
      BY <1>3, <3>1
  <2>4. m \in 1..Len(s) /\ m - 1 \in 0..Len(s) /\ ~(m <= m - 1)
    <3>1. m \in 0..Len(s) /\ ~Good(m)
      BY <2>2
    <3>2. m # 0
      <4>. HIDE DEF Good
      <4>. QED
        BY <2>3, <3>1
    <3>. QED
      BY <1>1, <3>1, <3>2
  <2>5. Good(m - 1)
    BY <2>2, <2>4
  <2>6. \A j : j \in 1..m <=> j \in 1..(m - 1) \/ j = m
    BY <1>1, <2>4
  <2>7. CASE s[m] \notin passing
    <3>1. f[m] = f[m - 1]
      BY <1>3, <2>4, <2>7
    <3>2. PICK t : t = f[m - 1]
      OBVIOUS
    <3>3. /\ t \in Seq(S)
          /\ \A x : (\E k \in 1..Len(t) : t[k] = x) <=> x \in passing /\ \E j \in 1..(m - 1) : s[j] = x
      BY <2>5, <3>2
    <3>4. \A x : x \in passing =>
            ((\E j \in 1..(m - 1) : s[j] = x) <=> \E j \in 1..m : s[j] = x)
      BY <2>6, <2>7
    <3>5. \A x : (\E k \in 1..Len(t) : t[k] = x) <=> x \in passing /\ \E j \in 1..m : s[j] = x
      BY <3>3, <3>4
    <3>6. f[m] = t
      BY <3>1, <3>2
    <3>7. Good(m)
      BY <3>3, <3>5, <3>6
    <3>. QED
      BY <2>2, <3>7
  <2>8. CASE s[m] \in passing
    <3>1. PICK t : t = f[m - 1]
      OBVIOUS
    <3>2. f[m] = Append(t, s[m]) /\ t \in Seq(S) /\ s[m] \in S
      BY <1>1, <1>3, <2>4, <2>5, <2>8, <3>1
    <3>3. /\ f[m] \in Seq(S) /\ Len(f[m]) = Len(t) + 1 /\ Len(t) \in Nat
          /\ \A k \in 1..Len(t) : f[m][k] = t[k]
          /\ f[m][Len(t) + 1] = s[m]
      BY <3>2, AppendProperties, LenProperties
    <3>4. \A k : k \in 1..(Len(t) + 1) <=> k \in 1..Len(t) \/ k = Len(t) + 1
      BY <3>3
    <3>5. \A x : (\E k \in 1..Len(f[m]) : f[m][k] = x) <=> (\E k \in 1..Len(t) : t[k] = x) \/ x = s[m]
      BY <3>3, <3>4
    <3>6. \A x : (\E k \in 1..Len(t) : t[k] = x) <=> x \in passing /\ \E j \in 1..(m - 1) : s[j] = x
      BY <2>5, <3>1
    <3>7. \A x : (\E k \in 1..Len(f[m]) : f[m][k] = x) <=> x \in passing /\ \E j \in 1..m : s[j] = x
      BY <2>6, <2>8, <3>5, <3>6
    <3>. QED
      BY <2>2, <3>3, <3>7
  <2>. QED
    BY <2>7, <2>8
<1>5. Good(Len(s))
  BY <1>1, <1>4
<1>. HIDE DEF Good
<1>6. /\ Keep(s, passing) \in Seq(S)
      /\ \A x : (\E k \in 1..Len(Keep(s, passing)) : Keep(s, passing)[k] = x)
                  <=> x \in passing /\ \E j \in 1..Len(s) : s[j] = x
  BY <1>2, <1>5 DEF Good
<1>. QED
  BY <1>6, LenProperties DEF Range

LEMMA SeqElements ==
  ASSUME NEW S, NEW s \in Seq(S)
  PROVE  /\ Range(s) \subseteq S
         /\ \A x : x \in Range(s) <=> \E i \in 1..Len(s) : s[i] = x
         /\ \A x : Contains(s, x) <=> x \in Range(s)
         /\ (s = <<>>) <=> (Range(s) = {})
<1>1. DOMAIN s = 1..Len(s) /\ Len(s) \in Nat /\ \A i \in 1..Len(s) : s[i] \in S
  BY LenProperties, ElementOfSeq
<1>2. \A x : x \in Range(s) <=> \E i \in 1..Len(s) : s[i] = x
  BY <1>1 DEF Range
<1>3. Range(s) \subseteq S
  BY <1>1, <1>2
<1>4. \A x : Contains(s, x) <=> x \in Range(s)
  BY <1>2 DEF Contains
<1>5. s = <<>> => Range(s) = {}
  <2>1. Len(<<>>) = 0 /\ 1..0 = {}
    OBVIOUS
  <2>. QED
    BY <1>2, <2>1
<1>6. s # <<>> => s[1] \in Range(s)
  <2>1. s # <<>> => Len(s) # 0
    BY EmptySeq
  <2>. QED
    BY <1>1, <1>2, <2>1
<1>. QED
  BY <1>2, <1>3, <1>4, <1>5, <1>6

\* The sequence with n given elements.
LEMMA SeqOfFunction ==
  ASSUME NEW n \in Nat, NEW T, NEW t \in [1..n -> T]
  PROVE  /\ t \in Seq(T) /\ Len(t) = n
         /\ \A i \in 1..n : t[i] \in Range(t)
         /\ \A x \in Range(t) : \E i \in 1..n : t[i] = x
<1>1. t \in Seq(T)
  BY SeqDef
<1>2. Len(t) = n
  BY <1>1, LenProperties
<1>. QED
  BY <1>1, <1>2 DEF Range

LEMMA Lists ==
  ASSUME draft \in Drafts
  PROVE  /\ draft.nodes \in Seq(DraftNodes) /\ draft.edges \in Seq(Ids \X Ids)
         /\ NodeIds \in Seq(Ids) /\ Nodes \subseteq Ids
         /\ Graph.edges \subseteq Ids \X Ids
         /\ Graph.triggers \subseteq Ids
         /\ \A n : Targets(Graph, n) \subseteq Ids
<1>1. draft.nodes \in SeqOf(DraftNodes, MaxNodes) /\ draft.edges \in SeqOf(Ids \X Ids, MaxEdges)
  BY DEF Drafts
<1>2. \A S, n : SeqOf(S, n) \subseteq Seq(S)
  BY SeqDef DEF SeqOf
<1>3. draft.nodes \in Seq(DraftNodes) /\ draft.edges \in Seq(Ids \X Ids)
  BY <1>1, <1>2
<1>4. DOMAIN draft.nodes = 1..Len(draft.nodes)
      /\ \A i \in 1..Len(draft.nodes) : draft.nodes[i] \in DraftNodes
  BY <1>3, LenProperties, ElementOfSeq
<1>5. \A i \in 1..Len(draft.nodes) : draft.nodes[i].id \in Ids
  BY <1>4 DEF DraftNodes
<1>6. NodeIds \in Seq(Ids)
  <2>1. NodeIds \in [1..Len(draft.nodes) -> Ids] /\ Len(draft.nodes) \in Nat
    BY <1>3, <1>4, <1>5, LenProperties DEF NodeIds
  <2>. QED
    BY <2>1, SeqOfFunction
<1>7. Range(draft.nodes) \subseteq DraftNodes /\ Range(draft.edges) \subseteq Ids \X Ids
  BY <1>3, SeqElements
<1>8. Graph.edges \subseteq Ids \X Ids /\ Graph.triggers \subseteq Ids
  BY <1>7 DEF Graph, DraftNodes
<1>9. \A n : Targets(Graph, n) \subseteq Ids
  BY <1>8 DEF Targets
<1>. QED
  BY <1>3, <1>6, <1>8, <1>9, SeqElements DEF Nodes

\* The trigger ids are those of the nodes that are triggers.
LEMMA TriggerIdsAreTriggers ==
  ASSUME draft \in Drafts
  PROVE  TriggerIds \in Seq(Ids) /\ Range(TriggerIds) = Graph.triggers
<1>. DEFINE nodes == draft.nodes
            first == {i \in 1..Len(nodes) :
                        nodes[i].trigger /\ \A j \in 1..(i - 1) : nodes[j] # nodes[i]}
            places == [i \in 1..Len(nodes) |-> i]
            firsts == Keep(places, first)
<1>1. /\ nodes \in Seq(DraftNodes) /\ DOMAIN nodes = 1..Len(nodes) /\ Len(nodes) \in Nat
      /\ \A i \in 1..Len(nodes) : nodes[i] \in DraftNodes
  BY Lists, LenProperties, ElementOfSeq
<1>2. places \in Seq(1..Len(nodes)) /\ Range(places) = 1..Len(nodes)
  <2>1. PICK p : p = places
    OBVIOUS
  <2>2. p \in [1..Len(nodes) -> 1..Len(nodes)] /\ \A i \in 1..Len(nodes) : p[i] = i
    BY <2>1
  <2>3. /\ p \in Seq(1..Len(nodes))
        /\ \A i \in 1..Len(nodes) : p[i] \in Range(p)
        /\ \A x \in Range(p) : \E i \in 1..Len(nodes) : p[i] = x
    <3>1. p \in Seq(1..Len(nodes))
      BY <1>1, <2>2, SeqDef
    <3>2. DOMAIN p = 1..Len(nodes)
      BY <2>2
    <3>. QED
      BY <3>1, <3>2 DEF Range
  <2>4. Range(p) = 1..Len(nodes)
    <3>1. Range(p) \subseteq 1..Len(nodes)
      BY <2>2, <2>3
    <3>2. 1..Len(nodes) \subseteq Range(p)
      BY <2>2, <2>3
    <3>. QED
      BY <3>1, <3>2
  <2>. QED
    BY <2>1, <2>3, <2>4
<1>3. firsts \in Seq(1..Len(nodes)) /\ Range(firsts) = first
  <2>1. Range(firsts) = Range(places) \cap first /\ firsts \in Seq(1..Len(nodes))
    BY <1>2, KeepProperties
  <2>. QED
    BY <1>2, <2>1
<1>. HIDE DEF firsts
<1>4. TriggerIds = [k \in DOMAIN firsts |-> nodes[firsts[k]].id]
  BY <1>1 DEF TriggerIds, firsts
<1>5. DOMAIN firsts = 1..Len(firsts) /\ \A k \in 1..Len(firsts) : firsts[k] \in 1..Len(nodes)
  BY <1>3, LenProperties, ElementOfSeq
<1>6. \A k \in 1..Len(firsts) : TriggerIds[k] = nodes[firsts[k]].id /\ TriggerIds[k] \in Ids
  BY <1>1, <1>4, <1>5 DEF DraftNodes
<1>7. /\ TriggerIds \in Seq(Ids)
      /\ \A k \in 1..Len(firsts) : TriggerIds[k] \in Range(TriggerIds)
      /\ \A x \in Range(TriggerIds) : \E k \in 1..Len(firsts) : TriggerIds[k] = x
  <2>1. TriggerIds \in [1..Len(firsts) -> Ids] /\ Len(firsts) \in Nat
    BY <1>3, <1>4, <1>5, <1>6, LenProperties
  <2>. QED
    BY <2>1, SeqOfFunction
<1>8. /\ \A x \in Range(TriggerIds) : \E i \in first : nodes[i].id = x
      /\ \A i \in first : nodes[i].id \in Range(TriggerIds)
  <2>1. /\ \A k \in 1..Len(firsts) : firsts[k] \in first
        /\ \A i \in first : \E k \in 1..Len(firsts) : firsts[k] = i
    <3>. HIDE DEF first
    <3>. QED
      BY <1>3, <1>5 DEF Range
  <2>. HIDE DEF nodes, first
  <2>. QED
    BY <1>6, <1>7, <2>1
<1>9. ASSUME NEW i \in 1..Len(nodes), nodes[i].trigger
      PROVE  \E j \in first : nodes[j] = nodes[i]
  <2>. DEFINE T == {j \in 1..Len(nodes) : nodes[j] = nodes[i]}
  <2>1. T \subseteq Nat /\ T # {}
    OBVIOUS
  <2>2. PICK j \in T : \A k \in T : j <= k
    <3>. HIDE DEF T
    <3>. QED
      BY <2>1, LeastNatural
  <2>3. \A k \in 1..(j - 1) : nodes[k] # nodes[j]
    <3>. SUFFICES ASSUME NEW k \in 1..(j - 1), nodes[k] = nodes[j] PROVE FALSE
      OBVIOUS
    <3>1. k \in T /\ ~(j <= k)
      BY <1>1, <2>2
    <3>. QED
      BY <2>2, <3>1
  <2>. QED
    BY <1>9, <2>2, <2>3
<1>10. /\ \A x \in Graph.triggers : \E i \in 1..Len(nodes) : nodes[i].trigger /\ nodes[i].id = x
       /\ \A i \in 1..Len(nodes) : nodes[i].trigger => nodes[i].id \in Graph.triggers
  BY <1>1 DEF Graph, Range
<1>11. Range(TriggerIds) = Graph.triggers
  <2>1. \A i \in first : i \in 1..Len(nodes) /\ nodes[i].trigger
    OBVIOUS
  <2>. HIDE DEF nodes, first
  <2>2. ASSUME NEW x \in Range(TriggerIds) PROVE x \in Graph.triggers
    BY <1>8, <1>10, <2>1
  <2>3. ASSUME NEW x \in Graph.triggers PROVE x \in Range(TriggerIds)
    BY <1>8, <1>9, <1>10
  <2>. QED
    BY <2>2, <2>3
<1>. QED
  BY <1>7, <1>11

\* What outgoingEdges holds for a node.
LEMMA OutgoingIsTargets ==
  ASSUME draft \in Drafts, NEW n \in Ids
  PROVE  Outgoing(n) \in Seq(Ids) /\ Range(Outgoing(n)) = Targets(Graph, n)
<1>. DEFINE edges == draft.edges
            out == Keep(edges, {n} \X Ids)
<1>1. edges \in Seq(Ids \X Ids) /\ Range(edges) \subseteq Ids \X Ids
  BY Lists, SeqElements
<1>2. out \in Seq(Ids \X Ids) /\ Range(out) = Range(edges) \cap ({n} \X Ids)
  BY <1>1, KeepProperties
<1>. HIDE DEF out
<1>3. Outgoing(n) = [i \in DOMAIN out |-> out[i][2]]
  BY DEF Outgoing, out
<1>4. DOMAIN out = 1..Len(out) /\ \A i \in 1..Len(out) : out[i] \in Ids \X Ids
  BY <1>2, LenProperties, ElementOfSeq
<1>5. \A i \in 1..Len(out) : Outgoing(n)[i] = out[i][2] /\ Outgoing(n)[i] \in Ids
  BY <1>3, <1>4
<1>6. /\ Outgoing(n) \in Seq(Ids)
      /\ \A i \in 1..Len(out) : Outgoing(n)[i] \in Range(Outgoing(n))
      /\ \A x \in Range(Outgoing(n)) : \E i \in 1..Len(out) : Outgoing(n)[i] = x
  <2>1. PICK t, size : t = Outgoing(n) /\ size = Len(out)
    OBVIOUS
  <2>2. t \in [1..size -> Ids] /\ size \in Nat
    BY <1>2, <1>3, <1>4, <1>5, <2>1, LenProperties
  <2>3. /\ t \in Seq(Ids)
        /\ \A i \in 1..size : t[i] \in Range(t)
        /\ \A x \in Range(t) : \E i \in 1..size : t[i] = x
    BY <2>2, SeqOfFunction
  <2>. QED
    BY <2>1, <2>3
<1>7. /\ \A i \in 1..Len(out) : out[i] \in Range(out)
      /\ \A e \in Range(out) : \E i \in 1..Len(out) : out[i] = e
  BY <1>4 DEF Range
<1>8. \A x : x \in Range(Outgoing(n)) <=> \E e \in Range(out) : e[2] = x
  <2>1. ASSUME NEW x \in Range(Outgoing(n)) PROVE \E e \in Range(out) : e[2] = x
    <3>1. PICK i \in 1..Len(out) : Outgoing(n)[i] = x
      BY <1>6
    <3>. QED
      BY <1>5, <1>7, <3>1
  <2>2. ASSUME NEW x, NEW e \in Range(out), e[2] = x PROVE x \in Range(Outgoing(n))
    <3>1. PICK i \in 1..Len(out) : out[i] = e
      BY <1>7
    <3>. QED
      BY <1>5, <1>6, <2>2, <3>1
  <2>. QED
    BY <2>1, <2>2
<1>9. \A x : x \in Targets(Graph, n) <=> \E e \in Range(edges) : e[1] = n /\ e[2] = x
  BY DEF Targets, Graph
<1>10. \A e \in Ids \X Ids : e \in {n} \X Ids <=> e[1] = n
  OBVIOUS
<1>11. Range(Outgoing(n)) = Targets(Graph, n)
  BY <1>1, <1>2, <1>8, <1>9, <1>10
<1>. QED
  BY <1>6, <1>11

-----------------------------------------------------------------------------
(* Graphs.                                                                 *)

LEMMA ReachableFacts ==
  ASSUME NEW graph, NEW from, NEW universe, from \subseteq universe,
         \A n \in universe : Targets(graph, n) \subseteq universe
  PROVE  /\ from \subseteq ReachableFrom(graph, from, universe)
         /\ ReachableFrom(graph, from, universe) \subseteq universe
         /\ Closed(graph, ReachableFrom(graph, from, universe))
         /\ \A S \in SUBSET universe :
              from \subseteq S /\ Closed(graph, S) => ReachableFrom(graph, from, universe) \subseteq S
BY DEF ReachableFrom, Closed

\* A node all of whose targets are in an acyclic set can be added to it.
LEMMA AcyclicExtends ==
  ASSUME NEW graph, NEW S, NEW n, Acyclic(graph, S), Closed(graph, S), n \notin S,
         Targets(graph, n) \subseteq S
  PROVE  Acyclic(graph, S \cup {n})
<1>. SUFFICES ASSUME NEW U \in SUBSET (S \cup {n}), U # {}
              PROVE  \E m \in U : Sources(graph, m) \cap U = {}
  BY DEF Acyclic
<1>1. CASE n \notin U
  BY <1>1 DEF Acyclic
<1>2. CASE n \in U
  <2>. SUFFICES ASSUME NEW m \in Sources(graph, n) \cap U PROVE FALSE
    BY <1>2
  <2>1. n \in Targets(graph, m)
    BY DEF Sources, Targets
  <2>. QED
    BY <2>1 DEF Closed
<1>. QED
  BY <1>1, <1>2

LEMMA AcyclicSubset ==
  ASSUME NEW graph, NEW S, NEW U, U \subseteq S, Acyclic(graph, S)
  PROVE  Acyclic(graph, U)
BY DEF Acyclic

LEMMA SourceTarget ==
  ASSUME NEW graph, NEW m, NEW n
  PROVE  /\ m \in Sources(graph, n) <=> n \in Targets(graph, m)
         /\ m \in Sources(graph, n) => \E edge \in graph.edges : edge[1] = m /\ edge[2] = n
BY DEF Sources, Targets

-----------------------------------------------------------------------------
(* Queues and stacks.                                                      *)

LEMMA QueueFacts ==
  ASSUME NEW S, NEW q \in Seq(S), q # <<>>
  PROVE  /\ Head(q) \in S /\ Tail(q) \in Seq(S)
         /\ Range(q) = {Head(q)} \cup Range(Tail(q))
<1>1. /\ Head(q) \in S /\ Tail(q) \in Seq(S) /\ Len(Tail(q)) = Len(q) - 1
      /\ \A i \in 1..Len(Tail(q)) : Tail(q)[i] = q[i + 1]
      /\ Len(q) \in Nat \ {0} /\ Head(q) = q[1]
  BY HeadTailProperties, EmptySeq
<1>2. /\ \A x : x \in Range(q) <=> \E i \in 1..Len(q) : q[i] = x
      /\ \A x : x \in Range(Tail(q)) <=> \E i \in 1..Len(Tail(q)) : Tail(q)[i] = x
  BY <1>1, SeqElements
<1>3. ASSUME NEW x \in Range(q) PROVE x \in {Head(q)} \cup Range(Tail(q))
  <2>1. PICK i \in 1..Len(q) : q[i] = x
    BY <1>2
  <2>2. CASE i = 1
    BY <1>1, <2>1, <2>2
  <2>3. CASE i # 1
    <3>1. i - 1 \in 1..Len(Tail(q)) /\ Tail(q)[i - 1] = x
      BY <1>1, <2>1, <2>3
    <3>. QED
      BY <1>2, <3>1
  <2>. QED
    BY <2>2, <2>3
<1>4. ASSUME NEW x \in {Head(q)} \cup Range(Tail(q)) PROVE x \in Range(q)
  <2>1. CASE x = Head(q)
    BY <1>1, <1>2, <2>1
  <2>2. CASE x \in Range(Tail(q))
    <3>1. PICK i \in 1..Len(Tail(q)) : Tail(q)[i] = x
      BY <1>2, <2>2
    <3>2. i + 1 \in 1..Len(q) /\ q[i + 1] = x
      BY <1>1, <3>1
    <3>. QED
      BY <1>2, <3>2
  <2>. QED
    BY <2>1, <2>2
<1>. QED
  BY <1>1, <1>3, <1>4

LEMMA PushFacts ==
  ASSUME NEW S, NEW s \in Seq(S), NEW c \in S
  PROVE  /\ <<c>> \o s \in Seq(S) /\ Len(<<c>> \o s) = Len(s) + 1
         /\ (<<c>> \o s)[1] = c
         /\ \A i \in 2..(Len(s) + 1) : (<<c>> \o s)[i] = s[i - 1]
<1>1. PICK t : t = <<c>>
  OBVIOUS
<1>2. t \in Seq(S) /\ Len(t) = 1 /\ t[1] = c
  BY <1>1
<1>3. Len(s) \in Nat
  BY LenProperties
<1>4. /\ t \o s \in Seq(S) /\ Len(t \o s) = 1 + Len(s)
      /\ \A i \in 1..(1 + Len(s)) : (t \o s)[i] = IF i <= 1 THEN t[i] ELSE s[i - 1]
  <2>1. /\ t \o s \in Seq(S) /\ Len(t \o s) = Len(t) + Len(s)
        /\ \A i \in 1..(Len(t) + Len(s)) :
             (t \o s)[i] = IF i <= Len(t) THEN t[i] ELSE s[i - Len(t)]
    BY <1>2, ConcatProperties
  <2>. QED
    BY <1>2, <2>1
<1>5. (t \o s)[1] = c /\ \A i \in 2..(Len(s) + 1) : (t \o s)[i] = s[i - 1]
  BY <1>2, <1>3, <1>4
<1>. QED
  BY <1>1, <1>3, <1>4, <1>5

LEMMA CallerFacts ==
  ASSUME NEW s \in Seq(CallType), s # <<>>, s[1].rest # <<>>
  PROVE  LET caller == [s EXCEPT ![1].rest = Tail(@)]
         IN /\ caller \in Seq(CallType) /\ Len(caller) = Len(s)
            /\ caller[1].node = s[1].node /\ caller[1].rest = Tail(s[1].rest)
            /\ \A i \in 2..Len(s) : caller[i] = s[i]
<1>1. Len(s) \in Nat \ {0} /\ s[1] \in CallType
  BY EmptySeq, ElementOfSeq, LenProperties
<1>2. Tail(s[1].rest) \in Seq(Ids)
  BY <1>1, HeadTailProperties DEF CallType
<1>3. PICK e : e = [s[1] EXCEPT !.rest = Tail(@)]
  OBVIOUS
<1>4. e \in CallType /\ e.node = s[1].node /\ e.rest = Tail(s[1].rest)
  <2>1. PICK r : r = Tail(s[1].rest)
    OBVIOUS
  <2>2. e = [s[1] EXCEPT !.rest = r] /\ r \in Seq(Ids)
    BY <1>2, <1>3, <2>1
  <2>. QED
    BY <1>1, <2>1, <2>2 DEF CallType
<1>5. [s EXCEPT ![1].rest = Tail(@)] = [s EXCEPT ![1] = e]
  BY <1>3
<1>6. /\ [s EXCEPT ![1] = e] \in Seq(CallType) /\ Len([s EXCEPT ![1] = e]) = Len(s)
      /\ \A j \in 1..Len(s) : [s EXCEPT ![1] = e][j] = IF j = 1 THEN e ELSE s[j]
  BY <1>1, <1>4, ExceptSeq
<1>7. PICK c : c = [s EXCEPT ![1] = e]
  OBVIOUS
<1>8. /\ c \in Seq(CallType) /\ Len(c) = Len(s)
      /\ c[1].node = s[1].node /\ c[1].rest = Tail(s[1].rest)
      /\ \A i \in 2..Len(s) : c[i] = s[i]
  BY <1>1, <1>4, <1>6, <1>7
<1>9. c = [s EXCEPT ![1].rest = Tail(@)]
  BY <1>5, <1>7
<1>. QED
  BY <1>8, <1>9

-----------------------------------------------------------------------------
(* What does not change while a draft is validated.                        *)

LEMMA SameDraft ==
  ASSUME draft' = draft
  PROVE  /\ Graph' = Graph /\ Nodes' = Nodes
         /\ Reachable' = Reachable /\ Walkable' = Walkable
         /\ ListIssues' = ListIssues /\ ReachIssues' = ReachIssues /\ AllIssues' = AllIssues
<1>1. Graph' = Graph
  BY DEF Graph
<1>2. NodeIds' = NodeIds /\ TriggerIds' = TriggerIds
  BY DEF NodeIds, TriggerIds
<1>3. Nodes' = Nodes
  BY <1>2 DEF Nodes
<1>4. Reachable' = Reachable /\ Walkable' = Walkable
  BY <1>1, <1>3 DEF Reachable, Walkable
<1>5. ListIssues' = ListIssues
  BY <1>2 DEF ListIssues
<1>. QED
  BY <1>1, <1>3, <1>4, <1>5 DEF ReachIssues, AllIssues

LEMMA GraphFacts ==
  ASSUME draft \in Drafts
  PROVE  /\ Graph.triggers \subseteq Reachable /\ Reachable \subseteq Ids
         /\ Closed(Graph, Reachable)
         /\ \A S \in SUBSET Ids :
              Graph.triggers \subseteq S /\ Closed(Graph, S) => Reachable \subseteq S
         /\ Nodes \subseteq Walkable /\ Walkable \subseteq Ids
         /\ Closed(Graph, Walkable)
         /\ \A S \in SUBSET Ids :
              Nodes \subseteq S /\ Closed(Graph, S) => Walkable \subseteq S
<1>1. /\ Graph.triggers \subseteq Ids /\ Nodes \subseteq Ids
      /\ \A n \in Ids : Targets(Graph, n) \subseteq Ids
  BY Lists
<1>2. PICK graph, triggers, nodes : graph = Graph /\ triggers = Graph.triggers /\ nodes = Nodes
  OBVIOUS
<1>3. /\ triggers \subseteq Reachable /\ Reachable \subseteq Ids /\ Closed(graph, Reachable)
      /\ \A S \in SUBSET Ids : triggers \subseteq S /\ Closed(graph, S) => Reachable \subseteq S
  <2>1. Reachable = ReachableFrom(graph, triggers, Ids)
    BY <1>2 DEF Reachable
  <2>. QED
    BY <1>1, <1>2, <2>1, ReachableFacts
<1>4. /\ nodes \subseteq Walkable /\ Walkable \subseteq Ids /\ Closed(graph, Walkable)
      /\ \A S \in SUBSET Ids : nodes \subseteq S /\ Closed(graph, S) => Walkable \subseteq S
  <2>1. Walkable = ReachableFrom(graph, nodes, Ids)
    BY <1>2 DEF Walkable
  <2>. QED
    BY <1>1, <1>2, <2>1, ReachableFacts
<1>. QED
  BY <1>2, <1>3, <1>4

-----------------------------------------------------------------------------
(* The steps.                                                              *)

LEMMA InitCInv == Init => CInv
<1>. SUFFICES ASSUME Init PROVE CInv
  OBVIOUS
<1>1. TypeInv
  BY DEF Init, TypeInv
<1>2. IssuesInv /\ ReachInv
  BY DEF Init, IssuesInv, ReachInv
<1>3. WalkInv
  <2>1. stack = <<>> /\ Len(stack) = 0 /\ 1..Len(stack) = {}
    BY DEF Init
  <2>2. visiting = {stack[i].node : i \in 1..Len(stack)} /\ StackInv
    BY <2>1 DEF Init, StackInv
  <2>. QED
    BY <2>2 DEF Init, WalkInv, Closed, Acyclic
<1>. QED
  BY <1>1, <1>2, <1>3 DEF CInv

LEMMA CheckListsStep == CInv /\ CheckLists => CInv'
<1>. SUFFICES ASSUME CInv, CheckLists PROVE CInv'
  OBVIOUS
<1>. USE DEF CInv
<1>1. /\ phase = "LISTS" /\ phase' = "REACH" /\ queue' = TriggerIds /\ issues' = ListIssues
      /\ UNCHANGED <<draft, reached, roots, stack, visiting, visited>>
  BY DEF CheckLists, walk
<1>2. draft \in Drafts /\ reached = {}
  BY <1>1 DEF TypeInv, ReachInv
<1>3. TypeInv'
  BY <1>1, <1>2, TriggerIdsAreTriggers DEF TypeInv
<1>4. IssuesInv'
  BY <1>1, SameDraft DEF IssuesInv
<1>5. ReachInv'
  <2>1. Range(queue') = Graph.triggers /\ reached' = {} /\ Graph.triggers \subseteq Reachable
    BY <1>1, <1>2, TriggerIdsAreTriggers, GraphFacts
  <2>. QED
    BY <1>1, <2>1, SameDraft DEF ReachInv
<1>6. WalkInv'
  BY <1>1, SameDraft DEF WalkInv, StackInv, Inner, Closed, Acyclic
<1>. QED
  BY <1>3, <1>4, <1>5, <1>6

LEMMA LookStep == CInv /\ Look => CInv'
<1>. SUFFICES ASSUME CInv, Look PROVE CInv'
  OBVIOUS
<1>. USE DEF CInv
<1>1. /\ phase = "REACH" /\ queue # <<>>
      /\ UNCHANGED <<draft, phase, issues, roots, stack, visiting, visited>>
  BY DEF Look, walk
<1>2. /\ draft \in Drafts /\ queue \in Seq(Ids) /\ reached \subseteq Ids
      /\ reached \cup Range(queue) \subseteq Reachable
      /\ Graph.triggers \subseteq reached \cup Range(queue)
      /\ \A n \in reached : Targets(Graph, n) \subseteq reached \cup Range(queue)
  BY <1>1 DEF TypeInv, ReachInv
<1>3. /\ Head(queue) \in Ids /\ Tail(queue) \in Seq(Ids)
      /\ Range(queue) = {Head(queue)} \cup Range(Tail(queue))
  BY <1>1, <1>2, QueueFacts
<1>4. /\ queue' \in Seq(Ids) /\ reached' \subseteq Ids
      /\ reached' \cup Range(queue') \subseteq Reachable
      /\ Graph.triggers \subseteq reached' \cup Range(queue')
      /\ \A n \in reached' : Targets(Graph, n) \subseteq reached' \cup Range(queue')
  <2>1. CASE Head(queue) \in reached
    <3>1. queue' = Tail(queue) /\ reached' = reached
      BY <2>1 DEF Look
    <3>. QED
      BY <1>2, <1>3, <2>1, <3>1
  <2>2. CASE Head(queue) \notin reached
    <3>1. queue' = Tail(queue) \o Outgoing(Head(queue)) /\ reached' = reached \cup {Head(queue)}
      BY <2>2 DEF Look
    <3>2. /\ Outgoing(Head(queue)) \in Seq(Ids)
          /\ Range(Outgoing(Head(queue))) = Targets(Graph, Head(queue))
      BY <1>2, <1>3, OutgoingIsTargets
    <3>3. /\ queue' \in Seq(Ids)
          /\ Range(queue') = Range(Tail(queue)) \cup Targets(Graph, Head(queue))
      <4>1. PICK a, b : a = Tail(queue) /\ b = Outgoing(Head(queue))
        OBVIOUS
      <4>2. a \o b \in Seq(Ids) /\ Range(a \o b) = Range(a) \cup Range(b)
        <5>1. a \in Seq(Ids) /\ b \in Seq(Ids)
          BY <1>3, <3>2, <4>1
        <5>2. a \o b \in Seq(Ids)
          BY <5>1, ConcatProperties
        <5>. QED
          BY <5>1, <5>2, RangeConcatenation
      <4>3. queue' = a \o b
        BY <3>1, <4>1
      <4>4. Range(b) = Targets(Graph, Head(queue))
        BY <3>2, <4>1
      <4>5. Range(a) = Range(Tail(queue))
        BY <4>1
      <4>. QED
        BY <4>2, <4>3, <4>4, <4>5
    <3>4. Targets(Graph, Head(queue)) \subseteq Reachable
      BY <1>2, <1>3, GraphFacts DEF Closed
    <3>. QED
      BY <1>2, <1>3, <3>1, <3>3, <3>4
  <2>. QED
    BY <2>1, <2>2
<1>5. TypeInv' /\ IssuesInv' /\ ReachInv'
  BY <1>1, <1>4, SameDraft DEF TypeInv, IssuesInv, ReachInv
<1>6. WalkInv'
  BY <1>1, SameDraft DEF WalkInv, StackInv, Inner, Closed, Acyclic
<1>. QED
  BY <1>5, <1>6

LEMMA FinishReachabilityStep == CInv /\ FinishReachability => CInv'
<1>. SUFFICES ASSUME CInv, FinishReachability PROVE CInv'
  OBVIOUS
<1>. USE DEF CInv
<1>1. /\ phase = "REACH" /\ queue = <<>> /\ phase' = "CYCLES" /\ roots' = NodeIds
      /\ issues' = issues \cup Issue("unreachable node", ~(Nodes \subseteq reached))
      /\ UNCHANGED <<draft, queue, reached, stack, visiting, visited>>
  BY DEF FinishReachability, search, Nodes
<1>2. draft \in Drafts /\ Range(queue) = {} /\ reached \subseteq Ids
  BY <1>1, SeqElements DEF TypeInv
<1>3. reached = Reachable
  <2>1. reached \subseteq Reachable /\ Graph.triggers \subseteq reached /\ Closed(Graph, reached)
    BY <1>1, <1>2 DEF ReachInv, Closed
  <2>. QED
    BY <1>2, <2>1, GraphFacts
<1>4. TypeInv'
  BY <1>1, <1>2, Lists DEF TypeInv
<1>5. IssuesInv' /\ ReachInv'
  BY <1>1, <1>3, SameDraft DEF IssuesInv, ReachInv, ReachIssues
<1>6. WalkInv'
  <2>1. Range(roots') = Nodes
    BY <1>1 DEF Nodes
  <2>2. visiting' = {stack'[i].node : i \in 1..Len(stack')}
    BY <1>1 DEF WalkInv
  <2>3. visited' \subseteq Walkable' /\ Closed(Graph, visited)' /\ Acyclic(Graph, visited)'
    BY <1>1, SameDraft DEF WalkInv, Closed, Acyclic
  <2>4. StackInv'
    BY <1>1, SameDraft DEF WalkInv, StackInv, Inner
  <2>. QED
    BY <1>1, <2>1, <2>2, <2>3, <2>4, SameDraft DEF WalkInv
<1>. QED
  BY <1>4, <1>5, <1>6

\* What the last loop is about, when no call is left.
LEMMA VisitRootStep == CInv /\ VisitRoot => CInv'
<1>. SUFFICES ASSUME CInv, VisitRoot PROVE CInv'
  OBVIOUS
<1>. USE DEF CInv
<1>1. /\ phase = "CYCLES" /\ stack = <<>> /\ roots # <<>> /\ roots' = Tail(roots)
      /\ UNCHANGED <<draft, phase, issues, queue, reached, visited>>
  BY DEF VisitRoot, search
<1>2. /\ draft \in Drafts /\ roots \in Seq(Ids) /\ Range(roots) \subseteq Nodes
      /\ Nodes \subseteq visited \cup visiting \cup Range(roots)
  BY <1>1 DEF TypeInv, WalkInv
<1>3. /\ Head(roots) \in Ids /\ Tail(roots) \in Seq(Ids)
      /\ Range(roots) = {Head(roots)} \cup Range(Tail(roots))
  BY <1>1, <1>2, QueueFacts
<1>4. visiting = {}
  BY <1>1 DEF WalkInv
<1>5. IssuesInv' /\ ReachInv'
  BY <1>1, SameDraft DEF IssuesInv, ReachInv
<1>6. CASE Head(roots) \in visited
  <2>1. UNCHANGED <<stack, visiting>>
    BY <1>6 DEF VisitRoot
  <2>2. TypeInv'
    BY <1>1, <1>3, <2>1 DEF TypeInv
  <2>3. WalkInv'
    <3>1. Range(roots') \subseteq Nodes /\ Nodes \subseteq visited \cup visiting \cup Range(roots')
      BY <1>1, <1>2, <1>3, <1>6
    <3>. QED
      BY <1>1, <2>1, <3>1, SameDraft DEF WalkInv, StackInv, Inner, Closed, Acyclic
  <2>. QED
    BY <1>5, <2>2, <2>3
<1>7. CASE Head(roots) \notin visited
  <2>. DEFINE n == Head(roots)
  <2>1. stack' = <<Call(n)>> /\ visiting' = {n}
    BY <1>4, <1>7 DEF VisitRoot
  <2>2. Outgoing(n) \in Seq(Ids) /\ Range(Outgoing(n)) = Targets(Graph, n)
    BY <1>2, <1>3, OutgoingIsTargets
  <2>3. Call(n) \in CallType /\ Call(n).node = n /\ Call(n).rest = Outgoing(n)
    BY <1>3, <2>2 DEF Call, CallType
  <2>4. stack' \in Seq(CallType) /\ Len(stack') = 1 /\ stack'[1] = Call(n)
    BY <2>1, <2>3
  <2>5. TypeInv'
    BY <1>1, <1>3, <2>4 DEF TypeInv
  <2>6. n \in Walkable
    BY <1>2, <1>3, GraphFacts
  <2>. HIDE DEF n
  <2>7. \A i : i \in 1..Len(stack') <=> i = 1
    BY <2>4
  <2>8. StackInv'
    BY <1>1, <1>7, <2>2, <2>3, <2>4, <2>6, <2>7, SameDraft DEF StackInv, Inner, n
  <2>9. visiting' = {stack'[i].node : i \in 1..Len(stack')}
    BY <2>1, <2>3, <2>4, <2>7
  <2>10. Range(roots') \subseteq Nodes /\ Nodes \subseteq visited \cup visiting' \cup Range(roots')
    BY <1>1, <1>2, <1>3, <1>4, <2>1 DEF n
  <2>11. WalkInv'
    BY <1>1, <2>8, <2>9, <2>10, SameDraft DEF WalkInv, Closed, Acyclic
  <2>. QED
    BY <1>5, <2>5, <2>11
<1>. QED
  BY <1>6, <1>7

\* The target is one of the calls: a cycle.  Every node from there to the innermost call
\* has the next one, or the innermost call, as a source.
LEMMA CycleFound ==
  ASSUME CInv, NEW k \in 1..Len(stack), stack[k].node \in Targets(Graph, stack[1].node)
  PROVE  ~Acyclic(Graph, Walkable)
<1>. DEFINE node(i) == stack[i].node
            S == {node(i) : i \in 1..k}
<1>1. Len(stack) \in Nat
  BY LenProperties DEF CInv, TypeInv
<1>2. /\ \A i \in 1..Len(stack) : node(i) \in Walkable
      /\ \A i \in 1..Len(stack) : i # 1 => node(i - 1) \in Targets(Graph, node(i))
  BY DEF CInv, WalkInv, StackInv, Inner
<1>3. S \in SUBSET Walkable /\ S # {}
  BY <1>1, <1>2
<1>4. ASSUME NEW n \in S PROVE Sources(Graph, n) \cap S # {}
  <2>1. PICK i \in 1..k : n = node(i)
    OBVIOUS
  <2>2. CASE i = k
    <3>1. node(1) \in Sources(Graph, n) /\ node(1) \in S
      BY <1>1, <2>1, <2>2, SourceTarget
    <3>. QED
      BY <3>1
  <2>3. CASE i # k
    <3>1. i + 1 \in 1..k /\ i + 1 # 1 /\ (i + 1) - 1 = i /\ i + 1 \in 1..Len(stack)
      BY <1>1, <2>3
    <3>2. node(i) \in Targets(Graph, node(i + 1)) /\ node(i + 1) \in S
      BY <1>2, <3>1
    <3>. HIDE DEF node
    <3>3. node(i + 1) \in Sources(Graph, n)
      BY <2>1, <3>2, SourceTarget
    <3>. QED
      BY <3>2, <3>3
  <2>. QED
    BY <2>2, <2>3
<1>. QED
  BY <1>3, <1>4 DEF Acyclic

LEMMA VisitTargetStep == CInv /\ VisitTarget => CInv'
<1>. SUFFICES ASSUME CInv, VisitTarget PROVE CInv'
  OBVIOUS
<1>. USE DEF CInv
<1>. DEFINE target == Head(stack[1].rest)
            caller == [stack EXCEPT ![1].rest = Tail(@)]
            node == stack[1].node
<1>1. /\ phase = "CYCLES" /\ stack # <<>> /\ stack[1].rest # <<>>
      /\ UNCHANGED <<draft, queue, reached>>
  BY DEF VisitTarget, search
<1>2. /\ draft \in Drafts /\ stack \in Seq(CallType) /\ Len(stack) \in Nat \ {0}
      /\ stack[1] \in CallType
  BY <1>1, EmptySeq, ElementOfSeq, LenProperties DEF TypeInv
<1>3. /\ target \in Ids /\ Tail(stack[1].rest) \in Seq(Ids)
      /\ Range(stack[1].rest) = {target} \cup Range(Tail(stack[1].rest))
  BY <1>1, <1>2, QueueFacts DEF CallType
<1>4. /\ node \in Walkable \ visited
      /\ Range(stack[1].rest) \subseteq Targets(Graph, node)
      /\ Targets(Graph, node) \subseteq visited \cup Range(stack[1].rest)
  BY <1>2 DEF WalkInv, StackInv, Inner
<1>5. target \in Targets(Graph, node) /\ target \in Walkable
  BY <1>2, <1>3, <1>4, GraphFacts DEF Closed
<1>6. visiting = {stack[i].node : i \in 1..Len(stack)}
  BY DEF WalkInv
<1>7. /\ caller \in Seq(CallType) /\ Len(caller) = Len(stack)
      /\ caller[1].node = node /\ caller[1].rest = Tail(stack[1].rest)
      /\ \A i \in 2..Len(stack) : caller[i] = stack[i]
  BY <1>1, <1>2, CallerFacts
<1>. HIDE DEF target, caller, node
<1>8. CASE target \in visiting /\ ReportCycle
  <2>1. phase' = "DONE" /\ issues' = issues \cup {"cycle"} /\ UNCHANGED <<roots, stack, visiting, visited>>
    BY <1>8 DEF ReportCycle, walk
  <2>2. ~Acyclic(Graph, Walkable)
    <3>1. PICK k \in 1..Len(stack) : stack[k].node = target
      BY <1>6, <1>8
    <3>. QED
      BY <1>5, <3>1, CycleFound DEF node
  <2>3. TypeInv' /\ IssuesInv' /\ ReachInv'
    BY <1>1, <2>1, <2>2, SameDraft DEF TypeInv, IssuesInv, ReachInv, AllIssues, Issue
  <2>4. visiting' = {stack'[i].node : i \in 1..Len(stack')}
    BY <2>1 DEF WalkInv
  <2>5. visited' \subseteq Walkable' /\ Closed(Graph, visited)' /\ Acyclic(Graph, visited)'
    BY <1>1, <2>1, SameDraft DEF WalkInv, Closed, Acyclic
  <2>6. StackInv'
    BY <1>1, <2>1, SameDraft DEF WalkInv, StackInv, Inner
  <2>7. WalkInv'
    BY <2>1, <2>4, <2>5, <2>6 DEF WalkInv
  <2>. QED
    BY <2>3, <2>7
<1>9. ASSUME target \notin visiting, UNCHANGED <<phase, issues, roots, visited>>,
             stack' \in Seq(CallType), StackInv',
             visiting' = {stack'[i].node : i \in 1..Len(stack')}, visiting \subseteq visiting'
      PROVE  CInv'
  <2>1. TypeInv' /\ IssuesInv' /\ ReachInv'
    BY <1>1, <1>9, SameDraft DEF TypeInv, IssuesInv, ReachInv
  <2>2. visited' \subseteq Walkable' /\ Closed(Graph, visited)' /\ Acyclic(Graph, visited)'
    BY <1>1, <1>9, SameDraft DEF WalkInv, Closed, Acyclic
  <2>3. Range(roots') \subseteq Nodes' /\ Nodes' \subseteq visited' \cup visiting' \cup Range(roots')
    BY <1>1, <1>9, SameDraft DEF WalkInv
  <2>4. WalkInv'
    BY <1>1, <1>9, <2>2, <2>3 DEF WalkInv
  <2>. QED
    BY <2>1, <2>4
<1>10. CASE target \notin visiting /\ target \in visited
  <2>1. stack' = caller /\ UNCHANGED <<phase, issues, roots, visiting, visited>>
    BY <1>10 DEF VisitTarget, target, caller
  <2>2. /\ stack' \in Seq(CallType) /\ Len(stack') = Len(stack)
        /\ \A i \in 1..Len(stack) : stack'[i].node = stack[i].node
        /\ stack'[1].rest = Tail(stack[1].rest)
        /\ \A i \in 2..Len(stack) : stack'[i].rest = stack[i].rest
    <3>1. stack' \in Seq(CallType) /\ Len(stack') = Len(stack)
      BY <1>7, <2>1
    <3>2. stack'[1].node = stack[1].node /\ stack'[1].rest = Tail(stack[1].rest)
      BY <1>7, <2>1 DEF node
    <3>3. \A i \in 2..Len(stack) : stack'[i] = stack[i]
      BY <1>7, <2>1
    <3>4. \A i \in 1..Len(stack) : i = 1 \/ i \in 2..Len(stack)
      BY <1>2
    <3>. QED
      BY <3>1, <3>2, <3>3, <3>4
  <2>3. visiting' = {stack'[i].node : i \in 1..Len(stack')}
    BY <1>6, <2>1, <2>2
  <2>4. \A i \in 1..Len(stack) : Inner(i)' = Inner(i)
    <3>. SUFFICES ASSUME NEW i \in 1..Len(stack) PROVE Inner(i)' = Inner(i)
      OBVIOUS
    <3>1. i = 1 \/ i - 1 \in 1..Len(stack)
      BY <1>2
    <3>. QED
      BY <2>2, <3>1 DEF Inner
  <2>5. StackInv'
    <3>1. ASSUME NEW i \in 1..Len(stack)
          PROVE  /\ stack'[i].node \in Walkable \ visited
                 /\ Inner(i) \cup Range(stack'[i].rest) \subseteq Targets(Graph, stack'[i].node)
                 /\ Targets(Graph, stack'[i].node) \subseteq visited \cup Range(stack'[i].rest) \cup Inner(i)
      <4>1. /\ stack[i].node \in Walkable \ visited
            /\ Inner(i) \cup Range(stack[i].rest) \subseteq Targets(Graph, stack[i].node)
            /\ Targets(Graph, stack[i].node) \subseteq visited \cup Range(stack[i].rest) \cup Inner(i)
        BY DEF WalkInv, StackInv
      <4>2. CASE i = 1
        BY <1>3, <1>10, <2>2, <4>1, <4>2
      <4>3. CASE i # 1
        BY <1>2, <2>2, <4>1, <4>3
      <4>. QED
        BY <4>2, <4>3
    <3>2. \A i, j \in 1..Len(stack) : stack'[i].node = stack'[j].node => i = j
      BY <2>2 DEF WalkInv, StackInv
    <3>. QED
      BY <1>1, <2>1, <2>2, <2>4, <3>1, <3>2, SameDraft DEF StackInv
  <2>. QED
    BY <1>9, <1>10, <2>1, <2>2, <2>3, <2>5
<1>11. CASE target \notin visiting /\ target \notin visited
  <2>1. /\ stack' = <<Call(target)>> \o caller /\ visiting' = visiting \cup {target}
        /\ UNCHANGED <<phase, issues, roots, visited>>
    BY <1>11 DEF VisitTarget, target, caller
  <2>2. Outgoing(target) \in Seq(Ids) /\ Range(Outgoing(target)) = Targets(Graph, target)
    BY <1>2, <1>3, OutgoingIsTargets
  <2>3. Call(target) \in CallType /\ Call(target).node = target /\ Call(target).rest = Outgoing(target)
    BY <1>3, <2>2 DEF Call, CallType
  <2>. DEFINE size == Len(stack)
  <2>4. /\ stack' \in Seq(CallType) /\ Len(stack') = size + 1 /\ stack'[1] = Call(target)
        /\ \A i \in 2..(size + 1) : stack'[i] = caller[i - 1]
    BY <1>7, <2>1, <2>3, PushFacts
  <2>5. /\ stack'[1].node = target /\ stack'[1].rest = Outgoing(target)
        /\ stack'[2].node = node /\ stack'[2].rest = Tail(stack[1].rest)
        /\ \A i \in 3..(size + 1) : stack'[i] = stack[i - 1]
    <3>1. stack'[1].node = target /\ stack'[1].rest = Outgoing(target)
      BY <2>3, <2>4
    <3>2. 2 \in 2..(size + 1) /\ 2 - 1 = 1
      BY <1>2
    <3>3. stack'[2] = caller[1]
      BY <2>4, <3>2
    <3>4. stack'[2].node = node /\ stack'[2].rest = Tail(stack[1].rest)
      BY <1>7, <3>3
    <3>5. ASSUME NEW i \in 3..(size + 1) PROVE stack'[i] = stack[i - 1]
      <4>1. i \in 2..(size + 1) /\ i - 1 \in 2..size
        BY <1>2
      <4>. QED
        BY <1>7, <2>4, <4>1
    <3>. QED
      BY <3>1, <3>4, <3>5
  <2>6. \A i \in 1..size + 1 : i = 1 \/ i = 2 \/ i \in 3..(size + 1)
    BY <1>2
  <2>7. \A i \in 2..size + 1 : i - 1 \in 1..size /\ stack'[i].node = stack[i - 1].node
    BY <1>2, <2>5, <2>6 DEF node
  <2>8. \A i \in 1..size : stack[i].node \in visiting
    BY <1>6
  <2>9. visiting' = {stack'[i].node : i \in 1..Len(stack')}
    <3>1. ASSUME NEW x \in visiting' PROVE \E i \in 1..Len(stack') : x = stack'[i].node
      <4>1. CASE x = target
        BY <1>2, <2>4, <2>5, <4>1
      <4>2. CASE x \in visiting
        <5>1. PICK i \in 1..size : x = stack[i].node
          BY <1>6, <4>2
        <5>2. i + 1 \in 2..size + 1 /\ (i + 1) - 1 = i /\ i + 1 \in 1..Len(stack')
          BY <1>2, <2>4
        <5>. QED
          BY <2>7, <5>1, <5>2
      <4>. QED
        BY <2>1, <4>1, <4>2
    <3>2. ASSUME NEW i \in 1..Len(stack') PROVE stack'[i].node \in visiting'
      <4>1. i = 1 \/ i \in 2..size + 1
        BY <1>2, <2>4
      <4>. QED
        BY <2>1, <2>5, <2>7, <2>8, <4>1
    <3>. QED
      BY <3>1, <3>2
  <2>10. /\ Inner(1)' = {} /\ Inner(2)' = {target}
         /\ \A i \in 3..size + 1 : Inner(i)' = Inner(i - 1)
    <3>1. ASSUME NEW i \in 3..size + 1 PROVE Inner(i)' = Inner(i - 1)
      <4>1. i # 1 /\ i - 1 # 1 /\ i - 1 \in 2..size + 1
        BY <1>2
      <4>. QED
        BY <2>7, <4>1 DEF Inner
    <3>2. Inner(1)' = {}
      BY DEF Inner
    <3>3. Inner(2)' = {target}
      BY <2>5 DEF Inner
    <3>. QED
      BY <3>1, <3>2, <3>3
  <2>11. ASSUME NEW i \in 1..size + 1
         PROVE  /\ stack'[i].node \in Walkable \ visited
                /\ Inner(i)' \cup Range(stack'[i].rest) \subseteq Targets(Graph, stack'[i].node)
                /\ Targets(Graph, stack'[i].node) \subseteq visited \cup Range(stack'[i].rest) \cup Inner(i)'
    <3>1. CASE i = 1
      BY <1>5, <1>11, <2>2, <2>5, <2>10, <3>1
    <3>2. CASE i = 2
      BY <1>3, <1>4, <1>5, <2>5, <2>10, <3>2
    <3>3. CASE i \in 3..size + 1
      <4>1. i - 1 \in 1..size
        BY <2>7, <3>3
      <4>2. /\ stack[i - 1].node \in Walkable \ visited
            /\ Inner(i - 1) \cup Range(stack[i - 1].rest) \subseteq Targets(Graph, stack[i - 1].node)
            /\ Targets(Graph, stack[i - 1].node)
                 \subseteq visited \cup Range(stack[i - 1].rest) \cup Inner(i - 1)
        BY <4>1 DEF WalkInv, StackInv
      <4>. QED
        BY <2>5, <2>10, <3>3, <4>2
    <3>. QED
      BY <2>6, <3>1, <3>2, <3>3
  <2>12. ASSUME NEW i \in 1..size + 1, NEW j \in 1..size + 1, stack'[i].node = stack'[j].node
         PROVE  i = j
    <3>1. \A k \in 1..size + 1 : k = 1 \/ k \in 2..size + 1
      BY <1>2
    <3>2. \A k \in 2..size + 1 : stack'[k].node # target
      BY <1>11, <2>7, <2>8
    <3>3. CASE i = 1 \/ j = 1
      BY <2>5, <2>12, <3>1, <3>2, <3>3
    <3>4. CASE i \in 2..size + 1 /\ j \in 2..size + 1
      <4>1. /\ i - 1 \in 1..size /\ j - 1 \in 1..size
            /\ stack[i - 1].node = stack[j - 1].node
        BY <2>7, <2>12, <3>4
      <4>2. i - 1 = j - 1
        BY <4>1 DEF WalkInv, StackInv
      <4>. QED
        BY <1>2, <3>4, <4>2
    <3>. QED
      BY <3>1, <3>3, <3>4
  <2>13. StackInv'
    BY <1>1, <2>1, <2>4, <2>11, <2>12, SameDraft DEF StackInv
  <2>. QED
    BY <1>9, <1>11, <2>1, <2>4, <2>9, <2>13
<1>. QED
  BY <1>8, <1>10, <1>11 DEF VisitTarget, target

LEMMA LeaveStep == CInv /\ Leave => CInv'
<1>. SUFFICES ASSUME CInv, Leave PROVE CInv'
  OBVIOUS
<1>. USE DEF CInv
<1>. DEFINE node == stack[1].node
            size == Len(stack)
<1>1. /\ phase = "CYCLES" /\ stack # <<>> /\ stack[1].rest = <<>>
      /\ visiting' = visiting \ {node} /\ visited' = visited \cup {node} /\ stack' = Tail(stack)
      /\ UNCHANGED <<draft, phase, issues, queue, reached, roots>>
  BY DEF Leave, search
<1>2. /\ draft \in Drafts /\ stack \in Seq(CallType) /\ size \in Nat \ {0}
  BY <1>1, EmptySeq, LenProperties DEF TypeInv
<1>3. /\ stack' \in Seq(CallType) /\ Len(stack') = size - 1
      /\ \A i \in 1..(size - 1) : stack'[i] = stack[i + 1]
  BY <1>1, <1>2, HeadTailProperties
<1>4. visiting = {stack[i].node : i \in 1..size}
  BY DEF WalkInv
<1>5. ASSUME NEW i \in 1..size
      PROVE  /\ stack[i].node \in Walkable \ visited
             /\ Inner(i) \cup Range(stack[i].rest) \subseteq Targets(Graph, stack[i].node)
             /\ Targets(Graph, stack[i].node) \subseteq visited \cup Range(stack[i].rest) \cup Inner(i)
             /\ \A j \in 1..size : stack[i].node = stack[j].node => i = j
  BY DEF WalkInv, StackInv
<1>6. node \in Walkable \ visited /\ Targets(Graph, node) \subseteq visited
  <2>1. 1 \in 1..size
    BY <1>2
  <2>2. Inner(1) = {} /\ Range(stack[1].rest) = {}
    <3>1. DOMAIN <<>> = {}
      OBVIOUS
    <3>. QED
      BY <1>1, <3>1 DEF Inner, Range
  <2>. QED
    BY <1>5, <2>1, <2>2
<1>. HIDE DEF node, size
<1>7. Closed(Graph, visited) /\ Acyclic(Graph, visited) /\ visited \subseteq Walkable
  BY DEF WalkInv
<1>8. visited' \subseteq Walkable' /\ Closed(Graph, visited)' /\ Acyclic(Graph, visited)'
  <2>1. Acyclic(Graph, visited \cup {node})
    BY <1>6, <1>7, AcyclicExtends
  <2>2. Closed(Graph, visited \cup {node})
    BY <1>6, <1>7 DEF Closed
  <2>3. Graph' = Graph /\ Walkable' = Walkable
    BY <1>1, SameDraft
  <2>. QED
    BY <1>1, <1>6, <1>7, <2>1, <2>2, <2>3
<1>9. \A i \in 1..(size - 1) : /\ i + 1 \in 2..size /\ i + 1 \in 1..size /\ i + 1 # 1
                               /\ stack'[i] = stack[i + 1] /\ stack[i + 1].node # node
  <2>. SUFFICES ASSUME NEW i \in 1..(size - 1)
                PROVE  /\ i + 1 \in 2..size /\ i + 1 \in 1..size /\ i + 1 # 1
                       /\ stack'[i] = stack[i + 1] /\ stack[i + 1].node # node
    OBVIOUS
  <2>1. i + 1 \in 2..size /\ i + 1 \in 1..size /\ i + 1 # 1 /\ 1 \in 1..size
    BY <1>2
  <2>2. stack[i + 1].node # node
    BY <1>5, <2>1 DEF node
  <2>. QED
    BY <1>3, <2>1, <2>2
<1>10. visiting' = {stack'[i].node : i \in 1..Len(stack')}
  <2>1. ASSUME NEW x \in visiting' PROVE \E i \in 1..Len(stack') : x = stack'[i].node
    <3>1. PICK i \in 1..size : x = stack[i].node
      BY <1>1, <1>4, <2>1
    <3>2. i # 1
      BY <1>1, <2>1, <3>1 DEF node
    <3>3. i - 1 \in 1..(size - 1) /\ (i - 1) + 1 = i
      BY <1>2, <3>2
    <3>. QED
      BY <1>3, <3>1, <3>3
  <2>2. ASSUME NEW i \in 1..Len(stack') PROVE stack'[i].node \in visiting'
    <3>1. i \in 1..(size - 1)
      BY <1>3
    <3>2. stack[i + 1].node \in visiting
      BY <1>4, <1>9, <3>1
    <3>. QED
      BY <1>1, <1>9, <3>1, <3>2
  <2>. QED
    BY <2>1, <2>2
<1>11. ASSUME NEW i \in 1..(size - 1) PROVE Inner(i + 1) \subseteq Inner(i)' \cup {node}
  <2>1. CASE i = 1
    BY <2>1 DEF Inner, node
  <2>2. CASE i # 1
    <3>1. i - 1 \in 1..(size - 1) /\ (i - 1) + 1 = i /\ (i + 1) - 1 = i /\ i + 1 # 1
      BY <1>2, <2>2
    <3>2. stack'[i - 1] = stack[i]
      BY <1>3, <3>1
    <3>. QED
      BY <2>2, <3>1, <3>2 DEF Inner
  <2>. QED
    BY <2>1, <2>2
<1>12. ASSUME NEW i \in 1..(size - 1) PROVE Inner(i)' \subseteq Inner(i + 1)
  <2>1. CASE i = 1
    BY <2>1 DEF Inner
  <2>2. CASE i # 1
    <3>1. i - 1 \in 1..(size - 1) /\ (i - 1) + 1 = i /\ (i + 1) - 1 = i /\ i + 1 # 1
      BY <1>2, <2>2
    <3>2. stack'[i - 1] = stack[i]
      BY <1>3, <3>1
    <3>. QED
      BY <2>2, <3>1, <3>2 DEF Inner
  <2>. QED
    BY <2>1, <2>2
<1>13. StackInv'
  <2>1. ASSUME NEW i \in 1..(size - 1)
        PROVE  /\ stack'[i].node \in Walkable \ visited'
               /\ Inner(i)' \cup Range(stack'[i].rest) \subseteq Targets(Graph, stack'[i].node)
               /\ Targets(Graph, stack'[i].node) \subseteq visited' \cup Range(stack'[i].rest) \cup Inner(i)'
    <3>1. i + 1 \in 1..size /\ stack'[i] = stack[i + 1] /\ stack[i + 1].node # node
      BY <1>9
    <3>2. /\ stack[i + 1].node \in Walkable \ visited
          /\ Inner(i + 1) \cup Range(stack[i + 1].rest) \subseteq Targets(Graph, stack[i + 1].node)
          /\ Targets(Graph, stack[i + 1].node)
               \subseteq visited \cup Range(stack[i + 1].rest) \cup Inner(i + 1)
      BY <1>5, <3>1
    <3>. QED
      BY <1>1, <1>11, <1>12, <3>1, <3>2
  <2>2. ASSUME NEW i \in 1..(size - 1), NEW j \in 1..(size - 1), stack'[i].node = stack'[j].node
        PROVE  i = j
    <3>1. i + 1 \in 1..size /\ j + 1 \in 1..size /\ stack[i + 1].node = stack[j + 1].node
      BY <1>9, <2>2
    <3>2. i + 1 = j + 1
      BY <1>5, <3>1
    <3>. QED
      BY <1>2, <3>2
  <2>. QED
    BY <1>1, <1>3, <2>1, <2>2, SameDraft DEF StackInv
<1>14. TypeInv' /\ IssuesInv' /\ ReachInv'
  <2>1. visited' \subseteq Ids
    BY <1>1, <1>2, <1>6, GraphFacts DEF TypeInv
  <2>. QED
    BY <1>1, <1>3, <2>1, SameDraft DEF TypeInv, IssuesInv, ReachInv
<1>15. WalkInv'
  <2>1. Range(roots') \subseteq Nodes' /\ Nodes' \subseteq visited' \cup visiting' \cup Range(roots')
    BY <1>1, SameDraft DEF WalkInv
  <2>. QED
    BY <1>1, <1>8, <1>10, <1>13, <2>1 DEF WalkInv
<1>. QED
  BY <1>14, <1>15

LEMMA FinishAcyclicStep == CInv /\ FinishAcyclic => CInv'
<1>. SUFFICES ASSUME CInv, FinishAcyclic PROVE CInv'
  OBVIOUS
<1>. USE DEF CInv
<1>1. /\ phase = "CYCLES" /\ stack = <<>> /\ roots = <<>> /\ phase' = "DONE"
      /\ UNCHANGED <<draft, issues, queue, reached, roots, stack, visiting, visited>>
  BY DEF FinishAcyclic, search, walk
<1>2. draft \in Drafts /\ Range(roots) = {} /\ visiting = {} /\ visited \subseteq Ids
  <2>1. visiting = {}
    BY <1>1 DEF WalkInv
  <2>. QED
    BY <1>1, <2>1, SeqElements DEF TypeInv
<1>3. Acyclic(Graph, Walkable)
  <2>1. Nodes \subseteq visited /\ Closed(Graph, visited) /\ Acyclic(Graph, visited)
    BY <1>1, <1>2 DEF WalkInv
  <2>2. Walkable \subseteq visited
    BY <1>2, <2>1, GraphFacts
  <2>. QED
    BY <2>1, <2>2, AcyclicSubset
<1>4. TypeInv' /\ IssuesInv' /\ ReachInv'
  BY <1>1, <1>3, SameDraft DEF TypeInv, IssuesInv, ReachInv, AllIssues, Issue
<1>5. visiting' = {stack'[i].node : i \in 1..Len(stack')}
  BY <1>1 DEF WalkInv
<1>6. StackInv'
  BY <1>1, SameDraft DEF WalkInv, StackInv, Inner
<1>7. visited' \subseteq Walkable' /\ Closed(Graph, visited)' /\ Acyclic(Graph, visited)'
  BY <1>1, SameDraft DEF WalkInv, Closed, Acyclic
<1>8. WalkInv'
  BY <1>1, <1>5, <1>6, <1>7 DEF WalkInv
<1>. QED
  BY <1>4, <1>8

-----------------------------------------------------------------------------
(* Theorems.                                                               *)

LEMMA Invariance == Spec => []CInv
<1>1. CInv /\ [Next]_vars => CInv'
  <2>. SUFFICES ASSUME CInv, [Next]_vars PROVE CInv'
    OBVIOUS
  <2>1. CASE UNCHANGED vars
    <3>1. UNCHANGED <<draft, phase, issues, queue, reached, roots, stack, visiting, visited>>
      BY <2>1 DEF vars
    <3>2. TypeInv' /\ IssuesInv' /\ ReachInv'
      BY <3>1, SameDraft DEF CInv, TypeInv, IssuesInv, ReachInv
    <3>3. visiting' = {stack'[i].node : i \in 1..Len(stack')}
      BY <3>1 DEF CInv, WalkInv
    <3>4. StackInv'
      BY <3>1, SameDraft DEF CInv, WalkInv, StackInv, Inner
    <3>5. WalkInv'
      BY <3>1, <3>3, <3>4, SameDraft DEF CInv, WalkInv, Closed, Acyclic
    <3>. QED
      BY <3>2, <3>5 DEF CInv
  <2>. QED
    BY <2>1, CheckListsStep, LookStep, FinishReachabilityStep, VisitRootStep, VisitTargetStep,
       LeaveStep, FinishAcyclicStep DEF Next
<1>. QED
  BY <1>1, InitCInv, PTL DEF Spec

\* In every reachable state the searches hold what their types say, and the nodes of the
\* calls of visit are the ones that are being visited, none of which was left before.
THEOREM TypeCorrect == Spec => []TypeOK
<1>1. CInv => TypeOK
  <2>. SUFFICES ASSUME CInv PROVE TypeOK
    OBVIOUS
  <2>1. DOMAIN stack = 1..Len(stack)
    BY LenProperties DEF CInv, TypeInv
  <2>2. visiting = {stack[i].node : i \in DOMAIN stack}
    BY <2>1 DEF CInv, WalkInv
  <2>3. visiting \cap visited = {}
    <3>1. visiting = {stack[i].node : i \in 1..Len(stack)}
          /\ \A i \in 1..Len(stack) : stack[i].node \notin visited
      BY DEF CInv, WalkInv, StackInv
    <3>. QED
      BY <3>1
  <2>. QED
    BY <2>2, <2>3 DEF CInv, TypeInv, TypeOK
<1>. QED
  BY <1>1, Invariance, PTL

\* For every draft, also one that repeats nodes or whose edges lead nowhere, the contract
\* reports a cycle exactly when there is one, and unreachable nodes exactly when there are.
THEOREM SearchesExact == Spec => []SearchesAreExact
<1>1. CInv => SearchesAreExact
  <2>. SUFFICES ASSUME CInv, phase = "DONE" PROVE SearchesAreExact
    BY DEF SearchesAreExact
  <2>1. issues = AllIssues
    BY DEF CInv, IssuesInv
  <2>2. "cycle" \in AllIssues <=> ~Acyclic(Graph, Walkable)
    BY DEF AllIssues, ReachIssues, ListIssues, Issue
  <2>3. "unreachable node" \in AllIssues <=> ~(Nodes \subseteq Reachable)
    BY DEF AllIssues, ReachIssues, ListIssues, Issue
  <2>. QED
    BY <2>1, <2>2, <2>3 DEF SearchesAreExact, Walkable, Reachable, Nodes
<1>. QED
  BY <1>1, Invariance, PTL

LEMMA NothingReported ==
  AllIssues = {} <=>
    /\ IsInjective(NodeIds) /\ TriggerIds # <<>> /\ IsInjective(draft.edges)
    /\ \A edge \in Range(draft.edges) : /\ {edge[1], edge[2]} \subseteq Nodes
                                         /\ edge[1] # edge[2]
                                         /\ ~Contains(TriggerIds, edge[2])
    /\ Nodes \subseteq Reachable /\ Acyclic(Graph, Walkable)
BY DEF AllIssues, ReachIssues, ListIssues, Issue, Nodes

\* Between its own nodes, a graph is walked from them alone.
LEMMA EdgesWithin ==
  ASSUME draft \in Drafts, Graph.edges \subseteq Nodes \X Nodes
  PROVE  /\ Walkable = Nodes
         /\ Nodes \subseteq Reachable
              <=> Nodes \subseteq ReachableFrom(Graph, Graph.triggers, Nodes)
<1>1. \A n : Targets(Graph, n) \subseteq Nodes
  BY DEF Targets
<1>2. Nodes \subseteq Ids /\ Graph.triggers \subseteq Nodes
  <2>1. Nodes \subseteq Ids
    BY Lists
  <2>2. /\ DOMAIN NodeIds = DOMAIN draft.nodes
        /\ \A i \in DOMAIN draft.nodes : NodeIds[i] = draft.nodes[i].id
    BY DEF NodeIds
  <2>3. ASSUME NEW t \in Graph.triggers PROVE t \in Nodes
    <3>1. PICK v \in Range(draft.nodes) : t = v.id
      BY DEF Graph
    <3>2. PICK i \in DOMAIN draft.nodes : v = draft.nodes[i]
      BY DEF Range
    <3>. QED
      BY <2>2, <3>1, <3>2 DEF Nodes, Range
  <2>. QED
    BY <2>1, <2>3
<1>3. Walkable = Nodes
  BY <1>1, <1>2, GraphFacts DEF Closed
<1>4. ASSUME Nodes \subseteq Reachable
      PROVE  Nodes \subseteq ReachableFrom(Graph, Graph.triggers, Nodes)
  BY <1>2, <1>4 DEF Reachable, ReachableFrom
<1>5. ASSUME Nodes \subseteq ReachableFrom(Graph, Graph.triggers, Nodes), NEW n \in Nodes
      PROVE  n \in Reachable
  <2>. SUFFICES ASSUME NEW S \in SUBSET Ids, Graph.triggers \subseteq S, Closed(Graph, S)
                PROVE  n \in S
    BY <1>2 DEF Reachable, ReachableFrom
  <2>1. S \cap Nodes \in SUBSET Nodes /\ Graph.triggers \subseteq S \cap Nodes
    BY <1>2
  <2>2. Closed(Graph, S \cap Nodes)
    BY <1>1 DEF Closed
  <2>. QED
    BY <1>5, <2>1, <2>2 DEF ReachableFrom
<1>. QED
  BY <1>3, <1>4, <1>5

\* For every draft, the contract has nothing to report exactly when node ids and edges are
\* not repeated, edges join nodes of the draft, and the graph can be executed.
THEOREM AcceptsExactly == Spec => []AcceptsExecutable
<1>1. CInv => AcceptsExecutable
  <2>. SUFFICES ASSUME CInv, phase = "DONE" PROVE AcceptsExecutable
    BY DEF AcceptsExecutable
  <2>1. issues = AllIssues /\ draft \in Drafts
    BY DEF CInv, IssuesInv, TypeInv
  <2>2. Graph.edges = Range(draft.edges) /\ Graph.edges \subseteq Ids \X Ids
    BY <2>1, Lists DEF Graph
  <2>3. /\ \A x : Contains(TriggerIds, x) <=> x \in Graph.triggers
        /\ TriggerIds = <<>> <=> Graph.triggers = {}
    BY <2>1, TriggerIdsAreTriggers, SeqElements
  <2>4. Graph.edges \subseteq Nodes \X Nodes
          <=> \A edge \in Graph.edges : {edge[1], edge[2]} \subseteq Nodes
    BY <2>2
  <2>5. (\A t \in Graph.triggers : Sources(Graph, t) = {})
          <=> \A edge \in Graph.edges : edge[2] \notin Graph.triggers
    BY DEF Sources
  <2>6. ASSUME Acyclic(Graph, Nodes), NEW edge \in Graph.edges, edge[1] \in Nodes PROVE edge[1] # edge[2]
    <3>1. PICK n \in {edge[1]} : Sources(Graph, n) \cap {edge[1]} = {}
      BY <2>6 DEF Acyclic
    <3>. QED
      BY <3>1 DEF Sources
  <2>7. CASE ~(Graph.edges \subseteq Nodes \X Nodes)
    BY <2>1, <2>2, <2>4, <2>7, NothingReported DEF AcceptsExecutable, Nodes
  <2>8. CASE Graph.edges \subseteq Nodes \X Nodes
    <3>1. /\ Walkable = Nodes
          /\ Nodes \subseteq Reachable
               <=> Nodes \subseteq ReachableFrom(Graph, Graph.triggers, Nodes)
      BY <2>1, <2>8, EdgesWithin
    <3>2. \A edge \in Graph.edges : {edge[1], edge[2]} \subseteq Nodes
      BY <2>4, <2>8
    <3>3. AllIssues = {} <=>
            /\ IsInjective(NodeIds) /\ Graph.triggers # {} /\ IsInjective(draft.edges)
            /\ \A edge \in Graph.edges : edge[2] \notin Graph.triggers
            /\ Nodes \subseteq Reachable /\ Acyclic(Graph, Nodes)
      BY <2>2, <2>3, <2>6, <3>1, <3>2, NothingReported
    <3>4. Executable(Graph, Nodes) <=>
            /\ Graph.triggers # {}
            /\ \A edge \in Graph.edges : edge[2] \notin Graph.triggers
            /\ Nodes \subseteq Reachable /\ Acyclic(Graph, Nodes)
      BY <2>5, <3>1 DEF Executable, TriggersStart
    <3>. QED
      BY <2>1, <2>8, <3>3, <3>4 DEF AcceptsExecutable, Nodes
  <2>. QED
    BY <2>7, <2>8
<1>. QED
  BY <1>1, Invariance, PTL

=============================================================================
