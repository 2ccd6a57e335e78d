------------------------- MODULE WorkflowDraftProofs -------------------------
(***************************************************************************)
(* Theorems about WorkflowDraft, for every set of stored definitions and   *)
(* of credentials and for any number of changes: what is drawn, deleted,   *)
(* renamed and discarded leaves a draft well formed, its selection on      *)
(* screen, and the canvas laid out along its edges.                        *)
(***************************************************************************)
EXTENDS WorkflowDraft, WellFoundedInduction, FiniteSetTheorems, SequenceTheorems, TLAPS

DistinctNodes(d) ==
  \A i, j \in 1..Len(d.nodes) : d.nodes[i].id = d.nodes[j].id => i = j

DistinctEnds(d) ==
  \A i, j \in 1..Len(d.edges) :
    d.edges[i].from = d.edges[j].from /\ d.edges[i].to = d.edges[j].to => i = j

GoodEdge(e, ids) ==
  /\ e = Edge(e.id, e.from, e.to)
  /\ e.from \in ids /\ e.to \in ids
  /\ e.from # e.to /\ ~IsTrigger(e.to)

WellFormed(d) ==
  /\ d = [nodes |-> d.nodes, edges |-> d.edges]
  /\ d.nodes \in Seq(DraftNodes) /\ DistinctNodes(d)
  /\ d.edges \in Seq(Range(d.edges))
  /\ \A e \in Range(d.edges) : GoodEdge(e, IdsOf(d))

\* The editor named every edge of the draft, and joined no two nodes twice.
NamedByEditor(d) == NamedAfterEnds(d) /\ DistinctEnds(d)

IsPage(p) ==
  p = [editing |-> p.editing, node |-> p.node, edge |-> p.edge, dialog |-> p.dialog]

PageFits(p, d) ==
  /\ IsPage(p) /\ p.editing \in BOOLEAN
  /\ p.node \in IdsOf(d) \cup IF d.nodes = <<>> THEN {None} ELSE {}
  /\ p.dialog \in IdsOf(d) \cup {None}
  /\ p.dialog # None => p.editing

Joins(d, m, n) == \E e \in Range(d.edges) : e.from = m /\ e.to = n

\* A path of so many edges leads to n.
Path(d, n, length) ==
  \E p \in [0..length -> IdsOf(d)] :
    p[length] = n /\ \A i \in 1..length : Joins(d, p[i - 1], p[i])

\* A level is the length of a path, a node without sources has one, and an edge leads to
\* the right unless its source waits to be looked at again.
LayoutFits(l, d) ==
  /\ l.queue \in Seq(IdsOf(d)) /\ DOMAIN l.level \subseteq IdsOf(d)
  /\ Range(l.queue) \subseteq DOMAIN l.level
  /\ \A n \in DOMAIN l.level : l.level[n] \in Nat /\ Path(d, n, l.level[n])
  /\ \A n \in IdsOf(d) : Sources(Graph(d), n) = {} => n \in DOMAIN l.level
  /\ \A e \in Range(d.edges) : e.from \in DOMAIN l.level =>
       \/ e.from \in Range(l.queue)
       \/ e.to \in DOMAIN l.level /\ l.level[e.to] > l.level[e.from]

DraftInv ==
  /\ WellFormed(saved) /\ Accepted(saved)
  /\ WellFormed(draft)
  /\ NamedAfterEnds(saved) => NamedByEditor(draft)
  /\ PageFits(page, Active)
  /\ LayoutFits(layout, Active)
  /\ edits \in 0..MaxEdits

-----------------------------------------------------------------------------
(* Arrays.                                                                 *)

NatLess == {p \in Nat \X Nat : p[1] < p[2]}

LEMMA LeastNatural ==
  ASSUME NEW T, T \subseteq Nat, T # {}
  PROVE  \E n \in T : \A m \in T : n <= m
<1>1. IsWellFoundedOn(NatLess, Nat)
  <2>1. OpToRel(<, Nat) = NatLess
    BY DEF OpToRel, NatLess
  <2>. QED
    BY <2>1, NatLessThanWellFounded
<1>2. PICK n \in T : \A m \in T : ~(<<m, n>> \in NatLess)
  <2>1. T \in SUBSET Nat /\ T # {}
    OBVIOUS
  <2>. QED
    BY <1>1, <2>1, WFMin
<1>3. \A m \in T : n <= m
  <2>. SUFFICES ASSUME NEW m \in T PROVE n <= m
    OBVIOUS
  <2>1. <<m, n>> \notin NatLess
    BY <1>2
  <2>2. m \in Nat /\ n \in Nat
    OBVIOUS
  <2>3. <<m, n>> \in NatLess <=> m < n
    BY <2>2 DEF NatLess
  <2>. QED
    BY <2>1, <2>2, <2>3
<1>. QED
  BY <1>3

\* The function of the definition of Keep, up to n.
IsKept(f, s, passing, n) ==
  f = [i \in 0..n |->
         IF i = 0 THEN <<>>
         ELSE IF s[i] \in passing THEN Append(f[i - 1], s[i]) ELSE f[i - 1]]

LEMMA KeptExists ==
  ASSUME NEW s, NEW passing, NEW n \in Nat
  PROVE  \E f : IsKept(f, s, passing, n)
<1>. DEFINE T == {m \in Nat : ~\E f : IsKept(f, s, passing, m)}
<1>. SUFFICES ASSUME T # {} PROVE FALSE
  OBVIOUS
<1>0. T \subseteq Nat
  OBVIOUS
<1>1. PICK m \in T : \A k \in T : m <= k
  <2>. HIDE DEF T
  <2>. QED
    BY <1>0, LeastNatural
<1>2. m # 0
  <2>1. IsKept([i \in 0..0 |-> <<>>], s, passing, 0)
    BY DEF IsKept
  <2>. QED
    BY <2>1
<1>3. m \in Nat /\ m - 1 \in Nat /\ ~(m <= m - 1)
  BY <1>2
<1>4. PICK f : IsKept(f, s, passing, m - 1)
  BY <1>3, <1>1
<1>5. PICK last : last = IF s[m] \in passing THEN Append(f[m - 1], s[m]) ELSE f[m - 1]
  OBVIOUS
<1>6. PICK g : g = [i \in 0..m |-> IF i = m THEN last ELSE f[i]]
  OBVIOUS
<1>7. \A i \in 0..m : g[i] = IF i = m THEN last ELSE f[i]
  BY <1>6
<1>8. \A i \in 0..m - 1 : f[i] = IF i = 0 THEN <<>>
                                 ELSE IF s[i] \in passing THEN Append(f[i - 1], s[i]) ELSE f[i - 1]
  BY <1>4 DEF IsKept
<1>9. ASSUME NEW i \in 0..m
      PROVE  g[i] = IF i = 0 THEN <<>>
                    ELSE IF s[i] \in passing THEN Append(g[i - 1], s[i]) ELSE g[i - 1]
  <2>1. CASE i = 0
    BY <2>1, <1>2, <1>3, <1>7, <1>8
  <2>2. CASE i # 0 /\ i # m
    <3>1. i \in 0..m - 1 /\ i - 1 \in 0..m /\ i - 1 # m
      BY <2>2, <1>3
    <3>2. g[i] = f[i] /\ g[i - 1] = f[i - 1]
      BY <3>1, <2>2, <1>7
    <3>. QED
      BY <3>1, <3>2, <2>2, <1>8
  <2>3. CASE i = m
    <3>1. m - 1 \in 0..m /\ m - 1 # m
      BY <1>3
    <3>2. g[m] = last /\ g[m - 1] = f[m - 1]
      BY <3>1, <1>3, <1>7
    <3>. QED
      BY <3>2, <2>3, <1>2, <1>5
  <2>. QED
    BY <2>1, <2>2, <2>3
<1>10. IsKept(g, s, passing, m)
  BY <1>6, <1>9 DEF IsKept
<1>. QED
  BY <1>10

\* What Keep returns.
LEMMA KeepProperties ==
  ASSUME NEW S, NEW s \in Seq(S), NEW passing
  PROVE  /\ Keep(s, passing) \in Seq(S)
         /\ Range(Keep(s, passing)) = Range(s) \cap passing
<1>1. Len(s) \in Nat /\ \A i \in 1..Len(s) : s[i] \in S
  BY ElementOfSeq, LenProperties
<1>2. PICK f : IsKept(f, s, passing, Len(s)) /\ Keep(s, passing) = f[Len(s)]
  <2>1. PICK f : f = CHOOSE g : IsKept(g, s, passing, Len(s))
    OBVIOUS
  <2>2. IsKept(f, s, passing, Len(s))
    BY <1>1, <2>1, KeptExists
  <2>3. Keep(s, passing) = f[Len(s)]
    BY <2>1 DEF Keep, IsKept
  <2>. QED
    BY <2>2, <2>3
<1>3. /\ f[0] = <<>>
      /\ \A i \in 1..Len(s) :
           f[i] = IF s[i] \in passing THEN Append(f[i - 1], s[i]) ELSE f[i - 1]
  <2>1. \A i \in 0..Len(s) :
          f[i] = IF i = 0 THEN <<>>
                 ELSE IF s[i] \in passing THEN Append(f[i - 1], s[i]) ELSE f[i - 1]
    BY <1>2 DEF IsKept
  <2>2. 0 \in 0..Len(s) /\ \A i \in 1..Len(s) : i \in 0..Len(s) /\ i # 0
    BY <1>1
  <2>. QED
    BY <2>1, <2>2
<1>. DEFINE Good(i) == /\ f[i] \in Seq(S)
                       /\ \A x : (\E k \in 1..Len(f[i]) : f[i][k] = x)
                                   <=> x \in passing /\ \E j \in 1..i : s[j] = x
            T == {i \in 0..Len(s) : ~Good(i)}
<1>4. ASSUME T # {} PROVE FALSE
  <2>1. T \subseteq Nat
    BY <1>1
  <2>2. PICK m \in T : \A k \in T : m <= k
    <3>. HIDE DEF T
    <3>. QED
      BY <1>4, <2>1, LeastNatural
  <2>3. Good(0)
    <3>1. Len(<<>>) = 0 /\ 1..0 = {} /\ <<>> \in Seq(S)
      OBVIOUS
    <3>. QED
      BY <1>3, <3>1
  <2>4. m \in 1..Len(s) /\ m - 1 \in 0..Len(s) /\ ~(m <= m - 1)
    <3>1. m \in 0..Len(s) /\ ~Good(m)
      BY <2>2
    <3>2. m # 0
      <4>. HIDE DEF Good
      <4>. QED
        BY <2>3, <3>1
    <3>. QED
      BY <1>1, <3>1, <3>2
  <2>5. Good(m - 1)
    BY <2>2, <2>4
  <2>6. \A j : j \in 1..m <=> j \in 1..(m - 1) \/ j = m
    BY <1>1, <2>4
  <2>7. CASE s[m] \notin passing
    <3>1. f[m] = f[m - 1]
      BY <1>3, <2>4, <2>7
    <3>2. PICK t : t = f[m - 1]
      OBVIOUS
    <3>3. /\ t \in Seq(S)
          /\ \A x : (\E k \in 1..Len(t) : t[k] = x) <=> x \in passing /\ \E j \in 1..(m - 1) : s[j] = x
      BY <2>5, <3>2
    <3>4. \A x : x \in passing =>
            ((\E j \in 1..(m - 1) : s[j] = x) <=> \E j \in 1..m : s[j] = x)
      BY <2>6, <2>7
    <3>5. \A x : (\E k \in 1..Len(t) : t[k] = x) <=> x \in passing /\ \E j \in 1..m : s[j] = x
      BY <3>3, <3>4
    <3>6. f[m] = t
      BY <3>1, <3>2
    <3>7. Good(m)
      BY <3>3, <3>5, <3>6
    <3>. QED
      BY <2>2, <3>7
  <2>8. CASE s[m] \in passing
    <3>1. PICK t : t = f[m - 1]
      OBVIOUS
    <3>2. f[m] = Append(t, s[m]) /\ t \in Seq(S) /\ s[m] \in S
      BY <1>1, <1>3, <2>4, <2>5, <2>8, <3>1
    <3>3. /\ f[m] \in Seq(S) /\ Len(f[m]) = Len(t) + 1 /\ Len(t) \in Nat
          /\ \A k \in 1..Len(t) : f[m][k] = t[k]
          /\ f[m][Len(t) + 1] = s[m]
      BY <3>2, AppendProperties, LenProperties
    <3>4. \A k : k \in 1..(Len(t) + 1) <=> k \in 1..Len(t) \/ k = Len(t) + 1
      BY <3>3
    <3>5. \A x : (\E k \in 1..Len(f[m]) : f[m][k] = x) <=> (\E k \in 1..Len(t) : t[k] = x) \/ x = s[m]
      BY <3>3, <3>4
    <3>6. \A x : (\E k \in 1..Len(t) : t[k] = x) <=> x \in passing /\ \E j \in 1..(m - 1) : s[j] = x
      BY <2>5, <3>1
    <3>7. \A x : (\E k \in 1..Len(f[m]) : f[m][k] = x) <=> x \in passing /\ \E j \in 1..m : s[j] = x
      BY <2>6, <2>8, <3>5, <3>6
    <3>. QED
      BY <2>2, <3>3, <3>7
  <2>. QED
    BY <2>7, <2>8
<1>5. Good(Len(s))
  BY <1>1, <1>4
<1>. HIDE DEF Good
<1>6. /\ Keep(s, passing) \in Seq(S)
      /\ \A x : (\E k \in 1..Len(Keep(s, passing)) : Keep(s, passing)[k] = x)
                  <=> x \in passing /\ \E j \in 1..Len(s) : s[j] = x
  BY <1>2, <1>5 DEF Good
<1>. QED
  BY <1>6, LenProperties DEF Range

LEMMA SeqElements ==
  ASSUME NEW S, NEW s \in Seq(S)
  PROVE  /\ Range(s) \subseteq S
         /\ \A x : x \in Range(s) <=> \E i \in 1..Len(s) : s[i] = x
         /\ \A x : Contains(s, x) <=> x \in Range(s)
         /\ (s = <<>>) <=> (Range(s) = {})
<1>1. DOMAIN s = 1..Len(s) /\ Len(s) \in Nat /\ \A i \in 1..Len(s) : s[i] \in S
  BY LenProperties, ElementOfSeq
<1>2. \A x : x \in Range(s) <=> \E i \in 1..Len(s) : s[i] = x
  BY <1>1 DEF Range
<1>3. Range(s) \subseteq S
  BY <1>1, <1>2
<1>4. \A x : Contains(s, x) <=> x \in Range(s)
  BY <1>2 DEF Contains
<1>5. s = <<>> => Range(s) = {}
  <2>1. Len(<<>>) = 0 /\ 1..0 = {}
    OBVIOUS
  <2>. QED
    BY <1>2, <2>1
<1>6. s # <<>> => s[1] \in Range(s)
  <2>1. s # <<>> => Len(s) # 0
    BY EmptySeq
  <2>. QED
    BY <1>1, <1>2, <2>1
<1>. QED
  BY <1>2, <1>3, <1>4, <1>5, <1>6

\* The sequence with n given elements.
LEMMA SeqOfFunction ==
  ASSUME NEW n \in Nat, NEW T, NEW t \in [1..n -> T]
  PROVE  /\ t \in Seq(T) /\ Len(t) = n
         /\ \A i \in 1..n : t[i] \in Range(t)
         /\ \A x \in Range(t) : \E i \in 1..n : t[i] = x
<1>1. t \in Seq(T)
  BY SeqDef
<1>2. Len(t) = n
  BY <1>1, LenProperties
<1>. QED
  BY <1>1, <1>2 DEF Range

\* What Keep returns is found at different places of the array.
LEMMA KeepEmbeds ==
  ASSUME NEW S, NEW s \in Seq(S), NEW passing
  PROVE  \E h \in [1..Len(Keep(s, passing)) -> 1..Len(s)] :
           /\ \A k \in 1..Len(Keep(s, passing)) : Keep(s, passing)[k] = s[h[k]]
           /\ \A k, l \in 1..Len(Keep(s, passing)) : h[k] = h[l] => k = l
<1>1. Len(s) \in Nat /\ \A i \in 1..Len(s) : s[i] \in S
  BY ElementOfSeq, LenProperties
<1>2. PICK f : IsKept(f, s, passing, Len(s)) /\ Keep(s, passing) = f[Len(s)]
  <2>1. PICK f : f = CHOOSE g : IsKept(g, s, passing, Len(s))
    OBVIOUS
  <2>2. IsKept(f, s, passing, Len(s))
    BY <1>1, <2>1, KeptExists
  <2>3. Keep(s, passing) = f[Len(s)]
    BY <2>1 DEF Keep, IsKept
  <2>. QED
    BY <2>2, <2>3
<1>3. /\ f[0] = <<>>
      /\ \A i \in 1..Len(s) :
           f[i] = IF s[i] \in passing THEN Append(f[i - 1], s[i]) ELSE f[i - 1]
  <2>1. \A i \in 0..Len(s) :
          f[i] = IF i = 0 THEN <<>>
                 ELSE IF s[i] \in passing THEN Append(f[i - 1], s[i]) ELSE f[i - 1]
    BY <1>2 DEF IsKept
  <2>2. 0 \in 0..Len(s) /\ \A i \in 1..Len(s) : i \in 0..Len(s) /\ i # 0
    BY <1>1
  <2>. QED
    BY <2>1, <2>2
<1>. DEFINE Good(i) == /\ f[i] \in Seq(S)
                       /\ \E h \in [1..Len(f[i]) -> 1..i] :
                            /\ \A k \in 1..Len(f[i]) : f[i][k] = s[h[k]]
                            /\ \A k, l \in 1..Len(f[i]) : h[k] = h[l] => k = l
            T == {i \in 0..Len(s) : ~Good(i)}
<1>4. ASSUME T # {} PROVE FALSE
  <2>1. T \subseteq Nat
    BY <1>1
  <2>2. PICK m \in T : \A k \in T : m <= k
    <3>. HIDE DEF T
    <3>. QED
      BY <1>4, <2>1, LeastNatural
  <2>3. Good(0)
    <3>1. Len(<<>>) = 0 /\ 1..0 = {} /\ <<>> \in Seq(S)
      OBVIOUS
    <3>2. PICK h : h = [k \in 1..0 |-> 0]
      OBVIOUS
    <3>3. h \in [1..0 -> 1..0]
      BY <3>1, <3>2
    <3>. QED
      BY <1>3, <3>1, <3>3
  <2>4. m \in 1..Len(s) /\ m - 1 \in 0..Len(s) /\ ~(m <= m - 1)
    <3>1. m \in 0..Len(s) /\ ~Good(m)
      BY <2>2
    <3>2. m # 0
      <4>. HIDE DEF Good
      <4>. QED
        BY <2>3, <3>1
    <3>. QED
      BY <1>1, <3>1, <3>2
  <2>5. Good(m - 1)
    BY <2>2, <2>4
  <2>6. PICK t : t = f[m - 1]
    OBVIOUS
  <2>7. PICK h \in [1..Len(t) -> 1..(m - 1)] :
          /\ \A k \in 1..Len(t) : t[k] = s[h[k]]
          /\ \A k, l \in 1..Len(t) : h[k] = h[l] => k = l
    BY <2>5, <2>6
  <2>8. t \in Seq(S) /\ Len(t) \in Nat
    BY <2>5, <2>6, LenProperties
  <2>9. Good(m)
    <3>1. CASE s[m] \notin passing
      <4>1. f[m] = t
        BY <1>3, <2>4, <2>6, <3>1
      <4>2. h \in [1..Len(t) -> 1..m]
        BY <1>1, <2>4, <2>7
      <4>. QED
        BY <2>7, <2>8, <4>1, <4>2
    <3>2. CASE s[m] \in passing
      <4>1. f[m] = Append(t, s[m]) /\ s[m] \in S
        BY <1>1, <1>3, <2>4, <2>6, <3>2
      <4>2. /\ f[m] \in Seq(S) /\ Len(f[m]) = Len(t) + 1
            /\ \A k \in 1..Len(t) : f[m][k] = t[k]
            /\ f[m][Len(t) + 1] = s[m]
        BY <2>8, <4>1, AppendProperties
      <4>3. PICK g : g = [k \in 1..(Len(t) + 1) |-> IF k = Len(t) + 1 THEN m ELSE h[k]]
        OBVIOUS
      <4>4. \A k \in 1..(Len(t) + 1) : k # Len(t) + 1 => k \in 1..Len(t)
        BY <2>8
      <4>5. /\ g[Len(t) + 1] = m
            /\ \A k \in 1..Len(t) : g[k] = h[k] /\ h[k] \in 1..(m - 1) /\ h[k] # m
        BY <1>1, <2>4, <2>7, <2>8, <4>3
      <4>6. g \in [1..(Len(t) + 1) -> 1..m]
        BY <1>1, <2>4, <2>7, <4>3, <4>4, <4>5
      <4>7. \A k \in 1..(Len(t) + 1) : f[m][k] = s[g[k]]
        BY <2>7, <4>2, <4>4, <4>5
      <4>8. \A k, l \in 1..(Len(t) + 1) : g[k] = g[l] => k = l
        BY <2>7, <4>4, <4>5
      <4>9. /\ f[m] \in Seq(S) /\ g \in [1..Len(f[m]) -> 1..m]
            /\ \A k \in 1..Len(f[m]) : f[m][k] = s[g[k]]
            /\ \A k, l \in 1..Len(f[m]) : g[k] = g[l] => k = l
        BY <4>2, <4>6, <4>7, <4>8
      <4>. QED
        BY <4>9
    <3>. QED
      BY <3>1, <3>2
  <2>. QED
    BY <2>2, <2>9
<1>5. Good(Len(s))
  BY <1>1, <1>4
<1>. HIDE DEF Good
<1>. QED
  BY <1>2, <1>5 DEF Good

-----------------------------------------------------------------------------
(* Definitions.                                                            *)

LEMMA NodeFacts ==
  ASSUME NEW nodes \in Seq(DraftNodes)
  PROVE  /\ Len(nodes) \in Nat /\ DOMAIN nodes = 1..Len(nodes)
         /\ \A i \in 1..Len(nodes) : /\ nodes[i] \in DraftNodes
                                     /\ nodes[i].id \in Types \X Nat
                                     /\ nodes[i].config \in Configs
                                     /\ nodes[i] = [id |-> nodes[i].id, config |-> nodes[i].config]
<1>1. /\ Len(nodes) \in Nat /\ DOMAIN nodes = 1..Len(nodes)
      /\ \A i \in 1..Len(nodes) : nodes[i] \in DraftNodes
  BY ElementOfSeq, LenProperties
<1>. QED
  BY <1>1 DEF DraftNodes

LEMMA IdsFacts ==
  ASSUME NEW d, d.nodes \in Seq(DraftNodes)
  PROVE  /\ \A i \in 1..Len(d.nodes) : d.nodes[i].id \in IdsOf(d)
         /\ \A x \in IdsOf(d) : \E i \in 1..Len(d.nodes) : d.nodes[i].id = x
         /\ IdsOf(d) \subseteq Types \X Nat
<1>1. DOMAIN d.nodes = 1..Len(d.nodes) /\ \A i \in 1..Len(d.nodes) : d.nodes[i].id \in Types \X Nat
  BY NodeFacts
<1>. QED
  BY <1>1 DEF IdsOf

\* A definition is what its two arrays are.
LEMMA MadeOf ==
  ASSUME NEW d, NEW nodes \in Seq(DraftNodes), NEW edges, edges \in Seq(Range(edges)),
         d = [nodes |-> nodes, edges |-> edges], DistinctNodes(d),
         \A e \in Range(edges) : GoodEdge(e, IdsOf(d))
  PROVE  WellFormed(d)
<1>1. d.nodes = nodes /\ d.edges = edges
  OBVIOUS
<1>. QED
  BY <1>1 DEF WellFormed

LEMMA Parts ==
  ASSUME NEW d, WellFormed(d), NEW nodes, NEW edges
  PROVE  /\ [d EXCEPT !.nodes = nodes] = [nodes |-> nodes, edges |-> d.edges]
         /\ [d EXCEPT !.edges = edges] = [nodes |-> d.nodes, edges |-> edges]
<1>1. PICK n, e : d = [nodes |-> n, edges |-> e] /\ n = d.nodes /\ e = d.edges
  BY DEF WellFormed
<1>. QED
  BY <1>1

\* What the schema accepts is well formed.
LEMMA AcceptedIsWellFormed ==
  ASSUME NEW d, IsDefinition(d), Accepted(d)
  PROVE  WellFormed(d) /\ DistinctEnds(d)
<1>1. /\ d = [nodes |-> d.nodes, edges |-> d.edges] /\ d.nodes \in Seq(DraftNodes)
      /\ d.edges \in Seq(Range(d.edges)) /\ \A e \in Range(d.edges) : e = Edge(e.id, e.from, e.to)
  BY DEF IsDefinition
<1>2. DOMAIN d.nodes = 1..Len(d.nodes) /\ DOMAIN d.edges = 1..Len(d.edges)
  BY <1>1, LenProperties
<1>3. DistinctNodes(d)
  BY <1>2 DEF Accepted, IsInjective, DistinctNodes
<1>4. DistinctEnds(d)
  <2>1. PICK ends : ends = [i \in DOMAIN d.edges |-> <<d.edges[i].from, d.edges[i].to>>]
    OBVIOUS
  <2>2. DOMAIN ends = 1..Len(d.edges)
        /\ \A i \in 1..Len(d.edges) : ends[i] = <<d.edges[i].from, d.edges[i].to>>
    BY <1>2, <2>1
  <2>3. IsInjective(ends)
    BY <2>1 DEF Accepted
  <2>. QED
    BY <2>2, <2>3 DEF IsInjective, DistinctEnds
<1>5. ASSUME NEW e \in Range(d.edges) PROVE GoodEdge(e, IdsOf(d))
  <2>1. PICK g : g = Graph(d)
    OBVIOUS
  <2>2. <<e.from, e.to>> \in g.edges
    BY <2>1 DEF Graph
  <2>3. e.from \in IdsOf(d) /\ e.to \in IdsOf(d)
    BY <2>1, <2>2 DEF Accepted
  <2>4. e.from \in Sources(g, e.to)
    BY <2>2 DEF Sources
  <2>5. ~IsTrigger(e.to)
    <3>1. IsTrigger(e.to) => e.to \in g.triggers
      BY <2>1, <2>3 DEF Graph
    <3>. QED
      BY <2>1, <2>4, <3>1 DEF Accepted, Executable, TriggersStart
  <2>6. e.from # e.to
    <3>. SUFFICES ASSUME e.from = e.to PROVE FALSE
      OBVIOUS
    <3>1. {e.to} \in SUBSET IdsOf(d) /\ {e.to} # {}
      BY <2>3
    <3>2. Acyclic(g, IdsOf(d))
      BY <2>1 DEF Accepted, Executable
    <3>3. \E n \in {e.to} : Sources(g, n) \cap {e.to} = {}
      BY <3>1, <3>2 DEF Acyclic
    <3>. QED
      BY <2>4, <3>3
  <2>. QED
    BY <1>1, <2>3, <2>5, <2>6 DEF GoodEdge
<1>. QED
  BY <1>1, <1>3, <1>4, <1>5 DEF WellFormed

LEMMA KeptSeq ==
  ASSUME NEW s, s \in Seq(Range(s)), NEW passing
  PROVE  Keep(s, passing) \in Seq(Range(Keep(s, passing)))
         /\ Range(Keep(s, passing)) = Range(s) \cap passing
BY KeepProperties, SeqOfRange

LEMMA EdgeFacts ==
  ASSUME NEW edges, edges \in Seq(Range(edges))
  PROVE  /\ Len(edges) \in Nat /\ DOMAIN edges = 1..Len(edges)
         /\ \A i \in 1..Len(edges) : edges[i] \in Range(edges)
         /\ \A e \in Range(edges) : \E i \in 1..Len(edges) : edges[i] = e
<1>1. Len(edges) \in Nat /\ DOMAIN edges = 1..Len(edges)
  BY LenProperties
<1>. QED
  BY <1>1 DEF Range

\* Edges that are taken away leave what is said of the others.
LEMMA FewerEdges ==
  ASSUME NEW d, NEW c, NEW passing, d.edges \in Seq(Range(d.edges)),
         c.edges = Keep(d.edges, passing), NamedByEditor(d)
  PROVE  NamedByEditor(c)
<1>1. Range(c.edges) \subseteq Range(d.edges)
  BY KeptSeq
<1>2. NamedAfterEnds(c)
  BY <1>1 DEF NamedByEditor, NamedAfterEnds
<1>3. DistinctEnds(c)
  <2>1. PICK h \in [1..Len(c.edges) -> 1..Len(d.edges)] :
          /\ \A k \in 1..Len(c.edges) : c.edges[k] = d.edges[h[k]]
          /\ \A k, l \in 1..Len(c.edges) : h[k] = h[l] => k = l
    BY KeepEmbeds
  <2>2. \A k \in 1..Len(c.edges) : h[k] \in 1..Len(d.edges)
    OBVIOUS
  <2>. SUFFICES ASSUME NEW i \in 1..Len(c.edges), NEW j \in 1..Len(c.edges),
                       c.edges[i].from = c.edges[j].from, c.edges[i].to = c.edges[j].to
                PROVE  i = j
    BY DEF DistinctEnds
  <2>3. h[i] = h[j]
    <3>1. /\ d.edges[h[i]].from = d.edges[h[j]].from /\ d.edges[h[i]].to = d.edges[h[j]].to
          /\ h[i] \in 1..Len(d.edges) /\ h[j] \in 1..Len(d.edges)
      BY <2>1, <2>2
    <3>. QED
      BY <3>1 DEF NamedByEditor, DistinctEnds
  <2>. QED
    BY <2>1, <2>3
<1>. QED
  BY <1>2, <1>3 DEF NamedByEditor

LEMMA WithFewerEdges ==
  ASSUME NEW d, WellFormed(d), NEW passing
  PROVE  LET c == [d EXCEPT !.edges = Keep(@, passing)]
         IN /\ WellFormed(c) /\ (NamedByEditor(d) => NamedByEditor(c))
            /\ (Fitting(d) => Fitting(c))
<1>1. PICK c : c = [nodes |-> d.nodes, edges |-> Keep(d.edges, passing)]
  OBVIOUS
<1>2. c.nodes = d.nodes /\ c.edges = Keep(d.edges, passing)
  BY <1>1
<1>3. c.edges \in Seq(Range(c.edges)) /\ Range(c.edges) \subseteq Range(d.edges)
  BY <1>2, KeptSeq DEF WellFormed
<1>4. IdsOf(c) = IdsOf(d) /\ DistinctNodes(c) /\ (Fitting(d) => Fitting(c))
  BY <1>2 DEF WellFormed, IdsOf, DistinctNodes, Fitting
<1>5. WellFormed(c)
  BY <1>1, <1>2, <1>3, <1>4 DEF WellFormed
<1>6. NamedByEditor(d) => NamedByEditor(c)
  BY <1>2, FewerEdges DEF WellFormed
<1>. QED
  BY <1>1, <1>4, <1>5, <1>6, Parts

LEMMA WithoutNodes ==
  ASSUME NEW d, WellFormed(d), NEW S
  PROVE  /\ WellFormed(Without(d, S))
         /\ NamedByEditor(d) => NamedByEditor(Without(d, S))
         /\ Fitting(d) => Fitting(Without(d, S))
<1>. DEFINE c == Without(d, S)
            stay == {v \in Range(d.nodes) : v.id \notin S}
            apart == {e \in Range(d.edges) : ~Incident(e, S)}
<1>1. c = [nodes |-> Keep(d.nodes, stay), edges |-> Keep(d.edges, apart)]
  BY DEF Without
<1>2. c.nodes = Keep(d.nodes, stay) /\ c.edges = Keep(d.edges, apart)
  BY <1>1
<1>3. /\ d.nodes \in Seq(DraftNodes) /\ d.edges \in Seq(Range(d.edges))
      /\ DOMAIN d.nodes = 1..Len(d.nodes)
  BY LenProperties DEF WellFormed
<1>4. /\ c.nodes \in Seq(DraftNodes) /\ Range(c.nodes) = Range(d.nodes) \cap stay
      /\ c.edges \in Seq(Range(c.edges)) /\ Range(c.edges) = Range(d.edges) \cap apart
  <2>. HIDE DEF c, stay, apart
  <2>. QED
    BY <1>2, <1>3, KeepProperties, KeptSeq
<1>5. PICK h \in [1..Len(c.nodes) -> 1..Len(d.nodes)] :
        /\ \A k \in 1..Len(c.nodes) : c.nodes[k] = d.nodes[h[k]]
        /\ \A k, l \in 1..Len(c.nodes) : h[k] = h[l] => k = l
  <2>1. PICK nodes, kept : nodes = d.nodes /\ kept = c.nodes
    OBVIOUS
  <2>2. nodes \in Seq(DraftNodes) /\ kept = Keep(nodes, stay)
    BY <1>2, <1>3, <2>1
  <2>. HIDE DEF c, stay, apart
  <2>3. \E h \in [1..Len(kept) -> 1..Len(nodes)] :
          /\ \A k \in 1..Len(kept) : kept[k] = nodes[h[k]]
          /\ \A k, l \in 1..Len(kept) : h[k] = h[l] => k = l
    BY <2>2, KeepEmbeds
  <2>. QED
    BY <2>1, <2>3
<1>6. DistinctNodes(c)
  <2>. HIDE DEF c
  <2>1. \A k \in 1..Len(c.nodes) : h[k] \in 1..Len(d.nodes)
    OBVIOUS
  <2>. QED
    BY <1>5, <2>1 DEF DistinctNodes, WellFormed
<1>7. ASSUME NEW x \in IdsOf(d), x \notin S PROVE x \in IdsOf(c)
  <2>1. PICK i \in 1..Len(d.nodes) : d.nodes[i].id = x
    BY <1>3, IdsFacts
  <2>2. d.nodes[i] \in Range(c.nodes)
    BY <1>3, <1>4, <1>7, <2>1 DEF Range
  <2>. HIDE DEF c
  <2>3. PICK k \in DOMAIN c.nodes : c.nodes[k] = d.nodes[i]
    BY <2>2 DEF Range
  <2>. QED
    BY <2>1, <2>3 DEF IdsOf
<1>8. ASSUME NEW e \in Range(c.edges) PROVE GoodEdge(e, IdsOf(c))
  <2>1. e \in Range(d.edges) /\ ~Incident(e, S)
    BY <1>4
  <2>2. GoodEdge(e, IdsOf(d)) /\ e.from \notin S /\ e.to \notin S
    BY <2>1 DEF WellFormed, Incident
  <2>. QED
    BY <1>7, <2>2 DEF GoodEdge
<1>9. WellFormed(c)
  <2>1. c = [nodes |-> c.nodes, edges |-> c.edges]
    BY <1>1, <1>2
  <2>. HIDE DEF c
  <2>. QED
    BY <1>4, <1>6, <1>8, <2>1 DEF WellFormed
<1>. HIDE DEF c, stay, apart
<1>10. NamedByEditor(d) => NamedByEditor(c)
  BY <1>2, <1>3, FewerEdges
<1>11. Fitting(d) => Fitting(c)
  <2>1. DOMAIN c.nodes = 1..Len(c.nodes) /\ \A k \in 1..Len(c.nodes) : h[k] \in 1..Len(d.nodes)
    BY <1>4, LenProperties
  <2>. QED
    BY <1>3, <1>5, <2>1 DEF Fitting
<1>. QED
  BY <1>9, <1>10, <1>11 DEF c

\* A node whose id is free is added.
LEMMA WithNode ==
  ASSUME NEW d, WellFormed(d), NEW node \in DraftNodes, node.id \notin IdsOf(d)
  PROVE  LET c == [d EXCEPT !.nodes = Append(@, node)]
         IN /\ WellFormed(c) /\ (NamedByEditor(d) => NamedByEditor(c))
            /\ (node.config.credential = None /\ Fitting(d) => Fitting(c))
<1>1. PICK c : c = [nodes |-> Append(d.nodes, node), edges |-> d.edges]
  OBVIOUS
<1>2. c.nodes = Append(d.nodes, node) /\ c.edges = d.edges
  BY <1>1
<1>3. PICK size : size = Len(d.nodes)
  OBVIOUS
<1>4. d.nodes \in Seq(DraftNodes) /\ size \in Nat /\ DOMAIN d.nodes = 1..size /\ DistinctNodes(d)
  BY <1>3, LenProperties DEF WellFormed
<1>5. /\ c.nodes \in Seq(DraftNodes) /\ Len(c.nodes) = size + 1 /\ c.nodes[size + 1] = node
      /\ \A i \in 1..size : c.nodes[i] = d.nodes[i]
  BY <1>2, <1>3, <1>4, AppendProperties
<1>6. \A i \in 1..(size + 1) : i = size + 1 \/ i \in 1..size
  BY <1>4
<1>7. \A i \in 1..size : d.nodes[i].id # node.id
  BY <1>3, <1>4, IdsFacts
<1>8. DistinctNodes(c)
  BY <1>3, <1>4, <1>5, <1>6, <1>7 DEF DistinctNodes
<1>9. IdsOf(d) \subseteq IdsOf(c)
  <2>1. ASSUME NEW x \in IdsOf(d) PROVE x \in IdsOf(c)
    <3>1. PICK i \in 1..size : d.nodes[i].id = x
      BY <1>3, <1>4, IdsFacts
    <3>2. i \in 1..Len(c.nodes) /\ c.nodes[i].id = x
      BY <1>4, <1>5, <3>1
    <3>. QED
      BY <1>5, <3>2, IdsFacts
  <2>. QED
    BY <2>1
<1>10. WellFormed(c)
  <2>1. \A e \in Range(c.edges) : GoodEdge(e, IdsOf(c))
    BY <1>2, <1>9 DEF WellFormed, GoodEdge
  <2>2. c.edges \in Seq(Range(c.edges))
    BY <1>2 DEF WellFormed
  <2>. QED
    BY <1>1, <1>2, <1>5, <1>8, <2>1, <2>2 DEF WellFormed
<1>11. NamedByEditor(d) => NamedByEditor(c)
  BY <1>2 DEF NamedByEditor, NamedAfterEnds, DistinctEnds
<1>12. node.config.credential = None /\ Fitting(d) => Fitting(c)
  <2>1. DOMAIN c.nodes = 1..(size + 1)
    BY <1>5, LenProperties
  <2>. QED
    BY <1>4, <1>5, <1>6, <2>1 DEF Fitting
<1>. QED
  BY <1>1, <1>10, <1>11, <1>12, Parts

\* The config of a node is replaced.
LEMMA WithConfig ==
  ASSUME NEW d, WellFormed(d), NEW n, NEW config \in Configs
  PROVE  LET c == [d EXCEPT !.nodes = [i \in DOMAIN @ |->
                     IF @[i].id = n THEN [@[i] EXCEPT !.config = config] ELSE @[i]]]
         IN /\ WellFormed(c) /\ (NamedByEditor(d) => NamedByEditor(c))
            /\ (/\ config.credential # None => CredentialType[config.credential] = config.provider
                /\ Fitting(d)
                => Fitting(c))
<1>1. PICK nodes : nodes = [i \in DOMAIN d.nodes |->
        IF d.nodes[i].id = n THEN [d.nodes[i] EXCEPT !.config = config] ELSE d.nodes[i]]
  OBVIOUS
<1>2. PICK c : c = [nodes |-> nodes, edges |-> d.edges]
  OBVIOUS
<1>3. c.nodes = nodes /\ c.edges = d.edges
  BY <1>2
<1>4. PICK size : size = Len(d.nodes)
  OBVIOUS
<1>5. /\ d.nodes \in Seq(DraftNodes) /\ size \in Nat /\ DOMAIN d.nodes = 1..size
      /\ \A i \in 1..size : d.nodes[i] \in DraftNodes
  BY <1>4, NodeFacts DEF WellFormed
<1>6. ASSUME NEW i \in 1..size
      PROVE  /\ nodes[i] \in DraftNodes /\ nodes[i].id = d.nodes[i].id
             /\ nodes[i].config = IF d.nodes[i].id = n THEN config ELSE d.nodes[i].config
  <2>1. nodes[i] = IF d.nodes[i].id = n THEN [d.nodes[i] EXCEPT !.config = config] ELSE d.nodes[i]
    BY <1>1, <1>5
  <2>2. d.nodes[i] \in DraftNodes
    BY <1>5
  <2>. QED
    BY <2>1, <2>2 DEF DraftNodes
<1>7. nodes \in Seq(DraftNodes) /\ Len(nodes) = size /\ DOMAIN nodes = 1..size
  <2>1. nodes \in [1..size -> DraftNodes]
    BY <1>1, <1>5, <1>6
  <2>. QED
    BY <1>5, <2>1, SeqOfFunction
<1>8. DistinctNodes(c)
  <2>1. \A i, j \in 1..size : d.nodes[i].id = d.nodes[j].id => i = j
    BY <1>4 DEF WellFormed, DistinctNodes
  <2>. QED
    BY <1>3, <1>6, <1>7, <2>1 DEF DistinctNodes
<1>9. IdsOf(d) \subseteq IdsOf(c)
  <2>1. ASSUME NEW x \in IdsOf(d) PROVE x \in IdsOf(c)
    <3>1. PICK i \in 1..size : d.nodes[i].id = x
      BY <1>4, <1>5, IdsFacts
    <3>2. c.nodes[i].id = x /\ i \in DOMAIN c.nodes
      BY <1>3, <1>6, <1>7, <3>1
    <3>. QED
      BY <3>2 DEF IdsOf
  <2>. QED
    BY <2>1
<1>10. WellFormed(c)
  <2>1. \A e \in Range(c.edges) : GoodEdge(e, IdsOf(c))
    BY <1>3, <1>9 DEF WellFormed, GoodEdge
  <2>2. c.edges \in Seq(Range(c.edges))
    BY <1>3 DEF WellFormed
  <2>. QED
    BY <1>2, <1>3, <1>7, <1>8, <2>1, <2>2 DEF WellFormed
<1>11. NamedByEditor(d) => NamedByEditor(c)
  BY <1>3 DEF NamedByEditor, NamedAfterEnds, DistinctEnds
<1>12. /\ config.credential # None => CredentialType[config.credential] = config.provider
       /\ Fitting(d)
       => Fitting(c)
  BY <1>3, <1>5, <1>6, <1>7 DEF Fitting
<1>. QED
  BY <1>1, <1>2, <1>10, <1>11, <1>12, Parts

\* The name the editor gives an edge first belongs to its two ends.
LEMMA NamesOfEnds ==
  ASSUME NEW a, NEW b \in Types \X Nat, NEW from, NEW to \in Types \X Nat,
         EdgeId(a, b, 1) = EdgeId(from, to, 1)
  PROVE  a = from /\ b = to
<1>1. EdgeId(a, b, 1) = <<a, b[1], b[2], 1>> /\ EdgeId(from, to, 1) = <<from, to[1], to[2], 1>>
  BY DEF EdgeId
<1>2. a = from /\ b[1] = to[1] /\ b[2] = to[2]
  BY <1>1
<1>. QED
  BY <1>2

\* An edge is drawn between nodes that no edge joins.
LEMMA WithEdge ==
  ASSUME NEW d, WellFormed(d), NEW from \in IdsOf(d), NEW to \in IdsOf(d), Joinable(from, to),
         ~\E e \in Range(d.edges) : e.from = from /\ e.to = to
  PROVE  LET c == [d EXCEPT !.edges = Append(@, Edge(EdgeId(from, to, 1), from, to))]
         IN /\ WellFormed(c) /\ (NamedByEditor(d) => NamedByEditor(c))
            /\ (Fitting(d) => Fitting(c))
<1>1. PICK edge : edge = Edge(EdgeId(from, to, 1), from, to)
  OBVIOUS
<1>2. edge.id = EdgeId(from, to, 1) /\ edge.from = from /\ edge.to = to
  BY <1>1 DEF Edge
<1>3. PICK c : c = [nodes |-> d.nodes, edges |-> Append(d.edges, edge)]
  OBVIOUS
<1>4. c.nodes = d.nodes /\ c.edges = Append(d.edges, edge)
  BY <1>3
<1>5. PICK size : size = Len(d.edges)
  OBVIOUS
<1>6. /\ size \in Nat /\ \A i \in 1..size : d.edges[i] \in Range(d.edges)
      /\ \A e \in Range(d.edges) : \E i \in 1..size : d.edges[i] = e
  BY <1>5, EdgeFacts DEF WellFormed
<1>7. PICK all : all = Range(d.edges) \cup {edge}
  OBVIOUS
<1>8. /\ c.edges \in Seq(all) /\ Len(c.edges) = size + 1 /\ c.edges[size + 1] = edge
      /\ \A i \in 1..size : c.edges[i] = d.edges[i]
  <2>1. d.edges \in Seq(all) /\ edge \in all
    BY <1>7, SeqMonotonic DEF WellFormed
  <2>. QED
    BY <1>4, <1>5, <2>1, AppendProperties
<1>9. \A i \in 1..(size + 1) : i = size + 1 \/ i \in 1..size
  BY <1>6
<1>10. c.edges \in Seq(Range(c.edges)) /\ Range(c.edges) \subseteq all
  BY <1>8, SeqOfRange, SeqElements
<1>11. IdsOf(c) = IdsOf(d) /\ DistinctNodes(c) /\ (Fitting(d) => Fitting(c))
  BY <1>4 DEF WellFormed, IdsOf, DistinctNodes, Fitting
<1>12. GoodEdge(edge, IdsOf(d))
  BY <1>1, <1>2 DEF GoodEdge, Joinable
<1>13. WellFormed(c)
  BY <1>3, <1>4, <1>7, <1>10, <1>11, <1>12 DEF WellFormed
<1>14. ASSUME NamedByEditor(d) PROVE NamedByEditor(c)
  <2>1. NamedAfterEnds(c)
    BY <1>2, <1>7, <1>10, <1>14 DEF NamedByEditor, NamedAfterEnds
  <2>2. DistinctEnds(c)
    <3>1. \A i \in 1..size : ~(d.edges[i].from = from /\ d.edges[i].to = to)
      BY <1>6
    <3>2. \A i, j \in 1..size :
            d.edges[i].from = d.edges[j].from /\ d.edges[i].to = d.edges[j].to => i = j
      BY <1>5, <1>14 DEF NamedByEditor, DistinctEnds
    <3>3. \A i \in 1..size : c.edges[i].from = d.edges[i].from /\ c.edges[i].to = d.edges[i].to
      BY <1>8
    <3>4. c.edges[size + 1].from = from /\ c.edges[size + 1].to = to
      BY <1>2, <1>8
    <3>. SUFFICES ASSUME NEW i \in 1..(size + 1), NEW j \in 1..(size + 1),
                         c.edges[i].from = c.edges[j].from, c.edges[i].to = c.edges[j].to
                  PROVE  i = j
      BY <1>8 DEF DistinctEnds
    <3>5. CASE i \in 1..size /\ j \in 1..size
      BY <3>2, <3>3, <3>5
    <3>6. CASE i = size + 1 \/ j = size + 1
      BY <1>9, <3>1, <3>3, <3>4, <3>6
    <3>. QED
      BY <1>9, <3>5, <3>6
  <2>. QED
    BY <2>1, <2>2 DEF NamedByEditor
<1>. QED
  BY <1>1, <1>3, <1>11, <1>13, <1>14, Parts

\* An edge is bent to other ends.
LEMMA WithEdgeMoved ==
  ASSUME NEW d, WellFormed(d), NEW from \in IdsOf(d), NEW to \in IdsOf(d),
         from # to, ~IsTrigger(to), NEW old, NEW new,
         \A e \in Range(d.edges) : e.id # old => ~(e.from = from /\ e.to = to),
         NamedByEditor(d) => new = EdgeId(from, to, 1)
  PROVE  LET c == [d EXCEPT !.edges = [j \in DOMAIN @ |->
                     IF @[j].id = old THEN Edge(new, from, to) ELSE @[j]]]
         IN /\ WellFormed(c) /\ (NamedByEditor(d) => NamedByEditor(c))
            /\ (Fitting(d) => Fitting(c))
<1>1. PICK edge : edge = Edge(new, from, to)
  OBVIOUS
<1>2. edge.id = new /\ edge.from = from /\ edge.to = to
  BY <1>1 DEF Edge
<1>3. PICK edges : edges = [j \in DOMAIN d.edges |-> IF d.edges[j].id = old THEN edge ELSE d.edges[j]]
  OBVIOUS
<1>4. PICK c : c = [nodes |-> d.nodes, edges |-> edges]
  OBVIOUS
<1>5. c.nodes = d.nodes /\ c.edges = edges
  BY <1>4
<1>6. PICK size : size = Len(d.edges)
  OBVIOUS
<1>7. /\ size \in Nat /\ DOMAIN d.edges = 1..size /\ \A i \in 1..size : d.edges[i] \in Range(d.edges)
      /\ \A e \in Range(d.edges) : \E i \in 1..size : d.edges[i] = e
  BY <1>6, EdgeFacts DEF WellFormed
<1>8. PICK all : all = Range(d.edges) \cup {edge}
  OBVIOUS
<1>9. \A i \in 1..size : edges[i] = (IF d.edges[i].id = old THEN edge ELSE d.edges[i]) /\ edges[i] \in all
  BY <1>3, <1>7, <1>8
<1>10. edges \in Seq(all) /\ Len(edges) = size
  <2>1. edges \in [1..size -> all]
    BY <1>3, <1>7, <1>9
  <2>. QED
    BY <1>7, <2>1, SeqOfFunction
<1>11. edges \in Seq(Range(edges)) /\ Range(edges) \subseteq all
  BY <1>10, SeqOfRange, SeqElements
<1>12. IdsOf(c) = IdsOf(d) /\ DistinctNodes(c) /\ (Fitting(d) => Fitting(c))
  BY <1>5 DEF WellFormed, IdsOf, DistinctNodes, Fitting
<1>13. GoodEdge(edge, IdsOf(d))
  BY <1>1, <1>2 DEF GoodEdge
<1>14. WellFormed(c)
  BY <1>4, <1>5, <1>8, <1>11, <1>12, <1>13 DEF WellFormed
<1>15. ASSUME NamedByEditor(d) PROVE NamedByEditor(c)
  <2>1. NamedAfterEnds(c)
    <3>1. \A e \in Range(d.edges) : e.id = EdgeId(e.from, e.to, 1)
      BY <1>15 DEF NamedByEditor, NamedAfterEnds
    <3>2. edge.id = EdgeId(edge.from, edge.to, 1)
      BY <1>2, <1>15
    <3>. QED
      BY <1>5, <1>8, <1>11, <3>1, <3>2 DEF NamedAfterEnds
  <2>2. \A i, j \in 1..size :
          d.edges[i].from = d.edges[j].from /\ d.edges[i].to = d.edges[j].to => i = j
    BY <1>6, <1>15 DEF NamedByEditor, DistinctEnds
  <2>3. \A i \in 1..size : d.edges[i].id = EdgeId(d.edges[i].from, d.edges[i].to, 1)
    BY <1>7, <1>15 DEF NamedByEditor, NamedAfterEnds
  <2>4. \A i \in 1..size : d.edges[i].to \in Types \X Nat
    <3>1. \A e \in Range(d.edges) : e.to \in IdsOf(d)
      BY DEF WellFormed, GoodEdge
    <3>2. IdsOf(d) \subseteq Types \X Nat
      BY IdsFacts DEF WellFormed
    <3>. QED
      BY <1>7, <3>1, <3>2
  <2>5. DistinctEnds(c)
    <3>. SUFFICES ASSUME NEW i \in 1..size, NEW j \in 1..size,
                         edges[i].from = edges[j].from, edges[i].to = edges[j].to
                  PROVE  i = j
      BY <1>5, <1>10 DEF DistinctEnds
    <3>1. CASE d.edges[i].id = old /\ d.edges[j].id = old
      <4>1. EdgeId(d.edges[i].from, d.edges[i].to, 1) = EdgeId(d.edges[j].from, d.edges[j].to, 1)
        BY <2>3, <3>1
      <4>2. d.edges[i].from = d.edges[j].from /\ d.edges[i].to = d.edges[j].to
        BY <2>4, <4>1, NamesOfEnds
      <4>. QED
        BY <2>2, <4>2
    <3>2. CASE d.edges[i].id # old /\ d.edges[j].id # old
      BY <1>9, <2>2, <3>2
    <3>3. CASE d.edges[i].id = old /\ d.edges[j].id # old
      BY <1>2, <1>7, <1>9, <3>3
    <3>4. CASE d.edges[i].id # old /\ d.edges[j].id = old
      BY <1>2, <1>7, <1>9, <3>4
    <3>. QED
      BY <3>1, <3>2, <3>3, <3>4
  <2>. QED
    BY <2>1, <2>5 DEF NamedByEditor
<1>16. edges = [j \in DOMAIN d.edges |->
                  IF d.edges[j].id = old THEN Edge(new, from, to) ELSE d.edges[j]]
  BY <1>1, <1>3
<1>17. [d EXCEPT !.edges = edges] = c
  BY <1>4, Parts
<1>. QED
  BY <1>12, <1>14, <1>15, <1>16, <1>17

-----------------------------------------------------------------------------
(* Free names.                                                             *)

LEMMA LeastIsMin ==
  ASSUME NEW K, K \subseteq Nat, K # {}
  PROVE  Min(K) \in K /\ \A k \in K : Min(K) <= k
<1>1. \E n \in K : \A m \in K : n <= m
  BY LeastNatural
<1>. QED
  BY <1>1 DEF Min

LEMMA FewIds ==
  ASSUME NEW d, WellFormed(d)
  PROVE  /\ Len(d.nodes) \in Nat /\ IsFiniteSet(IdsOf(d)) /\ Cardinality(IdsOf(d)) \in Nat
         /\ Cardinality(IdsOf(d)) <= Len(d.nodes)
<1>1. PICK ids, size : ids = IdsOf(d) /\ size = Len(d.nodes)
  OBVIOUS
<1>2. d.nodes \in Seq(DraftNodes) /\ size \in Nat
  BY <1>1, LenProperties DEF WellFormed
<1>3. PICK f : f = [i \in 1..size |-> d.nodes[i].id]
  OBVIOUS
<1>4. /\ \A i \in 1..size : f[i] \in ids
      /\ \A x \in ids : \E i \in 1..size : f[i] = x
  BY <1>1, <1>2, <1>3, IdsFacts
<1>5. f \in Surjection(1..size, ids)
  BY <1>3, <1>4 DEF Surjection
<1>6. IsFiniteSet(1..size) /\ Cardinality(1..size) = size
  BY <1>2, FS_Interval
<1>. QED
  BY <1>1, <1>2, <1>5, <1>6, FS_Surjection, FS_CardinalityType

\* There is a free number: no draft has as many nodes as there are numbers.
LEMMA FreshId ==
  ASSUME WellFormed(draft), Len(draft.nodes) < MaxNodes, NEW type \in Types
  PROVE  NewId(type) \in Types \X Nat /\ NewId(type) \notin IdsOf(draft)
<1>. DEFINE ids == IdsOf(draft)
            K == {k \in 1..(MaxNodes + 1) : <<type, k>> \notin ids}
<1>1. PICK size : size = Len(draft.nodes)
  OBVIOUS
<1>2. draft.nodes \in Seq(DraftNodes) /\ size \in Nat /\ DOMAIN draft.nodes = 1..size
  BY <1>1, LenProperties DEF WellFormed
<1>3. IsFiniteSet(ids) /\ Cardinality(ids) <= size /\ Cardinality(ids) \in Nat
  BY <1>1, FewIds
<1>4. K # {}
  <2>. SUFFICES ASSUME K = {} PROVE FALSE
    OBVIOUS
  <2>1. PICK f : f = [k \in 1..(MaxNodes + 1) |-> <<type, k>>]
    OBVIOUS
  <2>2. \A k \in 1..(MaxNodes + 1) : f[k] = <<type, k>> /\ f[k] \in ids
    BY <2>1
  <2>3. f \in Injection(1..(MaxNodes + 1), ids)
    BY <2>1, <2>2 DEF Injection, IsInjective
  <2>4. Cardinality(1..(MaxNodes + 1)) = MaxNodes + 1
    BY BoundsAssumption, FS_Interval
  <2>5. Cardinality(1..(MaxNodes + 1)) <= Cardinality(ids)
    BY <1>3, <2>3, FS_Injection
  <2>. QED
    BY <1>1, <1>2, <1>3, <2>4, <2>5, BoundsAssumption
<1>5. Min(K) \in K
  <2>1. K \subseteq Nat
    BY BoundsAssumption
  <2>. HIDE DEF K
  <2>. QED
    BY <1>4, <2>1, LeastIsMin
<1>6. NewId(type) = <<type, Min(K)>>
  BY DEF NewId
<1>. QED
  BY <1>5, <1>6, BoundsAssumption

\* The name of an edge that is bent is the first one of its new ends: nothing has it.
LEMMA FirstName ==
  ASSUME WellFormed(draft), NamedByEditor(draft), NEW old, NEW from, NEW to \in IdsOf(draft),
         \A e \in Range(draft.edges) : e.id # old => ~(e.from = from /\ e.to = to)
  PROVE  UniqueEdgeId(old, from, to) = EdgeId(from, to, 1)
<1>. DEFINE taken == {e.id : e \in Range(Others(old))}
            K == {j \in 1..(Len(draft.edges) + 1) : EdgeId(from, to, j) \notin taken}
<1>1. draft.edges \in Seq(Range(draft.edges)) /\ Len(draft.edges) \in Nat
  BY LenProperties DEF WellFormed
<1>2. \A e \in Range(Others(old)) : e \in Range(draft.edges) /\ e.id # old
  BY <1>1, KeptSeq DEF Others
<1>3. IdsOf(draft) \subseteq Types \X Nat
  BY IdsFacts DEF WellFormed
<1>4. EdgeId(from, to, 1) \notin taken
  <2>. SUFFICES ASSUME NEW e \in Range(Others(old)), e.id = EdgeId(from, to, 1) PROVE FALSE
    OBVIOUS
  <2>1. e.id = EdgeId(e.from, e.to, 1)
    BY <1>2 DEF NamedByEditor, NamedAfterEnds
  <2>2. e.to \in IdsOf(draft)
    BY <1>2 DEF WellFormed, GoodEdge
  <2>3. e.from = from /\ e.to = to
    BY <1>3, <2>1, <2>2, NamesOfEnds
  <2>. QED
    BY <1>2, <2>3
<1>5. 1 \in K /\ K \subseteq Nat /\ \A k \in K : 1 <= k
  BY <1>1, <1>4
<1>6. Min(K) = 1
  <2>. HIDE DEF K
  <2>1. PICK m : m = Min(K)
    OBVIOUS
  <2>2. m \in K /\ m <= 1
    BY <1>5, <2>1, LeastIsMin
  <2>3. m \in Nat /\ 1 <= m
    BY <1>5, <2>2
  <2>. QED
    BY <2>1, <2>2, <2>3
<1>. QED
  BY <1>6 DEF UniqueEdgeId

-----------------------------------------------------------------------------
(* The layout.                                                             *)

LEMMA OutgoingFacts ==
  ASSUME NEW d, WellFormed(d), NEW n
  PROVE  /\ Outgoing(d, n) \in Seq(IdsOf(d))
         /\ \A m : m \in Range(Outgoing(d, n)) <=> Joins(d, n, m)
<1>1. PICK out : out = Keep(d.edges, {e \in Range(d.edges) : e.from = n})
  OBVIOUS
<1>2. d.edges \in Seq(Range(d.edges)) /\ \A e \in Range(d.edges) : e.to \in IdsOf(d)
  BY DEF WellFormed, GoodEdge
<1>3. out \in Seq(Range(out)) /\ \A e : e \in Range(out) <=> e \in Range(d.edges) /\ e.from = n
  BY <1>1, <1>2, KeptSeq
<1>4. /\ Len(out) \in Nat /\ DOMAIN out = 1..Len(out)
      /\ \A i \in 1..Len(out) : out[i] \in Range(out)
      /\ \A e \in Range(out) : \E i \in 1..Len(out) : out[i] = e
  BY <1>3, EdgeFacts
<1>5. PICK targets : targets = [i \in DOMAIN out |-> out[i].to]
  OBVIOUS
<1>6. \A i \in 1..Len(out) : targets[i] = out[i].to /\ targets[i] \in IdsOf(d)
  BY <1>2, <1>3, <1>4, <1>5
<1>7. targets \in [1..Len(out) -> IdsOf(d)]
  BY <1>4, <1>5, <1>6
<1>8. /\ targets \in Seq(IdsOf(d))
      /\ \A i \in 1..Len(out) : targets[i] \in Range(targets)
      /\ \A m \in Range(targets) : \E i \in 1..Len(out) : targets[i] = m
  <2>1. PICK ids, size, t : ids = IdsOf(d) /\ size = Len(out) /\ t = targets
    OBVIOUS
  <2>2. t \in [1..size -> ids] /\ size \in Nat
    BY <1>4, <1>7, <2>1
  <2>3. t \in Seq(ids)
    BY <2>2, SeqOfFunction
  <2>4. DOMAIN t = 1..size
    BY <2>2
  <2>5. \A i \in 1..size : t[i] \in Range(t)
    BY <2>4 DEF Range
  <2>6. \A m \in Range(t) : \E i \in 1..size : t[i] = m
    BY <2>4 DEF Range
  <2>. QED
    BY <2>1, <2>3, <2>5, <2>6
<1>9. ASSUME NEW m \in Range(targets) PROVE Joins(d, n, m)
  <2>1. PICK i \in 1..Len(out) : targets[i] = m
    BY <1>8
  <2>. QED
    BY <1>3, <1>4, <1>6, <2>1 DEF Joins
<1>10. ASSUME NEW m, Joins(d, n, m) PROVE m \in Range(targets)
  <2>1. PICK e \in Range(d.edges) : e.from = n /\ e.to = m
    BY <1>10 DEF Joins
  <2>2. PICK i \in 1..Len(out) : out[i] = e
    BY <1>3, <1>4, <2>1
  <2>. QED
    BY <1>6, <1>8, <2>1, <2>2
<1>11. Outgoing(d, n) = targets
  BY <1>1, <1>5 DEF Outgoing
<1>. QED
  BY <1>8, <1>9, <1>10, <1>11

\* Before the loop: the nodes without an incoming edge have level zero.
LEMMA StartFits ==
  ASSUME NEW d, WellFormed(d)
  PROVE  LayoutFits(StartLayout(d), d)
<1>1. PICK roots : roots = Keep(d.nodes, {v \in Range(d.nodes) : Sources(Graph(d), v.id) = {}})
  OBVIOUS
<1>2. d.nodes \in Seq(DraftNodes)
  BY DEF WellFormed
<1>3. roots \in Seq(DraftNodes) /\ Range(roots) \subseteq Range(d.nodes)
  BY <1>1, <1>2, KeepProperties
<1>4. Len(roots) \in Nat /\ DOMAIN roots = 1..Len(roots)
  BY <1>3, NodeFacts
<1>5. PICK ids : ids = [i \in DOMAIN roots |-> roots[i].id]
  OBVIOUS
<1>6. ASSUME NEW i \in 1..Len(roots) PROVE ids[i] \in IdsOf(d)
  <2>1. roots[i] \in Range(d.nodes)
    BY <1>3, <1>4 DEF Range
  <2>2. PICK j \in DOMAIN d.nodes : d.nodes[j] = roots[i]
    BY <2>1 DEF Range
  <2>. QED
    BY <1>4, <1>5, <2>2 DEF IdsOf
<1>7. ids \in Seq(IdsOf(d)) /\ Range(ids) \subseteq IdsOf(d)
  <2>1. ids \in [1..Len(roots) -> IdsOf(d)]
    BY <1>4, <1>5, <1>6
  <2>. QED
    BY <1>4, <2>1, SeqOfFunction, SeqElements
<1>8. PICK level : level = [n \in Range(ids) |-> 0]
  OBVIOUS
<1>9. PICK l : l = [queue |-> ids, level |-> level]
  OBVIOUS
<1>10. l = StartLayout(d)
  BY <1>1, <1>5, <1>8, <1>9 DEF StartLayout
<1>11. l.queue = ids /\ l.level = level /\ DOMAIN level = Range(ids) /\ \A n \in Range(ids) : level[n] = 0
  BY <1>8, <1>9
<1>12. ASSUME NEW n \in IdsOf(d) PROVE Path(d, n, 0)
  <2>1. PICK p : p = [i \in 0..0 |-> n]
    OBVIOUS
  <2>2. p \in [0..0 -> IdsOf(d)] /\ p[0] = n /\ 1..0 = {}
    BY <2>1
  <2>. QED
    BY <2>2 DEF Path
<1>13. ASSUME NEW n \in IdsOf(d), Sources(Graph(d), n) = {} PROVE n \in Range(ids)
  <2>1. PICK v \in Range(d.nodes) : v.id = n
    BY DEF IdsOf, Range
  <2>2. v \in Range(roots)
    BY <1>1, <1>2, <1>13, <2>1, KeepProperties
  <2>3. PICK i \in DOMAIN roots : roots[i] = v
    BY <2>2 DEF Range
  <2>4. i \in DOMAIN ids /\ ids[i] = n
    BY <1>5, <2>1, <2>3
  <2>. QED
    BY <2>4 DEF Range
<1>14. LayoutFits(l, d)
  BY <1>7, <1>11, <1>12, <1>13 DEF LayoutFits
<1>. QED
  BY <1>10, <1>14

LEMMA LongerPath ==
  ASSUME NEW d, NEW m, NEW n \in IdsOf(d), NEW length \in Nat, Path(d, m, length), Joins(d, m, n)
  PROVE  Path(d, n, length + 1)
<1>1. PICK p \in [0..length -> IdsOf(d)] :
        p[length] = m /\ \A i \in 1..length : Joins(d, p[i - 1], p[i])
  BY DEF Path
<1>2. PICK q : q = [i \in 0..(length + 1) |-> IF i = length + 1 THEN n ELSE p[i]]
  OBVIOUS
<1>3. \A i \in 0..(length + 1) : i = length + 1 \/ i \in 0..length
  OBVIOUS
<1>4. q[length + 1] = n /\ \A i \in 0..length : q[i] = p[i]
  BY <1>2
<1>5. q \in [0..(length + 1) -> IdsOf(d)]
  BY <1>2, <1>3, <1>4
<1>6. ASSUME NEW i \in 1..(length + 1) PROVE Joins(d, q[i - 1], q[i])
  <2>1. CASE i = length + 1
    <3>1. i - 1 = length /\ length \in 0..length
      BY <2>1
    <3>2. q[i - 1] = m /\ q[i] = n
      BY <1>1, <1>4, <2>1, <3>1
    <3>. QED
      BY <3>2
  <2>2. CASE i # length + 1
    <3>1. i \in 1..length /\ i \in 0..length /\ i - 1 \in 0..length
      BY <2>2
    <3>2. q[i - 1] = p[i - 1] /\ q[i] = p[i]
      BY <1>4, <3>1
    <3>. QED
      BY <1>1, <3>1, <3>2
  <2>. QED
    BY <2>1, <2>2
<1>. QED
  BY <1>4, <1>5, <1>6 DEF Path

LEMMA QueueFacts ==
  ASSUME NEW S, NEW q \in Seq(S), q # <<>>
  PROVE  /\ Head(q) \in S /\ Tail(q) \in Seq(S)
         /\ Range(q) = {Head(q)} \cup Range(Tail(q))
<1>1. /\ Head(q) \in S /\ Tail(q) \in Seq(S) /\ Len(Tail(q)) = Len(q) - 1
      /\ \A i \in 1..Len(Tail(q)) : Tail(q)[i] = q[i + 1]
      /\ Len(q) \in Nat \ {0} /\ Head(q) = q[1]
  BY HeadTailProperties, EmptySeq
<1>2. /\ \A x : x \in Range(q) <=> \E i \in 1..Len(q) : q[i] = x
      /\ \A x : x \in Range(Tail(q)) <=> \E i \in 1..Len(Tail(q)) : Tail(q)[i] = x
  BY <1>1, SeqElements
<1>3. ASSUME NEW x \in Range(q) PROVE x \in {Head(q)} \cup Range(Tail(q))
  <2>1. PICK i \in 1..Len(q) : q[i] = x
    BY <1>2
  <2>2. CASE i = 1
    BY <1>1, <2>1, <2>2
  <2>3. CASE i # 1
    <3>1. i - 1 \in 1..Len(Tail(q)) /\ Tail(q)[i - 1] = x
      BY <1>1, <2>1, <2>3
    <3>. QED
      BY <1>2, <3>1
  <2>. QED
    BY <2>2, <2>3
<1>4. ASSUME NEW x \in {Head(q)} \cup Range(Tail(q)) PROVE x \in Range(q)
  <2>1. CASE x = Head(q)
    BY <1>1, <1>2, <2>1
  <2>2. CASE x \in Range(Tail(q))
    <3>1. PICK i \in 1..Len(Tail(q)) : Tail(q)[i] = x
      BY <1>2, <2>2
    <3>2. i + 1 \in 1..Len(q) /\ q[i + 1] = x
      BY <1>1, <3>1
    <3>. QED
      BY <1>2, <3>2
  <2>. QED
    BY <2>1, <2>2
<1>. QED
  BY <1>1, <1>3, <1>4

LEMMA LargerOfTwo ==
  ASSUME NEW a \in Nat, NEW b \in Nat
  PROVE  Max({a, b}) \in {a, b} /\ a <= Max({a, b}) /\ b <= Max({a, b})
<1>1. \E x \in {a, b} : \A y \in {a, b} : x >= y
  <2>1. CASE a >= b
    BY <2>1
  <2>2. CASE b >= a
    BY <2>2
  <2>. QED
    BY <2>1, <2>2
<1>2. PICK m : m = Max({a, b})
  OBVIOUS
<1>3. m \in {a, b} /\ \A y \in {a, b} : m >= y
  BY <1>1, <1>2 DEF Max
<1>. QED
  BY <1>2, <1>3

\* One turn of the loop.
LEMMA TurnFits ==
  ASSUME NEW d, WellFormed(d), NEW l, LayoutFits(l, d), l.queue # <<>>,
         NEW n, n = Head(l.queue), NEW targets, targets = Outgoing(d, n),
         NEW level, level = [m \in DOMAIN l.level \cup Range(targets) |->
                        IF m \notin Range(targets) THEN l.level[m]
                        ELSE IF m \in DOMAIN l.level THEN Max({l.level[m], l.level[n] + 1})
                        ELSE l.level[n] + 1]
  PROVE  LayoutFits([queue |-> Tail(l.queue) \o targets, level |-> level], d)
<1>1. PICK ids, q, rest : ids = IdsOf(d) /\ q = l.queue /\ rest = Tail(q)
  OBVIOUS
<1>2. n \in ids /\ rest \in Seq(ids) /\ Range(q) = {n} \cup Range(rest)
  BY <1>1, QueueFacts DEF LayoutFits
<1>3. targets \in Seq(ids) /\ \A m : m \in Range(targets) <=> Joins(d, n, m)
  BY <1>1, OutgoingFacts
<1>4. Range(targets) \subseteq ids
  BY <1>3, SeqElements
<1>5. n \in DOMAIN l.level /\ DOMAIN l.level \subseteq ids
  BY <1>1, <1>2 DEF LayoutFits
<1>6. \A m \in DOMAIN l.level : l.level[m] \in Nat /\ Path(d, m, l.level[m])
  BY DEF LayoutFits
<1>7. PICK next : next = l.level[n] + 1
  OBVIOUS
<1>8. next \in Nat /\ next > l.level[n]
  BY <1>5, <1>6, <1>7
<1>9. \A m \in Range(targets) : Path(d, m, next)
  BY <1>1, <1>3, <1>4, <1>5, <1>6, <1>7, LongerPath
<1>10. DOMAIN level = DOMAIN l.level \cup Range(targets)
  OBVIOUS
<1>11. ASSUME NEW m \in DOMAIN l.level, m \notin Range(targets) PROVE level[m] = l.level[m]
  BY <1>11
<1>12. ASSUME NEW m \in Range(targets)
       PROVE  /\ level[m] \in Nat /\ Path(d, m, level[m]) /\ level[m] >= next
              /\ m \in DOMAIN l.level => level[m] >= l.level[m]
  <2>1. CASE m \in DOMAIN l.level
    <3>1. PICK old : old = l.level[m]
      OBVIOUS
    <3>2. level[m] = Max({old, next}) /\ old \in Nat
      BY <1>6, <1>7, <2>1, <3>1
    <3>3. level[m] \in {old, next} /\ old <= level[m] /\ next <= level[m]
      BY <1>8, <3>2, LargerOfTwo
    <3>. QED
      BY <1>6, <1>8, <1>9, <2>1, <3>1, <3>2, <3>3
  <2>2. CASE m \notin DOMAIN l.level
    <3>1. level[m] = next
      BY <1>7, <2>2
    <3>. QED
      BY <1>8, <1>9, <2>2, <3>1
  <2>. QED
    BY <2>1, <2>2
<1>13. \A m \in DOMAIN level : level[m] \in Nat /\ Path(d, m, level[m])
  BY <1>6, <1>10, <1>11, <1>12
<1>14. \A m \in DOMAIN l.level : level[m] >= l.level[m]
  BY <1>6, <1>11, <1>12
<1>15. rest \o targets \in Seq(ids) /\ Range(rest \o targets) = Range(rest) \cup Range(targets)
  BY <1>2, <1>3, ConcatProperties, RangeConcatenation
<1>16. ASSUME NEW e \in Range(d.edges), e.from \in DOMAIN level
       PROVE  \/ e.from \in Range(rest \o targets)
              \/ e.to \in DOMAIN level /\ level[e.to] > level[e.from]
  <2>1. CASE e.from \in Range(targets)
    BY <1>15, <2>1
  <2>2. CASE e.from \notin Range(targets)
    <3>1. e.from \in DOMAIN l.level /\ level[e.from] = l.level[e.from]
      BY <1>10, <1>11, <1>16, <2>2
    <3>2. e.from \in Range(q) \/ (e.to \in DOMAIN l.level /\ l.level[e.to] > l.level[e.from])
      BY <1>1, <3>1 DEF LayoutFits
    <3>3. CASE e.from = n
      <4>1. e.to \in Range(targets)
        BY <1>3, <3>3 DEF Joins
      <4>2. level[e.to] \in Nat /\ level[e.to] >= next /\ e.to \in DOMAIN level
        BY <1>10, <1>12, <4>1
      <4>. QED
        BY <1>6, <1>8, <3>1, <3>3, <4>2
    <3>4. CASE e.from \in Range(rest)
      BY <1>15, <3>4
    <3>5. CASE e.to \in DOMAIN l.level /\ l.level[e.to] > l.level[e.from]
      <4>1. e.to \in DOMAIN level /\ level[e.to] >= l.level[e.to] /\ level[e.to] \in Nat
        BY <1>10, <1>13, <1>14, <3>5
      <4>. QED
        BY <1>6, <3>1, <3>5, <4>1
    <3>. QED
      BY <1>2, <3>2, <3>3, <3>4, <3>5
  <2>. QED
    BY <2>1, <2>2
<1>17. PICK new : new = [queue |-> rest \o targets, level |-> level]
  OBVIOUS
<1>18. new.queue = rest \o targets /\ new.level = level
  BY <1>17
<1>19. LayoutFits(new, d)
  <2>1. Range(rest) \subseteq DOMAIN l.level
    BY <1>1, <1>2 DEF LayoutFits
  <2>2. Range(new.queue) \subseteq DOMAIN level
    BY <1>10, <1>15, <1>18, <2>1
  <2>3. \A m \in ids : Sources(Graph(d), m) = {} => m \in DOMAIN level
    BY <1>1, <1>10 DEF LayoutFits
  <2>. QED
    BY <1>1, <1>4, <1>5, <1>10, <1>13, <1>15, <1>16, <1>18, <2>2, <2>3 DEF LayoutFits
<1>. QED
  BY <1>1, <1>17, <1>19

\* A path longer than the draft has nodes goes round a cycle.
LEMMA LongPathsTurn ==
  ASSUME NEW d, WellFormed(d), NEW n, NEW length \in Nat, Path(d, n, length),
         length > Len(d.nodes)
  PROVE  ~Acyclic(Graph(d), IdsOf(d))
<1>1. PICK ids, size : ids = IdsOf(d) /\ size = Len(d.nodes)
  OBVIOUS
<1>2. PICK p \in [0..length -> ids] : \A i \in 1..length : Joins(d, p[i - 1], p[i])
  BY <1>1 DEF Path
<1>3. IsFiniteSet(ids) /\ Cardinality(ids) <= size /\ size \in Nat /\ Cardinality(ids) \in Nat
  BY <1>1, FewIds
<1>4. PICK a \in 0..length, b \in 0..length : a # b /\ p[a] = p[b]
  <2>1. IsFiniteSet(0..length) /\ Cardinality(0..length) = length + 1
    BY FS_Interval
  <2>. QED
    BY <1>1, <1>3, <2>1, FS_PigeonHole
<1>5. PICK x \in 0..length, y \in 0..length : x < y /\ p[x] = p[y]
  <2>1. CASE a < b
    BY <1>4, <2>1
  <2>2. CASE b < a
    BY <1>4, <2>2
  <2>. QED
    BY <1>4, <2>1, <2>2
<1>6. PICK S : S = {p[i] : i \in x..(y - 1)}
  OBVIOUS
<1>7. S \subseteq ids /\ p[x] \in S
  BY <1>5, <1>6
<1>8. ASSUME NEW m \in S PROVE Sources(Graph(d), m) \cap S # {}
  <2>1. PICK i \in x..(y - 1) : p[i] = m
    BY <1>6
  <2>2. PICK j \in x..(y - 1) : j + 1 \in 1..length /\ p[j + 1] = m
    <3>1. CASE i = x
      <4>1. y - 1 \in x..(y - 1) /\ (y - 1) + 1 = y /\ y \in 1..length
        BY <1>5
      <4>2. p[y] = m
        BY <1>5, <2>1, <3>1
      <4>. QED
        BY <4>1, <4>2
    <3>2. CASE i # x
      <4>1. i - 1 \in x..(y - 1) /\ (i - 1) + 1 = i /\ i \in 1..length
        BY <1>5, <3>2
      <4>. QED
        BY <2>1, <4>1
    <3>. QED
      BY <3>1, <3>2
  <2>3. Joins(d, p[j], m)
    <3>1. (j + 1) - 1 = j
      BY <1>5
    <3>. QED
      BY <1>2, <2>2, <3>1
  <2>4. PICK e \in Range(d.edges) : e.from = p[j] /\ e.to = m
    BY <2>3 DEF Joins
  <2>5. <<p[j], m>> \in Graph(d).edges
    BY <2>4 DEF Graph
  <2>6. p[j] \in Sources(Graph(d), m)
    BY <2>5 DEF Sources
  <2>. QED
    BY <1>6, <2>6
<1>. QED
  BY <1>1, <1>7, <1>8 DEF Acyclic

-----------------------------------------------------------------------------
(* The page.                                                               *)

\* A page before its effects: they will find its selection on the screen or replace it.
IsShown(p) ==
  /\ IsPage(p) /\ p.editing \in BOOLEAN
  /\ p.dialog # None => p.editing

LEMMA ReselectFits ==
  ASSUME NEW d, WellFormed(d), NEW p, IsShown(p)
  PROVE  PageFits(Reselect(p, d), d) /\ Reselect(p, d).editing = p.editing
<1>1. PICK node, dialog :
        /\ node = IF p.node \in IdsOf(d) THEN p.node
                  ELSE IF d.nodes = <<>> THEN None ELSE d.nodes[1].id
        /\ dialog = IF p.dialog \in IdsOf(d) THEN p.dialog ELSE None
  OBVIOUS
<1>2. Reselect(p, d) = [editing |-> p.editing, node |-> node, edge |-> p.edge, dialog |-> dialog]
  <2>1. Reselect(p, d) = [p EXCEPT !.node = node, !.dialog = dialog]
    BY <1>1 DEF Reselect
  <2>2. p = [editing |-> p.editing, node |-> p.node, edge |-> p.edge, dialog |-> p.dialog]
    BY DEF IsShown, IsPage
  <2>. QED
    BY <2>1, <2>2
<1>3. d.nodes # <<>> => d.nodes[1].id \in IdsOf(d)
  <2>1. d.nodes # <<>> => 1 \in 1..Len(d.nodes)
    BY EmptySeq, LenProperties DEF WellFormed
  <2>. QED
    BY <2>1, IdsFacts DEF WellFormed
<1>4. node \in IdsOf(d) \cup IF d.nodes = <<>> THEN {None} ELSE {}
  BY <1>1, <1>3
<1>5. PICK r : r = Reselect(p, d)
  OBVIOUS
<1>6. r.editing = p.editing /\ r.node = node /\ r.edge = p.edge /\ r.dialog = dialog
  BY <1>2, <1>5
<1>7. IsPage(r)
  BY <1>2, <1>5, <1>6 DEF IsPage
<1>8. PageFits(r, d)
  BY <1>1, <1>4, <1>6, <1>7 DEF PageFits, IsShown
<1>. QED
  BY <1>5, <1>6, <1>8

\* The page renders a well-formed definition.
LEMMA ShownFits ==
  ASSUME DraftInv, NEW d, WellFormed(d), NEW p, IsShown(p), Shows(p, d)
  PROVE  PageFits(page', d) /\ LayoutFits(layout', d) /\ page'.editing = p.editing
<1>1. page' = Reselect(p, d) /\ layout' = IF d = Active THEN layout ELSE StartLayout(d)
  BY DEF Shows
<1>2. LayoutFits(layout', d)
  <2>1. CASE d = Active
    BY <1>1, <2>1 DEF DraftInv
  <2>2. CASE d # Active
    BY <1>1, <2>2, StartFits
  <2>. QED
    BY <2>1, <2>2
<1>. QED
  BY <1>1, <1>2, ReselectFits

\* What a change of the draft leaves as it was.
Keeps(d) ==
  /\ WellFormed(d)
  /\ NamedByEditor(draft) => NamedByEditor(d)
  /\ Fitting(draft) => Fitting(d)

FitInv == Fitting(saved) /\ Fitting(draft)

LEMMA ChangeStep ==
  ASSUME DraftInv, NEW d, Keeps(d), NEW p, IsShown(p), p.editing = TRUE, Change(d, p)
  PROVE  DraftInv' /\ (FitInv => FitInv')
<1>1. /\ edits < MaxEdits /\ edits' = edits + 1
      /\ draft' = d /\ saved' = saved /\ Shows(p, d)
  BY DEF Change
<1>2. WellFormed(d) /\ (NamedByEditor(draft) => NamedByEditor(d)) /\ (Fitting(draft) => Fitting(d))
  BY DEF Keeps
<1>3. PageFits(page', d) /\ LayoutFits(layout', d) /\ page'.editing = TRUE
  BY <1>1, <1>2, ShownFits
<1>4. Active' = d
  BY <1>1, <1>3 DEF Active
<1>5. edits' \in 0..MaxEdits
  BY <1>1, BoundsAssumption DEF DraftInv
<1>6. DraftInv'
  BY <1>1, <1>2, <1>3, <1>4, <1>5 DEF DraftInv
<1>7. FitInv => FitInv'
  BY <1>1, <1>2 DEF FitInv
<1>. QED
  BY <1>6, <1>7

LEMMA EditedPage ==
  ASSUME DraftInv, page.editing
  PROVE  /\ page.editing = TRUE /\ Active = draft
         /\ page = [editing |-> TRUE, node |-> page.node, edge |-> page.edge,
                    dialog |-> page.dialog]
BY DEF DraftInv, PageFits, IsPage, Active

\* While the dialog is open the draft is on screen, and the dialog shows a node of it.
LEMMA DialogFacts ==
  ASSUME DraftInv, InDialog
  PROVE  page.editing /\ page.dialog \in IdsOf(draft) /\ Edited \in Configs
         /\ \E i \in 1..Len(draft.nodes) :
              draft.nodes[i].id = page.dialog /\ Edited = draft.nodes[i].config
<1>1. page.editing /\ page.dialog \in IdsOf(Active)
  BY DEF DraftInv, InDialog, PageFits
<1>2. page.dialog \in IdsOf(draft)
  BY <1>1, EditedPage
<1>3. draft.nodes \in Seq(DraftNodes)
  BY DEF DraftInv, WellFormed
<1>4. \E i \in DOMAIN draft.nodes : draft.nodes[i].id = page.dialog
  <2>1. \E i \in 1..Len(draft.nodes) : draft.nodes[i].id = page.dialog
    BY <1>2, <1>3, IdsFacts
  <2>2. DOMAIN draft.nodes = 1..Len(draft.nodes)
    BY <1>3, NodeFacts
  <2>. QED
    BY <2>1, <2>2
<1>5. PICK i : i = CHOOSE k \in DOMAIN draft.nodes : draft.nodes[k].id = page.dialog
  OBVIOUS
<1>6. i \in DOMAIN draft.nodes /\ draft.nodes[i].id = page.dialog
  BY <1>4, <1>5
<1>7. Edited = draft.nodes[i].config
  BY <1>5 DEF Edited
<1>. QED
  BY <1>1, <1>2, <1>3, <1>6, <1>7, NodeFacts

-----------------------------------------------------------------------------
(* Gestures.                                                               *)

LEMMA AddNodeStep ==
  ASSUME DraftInv, NEW type \in Types, AddNode(type)
  PROVE  DraftInv' /\ (FitInv => FitInv')
<1>1. WellFormed(draft) /\ page.editing /\ Len(draft.nodes) < MaxNodes
  BY DEF AddNode, Editing, DraftInv
<1>2. PICK node : node = NewNode(type)
  OBVIOUS
<1>3. node.id = NewId(type) /\ node.config \in {NewAi, Plain}
      /\ node = [id |-> node.id, config |-> node.config]
  BY <1>2 DEF NewNode
<1>4. {NewAi, Plain} \subseteq Configs /\ node.config.credential = None
  BY <1>3 DEF NewAi, Plain, Configs, Providers
<1>5. node \in DraftNodes /\ node.id \notin IdsOf(draft)
  BY <1>1, <1>3, <1>4, FreshId DEF DraftNodes
<1>6. PICK d : d = [draft EXCEPT !.nodes = Append(@, node)]
  OBVIOUS
<1>7. Keeps(d)
  BY <1>1, <1>4, <1>5, <1>6, WithNode DEF Keeps
<1>8. PICK p : p = [page EXCEPT !.node = node.id, !.edge = None]
  OBVIOUS
<1>9. IsShown(p) /\ p.editing = TRUE
  BY <1>1, <1>8, EditedPage DEF IsShown, IsPage
<1>10. Change(d, p)
  BY <1>2, <1>6, <1>8 DEF AddNode
<1>. QED
  BY <1>7, <1>9, <1>10, ChangeStep

LEMMA DeleteNodeStep ==
  ASSUME DraftInv, DeleteNode
  PROVE  DraftInv' /\ (FitInv => FitInv')
<1>1. page.editing /\ WellFormed(draft)
  BY DialogFacts DEF DeleteNode, DraftInv
<1>2. PICK d : d = Without(draft, {page.dialog})
  OBVIOUS
<1>3. Keeps(d)
  BY <1>1, <1>2, WithoutNodes DEF Keeps
<1>4. PICK p : p = [page EXCEPT !.dialog = None,
                                !.node = IF @ = page.dialog THEN None ELSE @]
  OBVIOUS
<1>5. IsShown(p) /\ p.editing = TRUE
  BY <1>1, <1>4, EditedPage DEF IsShown, IsPage
<1>6. Change(d, p)
  BY <1>2, <1>4 DEF DeleteNode
<1>. QED
  BY <1>3, <1>5, <1>6, ChangeStep

LEMMA ConfigStep ==
  ASSUME DraftInv, InDialog, NEW config \in Configs, UpdateNode(page.dialog, config),
         Fitting(draft) /\ config.credential # None
           => CredentialType[config.credential] = config.provider
  PROVE  DraftInv' /\ (FitInv => FitInv')
<1>1. page.editing /\ WellFormed(draft)
  BY DialogFacts DEF DraftInv
<1>2. PICK d : d = [draft EXCEPT !.nodes = [i \in DOMAIN @ |->
                      IF @[i].id = page.dialog THEN [@[i] EXCEPT !.config = config] ELSE @[i]]]
  OBVIOUS
<1>3. Keeps(d)
  BY <1>1, <1>2, WithConfig DEF Keeps
<1>4. IsShown(page) /\ page.editing = TRUE
  BY <1>1, EditedPage DEF IsShown, IsPage
<1>5. Change(d, page)
  BY <1>2 DEF UpdateNode
<1>. QED
  BY <1>3, <1>4, <1>5, ChangeStep

LEMMA EditConfigStep ==
  ASSUME DraftInv, EditConfig
  PROVE  DraftInv' /\ (FitInv => FitInv')
<1>1. InDialog
  BY DEF EditConfig
<1>2. PICK old, config : old = Edited /\ config = [old EXCEPT !.valid = ~@]
  OBVIOUS
<1>3. old \in Configs
  BY <1>1, <1>2, DialogFacts
<1>4. config \in Configs /\ config.credential = old.credential /\ config.provider = old.provider
  BY <1>2, <1>3 DEF Configs
<1>5. Fitting(draft) /\ config.credential # None
        => CredentialType[config.credential] = config.provider
  <2>1. PICK i \in 1..Len(draft.nodes) : Edited = draft.nodes[i].config
    BY <1>1, DialogFacts
  <2>2. i \in DOMAIN draft.nodes
    BY <2>1, NodeFacts DEF DraftInv, WellFormed
  <2>. QED
    BY <1>2, <1>4, <2>1, <2>2 DEF Fitting
<1>6. UpdateNode(page.dialog, config)
  BY <1>2 DEF EditConfig
<1>. QED
  BY <1>1, <1>4, <1>5, <1>6, ConfigStep

LEMMA ChangeProviderStep ==
  ASSUME DraftInv, NEW provider \in Providers, ChangeProvider(provider)
  PROVE  DraftInv' /\ (FitInv => FitInv')
<1>1. InDialog
  BY DEF ChangeProvider, EditsAi
<1>2. PICK old, config : old = Edited /\ config = WithProvider(old, provider)
  OBVIOUS
<1>3. old \in Configs
  BY <1>1, <1>2, DialogFacts
<1>4. config \in Configs /\ config.credential = None
  BY <1>2, <1>3 DEF Configs, WithProvider
<1>5. UpdateNode(page.dialog, config)
  BY <1>2 DEF ChangeProvider
<1>. QED
  BY <1>1, <1>4, <1>5, ConfigStep

LEMMA PickCredentialStep ==
  ASSUME DraftInv, NEW c \in DOMAIN CredentialType \cup {None}, PickCredential(c)
  PROVE  DraftInv' /\ (FitInv => FitInv')
<1>1. InDialog /\ c \in Compatible(Edited.provider) \cup {None}
  BY DEF PickCredential, EditsAi
<1>2. PICK old, config : old = Edited /\ config = [old EXCEPT !.credential = c]
  OBVIOUS
<1>3. old \in Configs
  BY <1>1, <1>2, DialogFacts
<1>4. config \in Configs /\ config.credential = c /\ config.provider = old.provider
  BY <1>2, <1>3 DEF Configs
<1>5. c # None => CredentialType[c] = old.provider
  BY <1>1, <1>2 DEF Compatible
<1>6. UpdateNode(page.dialog, config)
  BY <1>2 DEF PickCredential
<1>. QED
  BY <1>1, <1>4, <1>5, <1>6, ConfigStep

LEMMA ConnectStep ==
  ASSUME DraftInv, NEW from \in IdsOf(draft), NEW to \in IdsOf(draft), Connect(from, to)
  PROVE  DraftInv' /\ (FitInv => FitInv')
<1>1. WellFormed(draft) /\ page.editing /\ Joinable(from, to)
  BY DEF Connect, Editing, DraftInv
<1>2. PICK id : id = EdgeId(from, to, 1)
  OBVIOUS
<1>3. PICK d : d = IF \E e \in Range(draft.edges) : e.from = from /\ e.to = to THEN draft
                   ELSE [draft EXCEPT !.edges = Append(@, Edge(id, from, to))]
  OBVIOUS
<1>4. Keeps(d)
  <2>1. CASE \E e \in Range(draft.edges) : e.from = from /\ e.to = to
    BY <1>1, <1>3, <2>1 DEF Keeps
  <2>2. CASE ~\E e \in Range(draft.edges) : e.from = from /\ e.to = to
    BY <1>1, <1>2, <1>3, <2>2, WithEdge DEF Keeps
  <2>. QED
    BY <2>1, <2>2
<1>5. PICK p : p = [page EXCEPT !.edge = id]
  OBVIOUS
<1>6. IsShown(p) /\ p.editing = TRUE
  BY <1>1, <1>5, EditedPage DEF IsShown, IsPage
<1>7. Change(d, p)
  BY <1>2, <1>3, <1>5 DEF Connect
<1>. QED
  BY <1>4, <1>6, <1>7, ChangeStep

LEMMA DeleteEdgeStep ==
  ASSUME DraftInv, NEW id, DeleteEdge(id)
  PROVE  DraftInv' /\ (FitInv => FitInv')
<1>1. WellFormed(draft) /\ page.editing
  BY DEF DeleteEdge, Editing, DraftInv
<1>2. PICK d : d = [draft EXCEPT !.edges = Others(id)]
  OBVIOUS
<1>3. Keeps(d)
  BY <1>1, <1>2, WithFewerEdges DEF Others, Keeps
<1>4. PICK p : p = [page EXCEPT !.edge = None]
  OBVIOUS
<1>5. IsShown(p) /\ p.editing = TRUE
  BY <1>1, <1>4, EditedPage DEF IsShown, IsPage
<1>6. Change(d, p)
  BY <1>2, <1>4 DEF DeleteEdge
<1>. QED
  BY <1>3, <1>5, <1>6, ChangeStep

LEMMA UpdateSelectedEdgeStep ==
  ASSUME DraftInv, NEW from \in IdsOf(draft), NEW to \in IdsOf(draft),
         UpdateSelectedEdge(from, to)
  PROVE  DraftInv' /\ (FitInv => FitInv')
<1>1. WellFormed(draft) /\ page.editing
  BY DEF UpdateSelectedEdge, Editing, DraftInv
<1>2. PICK old, id :
        /\ ~EdgeRefused(old, from, to) /\ id = UniqueEdgeId(old, from, to)
        /\ Change([draft EXCEPT !.edges = [j \in DOMAIN @ |->
                     IF @[j].id = old THEN Edge(id, from, to) ELSE @[j]]],
                  [page EXCEPT !.edge = id])
  <2>1. PICK i \in DOMAIN draft.edges :
          /\ ~EdgeRefused(draft.edges[i].id, from, to)
          /\ LET id == UniqueEdgeId(draft.edges[i].id, from, to) IN
               Change([draft EXCEPT !.edges = [j \in DOMAIN @ |->
                         IF @[j].id = draft.edges[i].id THEN Edge(id, from, to) ELSE @[j]]],
                      [page EXCEPT !.edge = id])
    BY DEF UpdateSelectedEdge
  <2>2. PICK old, id : old = draft.edges[i].id /\ id = UniqueEdgeId(old, from, to)
    OBVIOUS
  <2>3. Change([draft EXCEPT !.edges = [j \in DOMAIN @ |->
                  IF @[j].id = old THEN Edge(id, from, to) ELSE @[j]]],
               [page EXCEPT !.edge = id])
    BY <2>1, <2>2
  <2>. QED
    BY <2>1, <2>2, <2>3
<1>3. /\ from # to /\ ~IsTrigger(to)
      /\ \A e \in Range(Others(old)) : ~(e.from = from /\ e.to = to)
  BY <1>2 DEF EdgeRefused
<1>4. \A e \in Range(draft.edges) : e.id # old => ~(e.from = from /\ e.to = to)
  <2>1. draft.edges \in Seq(Range(draft.edges))
    BY <1>1 DEF WellFormed
  <2>2. Range(Others(old)) = Range(draft.edges) \cap {e \in Range(draft.edges) : e.id # old}
    BY <2>1, KeptSeq DEF Others
  <2>. QED
    BY <1>3, <2>2
<1>5. NamedByEditor(draft) => id = EdgeId(from, to, 1)
  BY <1>1, <1>2, <1>4, FirstName
<1>6. PICK d : d = [draft EXCEPT !.edges = [j \in DOMAIN @ |->
                     IF @[j].id = old THEN Edge(id, from, to) ELSE @[j]]]
  OBVIOUS
<1>7. Keeps(d)
  BY <1>1, <1>3, <1>4, <1>5, <1>6, WithEdgeMoved DEF Keeps
<1>8. PICK p : p = [page EXCEPT !.edge = id]
  OBVIOUS
<1>9. IsShown(p) /\ p.editing = TRUE
  BY <1>1, <1>8, EditedPage DEF IsShown, IsPage
<1>. QED
  BY <1>2, <1>6, <1>7, <1>8, <1>9, ChangeStep

LEMMA PressDeleteStep ==
  ASSUME DraftInv, NEW S, NEW ids, PressDelete(S, ids)
  PROVE  DraftInv' /\ (FitInv => FitInv')
<1>1. WellFormed(draft) /\ page.editing
  BY DEF PressDelete, Editing, DraftInv
<1>2. IsShown(page) /\ page.editing = TRUE
  BY <1>1, EditedPage DEF IsShown, IsPage
<1>3. PICK byEdges, byNodes :
        /\ byEdges = [draft EXCEPT !.edges =
                        Keep(@, {e \in Range(draft.edges) : e.id \notin ids /\ ~Incident(e, S)})]
        /\ byNodes = Without(draft, S)
  OBVIOUS
<1>4. Keeps(byEdges)
  BY <1>1, <1>3, WithFewerEdges DEF Keeps
<1>5. Keeps(byNodes)
  BY <1>1, <1>3, WithoutNodes DEF Keeps
<1>6. Change(byNodes, page) \/ Change(byEdges, page)
  BY <1>3 DEF PressDelete
<1>. QED
  BY <1>2, <1>4, <1>5, <1>6, ChangeStep

\* Gestures that leave the draft alone.

LEMMA StartEditingStep ==
  ASSUME DraftInv, StartEditing
  PROVE  DraftInv'
<1>1. PICK p : p = [page EXCEPT !.editing = TRUE]
  OBVIOUS
<1>2. IsShown(p) /\ p.editing = TRUE
  BY <1>1 DEF DraftInv, PageFits, IsPage, IsShown
<1>3. Shows(p, draft) /\ saved' = saved /\ draft' = draft /\ edits' = edits
  BY <1>1 DEF StartEditing
<1>4. WellFormed(draft)
  BY DEF DraftInv
<1>5. PageFits(page', draft) /\ LayoutFits(layout', draft) /\ page'.editing = TRUE
  BY <1>2, <1>3, <1>4, ShownFits
<1>6. Active' = draft
  BY <1>3, <1>5 DEF Active
<1>. QED
  BY <1>3, <1>5, <1>6 DEF DraftInv

LEMMA OpenNodeEditorStep ==
  ASSUME DraftInv, NEW n, OpenNodeEditor(n)
  PROVE  DraftInv'
<1>1. PICK p : p = [page EXCEPT !.editing = TRUE, !.node = n, !.edge = None, !.dialog = n]
  OBVIOUS
<1>2. IsShown(p) /\ p.editing = TRUE
  BY <1>1 DEF DraftInv, PageFits, IsPage, IsShown
<1>3. Shows(p, draft) /\ saved' = saved /\ draft' = draft /\ edits' = edits
  BY <1>1 DEF OpenNodeEditor
<1>4. WellFormed(draft)
  BY DEF DraftInv
<1>5. PageFits(page', draft) /\ LayoutFits(layout', draft) /\ page'.editing = TRUE
  BY <1>2, <1>3, <1>4, ShownFits
<1>6. Active' = draft
  BY <1>3, <1>5 DEF Active
<1>. QED
  BY <1>3, <1>5, <1>6 DEF DraftInv

\* Only the selection and the dialog change, to what is on screen.
LEMMA SelectionStep ==
  ASSUME DraftInv, page' = [page EXCEPT !.node = page'.node, !.edge = page'.edge,
                                        !.dialog = page'.dialog],
         page'.node \in IdsOf(Active) \cup {page.node}, page'.dialog \in {page.dialog, None},
         UNCHANGED <<saved, draft, layout, edits>>
  PROVE  DraftInv'
<1>1. PICK node, edge, dialog : node = page'.node /\ edge = page'.edge /\ dialog = page'.dialog
  OBVIOUS
<1>2. page = [editing |-> page.editing, node |-> page.node, edge |-> page.edge,
              dialog |-> page.dialog]
  BY DEF DraftInv, PageFits, IsPage
<1>3. page' = [editing |-> page.editing, node |-> node, edge |-> edge, dialog |-> dialog]
  BY <1>1, <1>2
<1>4. Active' = Active
  BY <1>3 DEF Active
<1>5. PageFits(page', Active)
  BY <1>1, <1>3 DEF DraftInv, PageFits, IsPage
<1>. QED
  BY <1>4, <1>5 DEF DraftInv

LEMMA SelectionSteps ==
  ASSUME DraftInv,
         \/ \E n \in IdsOf(Active) : SelectNode(n)
         \/ \E e : SelectEdge(e)
         \/ CloseNodeEditor
  PROVE  DraftInv' /\ UNCHANGED <<saved, draft>>
<1>1. page = [editing |-> page.editing, node |-> page.node, edge |-> page.edge,
              dialog |-> page.dialog]
  BY DEF DraftInv, PageFits, IsPage
<1>2. ASSUME NEW n \in IdsOf(Active), SelectNode(n)
      PROVE  DraftInv' /\ UNCHANGED <<saved, draft>>
  <2>1. page' = [editing |-> page.editing, node |-> n, edge |-> None, dialog |-> page.dialog]
    BY <1>1, <1>2 DEF SelectNode
  <2>. QED
    BY <1>1, <1>2, <2>1, SelectionStep DEF SelectNode
<1>3. ASSUME NEW e, SelectEdge(e)
      PROVE  DraftInv' /\ UNCHANGED <<saved, draft>>
  <2>1. page' = [editing |-> page.editing, node |-> page.node, edge |-> e.id,
                 dialog |-> page.dialog]
    BY <1>1, <1>3 DEF SelectEdge
  <2>. QED
    BY <1>1, <1>3, <2>1, SelectionStep DEF SelectEdge
<1>4. ASSUME CloseNodeEditor
      PROVE  DraftInv' /\ UNCHANGED <<saved, draft>>
  <2>1. page' = [editing |-> page.editing, node |-> page.node, edge |-> page.edge,
                 dialog |-> None]
    BY <1>1, <1>4 DEF CloseNodeEditor
  <2>. QED
    BY <1>1, <1>4, <2>1, SelectionStep DEF CloseNodeEditor
<1>. QED
  BY <1>2, <1>3, <1>4

\* What the schema accepts joins no two nodes twice: a saved draft is a stored definition.
LEMMA SaveStep ==
  ASSUME DraftInv, Save
  PROVE  DraftInv' /\ (FitInv => FitInv')
<1>1. /\ page.editing /\ page.dialog = None /\ Accepted(draft) /\ WellFormed(draft)
      /\ saved' = draft /\ draft' = draft /\ layout' = layout /\ edits' = edits
      /\ page' = [page EXCEPT !.editing = FALSE]
  BY DEF Save, Editing, Free, DraftInv
<1>2. page' = [editing |-> FALSE, node |-> page.node, edge |-> page.edge, dialog |-> None]
  BY <1>1 DEF DraftInv, PageFits, IsPage
<1>3. Active = draft /\ Active' = draft
  BY <1>1, <1>2 DEF Active
<1>4. DistinctEnds(draft)
  <2>1. IsDefinition(draft)
    BY <1>1 DEF WellFormed, GoodEdge, IsDefinition
  <2>. QED
    BY <1>1, <2>1, AcceptedIsWellFormed
<1>5. PageFits(page', draft)
  BY <1>2, <1>3 DEF DraftInv, PageFits, IsPage
<1>6. DraftInv'
  BY <1>1, <1>3, <1>4, <1>5 DEF DraftInv, NamedByEditor
<1>7. FitInv => FitInv'
  BY <1>1 DEF FitInv
<1>. QED
  BY <1>6, <1>7

LEMMA DiscardDraftStep ==
  ASSUME DraftInv, DiscardDraft
  PROVE  DraftInv' /\ (FitInv => FitInv')
<1>1. PICK p : p = [page EXCEPT !.editing = FALSE]
  OBVIOUS
<1>2. page.dialog = None /\ draft' = saved /\ saved' = saved /\ edits' = edits /\ Shows(p, saved)
  BY <1>1 DEF DiscardDraft, Editing, Free
<1>3. IsShown(p) /\ p.editing = FALSE
  BY <1>1, <1>2 DEF DraftInv, PageFits, IsPage, IsShown
<1>4. WellFormed(saved) /\ Accepted(saved)
  BY DEF DraftInv
<1>5. PageFits(page', saved) /\ LayoutFits(layout', saved) /\ page'.editing = FALSE
  BY <1>2, <1>3, <1>4, ShownFits
<1>6. Active' = saved
  BY <1>2, <1>5 DEF Active
<1>7. DistinctEnds(saved)
  <2>1. IsDefinition(saved)
    BY <1>4 DEF WellFormed, GoodEdge, IsDefinition
  <2>. QED
    BY <1>4, <2>1, AcceptedIsWellFormed
<1>8. DraftInv'
  BY <1>2, <1>4, <1>5, <1>6, <1>7 DEF DraftInv, NamedByEditor
<1>9. FitInv => FitInv'
  BY <1>2 DEF FitInv
<1>. QED
  BY <1>8, <1>9

LEMMA LayOutStep ==
  ASSUME DraftInv, LayOut
  PROVE  DraftInv' /\ UNCHANGED <<saved, draft>>
<1>1. WellFormed(Active) /\ LayoutFits(layout, Active) /\ layout.queue # <<>>
  BY DEF DraftInv, Active, LayOut, Ready
<1>2. PICK d, n, targets : d = Active /\ n = Head(layout.queue) /\ targets = Outgoing(d, n)
  OBVIOUS
<1>3. PICK level : level = [m \in DOMAIN layout.level \cup Range(targets) |->
                        IF m \notin Range(targets) THEN layout.level[m]
                        ELSE IF m \in DOMAIN layout.level THEN Max({layout.level[m], layout.level[n] + 1})
                        ELSE layout.level[n] + 1]
  OBVIOUS
<1>4. layout' = [queue |-> Tail(layout.queue) \o targets, level |-> level]
  BY <1>2, <1>3 DEF LayOut, Requeue
<1>5. LayoutFits(layout', d)
  BY <1>1, <1>2, <1>3, <1>4, TurnFits
<1>6. saved' = saved /\ draft' = draft /\ page' = page /\ edits' = edits /\ Active' = Active
  BY DEF LayOut, Active
<1>. QED
  BY <1>2, <1>5, <1>6 DEF DraftInv

-----------------------------------------------------------------------------
(* The invariant.                                                          *)

LEMMA Start ==
  ASSUME Init
  PROVE  DraftInv
<1>1. IsDefinition(saved) /\ Accepted(saved) /\ draft = saved /\ edits = 0
      /\ layout = StartLayout(saved)
  BY InitialAssumption DEF Init
<1>2. WellFormed(saved) /\ DistinctEnds(saved)
  BY <1>1, AcceptedIsWellFormed
<1>3. PICK p : p = [editing |-> FALSE, node |-> None, edge |-> None, dialog |-> None]
  OBVIOUS
<1>4. IsShown(p) /\ p.editing = FALSE
  BY <1>3 DEF IsShown, IsPage
<1>5. PageFits(page, saved) /\ page.editing = FALSE
  BY <1>2, <1>3, <1>4, ReselectFits DEF Init
<1>6. Active = saved
  BY <1>5 DEF Active
<1>7. LayoutFits(layout, saved)
  BY <1>1, <1>2, StartFits
<1>. QED
  BY <1>1, <1>2, <1>5, <1>6, <1>7, BoundsAssumption DEF DraftInv, NamedByEditor

LEMMA Step ==
  ASSUME DraftInv, [Next]_vars
  PROVE  DraftInv' /\ (FitInv => FitInv')
<1>1. CASE UNCHANGED vars
  <2>1. Active' = Active
    BY <1>1 DEF vars, Active
  <2>. QED
    BY <1>1, <2>1 DEF vars, DraftInv, FitInv
<1>2. CASE LayOut
  BY <1>2, LayOutStep DEF FitInv
<1>3. CASE StartEditing \/ \E n \in IdsOf(Active) : OpenNodeEditor(n)
  <2>1. UNCHANGED <<saved, draft>>
    BY <1>3 DEF StartEditing, OpenNodeEditor
  <2>. QED
    BY <1>3, <2>1, StartEditingStep, OpenNodeEditorStep DEF FitInv
<1>4. CASE \/ \E n \in IdsOf(Active) : SelectNode(n)
           \/ \E e \in Range(Active.edges) : SelectEdge(e)
           \/ CloseNodeEditor
  BY <1>4, SelectionSteps DEF FitInv
<1>5. CASE Save \/ DiscardDraft
  BY <1>5, SaveStep, DiscardDraftStep
<1>6. CASE DeleteNode \/ \E type \in Types : AddNode(type)
  BY <1>6, DeleteNodeStep, AddNodeStep
<1>7. CASE \/ EditConfig \/ \E p \in Providers : ChangeProvider(p)
           \/ \E c \in DOMAIN CredentialType \cup {None} : PickCredential(c)
  BY <1>7, EditConfigStep, ChangeProviderStep, PickCredentialStep
<1>8. CASE \/ \E e \in Range(Active.edges) : DeleteEdge(e.id)
           \/ \E S \in SUBSET IdsOf(draft), ids \in SUBSET {page.edge} : PressDelete(S, ids)
  BY <1>8, DeleteEdgeStep, PressDeleteStep
<1>9. CASE \E from, to \in IdsOf(draft) : Connect(from, to) \/ UpdateSelectedEdge(from, to)
  BY <1>9, ConnectStep, UpdateSelectedEdgeStep
<1>. QED
  BY <1>1, <1>2, <1>3, <1>4, <1>5, <1>6, <1>7, <1>8, <1>9 DEF Next, Gesture

LEMMA Invariance == Spec => []DraftInv
<1>. QED
  BY Start, Step, PTL DEF Spec

-----------------------------------------------------------------------------
(* Theorems.                                                               *)

\* Whatever was deleted, discarded or saved in between: what is selected and what the
\* dialog edits is a node on screen, and what is stored is accepted by the schema.
THEOREM TypeCorrect == Spec => []TypeOK
<1>1. DraftInv => TypeOK
  BY DEF DraftInv, PageFits, LayoutFits, TypeOK
<1>. QED
  BY <1>1, Invariance, PTL

\* Whatever is added, deleted, drawn, bent and renamed: the nodes of a draft differ, its
\* edges join two of them and never lead into a trigger, and none of the edges of the
\* editor has the name or the ends of another.
THEOREM WellFormedDrafts == Spec => []DraftIsWellFormed
<1>1. ASSUME DraftInv PROVE DraftIsWellFormed
  <2>1. WellFormed(draft) /\ (NamedAfterEnds(saved) => NamedByEditor(draft))
    BY <1>1 DEF DraftInv
  <2>2. IsInjective([i \in DOMAIN draft.nodes |-> draft.nodes[i].id])
    <3>1. DOMAIN draft.nodes = 1..Len(draft.nodes)
      BY <2>1, NodeFacts DEF WellFormed
    <3>. QED
      BY <2>1, <3>1 DEF WellFormed, DistinctNodes, IsInjective
  <2>3. \A e \in Range(draft.edges) : /\ {e.from, e.to} \subseteq IdsOf(draft)
                                      /\ e.from # e.to /\ ~IsTrigger(e.to)
    BY <2>1 DEF WellFormed, GoodEdge
  <2>4. ASSUME NamedByEditor(draft)
        PROVE  /\ IsInjective([i \in DOMAIN draft.edges |-> draft.edges[i].id])
               /\ IsInjective([i \in DOMAIN draft.edges |->
                                 <<draft.edges[i].from, draft.edges[i].to>>])
    <3>1. /\ DOMAIN draft.edges = 1..Len(draft.edges)
          /\ \A i \in 1..Len(draft.edges) : draft.edges[i] \in Range(draft.edges)
      BY <2>1, EdgeFacts DEF WellFormed
    <3>2. \A i, j \in 1..Len(draft.edges) :
            draft.edges[i].from = draft.edges[j].from /\ draft.edges[i].to = draft.edges[j].to
              => i = j
      BY <2>4 DEF NamedByEditor, DistinctEnds
    <3>3. IdsOf(draft) \subseteq Types \X Nat
      BY <2>1, IdsFacts DEF WellFormed
    <3>4. ASSUME NEW i \in 1..Len(draft.edges), NEW j \in 1..Len(draft.edges),
                 draft.edges[i].id = draft.edges[j].id
          PROVE  i = j
      <4>1. /\ draft.edges[i].to \in Types \X Nat /\ draft.edges[j].to \in Types \X Nat
            /\ EdgeId(draft.edges[i].from, draft.edges[i].to, 1)
                 = EdgeId(draft.edges[j].from, draft.edges[j].to, 1)
        <5>1. draft.edges[i] \in Range(draft.edges) /\ draft.edges[j] \in Range(draft.edges)
          BY <3>1
        <5>. QED
          BY <2>3, <2>4, <3>3, <3>4, <5>1 DEF NamedByEditor, NamedAfterEnds
      <4>. QED
        BY <3>2, <4>1, NamesOfEnds
    <3>5. IsInjective([i \in DOMAIN draft.edges |-> draft.edges[i].id])
      BY <3>1, <3>4 DEF IsInjective
    <3>6. IsInjective([i \in DOMAIN draft.edges |->
                         <<draft.edges[i].from, draft.edges[i].to>>])
      BY <3>1, <3>2 DEF IsInjective
    <3>. QED
      BY <3>5, <3>6
  <2>. QED
    BY <2>1, <2>2, <2>3, <2>4 DEF DraftIsWellFormed
<1>. QED
  BY <1>1, Invariance, PTL

\* A node is drawn to the right of every node it depends on, however the edges are
\* ordered, and the loop of the layout ends unless the draft has a cycle.
THEOREM LayoutIsRight == Spec => []LayoutFollowsEdges
<1>1. ASSUME DraftInv PROVE LayoutFollowsEdges
  <2>1. WellFormed(Active) /\ LayoutFits(layout, Active)
    BY <1>1 DEF DraftInv, Active
  <2>2. ASSUME Hung PROVE ~Acyclic(Graph(Active), IdsOf(Active))
    <3>1. PICK n \in DOMAIN layout.level : layout.level[n] > Len(Active.nodes)
      BY <2>2 DEF Hung
    <3>2. layout.level[n] \in Nat /\ Path(Active, n, layout.level[n])
      BY <2>1, <3>1 DEF LayoutFits
    <3>3. PICK length, d : length = layout.level[n] /\ d = Active
      OBVIOUS
    <3>. QED
      BY <2>1, <3>1, <3>2, <3>3, LongPathsTurn
  <2>3. ASSUME Ready, NEW e \in Range(Active.edges), e.from \in DOMAIN layout.level
        PROVE  layout.level[e.to] > layout.level[e.from]
    <3>1. Range(layout.queue) = {}
      BY <2>1, <2>3, SeqElements DEF LayoutFits, Ready
    <3>. QED
      BY <2>1, <2>3, <3>1 DEF LayoutFits
  <2>. QED
    BY <2>2, <2>3 DEF LayoutFollowsEdges
<1>. QED
  BY <1>1, Invariance, PTL

\* The canvas never guesses the place of a node of an acyclic draft (workflow-canvas.tsx:390):
\* when the loop ends, and it ends, every node has a level.
THEOREM AcyclicIsLaidOut ==
  Spec => [](Acyclic(Graph(Active), IdsOf(Active)) =>
               ~Hung /\ (Ready => DOMAIN layout.level = IdsOf(Active)))
<1>1. ASSUME DraftInv, LayoutFollowsEdges, Acyclic(Graph(Active), IdsOf(Active)), Ready
      PROVE  DOMAIN layout.level = IdsOf(Active)
  <2>1. WellFormed(Active) /\ LayoutFits(layout, Active)
    BY <1>1 DEF DraftInv, Active
  <2>2. DOMAIN layout.level \subseteq IdsOf(Active) /\ Range(layout.queue) = {}
    BY <1>1, <2>1, SeqElements DEF LayoutFits, Ready
  <2>. SUFFICES ASSUME IdsOf(Active) \ DOMAIN layout.level # {} PROVE FALSE
    BY <2>2
  <2>3. PICK n \in IdsOf(Active) \ DOMAIN layout.level :
          Sources(Graph(Active), n) \cap (IdsOf(Active) \ DOMAIN layout.level) = {}
    BY <1>1 DEF Acyclic
  <2>4. Sources(Graph(Active), n) # {}
    BY <2>1, <2>3 DEF LayoutFits
  <2>5. PICK e \in Range(Active.edges) : e.to = n
    BY <2>4 DEF Sources, Graph
  <2>6. e.from \in IdsOf(Active) /\ e.from \in Sources(Graph(Active), n)
    <3>1. <<e.from, n>> \in Graph(Active).edges
      BY <2>5 DEF Graph
    <3>. QED
      BY <2>1, <3>1 DEF Sources, WellFormed, GoodEdge
  <2>7. e.from \in DOMAIN layout.level
    BY <2>3, <2>6
  <2>. QED
    BY <2>1, <2>2, <2>3, <2>5, <2>7 DEF LayoutFits
<1>2. DraftInv /\ LayoutFollowsEdges =>
        (Acyclic(Graph(Active), IdsOf(Active)) =>
           ~Hung /\ (Ready => DOMAIN layout.level = IdsOf(Active)))
  BY <1>1 DEF LayoutFollowsEdges
<1>. QED
  BY <1>2, Invariance, LayoutIsRight, PTL

\* If no stored definition gives a prompt the credential of another provider than its own,
\* no draft ever does: the inspectors forget a credential with its provider, and a save
\* stores what they made.
THEOREM CredentialsFit ==
  ASSUME \A d \in Initial : Fitting(d)
  PROVE  Spec => []CredentialFits
<1>1. Init => DraftInv /\ FitInv
  BY Start DEF Init, FitInv
<1>2. DraftInv /\ FitInv /\ [Next]_vars => DraftInv' /\ FitInv'
  BY Step
<1>3. FitInv => CredentialFits
  BY DEF FitInv, CredentialFits
<1>. QED
  BY <1>1, <1>2, <1>3, PTL DEF Spec

=============================================================================
