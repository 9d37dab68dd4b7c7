---------------------------- MODULE CampaignProofs ----------------------------
(***************************************************************************)
(* The campaigns are the connected components of the links, for every set  *)
(* of sources.  The proof never speaks of paths: a class is known by the   *)
(* sets that are closed under it.  Halving a path leaves the closed sets   *)
(* as they are, a union keeps those that do not separate the two roots,    *)
(* and so the closed sets of the union-find stay those of the links.       *)
(***************************************************************************)
EXTENDS Findings, FiniteSetTheorems, TLAPS

LEMMA CampaignTypeInit == Init => TypeOK
BY NumSourcesAssumption DEF Init, TypeOK, Source

\* NextPair stays within the two nested loops.
LEMMA NextPairType ==
  ASSUME NextPair, left \in Source, right \in Source, left < right, node \in Source
  PROVE  /\ pc' \in {"pair", "label"}
         /\ left' \in Source
         /\ right' \in Nat
         /\ pc' = "pair" => right' \in Source /\ left' < right'
         /\ node' \in Source
BY NumSourcesAssumption DEF NextPair, Source

LEMMA CampaignTypeStep == TypeOK /\ [Next]_vars => TypeOK'
<1> SUFFICES ASSUME TypeOK, [Next]_vars PROVE TypeOK'
  OBVIOUS
<1> USE NumSourcesAssumption
<1>1. CASE SkipPair
  BY <1>1, NextPairType DEF SkipPair, TypeOK
<1>2. CASE LinkPair
  BY <1>2 DEF LinkPair, TypeOK
<1>3. CASE Halve
  <2>1. node \in Source /\ parent \in [Source -> Source] /\ parent[parent[node]] \in Source
    BY DEF TypeOK
  <2>2. parent' = [parent EXCEPT ![node] = parent[parent[node]]] /\ node' = parent'[node]
    BY <1>3 DEF Halve
  <2>3. parent' \in [Source -> Source] /\ node' \in Source
    BY <2>1, <2>2
  <2> QED
    BY <1>3, <2>3 DEF Halve, TypeOK
<1>4. CASE FoundA
  BY <1>4 DEF FoundA, TypeOK
<1>5. CASE FoundB
  BY <1>5, NextPairType DEF FoundB, TypeOK
<1>6. CASE Label
  <2>1. cluster' \in [Source -> Source \cup {0}]
    BY <1>6 DEF Label, TypeOK
  <2>2. pc' \in {"label", "done"} /\ left' \in Source /\ node' \in Source
    BY <1>6 DEF Label, TypeOK, Source
  <2> QED
    BY <1>6, <2>1, <2>2 DEF Label, TypeOK
<1>7. CASE UNCHANGED vars
  BY <1>7 DEF vars, TypeOK
<1> QED
  BY <1>1, <1>2, <1>3, <1>4, <1>5, <1>6, <1>7 DEF Next

\* The type invariant of the correlation, for every number of sources and every
\* behaviour of theirs.
THEOREM CampaignTypeOK == Spec => []TypeOK
BY CampaignTypeInit, CampaignTypeStep, PTL DEF Spec

-----------------------------------------------------------------------------
(* What the two assignments to parent do to the classes. *)

\* An iteration of find() at a node that is no root.
LEMMA HalveKeeps ==
  ASSUME parent \in [Source -> Source], parent' \in [Source -> Source],
         node \in Source, parent[node] # node, parent' = [parent EXCEPT ![node] = parent[parent[node]]], Acyclic(parent)
  PROVE  /\ \A n \in Source : parent'[n] = n <=> parent[n] = n
         /\ \A S \in SUBSET Source : ClosedUnder(parent', S) <=> ClosedUnder(parent, S)
         /\ Acyclic(parent')
<1>1. parent[parent[node]] # node
  <2> SUFFICES ASSUME parent[parent[node]] = node PROVE FALSE
    OBVIOUS
  <2> DEFINE S == {node, parent[node]}
  <2>1. S \in SUBSET Source /\ S # {} /\ \A n \in S : parent[n] \in S
    OBVIOUS
  <2>2. PICK n \in S : parent[n] = n
    BY <2>1 DEF Acyclic
  <2> QED
    BY <2>2
<1>2. \A n \in Source : parent'[n] = n <=> parent[n] = n
  BY <1>1
<1>3. ASSUME NEW S \in SUBSET Source PROVE ClosedUnder(parent', S) <=> ClosedUnder(parent, S)
  BY DEF ClosedUnder
<1>4. Acyclic(parent')
  <2> SUFFICES ASSUME NEW S \in SUBSET Source, S # {}, \A n \in S : parent'[n] \in S
               PROVE  \E n \in S : parent'[n] = n
    BY DEF Acyclic
  <2>1. CASE node \notin S
    <3>1. \A n \in S : parent[n] \in S
      BY <2>1
    <3>2. PICK n \in S : parent[n] = n
      BY <3>1 DEF Acyclic
    <3> QED
      BY <3>2, <1>2
  <2>2. CASE node \in S
    <3> DEFINE T == S \cup {parent[node]}
    <3>1. parent[parent[node]] \in S
      BY <2>2
    <3>2. T \in SUBSET Source /\ T # {} /\ \A n \in T : parent[n] \in T
      BY <3>1
    <3>3. PICK n \in T : parent[n] = n
      BY <3>2 DEF Acyclic
    <3>4. n \in S
      BY <3>1, <3>3
    <3> QED
      BY <3>3, <3>4, <1>2
  <2> QED
    BY <2>1, <2>2
<1> QED
  BY <1>2, <1>3, <1>4

\* The assignment of union(), for two roots, the same one or two different ones.
LEMMA UnionMerges ==
  ASSUME parent \in [Source -> Source], parent' \in [Source -> Source],
         rootA \in Source, node \in Source, parent[rootA] = rootA, parent[node] = node,
         parent' = [parent EXCEPT ![node] = rootA], Acyclic(parent), RootsApart(parent)
  PROVE  /\ \A S \in SUBSET Source :
              ClosedUnder(parent', S) <=> ClosedUnder(parent, S) /\ (rootA \in S <=> node \in S)
         /\ Acyclic(parent')
         /\ RootsApart(parent')
<1>1. ASSUME NEW S \in SUBSET Source
      PROVE  ClosedUnder(parent', S) <=> ClosedUnder(parent, S) /\ (rootA \in S <=> node \in S)
  BY DEF ClosedUnder
<1>2. Acyclic(parent')
  <2> SUFFICES ASSUME NEW S \in SUBSET Source, S # {}, \A n \in S : parent'[n] \in S
               PROVE  \E n \in S : parent'[n] = n
    BY DEF Acyclic
  <2>1. CASE node \notin S
    <3>1. \A n \in S : parent[n] \in S
      BY <2>1
    <3>2. PICK n \in S : parent[n] = n
      BY <3>1 DEF Acyclic
    <3> QED
      BY <3>2, <2>1
  <2>2. CASE node \in S
    <3>1. rootA \in S /\ parent'[rootA] = rootA
      BY <2>2
    <3> QED
      BY <3>1
  <2> QED
    BY <2>1, <2>2
<1>3. RootsApart(parent')
  <2> SUFFICES ASSUME NEW c \in Source, NEW d \in Source, parent'[c] = c, parent'[d] = d, c # d
               PROVE  \E S \in SUBSET Source : ClosedUnder(parent', S) /\ c \in S /\ d \notin S
    BY DEF RootsApart
  <2>1. parent[c] = c /\ parent[d] = d /\ (rootA # node => c # node /\ d # node)
    OBVIOUS
  <2>2. PICK S \in SUBSET Source : ClosedUnder(parent, S) /\ c \in S /\ d \notin S
    BY <2>1 DEF RootsApart
  <2>3. CASE rootA \in S <=> node \in S
    BY <2>2, <2>3, <1>1
  <2>4. CASE rootA \in S /\ node \notin S
    <3>1. PICK T \in SUBSET Source : ClosedUnder(parent, T) /\ node \in T /\ d \notin T
      BY <2>1, <2>4 DEF RootsApart
    <3>2. S \cup T \in SUBSET Source /\ ClosedUnder(parent, S \cup T)
      BY <2>2, <3>1 DEF ClosedUnder
    <3>3. rootA \in S \cup T /\ node \in S \cup T /\ c \in S \cup T /\ d \notin S \cup T
      BY <2>2, <2>4, <3>1
    <3> QED
      BY <3>2, <3>3, <1>1
  <2>5. CASE rootA \notin S /\ node \in S
    <3>1. PICK T \in SUBSET Source : ClosedUnder(parent, T) /\ node \in T /\ c \notin T
      BY <2>1, <2>5 DEF RootsApart
    <3>2. S \ T \in SUBSET Source /\ ClosedUnder(parent, S \ T)
      BY <2>2, <3>1 DEF ClosedUnder
    <3>3. rootA \notin S \ T /\ node \notin S \ T /\ c \in S \ T /\ d \notin S \ T
      BY <2>2, <2>5, <3>1
    <3> QED
      BY <3>2, <3>3, <1>1
  <2> QED
    BY <2>3, <2>4, <2>5
<1> QED
  BY <1>1, <1>2, <1>3

-----------------------------------------------------------------------------
(* The invariant of the loops. *)

CampaignInv ==
  /\ TypeOK
  /\ SamePartition
  /\ UnionFindInv

\* Going on to the next pair adds the pair left behind to those compared.
LEMMA NextPairCompares ==
  ASSUME NextPair, pc \in {"pair", "findB"},
         left \in Source, right \in Source, left < right,
         NEW l \in Source, NEW r \in Source
  PROVE  Compared(l, r)' <=> Compared(l, r) \/ (l = left /\ r = right)
BY NumSourcesAssumption DEF NextPair, Compared, Source

LEMMA CampaignInit == Init => CampaignInv
<1> SUFFICES ASSUME Init PROVE CampaignInv
  OBVIOUS
<1>1. TypeOK
  BY CampaignTypeInit
<1>2. \A n \in Source : parent[n] = n
  BY DEF Init
<1>3. SamePartition
  <2>1. ASSUME NumSources >= MinSources, NEW l \in Source, NEW r \in Source
        PROVE  ~Compared(l, r)
    BY <2>1, NumSourcesAssumption, LimitsAssumption DEF Init, Compared, Source
  <2> QED
    BY <1>2, <2>1 DEF SamePartition, ParentClosed, ClosedUnder, LinkClosed
<1>4. Acyclic(parent)
  BY <1>2 DEF Acyclic
<1>5. RootsApart(parent)
  <2> SUFFICES ASSUME NEW a \in Source, NEW b \in Source, a # b
               PROVE  \E S \in SUBSET Source : ClosedUnder(parent, S) /\ a \in S /\ b \notin S
    BY DEF RootsApart
  <2>1. ClosedUnder(parent, {a})
    BY <1>2 DEF ClosedUnder
  <2> QED
    BY <2>1
<1>6. FoundRight
  BY <1>2, NumSourcesAssumption, LimitsAssumption DEF Init, FoundRight, Labelled, Source, SameClass
<1> QED
  BY <1>1, <1>3, <1>4, <1>5, <1>6 DEF CampaignInv, UnionFindInv

\* The links compared and the classes, after a step that leaves both alone.
LEMMA SamePartitionKept ==
  ASSUME SamePartition, UNCHANGED <<seen, parent>>,
         \A l, r \in Source : Compared(l, r)' <=> Compared(l, r)
  PROVE  SamePartition'
BY DEF SamePartition, ParentClosed, LinkClosed, Linked

LEMMA SkipPairInv == CampaignInv /\ SkipPair => CampaignInv'
<1> SUFFICES ASSUME CampaignInv, SkipPair PROVE CampaignInv'
  OBVIOUS
<1>1. TypeOK /\ TypeOK'
  BY CampaignTypeStep DEF CampaignInv, Next
<1>2. UNCHANGED <<seen, rootA, parent, cluster>> /\ pc = "pair" /\ NextPair
  BY DEF SkipPair
<1>3. left \in Source /\ right \in Source /\ left < right
  BY <1>1, <1>2 DEF TypeOK
<1>4. SamePartition'
  <2>1. ASSUME NEW S \in SUBSET Source PROVE LinkClosed(S)' <=> LinkClosed(S)
    <3>1. \A l, r \in Source : Linked(l, r)' <=> Linked(l, r)
      BY <1>2 DEF Linked
    <3> QED
      BY <1>2, <1>3, <3>1, NextPairCompares DEF LinkClosed, SkipPair
  <2> QED
    BY <1>2, <2>1 DEF CampaignInv, SamePartition, ParentClosed
<1>5. FoundRight'
  BY <1>1, <1>2 DEF NextPair, FoundRight, Labelled, SameClass, Source
<1> QED
  BY <1>1, <1>2, <1>4, <1>5 DEF CampaignInv, UnionFindInv

LEMMA LinkPairInv == CampaignInv /\ LinkPair => CampaignInv'
<1> SUFFICES ASSUME CampaignInv, LinkPair PROVE CampaignInv'
  OBVIOUS
<1>1. TypeOK'
  BY CampaignTypeStep DEF CampaignInv, Next
<1>2. SamePartition'
  BY SamePartitionKept DEF CampaignInv, LinkPair, Compared
<1>3. FoundRight'
  BY DEF LinkPair, FoundRight, Labelled, SameClass, Linked
<1> QED
  BY <1>1, <1>2, <1>3 DEF CampaignInv, UnionFindInv, LinkPair

LEMMA HalveInv == CampaignInv /\ Halve => CampaignInv'
<1> SUFFICES ASSUME CampaignInv, Halve PROVE CampaignInv'
  OBVIOUS
<1>1. TypeOK /\ TypeOK'
  BY CampaignTypeStep DEF CampaignInv, Next
<1>2. /\ UNCHANGED <<seen, pc, left, right, rootA, cluster>>
      /\ parent' = [parent EXCEPT ![node] = parent[parent[node]]]
      /\ node' = parent'[node]
      /\ parent[node] # node
  BY DEF Halve
<1>3. node \in Source /\ parent \in [Source -> Source] /\ Acyclic(parent)
  BY <1>1 DEF TypeOK, CampaignInv, UnionFindInv
<1>4. /\ \A n \in Source : parent'[n] = n <=> parent[n] = n
      /\ \A S \in SUBSET Source : ClosedUnder(parent', S) <=> ClosedUnder(parent, S)
      /\ Acyclic(parent')
  <2>1. parent' \in [Source -> Source]
    BY <1>1 DEF TypeOK
  <2>2. parent' = [parent EXCEPT ![node] = parent[parent[node]]] /\ parent[node] # node
    BY <1>2
  <2> QED
    BY <1>3, <2>1, <2>2, HalveKeeps
<1>5. SamePartition'
  <2>1. \A S \in SUBSET Source : LinkClosed(S)' <=> LinkClosed(S)
    BY <1>2 DEF LinkClosed, Compared, Linked
  <2> QED
    BY <1>4, <2>1 DEF CampaignInv, SamePartition, ParentClosed
<1>6. RootsApart(parent')
  BY <1>4 DEF CampaignInv, UnionFindInv, RootsApart
<1>7. \A a, b \in Source : SameClass(a, b)' <=> SameClass(a, b)
  BY <1>4 DEF SameClass, ParentClosed
<1>8. \A a \in Source : SameClass(node, a) => SameClass(node, a)'
  <2> SUFFICES ASSUME NEW a \in Source, SameClass(node, a),
                      NEW S \in SUBSET Source, ClosedUnder(parent', S)
               PROVE  node' \in S <=> a \in S
    BY DEF SameClass, ParentClosed
  <2>1. node \in S <=> a \in S
    BY <1>4 DEF SameClass, ParentClosed
  <2>2. node \in S <=> parent'[node] \in S
    BY <1>3 DEF ClosedUnder
  <2>3. node' = parent'[node]
    BY <1>2
  <2> QED
    BY <2>1, <2>2, <2>3
<1>9. FoundRight'
  <2>1. pc' \in {"findA", "findB"} => Linked(left, right)'
    BY <1>2 DEF CampaignInv, UnionFindInv, FoundRight, Linked
  <2>2. pc' \in {"findA", "label"} => SameClass(node, left)'
    BY <1>1, <1>2, <1>8 DEF CampaignInv, UnionFindInv, FoundRight, TypeOK
  <2>3. pc' = "findB" =>
          parent'[rootA'] = rootA' /\ SameClass(rootA, left)' /\ SameClass(node, right)'
    BY <1>1, <1>2, <1>4, <1>7, <1>8 DEF CampaignInv, UnionFindInv, FoundRight, TypeOK
  <2>4. ASSUME NEW s \in Source, Labelled(s)'
        PROVE  cluster'[s] \in Source /\ parent'[cluster'[s]] = cluster'[s]
               /\ SameClass(cluster[s], s)'
    <3>1. Labelled(s)
      BY <1>2, <2>4 DEF Labelled
    <3> QED
      BY <1>2, <1>4, <1>7, <3>1 DEF CampaignInv, UnionFindInv, FoundRight
  <2> QED
    BY <2>1, <2>2, <2>3, <2>4 DEF FoundRight
<1> QED
  BY <1>1, <1>4, <1>5, <1>6, <1>9 DEF CampaignInv, UnionFindInv

LEMMA FoundAInv == CampaignInv /\ FoundA => CampaignInv'
<1> SUFFICES ASSUME CampaignInv, FoundA PROVE CampaignInv'
  OBVIOUS
<1>1. TypeOK'
  BY CampaignTypeStep DEF CampaignInv, Next
<1>2. SamePartition'
  BY SamePartitionKept DEF CampaignInv, FoundA, Compared
<1>3. FoundRight'
  BY DEF CampaignInv, UnionFindInv, FoundA, FoundRight, Labelled, SameClass, ParentClosed, Linked
<1> QED
  BY <1>1, <1>2, <1>3 DEF CampaignInv, UnionFindInv, FoundA

LEMMA FoundBInv == CampaignInv /\ FoundB => CampaignInv'
<1> SUFFICES ASSUME CampaignInv, FoundB PROVE CampaignInv'
  OBVIOUS
<1>1. TypeOK /\ TypeOK'
  BY CampaignTypeStep DEF CampaignInv, Next
<1>2. /\ pc = "findB" /\ parent[node] = node /\ NextPair
      /\ UNCHANGED <<seen, rootA, cluster>>
      /\ parent' = [parent EXCEPT ![node] = rootA]
  BY DEF FoundB
<1>3. /\ left \in Source /\ right \in Source /\ left < right
      /\ node \in Source /\ rootA \in Source /\ parent \in [Source -> Source]
  BY <1>1, <1>2 DEF TypeOK
<1>4. /\ Linked(left, right) /\ parent[rootA] = rootA
      /\ SameClass(rootA, left) /\ SameClass(node, right)
      /\ Acyclic(parent) /\ RootsApart(parent)
  BY <1>2 DEF CampaignInv, UnionFindInv, FoundRight
<1>5. /\ \A S \in SUBSET Source :
           ClosedUnder(parent', S) <=> ClosedUnder(parent, S) /\ (rootA \in S <=> node \in S)
      /\ Acyclic(parent')
      /\ RootsApart(parent')
  <2>1. parent' \in [Source -> Source]
    BY <1>1 DEF TypeOK
  <2> QED
    BY <1>2, <1>3, <1>4, <2>1, UnionMerges
<1>6. SamePartition'
  <2>1. ASSUME NEW S \in SUBSET Source
        PROVE  LinkClosed(S)' <=> LinkClosed(S) /\ (left \in S <=> right \in S)
    <3>1. \A l, r \in Source : Linked(l, r)' <=> Linked(l, r)
      BY <1>2 DEF Linked
    <3>2. \A l, r \in Source :
            Compared(l, r)' <=> Compared(l, r) \/ (l = left /\ r = right)
      BY <1>2, <1>3, NextPairCompares
    <3> QED
      BY <1>3, <1>4, <3>1, <3>2 DEF LinkClosed
  <2>2. ASSUME NEW S \in SUBSET Source
        PROVE  ParentClosed(S)' <=> ParentClosed(S) /\ (left \in S <=> right \in S)
    BY <1>4, <1>5 DEF ParentClosed, SameClass
  <2> QED
    BY <2>1, <2>2 DEF CampaignInv, SamePartition
<1>7. FoundRight'
  BY <1>1, <1>2 DEF NextPair, FoundRight, Labelled, SameClass, Source
<1> QED
  BY <1>1, <1>5, <1>6, <1>7 DEF CampaignInv, UnionFindInv

LEMMA LabelInv == CampaignInv /\ Label => CampaignInv'
<1> SUFFICES ASSUME CampaignInv, Label PROVE CampaignInv'
  OBVIOUS
<1>1. TypeOK /\ TypeOK'
  BY CampaignTypeStep DEF CampaignInv, Next
<1>2. /\ pc = "label" /\ parent[node] = node /\ pc' \in {"label", "done"}
      /\ UNCHANGED <<seen, right, rootA, parent>>
      /\ cluster' = [cluster EXCEPT ![left] = node]
      /\ pc' = "label" => left' = left + 1 /\ node' = left'
      /\ pc' = "done" => left = NumSources
  BY DEF Label
<1>3. left \in Source /\ node \in Source /\ cluster \in [Source -> Source \cup {0}]
  BY <1>1 DEF TypeOK
<1>4. SamePartition'
  BY <1>2, SamePartitionKept DEF CampaignInv, Compared
<1>5. FoundRight'
  <2>1. pc' = "label" => SameClass(node, left)'
    BY <1>2 DEF SameClass
  <2>2. ASSUME NEW s \in Source, Labelled(s)'
        PROVE  cluster'[s] \in Source /\ parent'[cluster'[s]] = cluster'[s]
               /\ SameClass(cluster[s], s)'
    <3>1. s = left \/ Labelled(s)
      BY <1>2, <1>3, <2>2, NumSourcesAssumption DEF Labelled, Source
    <3>2. CASE s = left
      BY <1>2, <1>3, <3>2 DEF CampaignInv, UnionFindInv, FoundRight, SameClass, ParentClosed
    <3>3. CASE s # left
      BY <1>2, <1>3, <3>1, <3>3 DEF CampaignInv, UnionFindInv, FoundRight, SameClass, ParentClosed
    <3> QED
      BY <3>2, <3>3
  <2> QED
    BY <1>2, <2>1, <2>2 DEF FoundRight
<1> QED
  BY <1>1, <1>2, <1>4, <1>5 DEF CampaignInv, UnionFindInv

LEMMA CampaignStep == CampaignInv /\ [Next]_vars => CampaignInv'
<1> SUFFICES ASSUME CampaignInv, [Next]_vars PROVE CampaignInv'
  OBVIOUS
<1>1. CASE UNCHANGED vars
  <2>1. SamePartition'
    BY <1>1, SamePartitionKept DEF vars, CampaignInv, Compared
  <2>2. FoundRight'
    BY <1>1 DEF vars, CampaignInv, UnionFindInv, FoundRight, Labelled, SameClass, ParentClosed, Linked
  <2> QED
    BY <1>1, <2>1, <2>2, CampaignTypeStep DEF vars, CampaignInv, UnionFindInv
<1> QED
  BY <1>1, SkipPairInv, LinkPairInv, HalveInv, FoundAInv, FoundBInv, LabelInv DEF Next

\* The inductive invariant: types, the partition, and what find() relies on.
THEOREM CampaignInvariant == Spec => []CampaignInv
BY CampaignInit, CampaignStep, PTL DEF Spec

-----------------------------------------------------------------------------

\* find() and union() of correlate_campaigns keep the forest a forest: every
\* root they work with is the one of its source, for any number of sources.
THEOREM CampaignUnionFind == Spec => []UnionFindInv
<1>1. CampaignInv => UnionFindInv
  BY DEF CampaignInv
<1> QED
  BY <1>1, CampaignInvariant, PTL

\* The classes of the union-find are the components of the links compared so
\* far, at every step of correlate_campaigns.
THEOREM CampaignSamePartition == Spec => []SamePartition
<1>1. CampaignInv => SamePartition
  BY DEF CampaignInv
<1> QED
  BY <1>1, CampaignInvariant, PTL

\* Two sources end up in one campaign exactly if a chain of links connects them.
THEOREM CampaignComponents == Spec => []CampaignsAreComponents
<1>1. CampaignInv => CampaignsAreComponents
  <2> SUFFICES ASSUME CampaignInv, pc = "done", NumSources >= MinSources,
                      NEW a \in Source, NEW b \in Source
               PROVE  cluster[a] = cluster[b] <=> Connected(a, b)
    BY DEF CampaignsAreComponents
  <2>1. \A s \in Source : /\ cluster[s] \in Source
                          /\ parent[cluster[s]] = cluster[s]
                          /\ SameClass(cluster[s], s)
    BY DEF CampaignInv, UnionFindInv, FoundRight, Labelled
  <2>2. \A S \in SUBSET Source : ParentClosed(S) <=> LinkClosed(S)
    BY DEF CampaignInv, SamePartition
  <2>3. ASSUME cluster[a] = cluster[b] PROVE Connected(a, b)
    BY <2>1, <2>2, <2>3 DEF Connected, SameClass
  <2>4. ASSUME cluster[a] # cluster[b] PROVE ~Connected(a, b)
    <3>1. PICK S \in SUBSET Source :
            ClosedUnder(parent, S) /\ cluster[a] \in S /\ cluster[b] \notin S
      BY <2>1, <2>4 DEF CampaignInv, UnionFindInv, RootsApart
    <3>2. a \in S /\ b \notin S /\ LinkClosed(S)
      BY <2>1, <2>2, <3>1 DEF SameClass, ParentClosed
    <3> QED
      BY <3>2 DEF Connected
  <2> QED
    BY <2>3, <2>4
<1> QED
  BY <1>1, CampaignInvariant, PTL

\* Sets of two and of three, at least.
LEMMA TwoApart ==
  ASSUME NEW S, IsFiniteSet(S), NEW x \in S, NEW y \in S, x # y
  PROVE  Cardinality(S) > 1
<1>1. IsFiniteSet({x}) /\ Cardinality({x}) = 1 /\ y \notin {x}
  BY FS_Singleton
<1>2. Cardinality({x} \cup {y}) = 2
  BY <1>1, FS_AddElement
<1>3. {x} \cup {y} \in SUBSET S
  OBVIOUS
<1> QED
  BY <1>2, <1>3, FS_Subset, FS_CardinalityType

LEMMA ThreeApart ==
  ASSUME NEW S, IsFiniteSet(S), NEW x \in S, NEW y \in S, NEW z \in S,
         x # y, x # z, y # z
  PROVE  Cardinality(S) > 2
<1>1. IsFiniteSet({x}) /\ Cardinality({x}) = 1 /\ y \notin {x}
  BY FS_Singleton
<1>2. IsFiniteSet({x} \cup {y}) /\ Cardinality({x} \cup {y}) = 2 /\ z \notin {x} \cup {y}
  BY <1>1, FS_AddElement
<1>3. Cardinality({x} \cup {y} \cup {z}) = 3
  BY <1>2, FS_AddElement
<1>4. {x} \cup {y} \cup {z} \in SUBSET S
  OBVIOUS
<1> QED
  BY <1>3, <1>4, FS_Subset, FS_CardinalityType

LEMMA MoreThanThird ==
  ASSUME Threshold > 33, NEW n \in Nat, n > 2
  PROVE  Threshold * n > 100
<1>1. Threshold * n >= Threshold * 3
  BY LimitsAssumption
<1> QED
  BY <1>1, LimitsAssumption

\* Two similar profiles have more in common than the one signature they share:
\* each has a port of its own otherwise, which is too much for the threshold.
LEMMA SharesMore ==
  ASSUME NEW a \in Behaviours, NEW b \in Behaviours, NEW sig \in a.signatures \cap b.signatures,
         Similar(Profile(a), Profile(b)), Threshold > 33
  PROVE  Cardinality(Profile(a) \cap Profile(b)) > 1
<1> DEFINE P == Profile(a)
           Q == Profile(b)
           x == <<"sig", sig>>
<1>1. ASSUME NEW d \in Behaviours PROVE IsFiniteSet(Profile(d))
  <2>1. IsFiniteSet(d.signatures) /\ IsFiniteSet(d.ports)
    BY BehavioursAssumption
  <2>2. IsFiniteSet({"sig"} \X d.signatures) /\ IsFiniteSet({"port"} \X d.ports)
    BY <2>1, FS_Singleton, FS_Product
  <2> QED
    BY <2>2, FS_Union DEF Profile
<1>2. /\ IsFiniteSet(P \cup Q) /\ IsFiniteSet(P \cap Q)
      /\ Cardinality(P \cup Q) \in Nat /\ Cardinality(P \cap Q) \in Nat
  BY <1>1, FS_Union, FS_Intersection, FS_CardinalityType
<1>3. PICK p \in a.ports, q \in b.ports : TRUE
  BY BehavioursAssumption
<1> DEFINE y == <<"port", p>>
           z == <<"port", q>>
<1>4. x \in P \cap Q /\ y \in P /\ z \in Q /\ x # y /\ x # z
  BY DEF Profile
<1>5. CASE \E w \in P \cap Q : w # x
  BY <1>2, <1>4, <1>5, TwoApart
<1>6. CASE \A w \in P \cap Q : w = x
  <2>1. P \cap Q = {x} /\ y # z
    BY <1>4, <1>6
  <2>2. Cardinality(P \cap Q) = 1
    BY <2>1, FS_Singleton
  <2>3. Cardinality(P \cup Q) > 2
    BY <1>2, <1>4, <2>1, ThreeApart
  <2>4. 100 >= Threshold * Cardinality(P \cup Q)
    BY <2>2 DEF Similar
  <2>5. Threshold * Cardinality(P \cup Q) > 100
    BY <1>2, <2>3, MoreThanThird
  <2>6. Threshold * Cardinality(P \cup Q) \in Int
    BY <1>2, LimitsAssumption
  <2> QED
    BY <2>4, <2>5, <2>6
<1> QED
  BY <1>5, <1>6

\* Each source of a campaign is linked to another source of it.
LEMMA CampaignPartner ==
  ASSUME CampaignInv, CampaignsAreComponents, pc = "done", MinSources >= 2,
         NEW c \in Result, NEW a \in c
  PROVE  /\ a \in Source
         /\ \E d \in c \ {a} : d \in Source /\ (Linked(a, d) \/ Linked(d, a))
<1>1. PICK r \in Source : c = {s \in Source : cluster[s] = r}
  BY DEF Result
<1>2. a \in Source /\ Cardinality(c) >= MinSources
  BY <1>1 DEF Result
<1>3. NumSources >= MinSources
  <2>1. IsFiniteSet(Source) /\ Cardinality(Source) = NumSources
    BY NumSourcesAssumption, FS_Interval DEF Source
  <2>2. c \subseteq Source /\ Cardinality(c) <= Cardinality(Source)
    BY <1>1, <2>1, FS_Subset
  <2>3. IsFiniteSet(c) /\ Cardinality(c) \in Nat
    BY <2>1, <2>2, FS_Subset, FS_CardinalityType
  <2> QED
    BY <1>2, <2>1, <2>2, <2>3, NumSourcesAssumption, LimitsAssumption
<1>4. PICK b \in c : b # a
  <2>1. c # {a}
    BY <1>2, LimitsAssumption, FS_Singleton
  <2> QED
    BY <2>1
<1>5. \A x \in Source : Connected(a, x) <=> x \in c
  BY <1>1, <1>2, <1>3 DEF CampaignsAreComponents
<1>6. PICK d \in Source : d # a /\ (Linked(a, d) \/ Linked(d, a)) /\ Connected(a, d)
  <2>1. ~LinkClosed({a})
    BY <1>1, <1>2, <1>4, <1>5 DEF Connected
  <2>2. PICK l \in Source, q \in Source :
          Compared(l, q) /\ Linked(l, q) /\ ~(l \in {a} <=> q \in {a})
    BY <2>1 DEF LinkClosed
  <2>3. Connected(l, q) /\ Connected(q, l)
    BY <2>2 DEF Connected, LinkClosed
  <2> QED
    BY <2>2, <2>3
<1> QED
  BY <1>2, <1>5, <1>6

\* Each source of a campaign shares a signature, and not that alone, with another
\* source of it that was active within the window.
THEOREM CampaignCoherent == Spec => []CampaignsAreCoherent
<1>1. CampaignInv /\ CampaignsAreComponents => CampaignsAreCoherent
  <2> DEFINE Partner(a, b) ==
        /\ seen[a].signatures \cap seen[b].signatures # {}
        /\ Threshold > 33 =>
             Cardinality(Profile(seen[a]) \cap Profile(seen[b])) > 1
        /\ seen[a].first <= seen[b].last + Window
        /\ seen[b].first <= seen[a].last + Window
  <2> SUFFICES ASSUME CampaignInv, CampaignsAreComponents, pc = "done", MinSources >= 2,
                      NEW c \in Result, NEW a \in c
               PROVE  \E b \in c \ {a} : Partner(a, b)
    BY DEF CampaignsAreCoherent
  <2>1. PICK d \in c \ {a} : a \in Source /\ d \in Source /\ (Linked(a, d) \/ Linked(d, a))
    BY CampaignPartner
  <2>2. Partner(a, d)
    <3>1. seen[a] \in Behaviours /\ seen[d] \in Behaviours
      BY <2>1 DEF CampaignInv, TypeOK
    <3>2. /\ seen[a].first \in Int /\ seen[a].last \in Int
          /\ seen[d].first \in Int /\ seen[d].last \in Int
      BY <3>1, BehavioursAssumption
    <3>3. /\ seen[a].signatures \cap seen[d].signatures # {}
          /\ seen[a].first <= seen[d].last + Window
          /\ seen[d].first <= seen[a].last + Window
      BY <2>1, <3>2, LimitsAssumption DEF Linked, Close
    <3>4. Threshold > 33 => Cardinality(Profile(seen[a]) \cap Profile(seen[d])) > 1
      <4>1. Similar(Profile(seen[a]), Profile(seen[d]))
            \/ Similar(Profile(seen[d]), Profile(seen[a]))
        BY <2>1 DEF Linked
      <4>2. Profile(seen[d]) \cap Profile(seen[a]) = Profile(seen[a]) \cap Profile(seen[d])
        OBVIOUS
      <4> QED
        BY <3>1, <3>3, <4>1, <4>2, SharesMore
    <3> QED
      BY <3>3, <3>4
  <2> QED
    BY <2>1, <2>2
<1> QED
  BY <1>1, CampaignInvariant, CampaignComponents, PTL

\* A profile has a member for each signature and one for each port.
LEMMA ProfileSize ==
  ASSUME NEW A, NEW B, IsFiniteSet(A), IsFiniteSet(B)
  PROVE  LET P == ({"sig"} \X A) \cup ({"port"} \X B) IN
         IsFiniteSet(P) /\ Cardinality(P) = Cardinality(A) + Cardinality(B)
<1> DEFINE S == {"sig"} \X A
           T == {"port"} \X B
<1>1. \A x : IsFiniteSet({x}) /\ Cardinality({x}) = 1
  BY FS_Singleton
<1>2. Cardinality(A) \in Nat /\ Cardinality(B) \in Nat
  BY FS_CardinalityType
<1>3. /\ IsFiniteSet(S) /\ Cardinality(S) = Cardinality(A)
      /\ IsFiniteSet(T) /\ Cardinality(T) = Cardinality(B)
  <2>1. ASSUME NEW x, NEW D, IsFiniteSet(D)
        PROVE  IsFiniteSet({x} \X D) /\ Cardinality({x} \X D) = Cardinality(D)
    <3>1. /\ IsFiniteSet({x} \X D)
          /\ Cardinality({x} \X D) = Cardinality({x}) * Cardinality(D)
      BY <1>1, <2>1, FS_Product
    <3>2. Cardinality({x}) = 1 /\ Cardinality(D) \in Nat
      BY <1>1, <2>1, FS_CardinalityType
    <3> QED
      BY <3>1, <3>2
  <2> QED
    BY <2>1
<1>4. S \cap T = {} /\ Cardinality({}) = 0
  BY FS_EmptySet
<1>5. IsFiniteSet(S \cup T) /\ Cardinality(S \cup T) = Cardinality(A) + Cardinality(B)
  <2>1. /\ IsFiniteSet(S \cup T)
        /\ Cardinality(S \cup T) = Cardinality(S) + Cardinality(T) - Cardinality(S \cap T)
    BY <1>3, FS_Union
  <2>2. Cardinality(S \cap T) = 0
    BY <1>4
  <2> HIDE DEF S, T
  <2> QED
    BY <1>2, <1>3, <2>1, <2>2
<1> QED
  BY <1>5

\* Two similar behaviours with no more than one port in common: what they have
\* in common is then a part of the common signatures and the ports of either one.
LEMMA SignaturesOutweigh ==
  ASSUME NEW a \in Behaviours, NEW b \in Behaviours, Similar(Profile(a), Profile(b)),
         Cardinality(a.ports) >= PortThreshold,
         ~(Cardinality(a.ports \cap b.ports) > 1)
  PROVE  LET both == Cardinality(a.signatures \cap b.signatures) IN
         Threshold * (PortThreshold + both) <= 100 * (1 + both)
<1> DEFINE P == Profile(a)
           Q == Profile(b)
           sigs  == Cardinality(a.signatures)
           both  == Cardinality(a.signatures \cap b.signatures)
           ports == Cardinality(a.ports)
           same  == Cardinality(a.ports \cap b.ports)
           all   == Cardinality(P \cup Q)
<1>1. /\ IsFiniteSet(a.signatures) /\ IsFiniteSet(a.ports)
      /\ IsFiniteSet(b.signatures) /\ IsFiniteSet(b.ports)
  BY BehavioursAssumption
<1>2. /\ IsFiniteSet(a.signatures \cap b.signatures) /\ both <= sigs
      /\ IsFiniteSet(a.ports \cap b.ports)
  BY <1>1, FS_Intersection
<1>3. sigs \in Nat /\ both \in Nat /\ ports \in Nat /\ same \in Nat
  BY <1>1, <1>2, FS_CardinalityType
<1>4. IsFiniteSet(P) /\ IsFiniteSet(Q) /\ Cardinality(P) = sigs + ports
  BY <1>1, ProfileSize DEF Profile
<1>5. Cardinality(P \cap Q) = both + same
  <2>1. P \cap Q = ({"sig"} \X (a.signatures \cap b.signatures))
                   \cup ({"port"} \X (a.ports \cap b.ports))
    BY DEF Profile
  <2> QED
    BY <1>2, <2>1, ProfileSize
<1>6. all \in Nat /\ sigs + ports <= all
  <2>1. IsFiniteSet(P \cup Q) /\ P \in SUBSET (P \cup Q)
    BY <1>4, FS_Union
  <2> QED
    BY <1>4, <2>1, FS_Subset, FS_CardinalityType
<1>7. 100 * (both + same) >= Threshold * all
  BY <1>5 DEF Similar
<1> HIDE DEF P, Q, sigs, both, ports, same, all
<1>8. Threshold \in 1 .. 100 /\ PortThreshold \in Nat
  BY LimitsAssumption, ReportAssumption
<1>9. same <= 1 /\ PortThreshold <= ports
  BY <1>3 DEF same, ports
<1>10. PortThreshold + both <= all
  BY <1>2, <1>3, <1>6, <1>8, <1>9
<1>11. Threshold * (PortThreshold + both) <= Threshold * all
  BY <1>3, <1>6, <1>8, <1>10
<1>12. 100 * (both + same) <= 100 * (1 + both)
  BY <1>3, <1>9
<1>13. /\ Threshold * (PortThreshold + both) \in Int /\ Threshold * all \in Int
       /\ 100 * (both + same) \in Int /\ 100 * (1 + both) \in Int
  BY <1>3, <1>6, <1>8
<1>14. Threshold * (PortThreshold + both) <= 100 * (1 + both)
  BY <1>7, <1>11, <1>12, <1>13
<1> QED
  BY <1>14 DEF both

\* A source that sweeps comes into a campaign by another one that was on more than
\* one of its ports, or agrees with it in so many signatures that they outweigh
\* the ports of a sweep.
THEOREM CampaignSweepsApart == Spec => []SweepsStayApart
<1>1. CampaignInv /\ CampaignsAreComponents => SweepsStayApart
  <2> DEFINE Draws(s, t) ==
        LET both == Cardinality(seen[s].signatures \cap seen[t].signatures)
            same == Cardinality(seen[s].ports \cap seen[t].ports) IN
        same > 1 \/ Threshold * (PortThreshold + both) <= 100 * (1 + both)
  <2> SUFFICES ASSUME CampaignInv, CampaignsAreComponents, pc = "done", MinSources >= 2,
                      NEW c \in Result, NEW s \in c \cap Sweeps
               PROVE  \E t \in c \ {s} : Draws(s, t)
    BY DEF SweepsStayApart
  <2>1. PICK t \in c \ {s} : s \in Source /\ t \in Source /\ (Linked(s, t) \/ Linked(t, s))
    BY CampaignPartner
  <2>2. seen[s] \in Behaviours /\ seen[t] \in Behaviours
    BY <2>1 DEF CampaignInv, TypeOK
  <2>3. Similar(Profile(seen[s]), Profile(seen[t]))
    <3>1. \A P, Q : Similar(P, Q) <=> Similar(Q, P)
      <4> SUFFICES ASSUME NEW P, NEW Q PROVE Similar(P, Q) <=> Similar(Q, P)
        OBVIOUS
      <4>1. P \cap Q = Q \cap P /\ P \cup Q = Q \cup P
        OBVIOUS
      <4> QED
        BY <4>1 DEF Similar
    <3> QED
      BY <2>1, <3>1 DEF Linked
  <2>4. Cardinality(seen[s].ports) >= PortThreshold
    BY DEF Sweeps
  <2>5. Draws(s, t)
    BY <2>2, <2>3, <2>4, SignaturesOutweigh
  <2> QED
    BY <2>1, <2>5
<1> QED
  BY <1>1, CampaignInvariant, CampaignComponents, PTL

\* No campaign is silent for longer than the window, over however many links its
\* sources are merged: those active until then would be closed under the links.
THEOREM CampaignContinuous == Spec => []CampaignsAreContinuous
<1>1. CampaignInv /\ CampaignsAreComponents => CampaignsAreContinuous
  <2> SUFFICES ASSUME CampaignInv, CampaignsAreComponents, pc = "done", NumSources >= MinSources,
                      NEW c \in Result, NEW a \in c, NEW b \in c, seen[b].last > seen[a].last,
                      \A d \in c : seen[d].last > seen[a].last =>
                                   ~(seen[d].first <= seen[a].last + Window)
               PROVE  FALSE
    BY DEF CampaignsAreContinuous
  <2> DEFINE S == {s \in c : seen[s].last <= seen[a].last}
  <2>1. PICK r \in Source : c = {s \in Source : cluster[s] = r}
    BY DEF Result
  <2>2. c \subseteq Source /\ S \in SUBSET Source
    BY <2>1
  <2>3. \A s \in Source : seen[s].first \in Int /\ seen[s].last \in Int
    BY BehavioursAssumption DEF CampaignInv, TypeOK
  <2>4. a \in S /\ b \notin S
    BY <2>2, <2>3
  <2>5. LinkClosed(S)
    <3> SUFFICES ASSUME NEW l \in Source, NEW q \in Source, Compared(l, q), Linked(l, q)
                 PROVE  l \in S <=> q \in S
      BY DEF LinkClosed
    <3>1. Connected(l, q)
      BY DEF Connected, LinkClosed
    <3>2. l \in c <=> q \in c
      BY <2>1, <3>1 DEF CampaignsAreComponents
    <3>3. /\ seen[l].first <= seen[q].last + Window
          /\ seen[q].first <= seen[l].last + Window
      BY <2>3, LimitsAssumption DEF Linked, Close
    <3>4. ASSUME NEW m \in c, NEW n \in c, seen[m].last <= seen[a].last,
                 seen[n].first <= seen[m].last + Window
          PROVE  seen[n].last <= seen[a].last
      BY <2>2, <2>3, <3>4, LimitsAssumption
    <3> QED
      BY <3>2, <3>3, <3>4
  <2>6. Connected(a, b)
    BY <2>1 DEF CampaignsAreComponents
  <2> QED
    BY <2>2, <2>4, <2>5, <2>6 DEF Connected
<1> QED
  BY <1>1, CampaignInvariant, CampaignComponents, PTL

-----------------------------------------------------------------------------
(* The loop of find() ends.                                                  *)

\* The nodes on the way up from a node: those in every set that the way cannot
\* leave.
Above(n) ==
  { m \in Source : \A S \in SUBSET Source :
      n \in S /\ (\A k \in S : parent[k] \in S) => m \in S }

LEMMA AboveFacts ==
  ASSUME TypeOK, NEW n \in Source
  PROVE  /\ Above(n) \in SUBSET Source /\ n \in Above(n)
         /\ \A k \in Above(n) : parent[k] \in Above(n)
         /\ \A S \in SUBSET Source :
              n \in S /\ (\A k \in S : parent[k] \in S) => Above(n) \subseteq S
<1>1. parent \in [Source -> Source]
  BY DEF TypeOK
<1>2. ASSUME NEW k \in Above(n) PROVE parent[k] \in Above(n)
  BY <1>1 DEF Above
<1> QED
  BY <1>2 DEF Above

\* No way leads back to a node that is no root.
LEMMA NoWayBack ==
  ASSUME TypeOK, Acyclic(parent), NEW n \in Source, parent[n] # n
  PROVE  n \notin Above(parent[n])
<1> SUFFICES ASSUME n \in Above(parent[n]) PROVE FALSE
  OBVIOUS
<1> DEFINE back == { k \in Source : n \in Above(k) }
<1>1. parent \in [Source -> Source] /\ parent[n] \in back
  BY DEF TypeOK
<1>2. ASSUME NEW k \in back, k # n PROVE n \in Above(parent[k])
  <2> DEFINE S == {k} \cup Above(parent[k])
  <2>1. k \in Source /\ parent[k] \in Source
    BY <1>1
  <2>2. /\ Above(parent[k]) \in SUBSET Source /\ parent[k] \in Above(parent[k])
        /\ \A j \in Above(parent[k]) : parent[j] \in Above(parent[k])
    BY <2>1, AboveFacts
  <2>3. S \in SUBSET Source /\ k \in S /\ \A j \in S : parent[j] \in S
    BY <2>1, <2>2
  <2>4. Above(k) \subseteq S
    BY <2>1, <2>3, AboveFacts
  <2> QED
    BY <1>2, <2>4
<1>3. \A k \in back : parent[k] \in back
  BY <1>1, <1>2
<1>4. back \in SUBSET Source /\ back # {}
  BY <1>1
<1>5. PICK r \in back : parent[r] = r
  BY <1>3, <1>4 DEF Acyclic
<1>6. Above(r) \subseteq {r}
  <2>1. {r} \in SUBSET Source /\ \A k \in {r} : parent[k] \in {r}
    BY <1>5
  <2> QED
    BY <2>1, AboveFacts
<1> QED
  BY <1>5, <1>6

\* An iteration of find() leaves fewer nodes above it: it ends after NumSources
\* iterations at most, whatever the forest and however the path is halved.
FindEnds == [][Halve => Cardinality(Above(node)') < Cardinality(Above(node))]_vars

\* The loop of find() ends in every forest that union() and find() itself build.
THEOREM CampaignFindEnds == Spec => FindEnds
<1>1. ASSUME CampaignInv, CampaignInv', Halve
      PROVE  Cardinality(Above(node)') < Cardinality(Above(node))
  <2> DEFINE T == Above(parent[node])
  <2>1. /\ TypeOK /\ Acyclic(parent) /\ node \in Source /\ parent[node] \in Source
        /\ parent \in [Source -> Source] /\ parent' \in [Source -> Source] /\ node' \in Source
    BY <1>1 DEF CampaignInv, UnionFindInv, TypeOK
  <2>2. /\ parent[node] # node
        /\ parent' = [parent EXCEPT ![node] = parent[parent[node]]]
        /\ node' = parent[parent[node]]
    BY <1>1, <2>1 DEF Halve
  <2>3. /\ T \in SUBSET Source /\ parent[node] \in T /\ node \notin T
        /\ \A k \in T : parent[k] \in T
    BY <2>1, <2>2, AboveFacts, NoWayBack
  <2>4. node' \in T /\ \A k \in T : parent'[k] \in T
    BY <2>1, <2>2, <2>3
  <2>5. Above(node)' \subseteq T
    <3>1. Above(node)' = { m \in Source : \A S \in SUBSET Source :
                             node' \in S /\ (\A k \in S : parent'[k] \in S) => m \in S }
      BY DEF Above, Source
    <3> HIDE DEF T
    <3> QED
      BY <2>3, <2>4, <3>1
  <2>6. T \subseteq Above(node) /\ node \in Above(node) /\ Above(node) \in SUBSET Source
    <3>1. /\ Above(node) \in SUBSET Source /\ node \in Above(node)
          /\ \A k \in Above(node) : parent[k] \in Above(node)
      BY <2>1, AboveFacts
    <3> QED
      BY <2>1, <3>1, AboveFacts
  <2> HIDE DEF T
  <2>7. Above(node)' \in SUBSET Above(node) /\ Above(node)' # Above(node)
    BY <2>3, <2>5, <2>6
  <2>8. IsFiniteSet(Above(node))
    <3>1. IsFiniteSet(Source)
      BY NumSourcesAssumption, FS_Interval DEF Source
    <3> QED
      BY <2>6, <3>1, FS_Subset
  <2> QED
    BY <2>7, <2>8, FS_Subset, FS_CardinalityType
<1>2. CampaignInv /\ CampaignInv' /\ [Next]_vars
        => [Halve => Cardinality(Above(node)') < Cardinality(Above(node))]_vars
  BY <1>1
<1> QED
  BY <1>2, CampaignInvariant, PTL DEF Spec, FindEnds

===============================================================================
