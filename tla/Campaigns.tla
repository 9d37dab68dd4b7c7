------------------------------ MODULE Campaigns ------------------------------
(***************************************************************************)
(* correlate_campaigns (analysis/deception_shield/patterns.py): sources    *)
(* are compared pair by pair, linked ones are merged with a union-find     *)
(* whose find() halves the paths it walks, and the classes that come out   *)
(* of it are the campaigns.  One iteration of a loop is one step.          *)
(***************************************************************************)
EXTENDS Integers, FiniteSets

CONSTANTS
  NumSources,  \* distinct source addresses in the records
  Behaviours,  \* what a source may have done: signatures, ports, first, last
  MinSources,  \* min_sources
  Window,      \* window
  Threshold    \* threshold, in percent

ASSUME NumSourcesAssumption == NumSources \in Nat \ {0}
ASSUME BehavioursAssumption ==
  \A b \in Behaviours :
    /\ IsFiniteSet(b.signatures)
    /\ IsFiniteSet(b.ports) /\ b.ports # {}
    /\ b.first \in Int /\ b.last \in Int /\ b.first <= b.last
ASSUME LimitsAssumption == MinSources \in Nat /\ Window \in Nat /\ Threshold \in 1 .. 100

VARIABLES
  seen,     \* by_source, reduced to what the comparison looks at
  pc,       \* "pair"; "findA", "findB": inside union(); "label"; "done"
  left,     \* the pair under comparison; left alone in the last loop
  right,
  node,     \* the variable of find()
  rootA,    \* root_a of union()
  parent,
  cluster   \* cluster[s]: find(s) of the last loop, 0 before

vars == <<seen, pc, left, right, node, rootA, parent, cluster>>

\* sorted(by_source)
Source == 1 .. NumSources

-----------------------------------------------------------------------------

\* Mutant: the ports a source touched are left out.
SignatureProfile(b) == {"sig"} \X b.signatures

\* Signatures and ports, told apart by a prefix.
Profile(b) == ({"sig"} \X b.signatures) \cup ({"port"} \X b.ports)

Similar(p, q) ==
  100 * Cardinality(p \cap q) >= Threshold * Cardinality(p \cup q)

\* Mutant: only the gap before the first window counts.
CloseBefore(a, b) == a.first - b.last <= Window

\* max(the two gaps, 0) <= window
Close(a, b) == a.first - b.last <= Window /\ b.first - a.last <= Window

Linked(l, r) ==
  LET a == seen[l]  b == seen[r] IN
  /\ a.signatures \cap b.signatures # {}
  /\ Similar(Profile(a), Profile(b))
  /\ Close(a, b)

-----------------------------------------------------------------------------

Init ==
  /\ seen    \in [Source -> Behaviours]
  /\ left    = 1
  /\ right   = 2
  /\ node    = 1
  /\ rootA   = 1
  /\ parent  = [s \in Source |-> s]
  /\ cluster = [s \in Source |-> 0]
  /\ pc = IF NumSources < MinSources THEN "done"
          ELSE IF NumSources = 1 THEN "label" ELSE "pair"

\* Mutant: the inner loop begins at the left source itself.
NextPairFromSelf ==
  \/ /\ right < NumSources
     /\ right' = right + 1
     /\ pc' = "pair"
     /\ UNCHANGED <<left, node>>
  \/ /\ right = NumSources
     /\ left + 1 < NumSources
     /\ left'  = left + 1
     /\ right' = left + 1
     /\ pc' = "pair"
     /\ UNCHANGED node
  \/ /\ right = NumSources
     /\ left + 1 = NumSources
     /\ left' = 1
     /\ node' = 1
     /\ pc' = "label"
     /\ UNCHANGED right

\* The two nested loops go on to the next pair, or are over.
NextPair ==
  \/ /\ right < NumSources
     /\ right' = right + 1
     /\ pc' = "pair"
     /\ UNCHANGED <<left, node>>
  \/ /\ right = NumSources
     /\ left + 1 < NumSources
     /\ left'  = left + 1
     /\ right' = left + 2
     /\ pc' = "pair"
     /\ UNCHANGED node
  \/ /\ right = NumSources
     /\ left + 1 = NumSources
     /\ left' = 1
     /\ node' = 1
     /\ pc' = "label"
     /\ UNCHANGED right

SkipPair ==
  /\ pc = "pair"
  /\ ~Linked(left, right)
  /\ NextPair
  /\ UNCHANGED <<seen, rootA, parent, cluster>>

LinkPair ==
  /\ pc = "pair"
  /\ Linked(left, right)
  /\ pc'   = "findA"
  /\ node' = left
  /\ UNCHANGED <<seen, left, right, rootA, parent, cluster>>

\* Mutant: find() stays where it is.
HalveInPlace ==
  /\ pc \in {"findA", "findB", "label"}
  /\ parent[node] # node
  /\ parent' = [parent EXCEPT ![node] = parent[parent[node]]]
  /\ UNCHANGED <<seen, pc, left, right, node, rootA, cluster>>

\* An iteration of find().
Halve ==
  /\ pc \in {"findA", "findB", "label"}
  /\ parent[node] # node
  /\ parent' = [parent EXCEPT ![node] = parent[parent[node]]]
  /\ node' = parent'[node]
  /\ UNCHANGED <<seen, pc, left, right, rootA, cluster>>

\* Mutant: find() without its loop.
FoundAParent ==
  /\ pc = "findA"
  /\ rootA' = parent[node]
  /\ node'  = right
  /\ pc'    = "findB"
  /\ UNCHANGED <<seen, left, right, parent, cluster>>

FoundA ==
  /\ pc = "findA"
  /\ parent[node] = node
  /\ rootA' = node
  /\ node'  = right
  /\ pc'    = "findB"
  /\ UNCHANGED <<seen, left, right, parent, cluster>>

\* Mutant: the source is hung below the root, and not its root.
UnionOfSource ==
  /\ pc = "findB"
  /\ parent[node] = node
  /\ parent' = [parent EXCEPT ![right] = rootA]
  /\ NextPair
  /\ UNCHANGED <<seen, rootA, cluster>>

\* parent[root_b] = root_a, which changes nothing when the two are the same.
FoundB ==
  /\ pc = "findB"
  /\ parent[node] = node
  /\ parent' = [parent EXCEPT ![node] = rootA]
  /\ NextPair
  /\ UNCHANGED <<seen, rootA, cluster>>

\* clusters[find(ip)].append(ip)
Label ==
  /\ pc = "label"
  /\ parent[node] = node
  /\ cluster' = [cluster EXCEPT ![left] = node]
  /\ \/ /\ left < NumSources
        /\ left' = left + 1
        /\ node' = left + 1
        /\ UNCHANGED pc
     \/ /\ left = NumSources
        /\ pc' = "done"
        /\ UNCHANGED <<left, node>>
  /\ UNCHANGED <<seen, right, rootA, parent>>

Next == SkipPair \/ LinkPair \/ Halve \/ FoundA \/ FoundB \/ Label

Spec == Init /\ [][Next]_vars

\* A sequential program that is let run.
LiveSpec == Spec /\ WF_vars(Next)

\* The campaigns of the result, by their sources.
Result ==
  {c \in {{s \in Source : cluster[s] = r} : r \in Source} :
     c # {} /\ Cardinality(c) >= MinSources}

-----------------------------------------------------------------------------

TypeOK ==
  /\ seen    \in [Source -> Behaviours]
  /\ pc      \in {"pair", "findA", "findB", "label", "done"}
  /\ left    \in Source
  /\ right   \in Nat
  /\ pc \in {"pair", "findA", "findB"} => right \in Source /\ left < right
  /\ node    \in Source
  /\ rootA   \in Source
  /\ parent  \in [Source -> Source]
  /\ cluster \in [Source -> Source \cup {0}]

\* Pairs the nested loops are done with.
Compared(l, r) ==
  /\ l < r
  /\ pc \in {"label", "done"} \/ l < left \/ (l = left /\ r < right)

\* S is a union of classes: of the union-find, of the links compared so far.
ClosedUnder(p, S) == \A n \in Source : n \in S <=> p[n] \in S
ParentClosed(S)   == ClosedUnder(parent, S)
LinkClosed(S) ==
  \A l, r \in Source : Compared(l, r) /\ Linked(l, r) => (l \in S <=> r \in S)

\* At every step of the loops the classes of the union-find are the components
\* of the links compared so far: none is missed and none is merged too much,
\* whatever find() does to the paths meanwhile.
SamePartition ==
  NumSources >= MinSources =>
    \A S \in SUBSET Source : ParentClosed(S) <=> LinkClosed(S)

\* Every way up ends at a root, and two roots are in different classes.
Acyclic(p) ==
  \A S \in SUBSET Source :
    S # {} /\ (\A n \in S : p[n] \in S) => \E n \in S : p[n] = n
RootsApart(p) ==
  \A a, b \in Source :
    p[a] = a /\ p[b] = b /\ a # b =>
      \E S \in SUBSET Source : ClosedUnder(p, S) /\ a \in S /\ b \notin S

SameClass(a, b) ==
  \A S \in SUBSET Source : ParentClosed(S) => (a \in S <=> b \in S)

Labelled(s) ==
  \/ pc = "label" /\ s < left
  \/ pc = "done" /\ NumSources >= MinSources

FoundRight ==
  /\ pc \in {"findA", "findB"} => Linked(left, right)
  /\ pc \in {"findA", "label"} => SameClass(node, left)
  /\ pc = "findB" =>
       parent[rootA] = rootA /\ SameClass(rootA, left) /\ SameClass(node, right)
  /\ \A s \in Source : Labelled(s) =>
       /\ cluster[s] \in Source
       /\ parent[cluster[s]] = cluster[s]
       /\ SameClass(cluster[s], s)

\* What find() relies on: it is at a node of the class it was asked for, and
\* the root it returned first is still one when the two are merged.
UnionFindInv == Acyclic(parent) /\ RootsApart(parent) /\ FoundRight

\* Two sources are connected when no union of components separates them.
Connected(a, b) == \A S \in SUBSET Source : LinkClosed(S) => (a \in S <=> b \in S)

\* "Linked sources are then merged transitively, so a chain of similar hosts
\* forms a single campaign even when its two ends differ" (patterns.py): two
\* sources are in one campaign exactly if a chain of links connects them, and
\* the order of the comparisons does not matter.
CampaignsAreComponents ==
  pc = "done" /\ NumSources >= MinSources =>
    \A a, b \in Source : cluster[a] = cluster[b] <=> Connected(a, b)

\* A campaign is evidence of coordination: each of its sources shares a
\* signature with another one that was active within the window of it, and with
\* a threshold of more than a third not that signature alone ("sharing a single
\* common signature is not enough on its own", patterns.py).
CampaignsAreCoherent ==
  pc = "done" /\ MinSources >= 2 =>
    \A c \in Result : \A a \in c : \E b \in c \ {a} :
      /\ seen[a].signatures \cap seen[b].signatures # {}
      /\ Threshold > 33 =>
           Cardinality(Profile(seen[a]) \cap Profile(seen[b])) > 1
      /\ seen[a].first <= seen[b].last + Window
      /\ seen[b].first <= seen[a].last + Window

\* "Activity separated by more than this is treated as unrelated even when the
\* behaviour matches" (patterns.py): although links are merged over any distance,
\* no campaign is silent for longer than the window.
CampaignsAreContinuous ==
  pc = "done" /\ NumSources >= MinSources =>
    \A c \in Result : \A a, b \in c :
      seen[b].last > seen[a].last =>
        \E d \in c :
          seen[d].last > seen[a].last /\ seen[d].first <= seen[a].last + Window

\* find() ends and with it the correlation.
Finishes == <>(pc = "done")

=============================================================================
