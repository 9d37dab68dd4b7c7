------------------------------ MODULE ScanProofs ------------------------------
(***************************************************************************)
(* Theorems about the reading side of Telemetry: what a scan of the pcap   *)
(* stream returns, for every number of events and indices, every page size *)
(* and query, and whatever becomes searchable while it runs.               *)
(***************************************************************************)
EXTENDS TelemetryProofs, FiniteSetTheorems

-----------------------------------------------------------------------------
(* Least elements stand in for induction. *)

LEMMA MinNat ==
  ASSUME NEW T, T \subseteq Nat, T # {}
  PROVE  \E m \in T : \A k \in T : m <= k
<1>1. PICK x \in T : \A y \in T : ~(<<y, x>> \in OpToRel(<, Nat))
  BY NatLessThanWellFounded, WFMin
<1>2. \A y \in T : ~(y < x)
  BY <1>1 DEF OpToRel
<1> QED
  BY <1>2

-----------------------------------------------------------------------------
(* The documents of the segments one after the other. *)

LEMMA ConcatFacts ==
  ASSUME NEW D, NEW s \in Seq(D), NEW t \in Seq(D)
  PROVE  /\ s \o t \in Seq(D)
         /\ ToSet(s \o t) = ToSet(s) \cup ToSet(t)
         /\ IsInjective(s) /\ IsInjective(t) /\ ToSet(s) \cap ToSet(t) = {}
              => IsInjective(s \o t)
<1> DEFINE u == s \o t
<1>1. /\ Len(s) \in Nat /\ Len(t) \in Nat /\ DOMAIN s = 1 .. Len(s) /\ DOMAIN t = 1 .. Len(t)
      /\ u \in Seq(D) /\ Len(u) = Len(s) + Len(t)
      /\ \A i \in 1 .. Len(s) + Len(t) : u[i] = IF i <= Len(s) THEN s[i] ELSE t[i - Len(s)]
  BY ConcatProperties
<1> HIDE DEF u
<1>2. /\ DOMAIN u = 1 .. Len(s) + Len(t)
      /\ \A i \in DOMAIN s : i \in DOMAIN u /\ u[i] = s[i]
      /\ \A i \in DOMAIN t : i + Len(s) \in DOMAIN u /\ u[i + Len(s)] = t[i]
      /\ \A i \in DOMAIN u : \/ i \in DOMAIN s /\ i <= Len(s) /\ u[i] = s[i]
                             \/ i - Len(s) \in DOMAIN t /\ i > Len(s) /\ u[i] = t[i - Len(s)]
  <2>1. DOMAIN u = 1 .. Len(s) + Len(t)
    BY <1>1
  <2>2. ASSUME NEW i \in DOMAIN t PROVE i + Len(s) \in DOMAIN u /\ u[i + Len(s)] = t[i]
    <3>1. i + Len(s) \in 1 .. Len(s) + Len(t) /\ ~(i + Len(s) <= Len(s)) /\ i + Len(s) - Len(s) = i
      BY <1>1
    <3> QED
      BY <1>1, <2>1, <3>1
  <2> QED
    BY <1>1, <2>1, <2>2
<1>3. ToSet(u) = ToSet(s) \cup ToSet(t)
  <2>1. \A x \in ToSet(s) \cup ToSet(t) : x \in ToSet(u)
    BY <1>2 DEF ToSet
  <2>2. \A x \in ToSet(u) : x \in ToSet(s) \cup ToSet(t)
    BY <1>2 DEF ToSet
  <2> QED
    BY <2>1, <2>2
<1>4. ASSUME IsInjective(s), IsInjective(t), ToSet(s) \cap ToSet(t) = {}
      PROVE  IsInjective(u)
  <2>1. \A i \in DOMAIN s, j \in DOMAIN t : s[i] # t[j]
    BY <1>4 DEF ToSet
  <2>2. ASSUME NEW i \in DOMAIN u, NEW j \in DOMAIN u, u[i] = u[j] PROVE i = j
    <3>1. CASE i <= Len(s) /\ j <= Len(s)
      BY <1>1, <1>2, <1>4, <2>2, <3>1 DEF IsInjective
    <3>2. CASE i > Len(s) /\ j > Len(s)
      <4>1. /\ i - Len(s) \in DOMAIN t /\ u[i] = t[i - Len(s)]
            /\ j - Len(s) \in DOMAIN t /\ u[j] = t[j - Len(s)]
        BY <1>1, <1>2, <3>2
      <4>2. i - Len(s) = j - Len(s)
        BY <1>4, <2>2, <4>1 DEF IsInjective
      <4> QED
        BY <1>1, <1>2, <4>2
    <3>3. CASE (i <= Len(s) /\ j > Len(s)) \/ (i > Len(s) /\ j <= Len(s))
      BY <1>1, <1>2, <2>1, <2>2, <3>3
    <3> QED
      BY <1>1, <1>2, <3>1, <3>2, <3>3
  <2> QED
    BY <2>2 DEF IsInjective
<1> QED
  BY <1>1, <1>3, <1>4 DEF u

\* The recursive function in FlattenSeq exists.
Flattens(q, n, f) == f = [i \in 1 .. n |-> IF i = 1 THEN q[i] ELSE f[i - 1] \o q[i]]

LEMMA FlattenExists ==
  ASSUME NEW q, NEW n \in Nat
  PROVE  \E f : Flattens(q, n, f)
<1> DEFINE Bad == { m \in Nat : ~ \E f : Flattens(q, m, f) }
<1> SUFFICES Bad = {}
  OBVIOUS
<1> SUFFICES ASSUME Bad # {} PROVE FALSE
  OBVIOUS
<1>1. PICK m \in Bad : \A k \in Bad : m <= k
  <2>1. Bad \subseteq Nat
    OBVIOUS
  <2> HIDE DEF Bad
  <2> QED
    BY <2>1, MinNat
<1>2. m # 0
  <2>1. Flattens(q, 0, [i \in 1 .. 0 |-> q[i]])
    BY DEF Flattens
  <2> QED
    BY <2>1
<1>3. PICK g : Flattens(q, m - 1, g)
  BY <1>1, <1>2
<1> DEFINE f == [i \in 1 .. m |-> IF i = m THEN IF m = 1 THEN q[m] ELSE g[m - 1] \o q[m]
                                  ELSE g[i]]
<1>4. ASSUME NEW i \in 1 .. m PROVE f[i] = IF i = 1 THEN q[i] ELSE f[i - 1] \o q[i]
  <2>1. CASE i = m
    <3>1. m # 1 => m - 1 \in 1 .. m /\ f[m - 1] = g[m - 1]
      BY <1>2
    <3> QED
      BY <2>1, <3>1
  <2>2. CASE i # m
    <3>1. i \in 1 .. m - 1 /\ f[i] = g[i]
      BY <2>2
    <3>2. g[i] = IF i = 1 THEN q[i] ELSE g[i - 1] \o q[i]
      BY <1>3, <3>1 DEF Flattens
    <3>3. i # 1 => i - 1 \in 1 .. m /\ i - 1 # m /\ f[i - 1] = g[i - 1]
      BY <3>1
    <3> QED
      BY <3>1, <3>2, <3>3
  <2> QED
    BY <2>1, <2>2
<1>5. Flattens(q, m, f)
  <2>1. f = [i \in 1 .. m |-> f[i]]
    OBVIOUS
  <2> HIDE DEF f
  <2> QED
    BY <1>4, <2>1 DEF Flattens
<1> QED
  BY <1>5

\* No document twice in some segments.
Distinct(q) ==
  /\ \A a \in DOMAIN q : IsInjective(q[a])
  /\ \A a, b \in DOMAIN q : a # b => ToSet(q[a]) \cap ToSet(q[b]) = {}

\* What the first n segments are joined to.
Joins(D, q, n, s) ==
  /\ s \in Seq(D)
  /\ \A x : x \in ToSet(s) <=> \E j \in 1 .. n : x \in ToSet(q[j])
  /\ Distinct(q) => IsInjective(s)

LEMMA JoinOneMore ==
  ASSUME NEW D, NEW q \in Seq(Seq(D)), NEW n \in 1 .. Len(q), n > 1, NEW s, Joins(D, q, n - 1, s)
  PROVE  Joins(D, q, n, s \o q[n])
<1>1. /\ q[n] \in Seq(D) /\ n \in DOMAIN q /\ n \in 1 .. n
      /\ \A j \in 1 .. n - 1 : j \in DOMAIN q /\ j # n /\ j \in 1 .. n
      /\ \A j \in 1 .. n : j # n => j \in 1 .. n - 1
  OBVIOUS
<1>2. s \in Seq(D)
  BY DEF Joins
<1>3. s \o q[n] \in Seq(D) /\ ToSet(s \o q[n]) = ToSet(s) \cup ToSet(q[n])
  BY <1>1, <1>2, ConcatFacts
<1>4. ASSUME NEW x PROVE x \in ToSet(s \o q[n]) <=> \E j \in 1 .. n : x \in ToSet(q[j])
  <2>1. x \in ToSet(s) <=> \E j \in 1 .. n - 1 : x \in ToSet(q[j])
    BY DEF Joins
  <2> QED
    BY <1>1, <1>3, <2>1
<1>5. ASSUME Distinct(q) PROVE IsInjective(s \o q[n])
  <2>1. IsInjective(q[n]) /\ IsInjective(s)
    BY <1>1, <1>5 DEF Distinct, Joins
  <2>2. \A j \in 1 .. n - 1 : ToSet(q[j]) \cap ToSet(q[n]) = {}
    BY <1>1, <1>5 DEF Distinct
  <2>3. \A x \in ToSet(s) : \E j \in 1 .. n - 1 : x \in ToSet(q[j])
    BY DEF Joins
  <2>4. ToSet(s) \cap ToSet(q[n]) = {}
    BY <2>2, <2>3
  <2> QED
    BY <1>1, <1>2, <2>1, <2>4, ConcatFacts
<1> QED
  BY <1>3, <1>4, <1>5 DEF Joins

LEMMA FlattenFacts ==
  ASSUME NEW D, NEW q \in Seq(Seq(D))
  PROVE  /\ FlattenSeq(q) \in Seq(D)
         /\ ToSet(FlattenSeq(q)) = UNION { ToSet(s) : s \in ToSet(q) }
         /\ Distinct(q) => IsInjective(FlattenSeq(q))
<1>1. Len(q) \in Nat /\ DOMAIN q = 1 .. Len(q) /\ \A i \in 1 .. Len(q) : q[i] \in Seq(D)
  OBVIOUS
<1>2. CASE Len(q) = 0
  <2>1. FlattenSeq(q) = q /\ q = <<>>
    BY <1>2 DEF FlattenSeq
  <2> QED
    BY <2>1 DEF ToSet, IsInjective
<1>3. CASE Len(q) # 0
  <2> DEFINE flatten == CHOOSE f : f = [i \in 1 .. Len(q) |-> IF i = 1 THEN q[i] ELSE f[i - 1] \o q[i]]
  <2>1. FlattenSeq(q) = flatten[Len(q)]
    BY <1>3 DEF FlattenSeq
  <2>2. Flattens(q, Len(q), flatten)
    BY <1>1, FlattenExists DEF Flattens
  <2> HIDE DEF flatten
  <2>3. \A i \in 1 .. Len(q) : flatten[i] = IF i = 1 THEN q[i] ELSE flatten[i - 1] \o q[i]
    BY <2>2 DEF Flattens
  <2> DEFINE Joined(n) == Joins(D, q, n, flatten[n])
             Bad == { n \in 1 .. Len(q) : ~Joined(n) }
  <2>4. Joined(1)
    <3>1. flatten[1] = q[1] /\ q[1] \in Seq(D) /\ 1 \in DOMAIN q
      BY <1>1, <1>3, <2>3
    <3>2. \A j : j \in 1 .. 1 <=> j = 1
      OBVIOUS
    <3> QED
      BY <3>1, <3>2 DEF Joins, Distinct
  <2>5. ASSUME NEW m \in 1 .. Len(q), m # 1, Joined(m - 1) PROVE Joined(m)
    <3>1. flatten[m] = flatten[m - 1] \o q[m]
      BY <2>3, <2>5
    <3>2. m > 1
      BY <1>1, <2>5
    <3> QED
      BY <2>5, <3>1, <3>2, JoinOneMore
  <2> HIDE DEF Joined
  <2>6. Bad = {}
    <3> SUFFICES ASSUME Bad # {} PROVE FALSE
      OBVIOUS
    <3>1. PICK m \in Bad : \A k \in Bad : m <= k
      <4>1. Bad \subseteq Nat
        BY <1>1
      <4> HIDE DEF Bad
      <4> QED
        BY <4>1, MinNat
    <3>2. m # 1
      BY <2>4, <3>1
    <3>3. m - 1 \in 1 .. Len(q) /\ m - 1 \notin Bad
      BY <1>1, <3>1, <3>2
    <3> QED
      BY <2>5, <3>1, <3>2, <3>3
  <2>7. Joins(D, q, Len(q), FlattenSeq(q))
    <3>1. Len(q) \in 1 .. Len(q)
      BY <1>1, <1>3
    <3> QED
      BY <2>1, <2>6, <3>1 DEF Joined
  <2>8. ASSUME NEW x
        PROVE  (\E j \in 1 .. Len(q) : x \in ToSet(q[j])) <=> x \in UNION { ToSet(s) : s \in ToSet(q) }
    <3>1. (\E j \in 1 .. Len(q) : x \in ToSet(q[j])) => \E s \in ToSet(q) : x \in ToSet(s)
      BY <1>1 DEF ToSet
    <3>2. (\E s \in ToSet(q) : x \in ToSet(s)) => \E j \in 1 .. Len(q) : x \in ToSet(q[j])
      BY <1>1 DEF ToSet
    <3> QED
      BY <3>1, <3>2
  <2> QED
    BY <2>7, <2>8 DEF Joins
<1> QED
  BY <1>2, <1>3

-----------------------------------------------------------------------------
(* What an index holds: the documents a search can see, and that none is    *)
(* in it twice.                                                             *)

Docs(index) == UNION { ToSet(segment) : segment \in ToSet(index.segments) }

Apart(index) ==
  /\ Distinct(index.segments) /\ IsInjective(index.buffer)
  /\ Docs(index) \cap ToSet(index.buffer) = {}

LEMMA StoredParts ==
  ASSUME NEW index
  PROVE  StoredIn(index) = ToSet(index.buffer) \cup Docs(index)
BY DEF StoredIn, Docs

LEMMA SearchableFacts ==
  ASSUME NEW D, NEW index \in IndexOf(D), Apart(index)
  PROVE  /\ Searchable(index) \in Seq(D)
         /\ ToSet(Searchable(index)) = Docs(index)
         /\ IsInjective(Searchable(index))
BY FlattenFacts DEF IndexOf, Searchable, Docs, Apart

LEMMA EmptyApart == Apart(EmptyIndex) /\ Docs(EmptyIndex) = {}
BY DEF Apart, Docs, EmptyIndex, Distinct, IsInjective, ToSet

\* What an insertion and an append leave apart.
LEMMA InsertAtDistinct ==
  ASSUME NEW S, NEW q \in Seq(S), NEW b \in S, NEW p \in 1 .. Len(q) + 1,
         Distinct(q), IsInjective(b), \A a \in DOMAIN q : ToSet(q[a]) \cap ToSet(b) = {}
  PROVE  Distinct(InsertAt(q, p, b))
<1> PICK t : t = InsertAt(q, p, b)
  OBVIOUS
<1>1. /\ Len(q) \in Nat /\ DOMAIN q = 1 .. Len(q)
      /\ p \in Nat /\ 1 <= p /\ p <= Len(q) + 1
  OBVIOUS
<1>2. /\ t \in Seq(S) /\ Len(t) = Len(q) + 1
      /\ \A i \in 1 .. p - 1 : t[i] = q[i]
      /\ t[p] = b
      /\ \A i \in p + 1 .. Len(q) + 1 : t[i] = q[i - 1]
  BY InsertAtPositions
\* Where an element of t comes from.
<1> DEFINE from(i) == IF i < p THEN i ELSE i - 1
<1>3. ASSUME NEW i \in DOMAIN t, i # p PROVE from(i) \in DOMAIN q /\ t[i] = q[from(i)]
  <2>1. i \in 1 .. Len(q) + 1
    BY <1>2
  <2>2. CASE i < p
    <3>1. i \in 1 .. p - 1 /\ i \in DOMAIN q
      BY <1>1, <2>1, <2>2
    <3> QED
      BY <1>2, <2>2, <3>1
  <2>3. CASE i > p
    <3>1. i \in p + 1 .. Len(q) + 1 /\ i - 1 \in DOMAIN q /\ ~(i < p)
      BY <1>1, <2>1, <2>3
    <3> QED
      BY <1>2, <3>1
  <2> QED
    BY <1>1, <1>3, <2>1, <2>2, <2>3
<1>4. ASSUME NEW i \in DOMAIN t PROVE IsInjective(t[i])
  BY <1>2, <1>3 DEF Distinct
<1>5. ASSUME NEW i \in DOMAIN t, NEW j \in DOMAIN t, i # j
      PROVE  ToSet(t[i]) \cap ToSet(t[j]) = {}
  <2>1. i \in Nat /\ j \in Nat
    BY <1>2
  <2>2. CASE i = p
    BY <1>2, <1>3, <1>5, <2>2
  <2>3. CASE j = p
    BY <1>2, <1>3, <1>5, <2>3
  <2>4. CASE i # p /\ j # p
    <3>1. /\ from(i) \in DOMAIN q /\ t[i] = q[from(i)]
          /\ from(j) \in DOMAIN q /\ t[j] = q[from(j)]
      BY <1>3, <2>4
    <3>2. from(i) # from(j)
      BY <1>1, <1>5, <2>1, <2>4
    <3> QED
      BY <3>1, <3>2 DEF Distinct
  <2> QED
    BY <2>2, <2>3, <2>4
<1> QED
  BY <1>4, <1>5 DEF Distinct

LEMMA InjectiveAppend ==
  ASSUME NEW D, NEW s \in Seq(D), NEW d \in D, IsInjective(s), d \notin ToSet(s)
  PROVE  IsInjective(Append(s, d))
<1> DEFINE c == Append(s, d)
<1>1. \A i \in DOMAIN c : \/ i \in DOMAIN s /\ c[i] = s[i]
                          \/ i = Len(s) + 1 /\ c[i] = d
  OBVIOUS
<1>2. \A i \in DOMAIN s : s[i] # d
  BY DEF ToSet
<1> HIDE DEF c
<1>3. IsInjective(c)
  BY <1>1, <1>2 DEF IsInjective
<1> QED
  BY <1>3 DEF c

LEMMA RefreshedApart ==
  ASSUME NEW D, NEW index \in IndexOf(D), Apart(index), NEW p \in 1 .. Len(index.segments) + 1,
         NEW new, new = [segments |-> InsertAt(index.segments, p, index.buffer), buffer |-> <<>>]
  PROVE  Apart(new) /\ Docs(new) = StoredIn(index)
<1> DEFINE q == index.segments
           b == index.buffer
           t == InsertAt(q, p, b)
<1>1. q \in Seq(Seq(D)) /\ b \in Seq(D)
  BY DEF IndexOf
<1>2. new.segments = t /\ new.buffer = <<>> /\ ToSet(new.buffer) = {}
  BY DEF ToSet
<1>3. ToSet(t) = ToSet(q) \cup {b}
  BY <1>1, InsertAtRange
<1>4. Docs(new) = StoredIn(index)
  <2>1. Docs(new) = UNION { ToSet(s) : s \in ToSet(q) \cup {b} }
    BY <1>2, <1>3 DEF Docs
  <2> QED
    BY <2>1 DEF StoredIn
<1>5. Distinct(q) /\ IsInjective(b) /\ \A a \in DOMAIN q : ToSet(q[a]) \cap ToSet(b) = {}
  <2>1. \A a \in DOMAIN q : q[a] \in ToSet(q)
    BY DEF ToSet
  <2>2. \A s \in ToSet(q) : ToSet(s) \subseteq Docs(index)
    BY DEF Docs
  <2> QED
    BY <2>1, <2>2 DEF Apart
<1>6. Distinct(t)
  BY <1>1, <1>5, InsertAtDistinct
<1>7. Apart(new)
  BY <1>2, <1>6 DEF Apart, IsInjective
<1> QED
  BY <1>4, <1>7

LEMMA BufferedApart ==
  ASSUME NEW D, NEW index \in IndexOf(D), Apart(index), NEW d \in D, d \notin StoredIn(index),
         NEW new, new = [index EXCEPT !.buffer = Append(@, d)]
  PROVE  Apart(new) /\ Docs(new) = Docs(index)
<1>1. /\ index.buffer \in Seq(D)
      /\ new.segments = index.segments /\ new.buffer = Append(index.buffer, d)
  BY DEF IndexOf
<1>2. Docs(new) = Docs(index)
  BY <1>1 DEF Docs
<1>3. ToSet(new.buffer) = ToSet(index.buffer) \cup {d}
  BY <1>1, AppendRange
<1>4. d \notin ToSet(index.buffer) /\ d \notin Docs(index)
  BY StoredParts
<1>5. IsInjective(new.buffer)
  <2>1. IsInjective(index.buffer)
    BY DEF Apart
  <2>2. IsInjective(Append(index.buffer, d))
    BY <1>1, <1>4, <2>1, InjectiveAppend
  <2> QED
    BY <1>1, <2>2
<1> QED
  BY <1>1, <1>2, <1>3, <1>4, <1>5 DEF Apart

-----------------------------------------------------------------------------
(* The shards: no document is stored twice in a stream, and the numbers of   *)
(* the documents are those given out so far.                                *)

NoRepeats ==
  \A s \in Stream :
    /\ \A i \in DOMAIN shards[s] : Apart(shards[s][i])
    /\ \A i, j \in DOMAIN shards[s] :
         i # j => StoredIn(shards[s][i]) \cap StoredIn(shards[s][j]) = {}

Numbered ==
  /\ IsFiniteSet(AllStored)
  /\ \A d \in AllStored : d.nr <= Cardinality(AllStored)

ShardsInv ==
  /\ ShardsOf(Document)
  /\ \A s \in Stream : Len(shards[s]) <= MaxIndices
  /\ NoRepeats
  /\ Numbered

\* What a step does to the documents that a search can see: it loses none, or
\* it changes none.
Grown ==
  \A s \in Stream :
    /\ DOMAIN shards[s] \subseteq DOMAIN shards'[s]
    /\ \A i \in DOMAIN shards[s] : Docs(shards[s][i]) \subseteq Docs(shards'[s][i])

Fixed ==
  \A s \in Stream :
    /\ DOMAIN shards'[s] = DOMAIN shards[s]
    /\ \A i \in DOMAIN shards[s] : shards'[s][i].segments = shards[s][i].segments

LEMMA AllStoredParts ==
  /\ \A x : x \in AllStored <=> \E s \in Stream : \E i \in DOMAIN shards[s] : x \in StoredIn(shards[s][i])
  /\ \A x : x \in AllStored' <=> \E s \in Stream : \E i \in DOMAIN shards'[s] : x \in StoredIn(shards'[s][i])
<1>1. \A x : \A s : x \in Stored(s) <=> \E i \in DOMAIN shards[s] : x \in StoredIn(shards[s][i])
  BY DEF Stored
<1>2. \A x : x \in AllStored <=> \E s \in Stream : x \in Stored(s)
  BY DEF AllStored
<1>3. \A x : \A s : x \in Stored(s)' <=> \E i \in DOMAIN shards'[s] : x \in StoredIn(shards'[s][i])
  BY DEF Stored
<1>4. \A x : x \in AllStored' <=> \E s \in Stream : x \in Stored(s)'
  BY DEF AllStored
<1> QED
  BY <1>1, <1>2, <1>3, <1>4

LEMMA MovedStored ==
  ASSUME Moved
  PROVE  AllStored' = AllStored
<1>1. ASSUME NEW x \in AllStored PROVE x \in AllStored'
  BY <1>1, AllStoredParts DEF Moved
<1>2. ASSUME NEW x \in AllStored' PROVE x \in AllStored
  <2>1. PICK s \in Stream : \E i \in DOMAIN shards'[s] : x \in StoredIn(shards'[s][i])
    BY <1>2, AllStoredParts
  <2>2. PICK i \in DOMAIN shards'[s] : x \in StoredIn(shards'[s][i])
    BY <2>1
  <2> QED
    BY <2>1, <2>2, AllStoredParts DEF Moved
<1> QED
  BY <1>1, <1>2

\* What is stored are documents.
LEMMA StoredDocuments ==
  ASSUME NEW D, ShardsOf(D)
  PROVE  AllStored \subseteq D
<1>1. ASSUME NEW index \in IndexOf(D) PROVE StoredIn(index) \subseteq D
  <2>1. \A t \in Seq(D) : ToSet(t) \subseteq D
    BY DEF ToSet
  <2>2. index.buffer \in Seq(D) /\ \A t \in ToSet(index.segments) : t \in Seq(D)
    BY DEF IndexOf, ToSet
  <2> QED
    BY <2>1, <2>2 DEF StoredIn
<1>2. \A s \in Stream : \A i \in DOMAIN shards[s] : shards[s][i] \in IndexOf(D)
  BY DEF ShardsOf
<1> QED
  BY <1>1, <1>2, AllStoredParts

\* What is left to show of a step that moves documents.
LEMMA MovedInv ==
  ASSUME ShardsInv, Moved, ShardsOf(Document)',
         \A s \in Stream : Len(shards'[s]) <= MaxIndices,
         \A s \in Stream : \A i \in DOMAIN shards'[s] : Apart(shards'[s][i])
  PROVE  ShardsInv'
<1>1. Numbered'
  BY MovedStored DEF ShardsInv, Numbered
<1>2. ASSUME NEW s \in Stream, NEW i \in DOMAIN shards'[s], NEW j \in DOMAIN shards'[s], i # j
      PROVE  StoredIn(shards'[s][i]) \cap StoredIn(shards'[s][j]) = {}
  BY <1>2 DEF Moved, ShardsInv, NoRepeats
<1>3. NoRepeats'
  BY <1>2 DEF NoRepeats
<1> QED
  BY <1>1, <1>3 DEF ShardsInv

LEMMA InitShardsInv == ASSUME StreamsInit PROVE ShardsInv
<1>1. ShardsOf(Document)
  BY StreamsInitShards
<1>2. \A s \in Stream : shards[s] = <<EmptyIndex>>
  BY DEF StreamsInit
<1>3. \A s \in Stream : Len(shards[s]) <= MaxIndices
  <2>1. Len(<<EmptyIndex>>) = 1
    OBVIOUS
  <2>2. 1 <= MaxIndices
    BY MaxIndicesAssumption
  <2> QED
    BY <1>2, <2>1, <2>2
<1>4. NoRepeats
  BY <1>2, EmptyApart DEF NoRepeats
<1>5. StoredIn(EmptyIndex) = {}
  BY DEF EmptyIndex, StoredIn, ToSet
<1>6. AllStored = {}
  BY <1>2, <1>5, AllStoredParts
<1>7. Numbered
  BY <1>6, FS_EmptySet DEF Numbered
<1> QED
  BY <1>1, <1>3, <1>4, <1>7 DEF ShardsInv

LEMMA RefreshInv ==
  ASSUME ShardsInv, NEW s \in Stream, NEW i \in DOMAIN shards[s], NEW p, Refresh(s, i, p)
  PROVE  ShardsInv' /\ Grown
<1> DEFINE index == shards[s][i]
           new   == [segments |-> InsertAt(index.segments, p, index.buffer), buffer |-> <<>>]
<1>1. shards' = [shards EXCEPT ![s][i] = new] /\ p \in 1 .. Len(index.segments) + 1
  BY DEF Refresh
<1>2. shards[s] \in Seq(IndexOf(Document)) /\ index \in IndexOf(Document) /\ Apart(index)
  BY DEF ShardsInv, ShardsOf, NoRepeats
<1>3. Apart(new) /\ Docs(index) \subseteq Docs(new)
  BY <1>1, <1>2, RefreshedApart, StoredParts
<1>4. ShardsOf(Document)' /\ Moved
  BY RefreshShards DEF ShardsInv
<1> HIDE DEF new
<1>5. /\ \A t \in Stream : DOMAIN shards'[t] = DOMAIN shards[t] /\ Len(shards'[t]) = Len(shards[t])
      /\ \A t \in Stream : \A j \in DOMAIN shards[t] :
           shards'[t][j] = IF t = s /\ j = i THEN new ELSE shards[t][j]
  BY <1>1, <1>2 DEF ShardsInv, ShardsOf
<1>6. \A t \in Stream : \A j \in DOMAIN shards'[t] : Apart(shards'[t][j])
  BY <1>3, <1>5 DEF ShardsInv, NoRepeats
<1>7. Grown
  BY <1>3, <1>5 DEF Grown
<1>8. \A t \in Stream : Len(shards'[t]) <= MaxIndices
  BY <1>5 DEF ShardsInv
<1> QED
  BY <1>4, <1>6, <1>7, <1>8, MovedInv

LEMMA RolloverInv ==
  ASSUME ShardsInv, NEW s \in Stream, Rollover(s)
  PROVE  ShardsInv' /\ Grown
<1>1. /\ shards' = [shards EXCEPT ![s] = Append(shards[s], EmptyIndex)]
      /\ Len(shards[s]) < MaxIndices
  BY DEF Rollover
<1>2. shards \in [Stream -> Seq(IndexOf(Document))] /\ EmptyIndex \in IndexOf(Document)
  <2>1. EmptyIndex \in IndexOf(Document)
    BY DEF EmptyIndex, IndexOf
  <2> QED
    BY <2>1 DEF ShardsInv, ShardsOf
<1> DEFINE longer == Append(shards[s], EmptyIndex)
<1>3. /\ Len(longer) = Len(shards[s]) + 1 /\ Len(shards[s]) \in Nat
      /\ DOMAIN shards[s] \subseteq DOMAIN longer
      /\ \A i \in DOMAIN longer :
           longer[i] = IF i \in DOMAIN shards[s] THEN shards[s][i] ELSE EmptyIndex
  BY <1>2
<1> HIDE DEF longer
<1>4. shards'[s] = longer /\ \A t \in Stream : t # s => shards'[t] = shards[t]
  BY <1>1, <1>2 DEF longer
<1>5. ShardsOf(Document)' /\ Moved
  BY RolloverShards DEF ShardsInv
<1>6. \A t \in Stream : \A i \in DOMAIN shards'[t] : Apart(shards'[t][i])
  BY <1>3, <1>4, EmptyApart DEF ShardsInv, NoRepeats
<1>7. Grown
  BY <1>3, <1>4 DEF Grown
<1>8. \A t \in Stream : Len(shards'[t]) <= MaxIndices
  BY <1>1, <1>3, <1>4, MaxIndicesAssumption DEF ShardsInv
<1> QED
  BY <1>5, <1>6, <1>7, <1>8, MovedInv

LEMMA StoreInv ==
  ASSUME ShardsInv, NEW e \in Events, Store(e)
  PROVE  /\ ShardsInv' /\ Fixed
         /\ Cardinality(AllStored') <= Cardinality(AllStored) + 1
<1>1. IsFiniteSet(AllStored) /\ Cardinality(AllStored) \in Nat
  BY FS_CardinalityType DEF ShardsInv, Numbered
<1>2. CASE Rejected(e) \/ Refused(e)
  <2>1. UNCHANGED shards
    BY <1>2 DEF Store
  <2>2. AllStored' = AllStored
    BY <2>1, AllStoredParts
  <2>3. ShardsInv'
    BY <2>1, <2>2 DEF ShardsInv, ShardsOf, NoRepeats, Numbered
  <2> QED
    BY <1>1, <2>1, <2>2, <2>3 DEF Fixed
<1>3. CASE ~Rejected(e) /\ ~Refused(e)
  <2> DEFINE s == StreamOf(e)
             n == Len(shards[s])
  <2> PICK d : d = NewDocument(e)
    OBVIOUS
  <2>1. s \in Stream
    BY DEF StreamOf, Stream
  <2>2. d \in Document /\ d.nr = Cardinality(AllStored) + 1
    BY <1>1 DEF NewDocument, Document
  <2>3. d \notin AllStored
    BY <1>1, <2>2 DEF ShardsInv, Numbered
  <2>4. Wrote(e) /\ \E E : E = Document \cup {d} /\ ShardsOf(E)'
    BY <1>3, StoreShards DEF ShardsInv
  <2>5. /\ DOMAIN shards'[s] = DOMAIN shards[s] /\ n \in DOMAIN shards[s]
        /\ shards'[s][n] = [shards[s][n] EXCEPT !.buffer = Append(@, d)]
        /\ StoredIn(shards'[s][n]) = StoredIn(shards[s][n]) \cup {d}
        /\ \A i \in DOMAIN shards[s] \ {n} : shards'[s][i] = shards[s][i]
        /\ \A o \in Stream \ {s} : shards'[o] = shards[o]
    BY <2>4 DEF Wrote
  <2>6. ShardsOf(Document)'
    <3>1. Document \cup {d} = Document
      BY <2>2
    <3> QED
      BY <2>4, <3>1
  <2> HIDE DEF s, n
  <2>7. \A t \in Stream : \A i \in DOMAIN shards[t] : d \notin StoredIn(shards[t][i])
    BY <2>3, AllStoredParts
  <2>8. /\ \A t \in Stream : DOMAIN shards'[t] = DOMAIN shards[t]
        /\ \A t \in Stream : \A i \in DOMAIN shards[t] :
             (t # s \/ i # n) => shards'[t][i] = shards[t][i]
    BY <2>5
  <2>9. shards[s][n] \in IndexOf(Document) /\ Apart(shards[s][n])
    BY <2>1, <2>5 DEF ShardsInv, ShardsOf, NoRepeats
  <2>10. /\ Apart(shards'[s][n])
         /\ shards'[s][n].segments = shards[s][n].segments
    <3>1. Apart(shards'[s][n])
      BY <2>1, <2>2, <2>5, <2>7, <2>9, BufferedApart
    <3>2. shards'[s][n].segments = shards[s][n].segments
      BY <2>5, <2>9 DEF IndexOf
    <3> QED
      BY <3>1, <3>2
  <2>11. Fixed
    BY <2>8, <2>10 DEF Fixed
  <2>12. \A t \in Stream : Len(shards'[t]) <= MaxIndices
    <3>1. \A t \in Stream : /\ DOMAIN shards'[t] = 1 .. Len(shards'[t]) /\ Len(shards'[t]) \in Nat
                            /\ DOMAIN shards[t] = 1 .. Len(shards[t]) /\ Len(shards[t]) \in Nat
      BY <2>6 DEF ShardsInv, ShardsOf
    <3>2. \A t \in Stream : Len(shards'[t]) = Len(shards[t])
      BY <2>8, <3>1
    <3> QED
      BY <3>2 DEF ShardsInv
  <2>13. NoRepeats'
    <3>1. \A t \in Stream : \A i \in DOMAIN shards'[t] : Apart(shards'[t][i])
      BY <2>8, <2>10 DEF ShardsInv, NoRepeats
    <3>2. \A t \in Stream : \A i \in DOMAIN shards[t] :
            \/ StoredIn(shards'[t][i]) = StoredIn(shards[t][i])
            \/ t = s /\ i = n /\ StoredIn(shards'[t][i]) = StoredIn(shards[t][i]) \cup {d}
      BY <2>5, <2>8
    <3>3. ASSUME NEW t \in Stream, NEW i \in DOMAIN shards'[t], NEW j \in DOMAIN shards'[t], i # j
          PROVE  StoredIn(shards'[t][i]) \cap StoredIn(shards'[t][j]) = {}
      <4>1. i \in DOMAIN shards[t] /\ j \in DOMAIN shards[t]
        BY <2>8
      <4>2. StoredIn(shards[t][i]) \cap StoredIn(shards[t][j]) = {}
        BY <3>3, <4>1 DEF ShardsInv, NoRepeats
      <4>3. d \notin StoredIn(shards[t][i]) /\ d \notin StoredIn(shards[t][j])
        BY <2>7, <4>1
      <4> QED
        BY <3>2, <3>3, <4>1, <4>2, <4>3
    <3> QED
      BY <3>1, <3>3 DEF NoRepeats
  <2>14. AllStored' = AllStored \cup {d}
    <3>1. ASSUME NEW x \in AllStored' PROVE x \in AllStored \cup {d}
      <4>1. PICK t \in Stream : \E i \in DOMAIN shards'[t] : x \in StoredIn(shards'[t][i])
        BY <3>1, AllStoredParts
      <4>2. PICK i \in DOMAIN shards'[t] : x \in StoredIn(shards'[t][i])
        BY <4>1
      <4>3. x \in StoredIn(shards[t][i]) \/ x = d
        BY <2>5, <2>8, <4>2
      <4> QED
        BY <2>8, <4>2, <4>3, AllStoredParts
    <3>2. ASSUME NEW x \in AllStored PROVE x \in AllStored'
      <4>1. PICK t \in Stream : \E i \in DOMAIN shards[t] : x \in StoredIn(shards[t][i])
        BY <3>2, AllStoredParts
      <4>2. PICK i \in DOMAIN shards[t] : x \in StoredIn(shards[t][i])
        BY <4>1
      <4>3. x \in StoredIn(shards'[t][i]) /\ i \in DOMAIN shards'[t]
        BY <2>5, <2>8, <4>2
      <4> QED
        BY <4>3, AllStoredParts
    <3>3. d \in AllStored'
      BY <2>1, <2>5, AllStoredParts
    <3> QED
      BY <3>1, <3>2, <3>3
  <2>15. IsFiniteSet(AllStored') /\ Cardinality(AllStored') = Cardinality(AllStored) + 1
    BY <1>1, <2>3, <2>14, FS_AddElement
  <2>16. Numbered'
    <3>1. ASSUME NEW x \in AllStored' PROVE x.nr <= Cardinality(AllStored')
      <4>1. CASE x = d
        BY <1>1, <2>2, <2>15, <4>1
      <4>2. CASE x \in AllStored
        <5>1. x.nr <= Cardinality(AllStored) /\ x \in Document
          BY <4>2, AllStoredParts, StoredDocuments DEF ShardsInv, Numbered
        <5> QED
          BY <1>1, <2>15, <5>1 DEF Document
      <4> QED
        BY <2>14, <3>1, <4>1, <4>2
    <3> QED
      BY <2>15, <3>1 DEF Numbered
  <2> QED
    BY <1>1, <2>6, <2>11, <2>12, <2>13, <2>15, <2>16 DEF ShardsInv
<1> QED
  BY <1>2, <1>3

-----------------------------------------------------------------------------
(* The writing side: there are at most as many documents as events handed    *)
(* over and answers lost, which bounds _doc.                                 *)

IngestInv ==
  /\ ShardsInv
  /\ sent \in 0 .. MaxSent /\ lost \in 0 .. MaxLost
  /\ IsFiniteSet(queue) /\ queue \subseteq Events \X (1 .. sent)
  /\ Cardinality(AllStored) + Cardinality(queue) <= sent + lost

LEMMA InitIngestInv == ASSUME Init PROVE IngestInv
<1>1. ShardsInv
  BY InitShardsInv DEF Init
<1>2. \A s \in Stream : \A i \in DOMAIN shards[s] : shards[s][i] = EmptyIndex
  BY DEF Init, StreamsInit
<1>3. StoredIn(EmptyIndex) = {}
  BY DEF EmptyIndex, StoredIn, ToSet
<1>4. AllStored = {}
  BY <1>2, <1>3, AllStoredParts
<1>5. sent = 0 /\ queue = {} /\ lost = 0
  BY DEF Init, IngestInit
<1> QED
  BY <1>1, <1>4, <1>5, FS_EmptySet, BoundsAssumption DEF IngestInv

LEMMA ReceiveInv ==
  ASSUME IngestInv, NEW e \in Events, Receive(e)
  PROVE  IngestInv' /\ Fixed
<1>1. /\ UNCHANGED shards /\ lost' = lost /\ sent < MaxSent
      /\ sent' = sent + 1 /\ queue' = queue \cup {<<e, sent + 1>>}
  BY DEF Receive
<1>2. Fixed
  BY <1>1 DEF Fixed
<1>3. AllStored' = AllStored
  BY <1>1, AllStoredParts
<1>4. ShardsInv'
  BY <1>1, <1>3 DEF IngestInv, ShardsInv, ShardsOf, NoRepeats, Numbered
<1>5. /\ IsFiniteSet(queue') /\ Cardinality(queue') <= Cardinality(queue) + 1
      /\ Cardinality(queue) \in Nat /\ Cardinality(queue') \in Nat
  <2>1. IsFiniteSet(queue) /\ Cardinality(queue) \in Nat
    BY FS_CardinalityType DEF IngestInv
  <2>2. /\ IsFiniteSet(queue')
        /\ \/ Cardinality(queue') = Cardinality(queue)
           \/ Cardinality(queue') = Cardinality(queue) + 1
    BY <1>1, <2>1, FS_AddElement
  <2> QED
    BY <2>1, <2>2
<1>6. Cardinality(AllStored) \in Nat
  BY FS_CardinalityType DEF IngestInv, ShardsInv, Numbered
<1>7. sent' \in 0 .. MaxSent /\ queue' \subseteq Events \X (1 .. sent')
  BY <1>1, BoundsAssumption DEF IngestInv
<1>8. Cardinality(AllStored') + Cardinality(queue') <= sent' + lost'
  BY <1>1, <1>3, <1>5, <1>6, BoundsAssumption DEF IngestInv
<1> QED
  BY <1>1, <1>2, <1>4, <1>5, <1>7, <1>8 DEF IngestInv

LEMMA IndexInv ==
  ASSUME IngestInv, NEW item \in queue, Index(item) \/ IndexUnanswered(item)
  PROVE  IngestInv' /\ Fixed
<1>1. item[1] \in Events /\ Store(item[1])
  BY DEF IngestInv, Index, IndexUnanswered
<1>2. ShardsInv' /\ Fixed /\ Cardinality(AllStored') <= Cardinality(AllStored) + 1
  BY <1>1, StoreInv DEF IngestInv
<1>3. /\ Cardinality(AllStored) \in Nat /\ Cardinality(AllStored') \in Nat
      /\ Cardinality(queue) \in Nat
  BY <1>2, FS_CardinalityType DEF IngestInv, ShardsInv, Numbered
<1>4. sent \in Nat /\ lost \in Nat
  BY BoundsAssumption DEF IngestInv
<1>5. CASE Index(item)
  <2>1. queue' = queue \ {item} /\ UNCHANGED <<sent, lost>>
    BY <1>5 DEF Index
  <2>2. IsFiniteSet(queue') /\ Cardinality(queue') = Cardinality(queue) - 1
    BY <2>1, FS_RemoveElement DEF IngestInv
  <2>3. Cardinality(AllStored') + Cardinality(queue') <= sent' + lost'
    BY <1>2, <1>3, <1>4, <2>1, <2>2 DEF IngestInv
  <2> QED
    BY <1>2, <2>1, <2>2, <2>3 DEF IngestInv
<1>6. CASE IndexUnanswered(item)
  <2>1. UNCHANGED <<sent, queue>> /\ lost' = lost + 1 /\ lost < MaxLost
    BY <1>6 DEF IndexUnanswered
  <2>2. lost' \in 0 .. MaxLost
    BY <2>1, BoundsAssumption DEF IngestInv
  <2>3. Cardinality(AllStored') + Cardinality(queue') <= sent' + lost'
    BY <1>2, <1>3, <1>4, <2>1 DEF IngestInv
  <2> QED
    BY <1>2, <2>1, <2>2, <2>3 DEF IngestInv
<1> QED
  BY <1>5, <1>6

LEMMA IngestNextInv ==
  ASSUME IngestInv, IngestNext
  PROVE  IngestInv' /\ Fixed
BY ReceiveInv, IndexInv DEF IngestNext

LEMMA StreamsMoveInv ==
  ASSUME IngestInv, StreamsMove
  PROVE  IngestInv' /\ Grown
<1>1. ShardsInv
  BY DEF IngestInv
<1>2. UNCHANGED <<sent, queue, lost>>
  BY DEF StreamsMove, ingestVars
<1>3. ASSUME NEW s \in Stream, Rollover(s) PROVE ShardsInv' /\ Grown /\ Moved
  BY <1>1, <1>3, RolloverInv, RolloverShards DEF ShardsInv
<1>4. ASSUME NEW s \in Stream, NEW i \in DOMAIN shards[s], NEW p, Refresh(s, i, p)
      PROVE  ShardsInv' /\ Grown /\ Moved
  BY <1>1, <1>4, RefreshInv, RefreshShards DEF ShardsInv
<1>5. ShardsInv' /\ Grown /\ Moved
  BY <1>3, <1>4 DEF StreamsMove
<1> QED
  BY <1>2, <1>5, MovedStored DEF IngestInv

LEMMA StillIngestInv ==
  ASSUME IngestInv, UNCHANGED <<shards, sent, queue, lost>>
  PROVE  IngestInv' /\ Fixed
<1>1. AllStored' = AllStored
  BY AllStoredParts
<1>2. ShardsInv'
  BY <1>1 DEF IngestInv, ShardsInv, ShardsOf, NoRepeats, Numbered
<1> QED
  BY <1>1, <1>2 DEF IngestInv, Fixed

-----------------------------------------------------------------------------
(* What a search finds.                                                      *)

\* The document at place k of shard i as a hit.
HitAt(i, k) ==
  LET docs == Searchable(shards["pcap"][i]) IN
  [doc |-> docs[k], sort |-> <<docs[k].event.time, k - 1>>, shard |-> i]

Finds(t, m, h) ==
  \E i \in DOMAIN shards["pcap"] :
    \E k \in DOMAIN Searchable(shards["pcap"][i]) :
      Wanted(Searchable(shards["pcap"][i])[k], t, m) /\ h = HitAt(i, k)

LEMMA MatchingParts ==
  ASSUME NEW t, NEW m, NEW h
  PROVE  /\ h \in Matching(t, m) <=> Finds(t, m, h)
         /\ h \in Matching(t, m)' <=> Finds(t, m, h)'
BY DEF Matching, Finds, HitAt

\* The searchable documents of an index, one by one.
LEMMA ShardFacts ==
  ASSUME IngestInv, NEW i \in DOMAIN shards["pcap"]
  PROVE  LET docs == Searchable(shards["pcap"][i]) IN
         /\ i \in Nat
         /\ docs \in Seq(Document) /\ IsInjective(docs)
         /\ ToSet(docs) = Docs(shards["pcap"][i])
         /\ ToSet(docs) \subseteq StoredIn(shards["pcap"][i])
         /\ ToSet(docs) \subseteq AllStored
         /\ Len(docs) <= MaxSent + MaxLost
<1> DEFINE index == shards["pcap"][i]
           docs  == Searchable(index)
<1>1. "pcap" \in Stream /\ ShardsInv
  BY DEF Stream, IngestInv
<1>2. i \in Nat /\ index \in IndexOf(Document) /\ Apart(index)
  BY <1>1 DEF ShardsInv, ShardsOf, NoRepeats
<1>3. docs \in Seq(Document) /\ IsInjective(docs) /\ ToSet(docs) = Docs(index)
  BY <1>2, SearchableFacts
<1>4. ToSet(docs) \subseteq StoredIn(index) /\ StoredIn(index) \subseteq AllStored
  BY <1>1, <1>3, StoredParts, AllStoredParts
<1>5. IsFiniteSet(AllStored) /\ Cardinality(AllStored) \in Nat /\ Cardinality(queue) \in Nat
  BY <1>1, FS_CardinalityType DEF IngestInv, ShardsInv, Numbered
<1>6. Cardinality(AllStored) <= MaxSent + MaxLost
  BY <1>5, BoundsAssumption DEF IngestInv
<1> HIDE DEF docs
<1>7. Len(docs) \in Nat /\ DOMAIN docs = 1 .. Len(docs)
  BY <1>3
<1>8. docs \in Injection(1 .. Len(docs), AllStored)
  <2>1. \A k \in 1 .. Len(docs) : docs[k] \in AllStored
    BY <1>4, <1>7 DEF ToSet
  <2>2. docs \in [1 .. Len(docs) -> AllStored]
    BY <1>3, <1>7, <2>1
  <2> QED
    BY <1>3, <2>2, Zenon DEF Injection
<1>9. Len(docs) <= Cardinality(AllStored)
  <2>1. Cardinality(1 .. Len(docs)) <= Cardinality(AllStored)
    BY <1>5, <1>8, FS_Injection
  <2>2. Cardinality(1 .. Len(docs)) = IF 1 > Len(docs) THEN 0 ELSE Len(docs) - 1 + 1
    BY <1>7, FS_Interval
  <2> QED
    BY <1>7, <2>1, <2>2
<1>10. Len(docs) <= MaxSent + MaxLost
  BY <1>5, <1>6, <1>7, <1>9, BoundsAssumption
<1> QED
  BY <1>2, <1>3, <1>4, <1>10 DEF docs

LEMMA DocNumbers == DocNumber \subseteq Nat /\ IsFiniteSet(DocNumber)
<1>1. 0 \in Int /\ MaxSent + MaxLost - 1 \in Int
  BY BoundsAssumption
<1> QED
  BY <1>1, FS_Interval DEF DocNumber

LEMMA HitFacts ==
  ASSUME IngestInv, NEW t, NEW m, NEW h \in Matching(t, m)
  PROVE  /\ h.doc \in Document /\ h.doc \in AllStored /\ Wanted(h.doc, t, m)
         /\ h.sort \in Nat \X DocNumber
         /\ h.sort[1] = h.doc.event.time
         /\ h.shard \in DOMAIN shards["pcap"] /\ h.shard \in Nat
<1>1. PICK i \in DOMAIN shards["pcap"] :
        \E k \in DOMAIN Searchable(shards["pcap"][i]) :
          Wanted(Searchable(shards["pcap"][i])[k], t, m) /\ h = HitAt(i, k)
  BY MatchingParts DEF Finds
<1> DEFINE docs == Searchable(shards["pcap"][i])
<1>2. PICK k \in DOMAIN docs : Wanted(docs[k], t, m) /\ h = HitAt(i, k)
  BY <1>1
<1>3. /\ i \in Nat /\ docs \in Seq(Document) /\ ToSet(docs) \subseteq AllStored
      /\ Len(docs) <= MaxSent + MaxLost
  BY ShardFacts
<1>4. h.doc = docs[k] /\ h.sort = <<docs[k].event.time, k - 1>> /\ h.shard = i
  BY <1>2 DEF HitAt
<1> HIDE DEF docs
<1>5. docs[k] \in Document /\ docs[k] \in AllStored /\ k \in Nat /\ 1 <= k /\ k <= Len(docs)
  BY <1>2, <1>3 DEF ToSet
<1>6. docs[k].event.time \in Nat
  BY <1>5, EventsAssumption DEF Document
<1>7. k - 1 \in DocNumber
  BY <1>3, <1>5, BoundsAssumption DEF DocNumber
<1> QED
  BY <1>2, <1>3, <1>4, <1>5, <1>6, <1>7

LEMMA HitUnique ==
  ASSUME IngestInv, NEW t, NEW m, NEW h \in Matching(t, m), NEW u, NEW n, NEW g \in Matching(u, n)
  PROVE  /\ h.doc = g.doc => h = g
         /\ h.sort = g.sort /\ h.shard = g.shard => h = g
<1>1. PICK i \in DOMAIN shards["pcap"] :
        \E k \in DOMAIN Searchable(shards["pcap"][i]) : h = HitAt(i, k)
  BY MatchingParts DEF Finds
<1>2. PICK j \in DOMAIN shards["pcap"] :
        \E l \in DOMAIN Searchable(shards["pcap"][j]) : g = HitAt(j, l)
  BY MatchingParts DEF Finds
<1> DEFINE docs  == Searchable(shards["pcap"][i])
           other == Searchable(shards["pcap"][j])
<1>3. PICK k \in DOMAIN docs : h = HitAt(i, k)
  BY <1>1
<1>4. PICK l \in DOMAIN other : g = HitAt(j, l)
  BY <1>2
<1>5. h.doc = docs[k] /\ h.sort = <<docs[k].event.time, k - 1>> /\ h.shard = i
  BY <1>3 DEF HitAt
<1>6. g.doc = other[l] /\ g.sort = <<other[l].event.time, l - 1>> /\ g.shard = j
  BY <1>4 DEF HitAt
<1>7. ASSUME h.doc = g.doc PROVE h = g
  <2>1. i = j
    <3>1. docs[k] \in StoredIn(shards["pcap"][i]) /\ other[l] \in StoredIn(shards["pcap"][j])
      BY ShardFacts DEF ToSet
    <3>2. "pcap" \in Stream
      BY DEF Stream
    <3>3. docs[k] = other[l]
      BY <1>5, <1>6, <1>7
    <3> QED
      BY <3>1, <3>2, <3>3 DEF IngestInv, ShardsInv, NoRepeats
  <2>2. IsInjective(docs)
    BY ShardFacts
  <2>3. k = l
    BY <1>5, <1>6, <1>7, <2>1, <2>2 DEF IsInjective
  <2> QED
    BY <1>3, <1>4, <2>1, <2>3
<1>8. ASSUME h.sort = g.sort, h.shard = g.shard PROVE h = g
  <2>1. k - 1 = l - 1 /\ i = j
    BY <1>5, <1>6, <1>8
  <2>2. k \in Int /\ l \in Int
    BY ShardFacts
  <2>3. k = l
    BY <2>1, <2>2
  <2> QED
    BY <1>3, <1>4, <2>1, <2>3
<1> QED
  BY <1>7, <1>8

LEMMA MatchingFinite ==
  ASSUME IngestInv, NEW t, NEW m
  PROVE  IsFiniteSet(Matching(t, m))
<1> DEFINE M == Matching(t, m)
           f == [h \in M |-> h.doc]
<1>1. IsFiniteSet(AllStored)
  BY DEF IngestInv, ShardsInv, Numbered
<1>2. \A h \in M : h.doc \in AllStored
  BY HitFacts
<1>3. \A h, g \in M : h.doc = g.doc => h = g
  BY HitUnique
<1> HIDE DEF M
<1>4. f \in Injection(M, AllStored)
  BY <1>2, <1>3 DEF Injection, IsInjective
<1>5. IsFiniteSet(M)
  BY <1>1, <1>4, FS_Injection
<1> QED
  BY <1>5 DEF M

\* The documents that a search finds are those of the indices.
DocsOf(t, m) == { h.doc : h \in Matching(t, m) }

LEMMA DocsOfParts ==
  ASSUME IngestInv, NEW t, NEW m, NEW d
  PROVE  d \in DocsOf(t, m) <=>
           Wanted(d, t, m) /\ \E i \in DOMAIN shards["pcap"] : d \in Docs(shards["pcap"][i])
<1>1. ASSUME d \in DocsOf(t, m)
      PROVE  Wanted(d, t, m) /\ \E i \in DOMAIN shards["pcap"] : d \in Docs(shards["pcap"][i])
  <2>1. PICK h \in Matching(t, m) : h.doc = d
    BY <1>1 DEF DocsOf
  <2>2. PICK i \in DOMAIN shards["pcap"] :
          \E k \in DOMAIN Searchable(shards["pcap"][i]) :
            Wanted(Searchable(shards["pcap"][i])[k], t, m) /\ h = HitAt(i, k)
    BY MatchingParts DEF Finds
  <2>3. PICK k \in DOMAIN Searchable(shards["pcap"][i]) :
          Wanted(Searchable(shards["pcap"][i])[k], t, m) /\ h = HitAt(i, k)
    BY <2>2
  <2>4. d = Searchable(shards["pcap"][i])[k]
    BY <2>1, <2>3 DEF HitAt
  <2>5. d \in ToSet(Searchable(shards["pcap"][i]))
    BY <2>4 DEF ToSet
  <2> QED
    BY <2>3, <2>4, <2>5, ShardFacts
<1>2. ASSUME Wanted(d, t, m), NEW i \in DOMAIN shards["pcap"], d \in Docs(shards["pcap"][i])
      PROVE  d \in DocsOf(t, m)
  <2>1. d \in ToSet(Searchable(shards["pcap"][i]))
    BY <1>2, ShardFacts
  <2>2. PICK k \in DOMAIN Searchable(shards["pcap"][i]) : Searchable(shards["pcap"][i])[k] = d
    BY <2>1 DEF ToSet
  <2>3. HitAt(i, k) \in Matching(t, m)
    BY <1>2, <2>2, MatchingParts DEF Finds
  <2>4. HitAt(i, k).doc = d
    BY <2>2 DEF HitAt
  <2> QED
    BY <2>3, <2>4 DEF DocsOf
<1> QED
  BY <1>1, <1>2

\* What becomes searchable does not replace anything, and what Logstash writes
\* is not yet searchable.
LEMMA DocsGrow ==
  ASSUME IngestInv, IngestInv', Grown, NEW t, NEW m
  PROVE  DocsOf(t, m) \subseteq DocsOf(t, m)'
<1>1. "pcap" \in Stream
  BY DEF Stream
<1>2. ASSUME NEW d \in DocsOf(t, m) PROVE d \in DocsOf(t, m)'
  <2>1. PICK i \in DOMAIN shards["pcap"] : d \in Docs(shards["pcap"][i])
    BY DocsOfParts
  <2>2. Wanted(d, t, m)
    BY DocsOfParts
  <2>3. i \in DOMAIN shards'["pcap"] /\ d \in Docs(shards'["pcap"][i])
    BY <1>1, <2>1 DEF Grown
  <2>4. PICK k \in DOMAIN Searchable(shards'["pcap"][i]) : Searchable(shards'["pcap"][i])[k] = d
    <3>1. shards'["pcap"][i] \in IndexOf(Document) /\ Apart(shards'["pcap"][i])
      BY <1>1, <2>3 DEF IngestInv, ShardsInv, ShardsOf, NoRepeats
    <3>2. ToSet(Searchable(shards'["pcap"][i])) = Docs(shards'["pcap"][i])
      BY <3>1, SearchableFacts
    <3> QED
      BY <2>3, <3>2 DEF ToSet
  <2>5. HitAt(i, k)' \in Matching(t, m)' /\ HitAt(i, k)'.doc = d
    BY <2>2, <2>3, <2>4, MatchingParts DEF Finds, HitAt
  <2> QED
    BY <2>5 DEF DocsOf
<1> QED
  BY <1>2

LEMMA MatchingFixed ==
  ASSUME Fixed, NEW t, NEW m
  PROVE  Matching(t, m)' = Matching(t, m)
<1>1. "pcap" \in Stream
  BY DEF Stream
<1>2. DOMAIN shards'["pcap"] = DOMAIN shards["pcap"]
  BY <1>1 DEF Fixed
<1>3. \A i \in DOMAIN shards["pcap"] :
        Searchable(shards'["pcap"][i]) = Searchable(shards["pcap"][i])
  BY <1>1 DEF Fixed, Searchable
<1> QED
  BY <1>2, <1>3 DEF Matching

-----------------------------------------------------------------------------
(* The order of the hits, and what a page of them is.                        *)

\* Hits that sort values and shard tell apart.
Ranked(A) ==
  /\ IsFiniteSet(A)
  /\ \A h \in A : h.sort \in Nat \X Nat /\ h.shard \in Nat
  /\ \A h, g \in A : h.sort = g.sort /\ h.shard = g.shard => h = g

LEMMA HitOrder ==
  ASSUME NEW A, Ranked(A), NEW h \in A, NEW g \in A
  PROVE  /\ ~HitBefore(h, h)
         /\ \A k \in A : HitBefore(h, g) /\ HitBefore(g, k) => HitBefore(h, k)
         /\ h = g \/ HitBefore(h, g) \/ HitBefore(g, h)
<1>1. \A x \in A : /\ x.sort[1] \in Nat /\ x.sort[2] \in Nat /\ x.shard \in Nat
                   /\ x.sort = <<x.sort[1], x.sort[2]>>
  BY DEF Ranked
<1>2. ~HitBefore(h, h)
  BY <1>1 DEF HitBefore, SortBefore
<1>3. ASSUME NEW k \in A, HitBefore(h, g), HitBefore(g, k) PROVE HitBefore(h, k)
  <2>1. /\ SortBefore(h.sort, g.sort) \/ (h.sort = g.sort /\ h.shard < g.shard)
        /\ SortBefore(g.sort, k.sort) \/ (g.sort = k.sort /\ g.shard < k.shard)
    BY <1>3 DEF HitBefore
  <2>2. SortBefore(h.sort, g.sort) /\ SortBefore(g.sort, k.sort) => SortBefore(h.sort, k.sort)
    BY <1>1 DEF SortBefore
  <2>3. h.shard < g.shard /\ g.shard < k.shard => h.shard < k.shard
    BY <1>1
  <2> QED
    BY <2>1, <2>2, <2>3 DEF HitBefore
<1>4. h = g \/ HitBefore(h, g) \/ HitBefore(g, h)
  <2>1. h.sort = g.sort \/ SortBefore(h.sort, g.sort) \/ SortBefore(g.sort, h.sort)
    BY <1>1 DEF SortBefore
  <2>2. h.shard = g.shard \/ h.shard < g.shard \/ g.shard < h.shard
    BY <1>1
  <2> QED
    BY <2>1, <2>2 DEF HitBefore, Ranked
<1> QED
  BY <1>2, <1>3, <1>4

\* The hits before one of them, without and with it.
Earlier(h, A) == { g \in A : HitBefore(g, h) }
UpTo(h, A)    == Earlier(h, A) \cup {h}

LEMMA PlaceCounts ==
  ASSUME NEW A, Ranked(A), NEW h \in A
  PROVE  /\ IsFiniteSet(Earlier(h, A)) /\ IsFiniteSet(UpTo(h, A))
         /\ Cardinality(Earlier(h, A)) \in Nat
         /\ Place(h, A) = Cardinality(Earlier(h, A)) + 1
         /\ Place(h, A) = Cardinality(UpTo(h, A))
         /\ UpTo(h, A) \subseteq A
<1>1. Earlier(h, A) \subseteq A /\ UpTo(h, A) \subseteq A
  BY DEF Earlier, UpTo
<1>2. IsFiniteSet(Earlier(h, A)) /\ Cardinality(Earlier(h, A)) \in Nat
  BY <1>1, FS_Subset, FS_CardinalityType DEF Ranked
<1>3. Place(h, A) = Cardinality(Earlier(h, A)) + 1
  BY DEF Place, Earlier
<1>4. h \notin Earlier(h, A)
  BY HitOrder DEF Earlier
<1>5. IsFiniteSet(UpTo(h, A)) /\ Cardinality(UpTo(h, A)) = Cardinality(Earlier(h, A)) + 1
  BY <1>2, <1>4, FS_AddElement DEF UpTo
<1> QED
  BY <1>1, <1>2, <1>3, <1>5

LEMMA PlaceOrder ==
  ASSUME NEW A, Ranked(A), NEW h \in A, NEW g \in A
  PROVE  /\ Place(h, A) \in 1 .. Cardinality(A)
         /\ HitBefore(h, g) => Place(h, A) < Place(g, A)
         /\ Place(h, A) = Place(g, A) => h = g
<1>1. IsFiniteSet(A) /\ Cardinality(A) \in Nat
  BY FS_CardinalityType DEF Ranked
<1>2. ASSUME NEW x \in A, NEW y \in A, HitBefore(x, y) PROVE Place(x, A) < Place(y, A)
  <2>1. UpTo(x, A) \subseteq Earlier(y, A)
    BY <1>2, HitOrder DEF Earlier, UpTo
  <2>2. IsFiniteSet(Earlier(y, A))
    BY PlaceCounts
  <2>3. Cardinality(UpTo(x, A)) <= Cardinality(Earlier(y, A))
    BY <2>1, <2>2, FS_Subset
  <2>4. Cardinality(Earlier(y, A)) \in Nat /\ Cardinality(Earlier(x, A)) \in Nat
    BY PlaceCounts
  <2>5. Place(y, A) = Cardinality(Earlier(y, A)) + 1 /\ Place(x, A) = Cardinality(UpTo(x, A))
    BY PlaceCounts
  <2>6. Place(x, A) = Cardinality(Earlier(x, A)) + 1
    BY PlaceCounts
  <2> QED
    BY <2>3, <2>4, <2>5, <2>6
<1>3. Place(h, A) \in 1 .. Cardinality(A)
  <2>1. Cardinality(UpTo(h, A)) <= Cardinality(A)
    BY <1>1, PlaceCounts, FS_Subset
  <2>2. Place(h, A) = Cardinality(UpTo(h, A)) /\ Place(h, A) = Cardinality(Earlier(h, A)) + 1
    BY PlaceCounts
  <2>3. Cardinality(Earlier(h, A)) \in Nat
    BY PlaceCounts
  <2> QED
    BY <1>1, <2>1, <2>2, <2>3
<1>4. ASSUME Place(h, A) = Place(g, A) PROVE h = g
  <2>1. Place(h, A) \in Nat
    BY PlaceCounts
  <2>2. ~HitBefore(h, g) /\ ~HitBefore(g, h)
    BY <1>2, <1>4, <2>1
  <2> QED
    BY <2>2, HitOrder
<1> QED
  BY <1>2, <1>3, <1>4

LEMMA PlaceOnto ==
  ASSUME NEW A, Ranked(A), NEW n \in 1 .. Cardinality(A)
  PROVE  \E h \in A : Place(h, A) = n
<1> DEFINE N == Cardinality(A)
           place == [h \in A |-> Place(h, A)]
<1>1. IsFiniteSet(A) /\ N \in Nat
  BY FS_CardinalityType DEF Ranked
<1> HIDE DEF N
<1>2. \A h \in A : Place(h, A) \in 1 .. N
  BY PlaceOrder DEF N
<1>3. \A h, g \in A : Place(h, A) = Place(g, A) => h = g
  BY PlaceOrder
<1>4. place \in Injection(A, 1 .. N)
  BY <1>2, <1>3 DEF Injection, IsInjective
<1>5. IsFiniteSet(1 .. N) /\ Cardinality(1 .. N) = N
  <2>1. IsFiniteSet(1 .. N) /\ Cardinality(1 .. N) = IF 1 > N THEN 0 ELSE N - 1 + 1
    BY <1>1, FS_Interval
  <2> QED
    BY <1>1, <2>1
<1>6. place \in Surjection(A, 1 .. N)
  <2> HIDE DEF place
  <2> QED
    BY <1>4, <1>5, FS_Injection DEF N
<1> QED
  BY <1>6 DEF Surjection, N

\* A page of hits.
FirstOf(A, size) ==
  LET page == { h \in A : Place(h, A) <= size } IN
  [n \in 1 .. Cardinality(page) |-> CHOOSE h \in page : Place(h, A) = n]

LEMMA PageFacts ==
  ASSUME NEW A, Ranked(A), NEW size \in Nat, NEW result, result = FirstOf(A, size)
  PROVE  /\ result \in Seq(A) /\ Len(result) <= size
         /\ \A m, n \in DOMAIN result : m < n => HitBefore(result[m], result[n])
         /\ \A h \in A : \/ \E n \in DOMAIN result : result[n] = h
                         \/ Len(result) = size /\ \A n \in DOMAIN result : HitBefore(result[n], h)
<1> DEFINE page == { h \in A : Place(h, A) <= size }
           N    == Cardinality(A)
           c    == Cardinality(page)
           hits == [n \in 1 .. c |-> CHOOSE h \in page : Place(h, A) = n]
           least == IF size <= N THEN size ELSE N
           place == [h \in page |-> Place(h, A)]
<1>1. IsFiniteSet(A) /\ N \in Nat /\ IsFiniteSet(page) /\ c \in Nat
  BY FS_CardinalityType, FS_Subset DEF Ranked
<1>2. \A h \in A : Place(h, A) \in 1 .. N
  BY PlaceOrder
<1>3. \A h, g \in A : /\ Place(h, A) = Place(g, A) => h = g
                      /\ HitBefore(h, g) => Place(h, A) < Place(g, A)
  BY PlaceOrder
<1>4. \A n \in 1 .. N : \E h \in A : Place(h, A) = n
  BY PlaceOnto
<1> HIDE DEF N, c
<1>5. c = least
  <2>1. /\ \A h \in page : Place(h, A) \in 1 .. least
        /\ \A n \in 1 .. least : \E h \in page : Place(h, A) = n
        /\ least \in Nat
    BY <1>1, <1>2, <1>4
  <2>2. \A h, g \in page : Place(h, A) = Place(g, A) => h = g
    BY <1>3
  <2> HIDE DEF page, least
  <2>3. place \in Bijection(page, 1 .. least)
    BY <2>1, <2>2 DEF Bijection, Injection, Surjection, IsInjective
  <2>4. ExistsBijection(page, 1 .. least)
    BY <2>3 DEF ExistsBijection
  <2>5. Cardinality(1 .. least) = Cardinality(page)
    BY <1>1, <2>4, FS_Bijection
  <2>6. Cardinality(1 .. least) = IF 1 > least THEN 0 ELSE least - 1 + 1
    BY <2>1, FS_Interval
  <2> QED
    BY <2>1, <2>5, <2>6 DEF c
<1>6. ASSUME NEW n \in 1 .. c PROVE hits[n] \in A /\ Place(hits[n], A) = n
  <2>1. n \in 1 .. N /\ n <= size
    BY <1>1, <1>5
  <2>2. \E h \in page : Place(h, A) = n
    BY <1>4, <2>1
  <2> QED
    BY <2>2
<1>7. /\ hits \in Seq(A) /\ Len(hits) = c /\ DOMAIN hits = 1 .. c
  BY <1>1, <1>6
<1> HIDE DEF hits, page
<1>8. ASSUME NEW m \in DOMAIN hits, NEW n \in DOMAIN hits, m < n PROVE HitBefore(hits[m], hits[n])
  <2>1. ~HitBefore(hits[n], hits[m]) /\ hits[n] # hits[m]
    BY <1>1, <1>3, <1>6, <1>7, <1>8
  <2> QED
    BY <1>6, <1>7, <2>1, HitOrder
<1>9. ASSUME NEW h \in A, ~ \E n \in DOMAIN hits : hits[n] = h
      PROVE  Len(hits) = size /\ \A n \in DOMAIN hits : HitBefore(hits[n], h)
  <2> DEFINE p == Place(h, A)
  <2>1. p \in 1 .. N
    BY <1>2
  <2>2. p > c
    <3>1. SUFFICES ASSUME p \in 1 .. c PROVE FALSE
      BY <1>1, <2>1
    <3>2. hits[p] \in A /\ Place(hits[p], A) = p
      BY <1>6, <3>1
    <3>3. hits[p] = h
      BY <1>3, <3>2
    <3> QED
      BY <1>7, <1>9, <3>1, <3>3
  <2>3. c = size
    BY <1>1, <1>5, <2>1, <2>2
  <2>4. ASSUME NEW n \in DOMAIN hits PROVE HitBefore(hits[n], h)
    <3>1. ~HitBefore(h, hits[n]) /\ hits[n] # h
      BY <1>1, <1>3, <1>6, <1>7, <1>9, <2>1, <2>2
    <3> QED
      BY <1>6, <1>7, <3>1, HitOrder
  <2> QED
    BY <1>7, <2>3, <2>4
<1>10. Len(hits) <= size
  BY <1>1, <1>5, <1>7
<1> QED
  <2>1. result = hits
    BY DEF FirstOf, hits, page, c
  <2> QED
    BY <1>7, <1>8, <1>9, <1>10, <2>1

\* What a search returns: a sorted part of what is after the cursor, and what it
\* leaves out comes after a full page.
LEMMA HitsFacts ==
  ASSUME IngestInv, NEW answering, NEW size \in Nat, NEW hits, hits = Hits(size, answering)
  PROVE  /\ hits \in Seq(After(answering)) /\ Len(hits) <= size
         /\ \A m, n \in DOMAIN hits : m < n => HitBefore(hits[m], hits[n])
         /\ \A h \in After(answering) :
              \/ \E n \in DOMAIN hits : hits[n] = h
              \/ Len(hits) = size /\ \A n \in DOMAIN hits : HitBefore(hits[n], h)
<1> DEFINE A == After(answering)
<1>1. A \subseteq Matching(until, minScore)
  BY DEF After
<1>2. IsFiniteSet(A)
  BY <1>1, MatchingFinite, FS_Subset
<1>3. ASSUME NEW h \in A PROVE h.sort \in Nat \X Nat /\ h.shard \in Nat
  <2>1. h.sort \in Nat \X DocNumber /\ h.shard \in Nat
    BY <1>1, HitFacts
  <2>2. DocNumber \subseteq Nat
    BY DocNumbers
  <2> QED
    BY <2>1, <2>2
<1>4. \A h, g \in A : h.sort = g.sort /\ h.shard = g.shard => h = g
  BY <1>1, HitUnique
<1>5. Ranked(A)
  BY <1>2, <1>3, <1>4 DEF Ranked
<1>6. hits = FirstOf(A, size)
  BY DEF Hits, FirstOf
<1> HIDE DEF A
<1>7. /\ hits \in Seq(A) /\ Len(hits) <= size
      /\ \A m, n \in DOMAIN hits : m < n => HitBefore(hits[m], hits[n])
      /\ \A h \in A : \/ \E n \in DOMAIN hits : hits[n] = h
                      \/ Len(hits) = size /\ \A n \in DOMAIN hits : HitBefore(hits[n], h)
  BY <1>5, <1>6, PageFacts
<1> QED
  BY <1>7 DEF A

-----------------------------------------------------------------------------
(* The invariant of a scan.                                                  *)

ScanType ==
  /\ pc \in {"idle", "paging", "done", "failed"}
  /\ limit \in Nat \cup {NoLimit} /\ until \in Nat /\ minScore \in 0 .. MAX_SCORE
  /\ searchAfter \in {<<>>} \cup (Nat \X DocNumber)
  /\ yielded \in Seq(Document)
  /\ atStart \subseteq Document
  /\ cursors \subseteq Nat \X DocNumber
  /\ moved \in BOOLEAN /\ partial \in BOOLEAN

\* Before the first page there is nothing; later, what was read is not after
\* the cursor.
AtCursor ==
  /\ pc = "idle" => yielded = <<>> /\ searchAfter = <<>> /\ ~moved /\ ~partial
  /\ pc = "paging" /\ searchAfter = <<>> => yielded = <<>>
  /\ pc = "paging" /\ searchAfter # <<>> =>
       /\ searchAfter \in cursors
       /\ \A n \in DOMAIN yielded : yielded[n].event.time <= searchAfter[1]

WithinLimit == limit # NoLimit => Len(yielded) <= limit

Yields(d) == \E n \in DOMAIN yielded : yielded[n] = d

\* The scan did not get to a document: not yet, or it never will.
Ahead(d) ==
  \/ pc = "paging" /\ (searchAfter = <<>> \/ searchAfter[1] < d.event.time)
  \/ /\ pc = "done" /\ limit # NoLimit /\ Len(yielded) = limit
     /\ \A n \in DOMAIN yielded : yielded[n].event.time <= d.event.time

\* No document is passed over, unless it is a tie of a cursor.
Covered ==
  pc \in {"paging", "done"} /\ ~partial =>
    \A d \in atStart : ~AtPageEnd(d) => Yields(d) \/ Ahead(d)

\* And none comes twice.
NoTwice ==
  \A m, n \in DOMAIN yielded :
    m # n /\ yielded[m] = yielded[n] => AtPageEnd(yielded[m])

\* What was searchable when the scan began still is.
StillThere == pc \in {"paging", "done"} => atStart \subseteq DocsOf(until, minScore)

Passed(h) == searchAfter # <<>> /\ ~SortBefore(searchAfter, h.sort)

NoTies == \A h, g \in Matching(until, minScore) : h.sort = g.sort => h = g

\* While nothing else becomes searchable, the scan is where its cursor says.
Steady ==
  pc \in {"paging", "done"} /\ ~moved =>
    /\ atStart = DocsOf(until, minScore)
    /\ \A n \in DOMAIN yielded : yielded[n] \in atStart
    /\ IsInjective(yielded)
    /\ pc = "paging" => \A h \in Matching(until, minScore) : Yields(h.doc) => Passed(h)
    /\ ~partial /\ NoTies =>
         \A h \in Matching(until, minScore) :
           (pc = "paging" /\ Passed(h)) \/ (pc = "done" /\ limit = NoLimit) => Yields(h.doc)

\* The part that does not depend on the shards, and all of it.
PagesInv == ScanType /\ AtCursor /\ TimeOrdered /\ WithinLimit /\ Covered /\ NoTwice

ScanInv == PagesInv /\ StillThere /\ Steady

-----------------------------------------------------------------------------
(* The steps that leave the scan where it is.                                *)

LEMMA InitScanInv == ASSUME Init PROVE ScanInv
<1>1. ScanInit
  BY DEF Init
<1>2. DOMAIN yielded = {} /\ yielded \in Seq(Document) /\ Len(yielded) = 0
  BY <1>1 DEF ScanInit
<1>3. ScanType
  <2>1. moved \in BOOLEAN /\ partial \in BOOLEAN
    BY <1>1, Zenon DEF ScanInit
  <2>2. /\ pc \in {"idle", "paging", "done", "failed"}
        /\ limit \in Nat \cup {NoLimit} /\ until \in Nat /\ minScore \in 0 .. MAX_SCORE
    BY <1>1 DEF ScanInit, MAX_SCORE
  <2>3. /\ searchAfter \in {<<>>} \cup (Nat \X DocNumber)
        /\ atStart \subseteq Document
        /\ cursors \subseteq Nat \X DocNumber
    BY <1>1 DEF ScanInit
  <2> QED
    BY <1>2, <2>1, <2>2, <2>3 DEF ScanType
<1>4. PagesInv
  BY <1>1, <1>2, <1>3 DEF ScanInit, PagesInv, AtCursor, TimeOrdered, WithinLimit, Covered, NoTwice
<1> QED
  BY <1>1, <1>4 DEF ScanInit, ScanInv, StillThere, Steady

\* What PagesInv is about, but for moved.
pageVars == <<pc, limit, until, minScore, searchAfter, yielded, atStart, cursors, partial>>

LEMMA SamePages ==
  ASSUME PagesInv, UNCHANGED pageVars, moved' \in BOOLEAN, pc = "idle" => moved' = moved
  PROVE  PagesInv'
<1>1. ScanType'
  BY DEF PagesInv, ScanType, pageVars
<1>2. AtCursor'
  BY DEF PagesInv, AtCursor, pageVars
<1>3. TimeOrdered' /\ WithinLimit'
  BY DEF PagesInv, TimeOrdered, WithinLimit, pageVars
<1>4. Covered'
  BY DEF PagesInv, Covered, Yields, Ahead, AtPageEnd, pageVars
<1>5. NoTwice'
  BY DEF PagesInv, NoTwice, AtPageEnd, pageVars
<1> QED
  BY <1>1, <1>2, <1>3, <1>4, <1>5 DEF PagesInv

LEMMA SameScan ==
  ASSUME ScanInv, Fixed, UNCHANGED pageVars, UNCHANGED moved
  PROVE  ScanInv'
<1>1. PagesInv'
  BY SamePages DEF ScanInv, PagesInv, ScanType
<1>2. until' = until /\ minScore' = minScore
  BY DEF pageVars
<1>3. Matching(until, minScore)' = Matching(until, minScore)
  <2>1. PICK t, m : t = until /\ m = minScore
    OBVIOUS
  <2>2. Matching(t, m)' = Matching(t, m)
    BY MatchingFixed
  <2> QED
    BY <1>2, <2>1, <2>2 DEF Matching
<1>4. DocsOf(until, minScore)' = DocsOf(until, minScore)
  BY <1>3 DEF DocsOf
<1>5. StillThere' /\ Steady'
  BY <1>3, <1>4 DEF ScanInv, StillThere, Steady, Yields, Passed, NoTies, pageVars
<1> QED
  BY <1>1, <1>5 DEF ScanInv

LEMMA MovedScan ==
  ASSUME IngestInv, IngestInv', ScanInv, Grown, UNCHANGED pageVars,
         moved' = (moved \/ pc # "idle")
  PROVE  ScanInv'
<1>1. PagesInv'
  BY SamePages DEF ScanInv, PagesInv, ScanType
<1>2. StillThere'
  <2>1. PICK t, m : t = until /\ m = minScore
    OBVIOUS
  <2>2. DocsOf(t, m) \subseteq DocsOf(t, m)'
    BY DocsGrow
  <2>3. DocsOf(until, minScore) = DocsOf(t, m) /\ DocsOf(until, minScore)' = DocsOf(t, m)'
    BY <2>1 DEF DocsOf, Matching, pageVars
  <2> QED
    BY <2>2, <2>3 DEF ScanInv, StillThere, pageVars
<1>3. Steady'
  BY DEF Steady, pageVars
<1> QED
  BY <1>1, <1>2, <1>3 DEF ScanInv

-----------------------------------------------------------------------------
(* The steps of the scan.                                                    *)

LEMMA NextSizeFacts ==
  ASSUME ScanType, WithinLimit
  PROVE  /\ NextSize \in Int /\ Len(yielded) \in Nat
         /\ NextSize <= 0 => limit # NoLimit /\ Len(yielded) = limit
         /\ limit # NoLimit => NextSize <= limit - Len(yielded)
<1>1. Len(yielded) \in Nat /\ limit \in Int /\ PageSize \in Nat /\ PageSize > 0
  BY ScanAssumption DEF ScanType, NoLimit
<1>2. limit # NoLimit => Len(yielded) <= limit
  BY DEF WithinLimit
<1> QED
  BY <1>1, <1>2 DEF NextSize, Returned

LEMMA StartScan ==
  ASSUME IngestInv, ScanInv, NEW q \in Queries, Start(q)
  PROVE  ScanInv'
<1>1. /\ pc = "idle" /\ pc' = "paging"
      /\ limit' = q.limit /\ until' = q.until /\ minScore' = q.minScore
      /\ atStart' = DocsOf(q.until, q.minScore)
      /\ UNCHANGED <<searchAfter, yielded, cursors, moved, partial, shards>>
  BY DEF Start, DocsOf
<1>2. yielded = <<>> /\ searchAfter = <<>> /\ ~moved /\ ~partial
  BY <1>1 DEF ScanInv, PagesInv, AtCursor
<1>3. DOMAIN yielded = {} /\ Len(yielded) = 0
  BY <1>2
<1>4. Matching(until, minScore)' = Matching(q.until, q.minScore)
  BY <1>1 DEF Matching
<1>5. DocsOf(until, minScore)' = atStart'
  BY <1>1, <1>4 DEF DocsOf
<1>6. limit' \in Nat \cup {NoLimit} /\ until' \in Nat /\ minScore' \in 0 .. MAX_SCORE
  BY <1>1, ScanAssumption
<1>7. ScanType'
  <2>1. atStart' \subseteq Document
    BY <1>1, HitFacts DEF DocsOf
  <2>2. moved' \in BOOLEAN /\ partial' \in BOOLEAN
    BY <1>1 DEF ScanInv, PagesInv, ScanType
  <2> QED
    BY <1>1, <1>6, <2>1, <2>2 DEF ScanInv, PagesInv, ScanType
<1>8. PagesInv'
  BY <1>1, <1>2, <1>3, <1>6, <1>7
  DEF PagesInv, AtCursor, TimeOrdered, WithinLimit, Covered, Ahead, NoTwice, NoLimit
<1>9. StillThere'
  BY <1>5 DEF StillThere
<1>10. Steady'
  BY <1>1, <1>2, <1>3, <1>5 DEF Steady, Yields, Passed, IsInjective
<1> QED
  BY <1>8, <1>9, <1>10 DEF ScanInv

\* The steps that leave the shards and everything but pc as they are.
LEMMA SameMatching ==
  ASSUME UNCHANGED <<shards, until, minScore>>
  PROVE  /\ Matching(until, minScore)' = Matching(until, minScore)
         /\ DocsOf(until, minScore)' = DocsOf(until, minScore)
BY DEF DocsOf, Matching

LEMMA ScanAtLimit ==
  ASSUME ScanInv, NothingWanted
  PROVE  ScanInv'
<1>1. /\ pc = "paging" /\ NextSize <= 0 /\ pc' = "done"
      /\ UNCHANGED <<limit, until, minScore, searchAfter, yielded, atStart, cursors, moved, partial, shards>>
  BY DEF NothingWanted, args
<1>2. limit # NoLimit /\ Len(yielded) = limit
  BY <1>1, NextSizeFacts DEF ScanInv, PagesInv
<1>3. ScanType'
  BY <1>1 DEF ScanInv, PagesInv, ScanType
<1>4. AtCursor' /\ TimeOrdered' /\ WithinLimit' /\ NoTwice'
  BY <1>1 DEF ScanInv, PagesInv, AtCursor, TimeOrdered, WithinLimit, NoTwice, AtPageEnd
<1>5. Covered'
  <2> SUFFICES ASSUME ~partial, NEW d \in atStart, ~AtPageEnd(d)
               PROVE  Yields(d)' \/ Ahead(d)'
    BY <1>1 DEF Covered, AtPageEnd
  <2>1. Yields(d) \/ Ahead(d)
    BY <1>1 DEF ScanInv, PagesInv, Covered
  <2>2. CASE Yields(d)
    BY <1>1, <2>2 DEF Yields
  <2>3. CASE Ahead(d)
    <3>1. searchAfter = <<>> \/ searchAfter[1] < d.event.time
      BY <1>1, <2>3 DEF Ahead
    <3>2. CASE searchAfter = <<>>
      BY <1>1, <1>2, <3>2 DEF ScanInv, PagesInv, AtCursor, Ahead
    <3>3. CASE searchAfter # <<>>
      <4>1. searchAfter[1] \in Nat /\ d.event.time \in Nat
        BY <3>3, EventsAssumption DEF ScanInv, PagesInv, ScanType, Document
      <4>2. \A n \in DOMAIN yielded :
              yielded[n].event.time <= searchAfter[1] /\ yielded[n].event.time \in Nat
        <5>1. \A n \in DOMAIN yielded : yielded[n] \in Document
          BY DEF ScanInv, PagesInv, ScanType
        <5>2. \A n \in DOMAIN yielded : yielded[n].event.time \in Nat
          BY <5>1, EventsAssumption DEF Document
        <5> QED
          BY <1>1, <3>3, <5>2 DEF ScanInv, PagesInv, AtCursor
      <4>3. \A n \in DOMAIN yielded : yielded[n].event.time <= d.event.time
        BY <3>1, <3>3, <4>1, <4>2
      <4> QED
        BY <1>1, <1>2, <4>3 DEF Ahead
    <3> QED
      BY <3>2, <3>3
  <2> QED
    BY <2>1, <2>2, <2>3
<1>6. StillThere'
  BY <1>1, SameMatching DEF ScanInv, StillThere
<1>7. Steady'
  BY <1>1, <1>2, SameMatching DEF ScanInv, Steady, Yields
<1> QED
  BY <1>3, <1>4, <1>5, <1>6, <1>7 DEF ScanInv, PagesInv

LEMMA ScanFails ==
  ASSUME ScanInv, SearchFails
  PROVE  ScanInv'
<1>1. /\ pc' = "failed"
      /\ UNCHANGED <<limit, until, minScore, searchAfter, yielded, atStart, cursors, moved, partial, shards>>
  BY DEF SearchFails, args
<1>2. ScanType'
  BY <1>1 DEF ScanInv, PagesInv, ScanType
<1>3. AtCursor' /\ TimeOrdered' /\ WithinLimit' /\ NoTwice' /\ Covered'
  BY <1>1 DEF ScanInv, PagesInv, AtCursor, TimeOrdered, WithinLimit, NoTwice, AtPageEnd, Covered
<1>4. StillThere' /\ Steady'
  BY <1>1 DEF StillThere, Steady
<1> QED
  BY <1>2, <1>3, <1>4 DEF ScanInv, PagesInv

-----------------------------------------------------------------------------
(* A page.                                                                   *)

Reached(h) == searchAfter = <<>> \/ SortBefore(searchAfter, h.sort)

EndsScan(hits) == hits = <<>> \/ (limit # NoLimit /\ Len(yielded) + Len(hits) >= limit)

\* The hits of a page, and what FetchPage does with them.
PageOf(answering, hits) ==
  /\ hits \in Seq(Matching(until, minScore)) /\ Len(hits) <= NextSize
  /\ \A n \in DOMAIN hits : Reached(hits[n])
  /\ \A m, n \in DOMAIN hits : m < n => HitBefore(hits[m], hits[n])
  /\ answering = DOMAIN shards["pcap"] =>
       \A h \in Matching(until, minScore) : Reached(h) =>
         \/ \E n \in DOMAIN hits : hits[n] = h
         \/ Len(hits) = NextSize /\ \A n \in DOMAIN hits : HitBefore(hits[n], h)
  /\ yielded' = yielded \o [n \in DOMAIN hits |-> hits[n].doc]
  /\ EndsScan(hits) => pc' = "done" /\ UNCHANGED <<searchAfter, cursors>>
  /\ ~EndsScan(hits) =>
       /\ pc' = "paging"
       /\ searchAfter' = hits[Len(hits)].sort /\ cursors' = cursors \cup {searchAfter'}

\* The size of a page is such that none of it is left out, and that a scan is at
\* its limit with the last hit of a page or not at all.
LEMMA PageTaken ==
  ASSUME ScanType, WithinLimit, NextSize > 0, NEW S, NEW hits \in Seq(S), Len(hits) <= NextSize
  PROVE  /\ Taken(hits) = [n \in DOMAIN hits |-> hits[n].doc]
         /\ LastPage(hits) <=> EndsScan(hits)
<1>1. /\ NextSize \in Int /\ Len(yielded) \in Nat
      /\ limit # NoLimit => limit \in Nat /\ NextSize <= limit - Len(yielded)
  <2>1. limit # NoLimit => limit \in Nat
    BY DEF ScanType
  <2> QED
    BY <2>1, NextSizeFacts
<1>2. Len(hits) \in Nat /\ DOMAIN hits = 1 .. Len(hits)
  OBVIOUS
<1>3. ASSUME NEW n \in DOMAIN hits, NEW m \in 1 .. n - 1 PROVE ~AtLimit(m)
  BY <1>1, <1>2 DEF AtLimit, Returned
<1>4. { n \in DOMAIN hits : \A m \in 1 .. n - 1 : ~AtLimit(m) } = DOMAIN hits
  BY <1>3
<1>5. Taken(hits) = [n \in DOMAIN hits |-> hits[n].doc]
  BY <1>4 DEF Taken
<1>6. ASSUME hits # <<>>
      PROVE  (\E n \in DOMAIN hits : AtLimit(n))
               <=> limit # NoLimit /\ Len(yielded) + Len(hits) >= limit
  <2>1. Len(hits) \in DOMAIN hits
    BY <1>2, <1>6
  <2>2. \A n \in DOMAIN hits : n <= Len(hits) /\ n \in Nat
    BY <1>2
  <2> QED
    BY <1>1, <2>1, <2>2 DEF AtLimit, Returned
<1> QED
  BY <1>5, <1>6 DEF LastPage, EndsScan

LEMMA FetchFacts ==
  ASSUME IngestInv, ScanInv, NEW answering, FetchPage(answering)
  PROVE  \E hits : PageOf(answering, hits)
<1> PICK hits : hits = Hits(NextSize, answering)
  OBVIOUS
<1>1. /\ pc = "paging" /\ NextSize > 0
      /\ yielded' = yielded \o Taken(hits)
      /\ IF LastPage(hits)
           THEN pc' = "done" /\ UNCHANGED <<searchAfter, cursors>>
           ELSE /\ UNCHANGED pc
                /\ searchAfter' = Cursor(hits)
                /\ cursors' = cursors \cup {searchAfter'}
  BY DEF FetchPage
<1>2. NextSize \in Nat
  BY <1>1, NextSizeFacts DEF ScanInv, PagesInv
<1>3. /\ hits \in Seq(After(answering)) /\ Len(hits) <= NextSize
      /\ \A m, n \in DOMAIN hits : m < n => HitBefore(hits[m], hits[n])
      /\ \A h \in After(answering) :
           \/ \E n \in DOMAIN hits : hits[n] = h
           \/ Len(hits) = NextSize /\ \A n \in DOMAIN hits : HitBefore(hits[n], h)
  BY <1>2, HitsFacts
<1>4. /\ After(answering) \subseteq Matching(until, minScore)
      /\ \A h \in After(answering) : Reached(h)
  BY DEF After, Reached
<1>5. hits \in Seq(Matching(until, minScore))
  BY <1>3, <1>4, SeqMonotone
<1>6. \A n \in DOMAIN hits : Reached(hits[n])
  BY <1>3, <1>4
<1>7. ASSUME answering = DOMAIN shards["pcap"], NEW h \in Matching(until, minScore), Reached(h)
      PROVE  \/ \E n \in DOMAIN hits : hits[n] = h
             \/ Len(hits) = NextSize /\ \A n \in DOMAIN hits : HitBefore(hits[n], h)
  <2>1. h.shard \in answering
    BY <1>7, HitFacts
  <2>2. h \in After(answering)
    BY <1>7, <2>1 DEF After, Reached
  <2> QED
    BY <1>3, <2>2
<1>8. /\ Taken(hits) = [n \in DOMAIN hits |-> hits[n].doc]
      /\ LastPage(hits) <=> EndsScan(hits)
  BY <1>1, <1>3, PageTaken DEF ScanInv, PagesInv
<1>9. ~EndsScan(hits) => Cursor(hits) = hits[Len(hits)].sort
  BY DEF EndsScan, Cursor, Last
<1>10. EndsScan(hits) => pc' = "done" /\ UNCHANGED <<searchAfter, cursors>>
  BY <1>1, <1>8
<1>11. ~EndsScan(hits) => /\ pc' = "paging"
                          /\ searchAfter' = hits[Len(hits)].sort
                          /\ cursors' = cursors \cup {searchAfter'}
  BY <1>1, <1>8, <1>9
<1> QED
  BY <1>1, <1>3, <1>5, <1>6, <1>7, <1>8, <1>10, <1>11 DEF PageOf

\* The documents after the page: those from before, then those of the page.
LEMMA PageYields ==
  ASSUME IngestInv, ScanInv, NEW answering, NEW hits, PageOf(answering, hits)
  PROVE  /\ yielded' \in Seq(Document) /\ Len(yielded') = Len(yielded) + Len(hits)
         /\ Len(yielded) \in Nat /\ Len(hits) \in Nat /\ DOMAIN hits = 1 .. Len(hits)
         /\ \A n \in DOMAIN yielded : n \in DOMAIN yielded' /\ n <= Len(yielded) /\ yielded'[n] = yielded[n]
         /\ \A n \in DOMAIN hits : Len(yielded) + n \in DOMAIN yielded' /\ yielded'[Len(yielded) + n] = hits[n].doc
         /\ \A n \in DOMAIN yielded' :
              n \in Nat /\ (n \in DOMAIN yielded \/ n - Len(yielded) \in DOMAIN hits)
<1> DEFINE docs == [n \in DOMAIN hits |-> hits[n].doc]
<1>1. hits \in Seq(Matching(until, minScore)) /\ yielded \in Seq(Document) /\ yielded' = yielded \o docs
  BY DEF PageOf, ScanInv, PagesInv, ScanType
<1>2. Len(hits) \in Nat /\ DOMAIN hits = 1 .. Len(hits) /\ Len(yielded) \in Nat /\ DOMAIN yielded = 1 .. Len(yielded)
  BY <1>1
<1>3. \A n \in DOMAIN hits : hits[n].doc \in Document
  BY <1>1, HitFacts
<1>4. docs \in Seq(Document) /\ Len(docs) = Len(hits) /\ \A n \in DOMAIN hits : docs[n] = hits[n].doc
  BY <1>2, <1>3
<1> HIDE DEF docs
<1>5. /\ yielded' \in Seq(Document) /\ Len(yielded') = Len(yielded) + Len(hits)
      /\ \A i \in 1 .. Len(yielded) + Len(hits) :
           yielded'[i] = IF i <= Len(yielded) THEN yielded[i] ELSE docs[i - Len(yielded)]
  <2>1. /\ yielded \o docs \in Seq(Document) /\ Len(yielded \o docs) = Len(yielded) + Len(docs)
        /\ \A i \in 1 .. Len(yielded) + Len(docs) :
             (yielded \o docs)[i] = IF i <= Len(yielded) THEN yielded[i] ELSE docs[i - Len(yielded)]
    BY <1>1, <1>4, ConcatProperties
  <2> QED
    BY <1>1, <1>4, <2>1
<1>6. DOMAIN yielded' = 1 .. Len(yielded) + Len(hits)
  BY <1>5
<1>7. ASSUME NEW n \in DOMAIN hits
      PROVE  Len(yielded) + n \in DOMAIN yielded' /\ yielded'[Len(yielded) + n] = hits[n].doc
  <2>1. /\ Len(yielded) + n \in 1 .. Len(yielded) + Len(hits) /\ ~(Len(yielded) + n <= Len(yielded))
        /\ Len(yielded) + n - Len(yielded) = n
    BY <1>2
  <2> QED
    BY <1>4, <1>5, <1>6, <2>1
<1> QED
  BY <1>2, <1>5, <1>6, <1>7

\* The times of the page: not before the cursor, and ascending.
LEMMA PageTimes ==
  ASSUME IngestInv, ScanInv, pc = "paging", NEW answering, NEW hits, PageOf(answering, hits)
  PROVE  /\ \A h \in Matching(until, minScore) :
              h.doc.event.time = h.sort[1] /\ h.sort[1] \in Nat /\ h.sort[2] \in Nat
         /\ searchAfter # <<>> => searchAfter[1] \in Nat /\ searchAfter[2] \in Nat
         /\ \A n \in DOMAIN hits : hits[n] \in Matching(until, minScore)
         /\ \A m, n \in DOMAIN hits : m <= n => hits[m].sort[1] <= hits[n].sort[1]
         /\ \A n \in DOMAIN yielded : yielded[n].event.time \in Nat
         /\ \A n \in DOMAIN yielded : searchAfter # <<>> /\ yielded[n].event.time <= searchAfter[1]
         /\ \A n \in DOMAIN hits : searchAfter # <<>> => searchAfter[1] <= hits[n].sort[1]
<1>1. ASSUME NEW h \in Matching(until, minScore)
      PROVE  h.doc.event.time = h.sort[1] /\ h.sort[1] \in Nat /\ h.sort[2] \in Nat
  <2>1. h.sort \in Nat \X DocNumber /\ h.sort[1] = h.doc.event.time
    BY HitFacts
  <2>2. h.sort[2] \in DocNumber
    BY <2>1
  <2> QED
    BY <2>1, <2>2, DocNumbers
<1>2. searchAfter # <<>> => searchAfter[1] \in Nat /\ searchAfter[2] \in Nat
  <2>1. searchAfter # <<>> => searchAfter[1] \in Nat /\ searchAfter[2] \in DocNumber
    BY DEF ScanInv, PagesInv, ScanType
  <2> QED
    BY <2>1, DocNumbers
<1>3. \A n \in DOMAIN hits : hits[n] \in Matching(until, minScore)
  BY DEF PageOf
<1>4. ASSUME NEW m \in DOMAIN hits, NEW n \in DOMAIN hits, m < n
      PROVE  hits[m].sort[1] <= hits[n].sort[1]
  <2>1. HitBefore(hits[m], hits[n])
    BY <1>4 DEF PageOf
  <2>2. hits[m].sort[1] \in Nat /\ hits[n].sort[1] \in Nat
    BY <1>1, <1>3
  <2>3. hits[m].sort[1] < hits[n].sort[1] \/ hits[m].sort[1] = hits[n].sort[1]
    BY <2>1 DEF HitBefore, SortBefore
  <2> QED
    BY <2>2, <2>3
<1>5. \A m, n \in DOMAIN hits : m <= n => hits[m].sort[1] <= hits[n].sort[1]
  <2>1. \A n \in DOMAIN hits : n \in Nat
    BY DEF PageOf
  <2> QED
    BY <1>1, <1>3, <1>4, <2>1
<1>6. \A n \in DOMAIN yielded : yielded[n].event.time \in Nat
  <2>1. \A n \in DOMAIN yielded : yielded[n] \in Document
    BY DEF ScanInv, PagesInv, ScanType
  <2> QED
    BY <2>1, EventsAssumption DEF Document
<1>7. \A n \in DOMAIN yielded : searchAfter # <<>> /\ yielded[n].event.time <= searchAfter[1]
  <2>1. searchAfter = <<>> => DOMAIN yielded = {}
    BY DEF ScanInv, PagesInv, AtCursor
  <2> QED
    BY <2>1 DEF ScanInv, PagesInv, AtCursor
<1>8. \A n \in DOMAIN hits : searchAfter # <<>> => searchAfter[1] <= hits[n].sort[1]
  BY <1>1, <1>2, <1>3 DEF PageOf, Reached, SortBefore
<1> QED
  BY <1>1, <1>2, <1>3, <1>5, <1>6, <1>7, <1>8

\* No document is on a page twice.
LEMMA PageApart ==
  ASSUME IngestInv, ScanInv, NEW answering, NEW hits, PageOf(answering, hits),
         NEW m \in DOMAIN hits, NEW n \in DOMAIN hits, hits[m].doc = hits[n].doc
  PROVE  m = n
<1>1. hits[m] \in Matching(until, minScore) /\ hits[n] \in Matching(until, minScore)
  BY DEF PageOf
<1>2. hits[m] = hits[n]
  BY <1>1, HitUnique
<1>3. hits[m].sort[1] \in Nat /\ hits[m].sort[2] \in Nat /\ hits[m].shard \in Nat
  <2>1. hits[m].sort \in Nat \X DocNumber /\ hits[m].shard \in Nat
    BY <1>1, HitFacts
  <2>2. hits[m].sort[2] \in DocNumber
    BY <2>1
  <2> QED
    BY <2>1, <2>2, DocNumbers
<1>4. ~HitBefore(hits[m], hits[n]) /\ ~HitBefore(hits[n], hits[m])
  BY <1>2, <1>3 DEF HitBefore, SortBefore
<1>5. m \in Nat /\ n \in Nat
  BY DEF PageOf
<1>6. ~(m < n) /\ ~(n < m)
  BY <1>4 DEF PageOf
<1> QED
  BY <1>5, <1>6

Fetches(answering, hits) ==
  /\ pc = "paging" /\ NextSize > 0 /\ PageOf(answering, hits)
  /\ partial' = (partial \/ answering # DOMAIN shards["pcap"])
  /\ UNCHANGED <<limit, until, minScore, atStart, moved, shards>>

LEMMA FetchType ==
  ASSUME IngestInv, ScanInv, NEW answering, NEW hits, Fetches(answering, hits)
  PROVE  /\ ScanType' /\ cursors \subseteq cursors'
         /\ ~EndsScan(hits) =>
              /\ pc' = "paging" /\ Len(hits) \in DOMAIN hits
              /\ searchAfter' = hits[Len(hits)].sort /\ searchAfter' \in cursors'
              /\ searchAfter' # <<>> /\ searchAfter'[1] \in Nat /\ searchAfter'[2] \in Nat
<1>1. ScanType /\ PageOf(answering, hits)
  BY DEF ScanInv, PagesInv, Fetches
<1>2. yielded' \in Seq(Document) /\ Len(hits) \in Nat /\ DOMAIN hits = 1 .. Len(hits)
  BY <1>1, PageYields
<1>3. ASSUME ~EndsScan(hits)
      PROVE  /\ Len(hits) \in DOMAIN hits /\ pc' = "paging"
             /\ searchAfter' = hits[Len(hits)].sort /\ cursors' = cursors \cup {searchAfter'}
             /\ searchAfter' \in Nat \X DocNumber
  <2>1. hits # <<>>
    BY <1>3 DEF EndsScan
  <2>2. Len(hits) # 0
    BY <1>1, <2>1 DEF PageOf
  <2>3. Len(hits) \in DOMAIN hits
    BY <1>2, <2>2
  <2>4. hits[Len(hits)].sort \in Nat \X DocNumber
    BY <1>1, <2>3, HitFacts DEF PageOf
  <2> QED
    BY <1>1, <1>3, <2>3, <2>4 DEF PageOf
<1>4. /\ pc' \in {"idle", "paging", "done", "failed"}
      /\ searchAfter' \in {<<>>} \cup (Nat \X DocNumber)
      /\ cursors' \subseteq Nat \X DocNumber
      /\ cursors \subseteq cursors'
  <2>1. CASE EndsScan(hits)
    BY <1>1, <2>1 DEF PageOf, ScanType
  <2>2. CASE ~EndsScan(hits)
    BY <1>1, <1>3, <2>2 DEF ScanType
  <2> QED
    BY <2>1, <2>2
<1>5. partial' \in BOOLEAN
  BY <1>1, Zenon DEF Fetches, ScanType
<1>6. ScanType'
  BY <1>1, <1>2, <1>4, <1>5 DEF Fetches, ScanType
<1>7. ASSUME ~EndsScan(hits)
      PROVE  searchAfter' # <<>> /\ searchAfter'[1] \in Nat /\ searchAfter'[2] \in Nat
  <2>1. searchAfter'[1] \in Nat /\ searchAfter'[2] \in DocNumber /\ searchAfter' # <<>>
    BY <1>3, <1>7
  <2> QED
    BY <2>1, DocNumbers
<1> QED
  BY <1>3, <1>4, <1>6, <1>7

\* What the time of a document of yielded' is.
LEMMA FetchTimes ==
  ASSUME IngestInv, ScanInv, NEW answering, NEW hits, Fetches(answering, hits)
  PROVE  /\ AtCursor' /\ TimeOrdered' /\ WithinLimit'
<1>1. pc = "paging" /\ PageOf(answering, hits)
  BY DEF Fetches
<1> DEFINE old == Len(yielded)
<1>2. /\ old \in Nat /\ Len(hits) \in Nat /\ DOMAIN hits = 1 .. Len(hits)
      /\ Len(yielded') = old + Len(hits)
      /\ \A n \in DOMAIN yielded : n <= old /\ yielded'[n] = yielded[n]
      /\ \A n \in DOMAIN hits : yielded'[old + n] = hits[n].doc
      /\ \A n \in DOMAIN yielded' : n \in Nat /\ (n \in DOMAIN yielded \/ n - old \in DOMAIN hits)
  BY <1>1, PageYields
<1>3. /\ \A n \in DOMAIN hits : hits[n].doc.event.time = hits[n].sort[1] /\ hits[n].sort[1] \in Nat
      /\ \A m, n \in DOMAIN hits : m <= n => hits[m].sort[1] <= hits[n].sort[1]
      /\ \A n \in DOMAIN yielded : yielded[n].event.time \in Nat
      /\ \A n \in DOMAIN yielded : searchAfter # <<>> /\ yielded[n].event.time <= searchAfter[1]
      /\ searchAfter # <<>> => searchAfter[1] \in Nat
      /\ \A n \in DOMAIN hits : searchAfter # <<>> => searchAfter[1] <= hits[n].sort[1]
  BY <1>1, PageTimes
<1>4. \A m \in DOMAIN yielded : \A n \in DOMAIN hits : yielded[m].event.time <= hits[n].sort[1]
  BY <1>3
<1> HIDE DEF old
<1>5. \A n \in DOMAIN yielded' :
        \/ n \in DOMAIN yielded /\ yielded'[n] = yielded[n]
        \/ n - old \in DOMAIN hits /\ yielded'[n].event.time = hits[n - old].sort[1]
  <2> TAKE n \in DOMAIN yielded'
  <2>1. CASE n \in DOMAIN yielded
    BY <1>2, <2>1
  <2>2. CASE n - old \in DOMAIN hits
    <3>1. old + (n - old) = n
      BY <1>2
    <3> QED
      BY <1>2, <1>3, <2>2, <3>1
  <2> QED
    BY <1>2, <2>1, <2>2
<1>6. AtCursor'
  <2>1. CASE EndsScan(hits)
    BY <1>1, <2>1 DEF PageOf, AtCursor
  <2>2. CASE ~EndsScan(hits)
    <3>1. /\ Len(hits) \in DOMAIN hits /\ searchAfter' = hits[Len(hits)].sort
          /\ searchAfter' \in cursors' /\ searchAfter' # <<>> /\ pc' = "paging"
      BY <2>2, FetchType
    <3>2. \A n \in DOMAIN yielded : yielded[n].event.time <= searchAfter'[1]
      BY <1>4, <3>1
    <3>3. \A n \in DOMAIN hits : hits[n].sort[1] <= searchAfter'[1]
      BY <1>2, <1>3, <3>1
    <3>4. \A n \in DOMAIN yielded' : yielded'[n].event.time <= searchAfter'[1]
      BY <1>5, <3>2, <3>3
    <3> QED
      BY <3>1, <3>4 DEF AtCursor
  <2> QED
    BY <2>1, <2>2
<1>7. TimeOrdered'
  <2> SUFFICES ASSUME NEW m \in DOMAIN yielded', NEW n \in DOMAIN yielded', m < n
               PROVE  yielded'[m].event.time <= yielded'[n].event.time
    BY DEF TimeOrdered
  <2>1. CASE m \in DOMAIN yielded /\ n \in DOMAIN yielded
    BY <1>2, <2>1 DEF ScanInv, PagesInv, TimeOrdered
  <2>2. CASE m \in DOMAIN yielded /\ n - old \in DOMAIN hits
    <3>1. yielded'[m] = yielded[m]
      BY <1>2, <2>2
    <3>2. yielded'[n].event.time = hits[n - old].sort[1]
      <4>1. old + (n - old) = n
        BY <1>2
      <4> QED
        BY <1>2, <1>3, <2>2, <4>1
    <3> QED
      BY <1>4, <2>2, <3>1, <3>2
  <2>3. CASE m - old \in DOMAIN hits /\ n - old \in DOMAIN hits
    <3>1. old + (m - old) = m /\ old + (n - old) = n /\ m - old <= n - old
      BY <1>2, <2>3
    <3>2. yielded'[m].event.time = hits[m - old].sort[1] /\ yielded'[n].event.time = hits[n - old].sort[1]
      BY <1>2, <1>3, <2>3, <3>1
    <3> QED
      BY <1>3, <2>3, <3>1, <3>2
  <2>4. CASE m - old \in DOMAIN hits /\ n \in DOMAIN yielded
    <3>1. n <= old /\ m - old >= 1 /\ m \in Nat /\ n \in Nat
      BY <1>2, <2>4
    <3> QED
      BY <1>2, <3>1
  <2> QED
    BY <1>2, <2>1, <2>2, <2>3, <2>4
<1>8. WithinLimit'
  <2>1. Len(hits) <= NextSize /\ NextSize \in Int /\ limit' = limit
        /\ (limit # NoLimit => NextSize <= limit - old)
    BY <1>1, NextSizeFacts DEF PageOf, ScanInv, PagesInv, Fetches, old
  <2>2. limit # NoLimit => limit \in Nat
    BY DEF ScanInv, PagesInv, ScanType
  <2> QED
    BY <1>2, <2>1, <2>2 DEF WithinLimit
<1> QED
  BY <1>6, <1>7, <1>8

LEMMA FetchCovers ==
  ASSUME IngestInv, ScanInv, NEW answering, NEW hits, Fetches(answering, hits)
  PROVE  Covered'
<1> SUFFICES ASSUME ~partial', NEW d \in atStart, ~AtPageEnd(d)'
             PROVE  Yields(d)' \/ Ahead(d)'
  BY DEF Covered, Fetches
<1>1. /\ pc = "paging" /\ NextSize > 0 /\ PageOf(answering, hits)
      /\ ~partial /\ answering = DOMAIN shards["pcap"]
  BY DEF Fetches
<1>2. cursors \subseteq cursors'
  BY FetchType
<1>3. ~AtPageEnd(d)
  BY <1>2 DEF AtPageEnd
<1>4. Yields(d) \/ Ahead(d)
  BY <1>1, <1>3 DEF ScanInv, PagesInv, Covered
<1>5. /\ Len(yielded) \in Nat /\ Len(hits) \in Nat /\ DOMAIN hits = 1 .. Len(hits)
      /\ Len(yielded') = Len(yielded) + Len(hits)
      /\ \A n \in DOMAIN yielded : n \in DOMAIN yielded' /\ n <= Len(yielded) /\ yielded'[n] = yielded[n]
      /\ \A n \in DOMAIN hits : Len(yielded) + n \in DOMAIN yielded' /\ yielded'[Len(yielded) + n] = hits[n].doc
      /\ \A n \in DOMAIN yielded' : n \in Nat /\ (n \in DOMAIN yielded \/ n - Len(yielded) \in DOMAIN hits)
  BY <1>1, PageYields
<1>6. CASE Yields(d)
  BY <1>5, <1>6 DEF Yields
<1>7. CASE ~Yields(d)
  <2>1. searchAfter = <<>> \/ searchAfter[1] < d.event.time
    BY <1>1, <1>4, <1>7 DEF Ahead
  <2>2. PICK h \in Matching(until, minScore) : h.doc = d
    BY <1>1 DEF ScanInv, StillThere, DocsOf
  <2>3. /\ h.sort[1] = d.event.time /\ h.sort[1] \in Nat
        /\ \A n \in DOMAIN hits : hits[n].doc.event.time = hits[n].sort[1] /\ hits[n].sort[1] \in Nat
        /\ \A n \in DOMAIN yielded : yielded[n].event.time \in Nat
        /\ \A n \in DOMAIN yielded : searchAfter # <<>> /\ yielded[n].event.time <= searchAfter[1]
        /\ searchAfter # <<>> => searchAfter[1] \in Nat
    BY <1>1, <2>2, PageTimes
  <2>4. Reached(h)
    BY <2>1, <2>3 DEF Reached, SortBefore
  <2>5. \/ \E n \in DOMAIN hits : hits[n] = h
        \/ Len(hits) = NextSize /\ \A n \in DOMAIN hits : HitBefore(hits[n], h)
    BY <1>1, <2>4 DEF PageOf
  <2>6. CASE \E n \in DOMAIN hits : hits[n] = h
    BY <1>5, <2>2, <2>6 DEF Yields
  <2>7. CASE Len(hits) = NextSize /\ \A n \in DOMAIN hits : HitBefore(hits[n], h)
    <3>1. \A n \in DOMAIN hits : hits[n].sort[1] <= d.event.time
      BY <2>3, <2>7 DEF HitBefore, SortBefore
    <3>2. hits # <<>>
      BY <1>1, <2>7
    <3>3. CASE EndsScan(hits)
      <4>1. pc' = "done" /\ limit # NoLimit /\ Len(yielded) + Len(hits) >= limit
        BY <1>1, <3>2, <3>3 DEF PageOf, EndsScan
      <4>2. limit' = limit /\ limit \in Nat /\ NextSize <= limit - Len(yielded)
        BY <4>1, NextSizeFacts DEF Fetches, ScanInv, PagesInv, ScanType
      <4>3. Len(yielded') = limit'
        BY <1>5, <2>7, <4>1, <4>2
      <4>4. \A n \in DOMAIN yielded' : yielded'[n].event.time <= d.event.time
        <5> TAKE n \in DOMAIN yielded'
        <5>1. CASE n \in DOMAIN yielded
          BY <1>5, <2>1, <2>3, <5>1
        <5>2. CASE n - Len(yielded) \in DOMAIN hits
          <6>1. Len(yielded) + (n - Len(yielded)) = n
            BY <1>5
          <6>2. yielded'[n] = hits[n - Len(yielded)].doc
            BY <1>5, <5>2, <6>1
          <6> QED
            BY <2>3, <3>1, <5>2, <6>2
        <5> QED
          BY <1>5, <5>1, <5>2
      <4> QED
        BY <4>1, <4>2, <4>3, <4>4 DEF Ahead
    <3>4. CASE ~EndsScan(hits)
      <4>1. /\ pc' = "paging" /\ Len(hits) \in DOMAIN hits /\ searchAfter' = hits[Len(hits)].sort
            /\ searchAfter' \in cursors' /\ searchAfter' # <<>>
        BY <3>4, FetchType
      <4>2. searchAfter'[1] # d.event.time
        BY <4>1 DEF AtPageEnd
      <4>3. searchAfter'[1] < d.event.time
        BY <2>3, <3>1, <4>1, <4>2
      <4> QED
        BY <4>1, <4>3 DEF Ahead
    <3> QED
      BY <3>3, <3>4
  <2> QED
    BY <2>5, <2>6, <2>7
<1> QED
  BY <1>6, <1>7

LEMMA FetchNoTwice ==
  ASSUME IngestInv, ScanInv, NEW answering, NEW hits, Fetches(answering, hits)
  PROVE  NoTwice'
<1>1. pc = "paging" /\ PageOf(answering, hits)
  BY DEF Fetches
<1>2. cursors \subseteq cursors'
  BY FetchType
<1>3. /\ Len(yielded) \in Nat
      /\ \A n \in DOMAIN yielded : n <= Len(yielded) /\ yielded'[n] = yielded[n]
      /\ \A n \in DOMAIN hits : yielded'[Len(yielded) + n] = hits[n].doc
      /\ \A n \in DOMAIN yielded' : n \in Nat /\ (n \in DOMAIN yielded \/ n - Len(yielded) \in DOMAIN hits)
  BY <1>1, PageYields
<1>4. /\ \A n \in DOMAIN hits : hits[n].doc.event.time = hits[n].sort[1] /\ hits[n].sort[1] \in Nat
      /\ \A n \in DOMAIN yielded : yielded[n].event.time \in Nat
      /\ \A n \in DOMAIN yielded : searchAfter # <<>> /\ yielded[n].event.time <= searchAfter[1]
      /\ searchAfter # <<>> => searchAfter[1] \in Nat
      /\ \A n \in DOMAIN hits : searchAfter # <<>> => searchAfter[1] <= hits[n].sort[1]
  BY <1>1, PageTimes
\* One from before, and one of the page.
<1>5. ASSUME NEW m \in DOMAIN yielded, NEW n \in DOMAIN hits, yielded[m] = hits[n].doc
      PROVE  AtPageEnd(yielded[m])'
  <2>1. searchAfter # <<>> /\ searchAfter[1] = yielded[m].event.time
    BY <1>4, <1>5
  <2>2. searchAfter \in cursors
    BY <1>1, <2>1 DEF ScanInv, PagesInv, AtCursor
  <2>3. \E c \in cursors' : c # <<>> /\ c[1] = yielded[m].event.time
    BY <1>2, <2>1, <2>2
  <2> QED
    BY <1>3, <2>3 DEF AtPageEnd
<1> SUFFICES ASSUME NEW m \in DOMAIN yielded', NEW n \in DOMAIN yielded',
                    m # n, yielded'[m] = yielded'[n]
             PROVE  \E c \in cursors' : c # <<>> /\ c[1] = yielded'[m].event.time
  BY DEF NoTwice, AtPageEnd
<1>6. ASSUME NEW k \in DOMAIN yielded', k - Len(yielded) \in DOMAIN hits
      PROVE  yielded'[k] = hits[k - Len(yielded)].doc
  <2>1. Len(yielded) + (k - Len(yielded)) = k
    BY <1>3
  <2> QED
    BY <1>3, <1>6, <2>1
<1>7. CASE m \in DOMAIN yielded /\ n \in DOMAIN yielded
  <2>1. yielded[m] = yielded[n] /\ yielded'[m] = yielded[m]
    BY <1>3, <1>7
  <2>2. AtPageEnd(yielded[m])
    BY <1>7, <2>1 DEF ScanInv, PagesInv, NoTwice
  <2> QED
    BY <1>2, <2>1, <2>2 DEF AtPageEnd
<1>8. CASE m \in DOMAIN yielded /\ n - Len(yielded) \in DOMAIN hits
  <2>1. yielded'[m] = yielded[m] /\ yielded[m] = hits[n - Len(yielded)].doc
    BY <1>3, <1>6, <1>8
  <2> QED
    BY <1>5, <1>8, <2>1 DEF AtPageEnd
<1>9. CASE m - Len(yielded) \in DOMAIN hits /\ n \in DOMAIN yielded
  <2>1. yielded'[m] = yielded[n] /\ yielded[n] = hits[m - Len(yielded)].doc /\ yielded'[n] = yielded[n]
    BY <1>3, <1>6, <1>9
  <2> QED
    BY <1>5, <1>9, <2>1 DEF AtPageEnd
<1>10. CASE m - Len(yielded) \in DOMAIN hits /\ n - Len(yielded) \in DOMAIN hits
  <2>1. hits[m - Len(yielded)].doc = hits[n - Len(yielded)].doc
    BY <1>6, <1>10
  <2>2. m - Len(yielded) = n - Len(yielded)
    BY <1>1, <1>10, <2>1, PageApart
  <2> QED
    BY <1>3, <2>2
<1> QED
  BY <1>3, <1>7, <1>8, <1>9, <1>10

LEMMA FetchSteady ==
  ASSUME IngestInv, ScanInv, NEW answering, NEW hits, Fetches(answering, hits)
  PROVE  Steady'
<1>1. pc = "paging" /\ NextSize > 0 /\ PageOf(answering, hits) /\ atStart' = atStart
  BY DEF Fetches
<1>2. Matching(until, minScore)' = Matching(until, minScore)
  BY SameMatching DEF Fetches
<1>3. DocsOf(until, minScore)' = DocsOf(until, minScore)
  BY SameMatching DEF Fetches
<1> SUFFICES ASSUME ~moved, pc' \in {"paging", "done"}
             PROVE  /\ atStart = DocsOf(until, minScore)
                    /\ \A n \in DOMAIN yielded' : yielded'[n] \in atStart
                    /\ IsInjective(yielded')
                    /\ pc' = "paging" =>
                         \A h \in Matching(until, minScore) : Yields(h.doc)' => Passed(h)'
                    /\ ~partial' /\ NoTies =>
                         \A h \in Matching(until, minScore) :
                           (pc' = "paging" /\ Passed(h)') \/ (pc' = "done" /\ limit = NoLimit)
                             => Yields(h.doc)'
  <2>1. NoTies' = NoTies /\ limit' = limit /\ moved' = moved
    BY <1>2 DEF NoTies, Fetches
  <2> QED
    BY <1>1, <1>2, <1>3, <2>1 DEF Steady, Yields, Passed
<1>4. /\ atStart = DocsOf(until, minScore)
      /\ \A n \in DOMAIN yielded : yielded[n] \in atStart
      /\ IsInjective(yielded)
      /\ \A h \in Matching(until, minScore) : Yields(h.doc) => Passed(h)
      /\ ~partial /\ NoTies => \A h \in Matching(until, minScore) : Passed(h) => Yields(h.doc)
  BY <1>1 DEF ScanInv, Steady
<1>5. \A h : Passed(h) <=> ~Reached(h)
  BY DEF Passed, Reached
<1>6. /\ Len(yielded) \in Nat /\ Len(hits) \in Nat /\ DOMAIN hits = 1 .. Len(hits)
      /\ \A n \in DOMAIN yielded : n \in DOMAIN yielded' /\ yielded'[n] = yielded[n]
      /\ \A n \in DOMAIN hits : Len(yielded) + n \in DOMAIN yielded' /\ yielded'[Len(yielded) + n] = hits[n].doc
      /\ \A n \in DOMAIN yielded' : n \in Nat /\ (n \in DOMAIN yielded \/ n - Len(yielded) \in DOMAIN hits)
  BY <1>1, PageYields
<1>7. /\ \A h \in Matching(until, minScore) : h.sort[1] \in Nat /\ h.sort[2] \in Nat
      /\ searchAfter # <<>> => searchAfter[1] \in Nat /\ searchAfter[2] \in Nat
      /\ \A n \in DOMAIN hits : hits[n] \in Matching(until, minScore)
  BY <1>1, PageTimes
<1>8. \A n \in DOMAIN hits : Reached(hits[n])
  BY <1>1 DEF PageOf
<1>9. ASSUME NEW n \in DOMAIN yielded', n - Len(yielded) \in DOMAIN hits
      PROVE  yielded'[n] = hits[n - Len(yielded)].doc
  <2>1. Len(yielded) + (n - Len(yielded)) = n
    BY <1>6
  <2> QED
    BY <1>6, <1>9, <2>1
\* What is on the page was not read before.
<1>10. \A m \in DOMAIN yielded : \A n \in DOMAIN hits : yielded[m] # hits[n].doc
  BY <1>4, <1>5, <1>7, <1>8 DEF Yields
<1>11. \A n \in DOMAIN yielded' : yielded'[n] \in atStart
  <2>1. \A n \in DOMAIN hits : hits[n].doc \in atStart
    BY <1>4, <1>7 DEF DocsOf
  <2> QED
    BY <1>4, <1>6, <1>9, <2>1
<1>12. IsInjective(yielded')
  <2> SUFFICES ASSUME NEW m \in DOMAIN yielded', NEW n \in DOMAIN yielded', yielded'[m] = yielded'[n]
               PROVE  m = n
    BY DEF IsInjective
  <2>1. CASE m \in DOMAIN yielded /\ n \in DOMAIN yielded
    BY <1>4, <1>6, <2>1 DEF IsInjective
  <2>2. CASE m \in DOMAIN yielded /\ n - Len(yielded) \in DOMAIN hits
    BY <1>6, <1>9, <1>10, <2>2
  <2>3. CASE m - Len(yielded) \in DOMAIN hits /\ n \in DOMAIN yielded
    BY <1>6, <1>9, <1>10, <2>3
  <2>4. CASE m - Len(yielded) \in DOMAIN hits /\ n - Len(yielded) \in DOMAIN hits
    <3>1. m - Len(yielded) = n - Len(yielded)
      BY <1>1, <1>9, <2>4, PageApart
    <3> QED
      BY <1>6, <3>1
  <2> QED
    BY <1>6, <2>1, <2>2, <2>3, <2>4
<1>13. ASSUME pc' = "paging", NEW h \in Matching(until, minScore), Yields(h.doc)'
       PROVE  Passed(h)'
  <2>1. ~EndsScan(hits)
    BY <1>1, <1>13 DEF PageOf
  <2> DEFINE last == hits[Len(hits)]
  <2>2. Len(hits) \in DOMAIN hits /\ searchAfter' = last.sort /\ searchAfter' # <<>>
    BY <2>1, FetchType
  <2>3. last \in Matching(until, minScore) /\ Reached(last)
    BY <1>7, <1>8, <2>2
  <2>4. PICK n \in DOMAIN yielded' : yielded'[n] = h.doc
    BY <1>13 DEF Yields
  <2> HIDE DEF last
  <2>5. CASE n \in DOMAIN yielded
    <3>1. ~Reached(h)
      BY <1>4, <1>5, <1>6, <2>4, <2>5 DEF Yields
    <3>2. ~SortBefore(last.sort, h.sort)
      BY <1>7, <2>3, <3>1 DEF Reached, SortBefore
    <3> QED
      BY <2>2, <3>2 DEF Passed
  <2>6. CASE n - Len(yielded) \in DOMAIN hits
    <3>1. h = hits[n - Len(yielded)]
      BY <1>7, <1>9, <2>4, <2>6, HitUnique
    <3>2. h = last \/ HitBefore(h, last)
      <4>1. n - Len(yielded) = Len(hits) \/ n - Len(yielded) < Len(hits)
        BY <1>6, <2>6
      <4> QED
        BY <1>1, <2>2, <2>6, <3>1, <4>1 DEF PageOf, last
    <3>3. ~SortBefore(last.sort, h.sort)
      BY <1>7, <2>3, <3>2 DEF HitBefore, SortBefore
    <3> QED
      BY <2>2, <3>3 DEF Passed
  <2> QED
    BY <1>6, <2>5, <2>6
<1>14. ASSUME ~partial', NoTies, NEW h \in Matching(until, minScore),
              (pc' = "paging" /\ Passed(h)') \/ (pc' = "done" /\ limit = NoLimit)
       PROVE  Yields(h.doc)'
  <2>1. ~partial /\ answering = DOMAIN shards["pcap"]
    BY <1>14 DEF Fetches
  <2>2. CASE ~Reached(h)
    <3>1. Yields(h.doc)
      BY <1>4, <1>5, <1>14, <2>1, <2>2
    <3> QED
      BY <1>6, <3>1 DEF Yields
  <2>3. CASE Reached(h)
    <3>1. \/ \E n \in DOMAIN hits : hits[n] = h
          \/ Len(hits) = NextSize /\ \A n \in DOMAIN hits : HitBefore(hits[n], h)
      BY <1>1, <2>1, <2>3 DEF PageOf
    <3>2. CASE \E n \in DOMAIN hits : hits[n] = h
      BY <1>6, <3>2 DEF Yields
    <3>3. CASE Len(hits) = NextSize /\ \A n \in DOMAIN hits : HitBefore(hits[n], h)
      <4>1. hits # <<>>
        BY <1>1, <3>3
      <4>2. ~EndsScan(hits)
        BY <1>1, <1>14, <4>1 DEF EndsScan, PageOf
      <4>3. Len(hits) \in DOMAIN hits /\ searchAfter' = hits[Len(hits)].sort /\ pc' = "paging"
        BY <4>2, FetchType
      <4>4. ~SortBefore(hits[Len(hits)].sort, h.sort)
        BY <1>14, <4>3 DEF Passed
      <4>5. hits[Len(hits)].sort = h.sort
        BY <3>3, <4>3, <4>4 DEF HitBefore
      <4>6. hits[Len(hits)] = h
        BY <1>7, <1>14, <4>3, <4>5 DEF NoTies
      <4> QED
        BY <3>2, <4>3, <4>6
    <3> QED
      BY <3>1, <3>2, <3>3
  <2> QED
    BY <2>2, <2>3
<1> QED
  BY <1>4, <1>11, <1>12, <1>13, <1>14

LEMMA FetchPages ==
  ASSUME IngestInv, ScanInv, NEW answering, FetchPage(answering)
  PROVE  ScanInv'
<1>1. PICK hits : PageOf(answering, hits)
  BY FetchFacts
<1>2. Fetches(answering, hits)
  BY <1>1 DEF FetchPage, Fetches, args
<1>3. PagesInv'
  BY <1>2, FetchType, FetchTimes, FetchCovers, FetchNoTwice DEF PagesInv
<1>4. StillThere'
  <2>1. DocsOf(until, minScore)' = DocsOf(until, minScore)
    BY <1>2, SameMatching DEF Fetches
  <2> QED
    BY <1>2, <2>1 DEF Fetches, ScanInv, StillThere
<1> QED
  BY <1>2, <1>3, <1>4, FetchSteady DEF ScanInv

-----------------------------------------------------------------------------
(* The invariant of the whole.                                               *)

LEMMA ScanStep ==
  ASSUME IngestInv, ScanInv, [Next]_vars
  PROVE  IngestInv' /\ ScanInv'
<1>1. CASE IngestNext /\ UNCHANGED scanVars
  <2>1. IngestInv' /\ Fixed
    BY <1>1, IngestNextInv
  <2> QED
    BY <1>1, <2>1, SameScan DEF scanVars, args, pageVars
<1>2. CASE StreamsMove
  <2>1. IngestInv' /\ Grown
    BY <1>2, StreamsMoveInv
  <2>2. UNCHANGED pageVars /\ moved' = (moved \/ pc # "idle")
    BY <1>2 DEF StreamsMove, args, pageVars
  <2> QED
    BY <2>1, <2>2, MovedScan
<1>3. CASE ScanNext /\ UNCHANGED ingestVars
  <2>1. UNCHANGED shards
    BY <1>3 DEF ScanNext, Start, NothingWanted, FetchPage, SearchFails
  <2>2. IngestInv'
    BY <1>3, <2>1, StillIngestInv DEF ingestVars
  <2>3. ScanInv'
    BY <1>3, StartScan, ScanAtLimit, FetchPages, ScanFails DEF ScanNext
  <2> QED
    BY <2>2, <2>3
<1>4. CASE UNCHANGED vars
  <2>1. IngestInv' /\ Fixed
    BY <1>4, StillIngestInv DEF vars, ingestVars
  <2> QED
    BY <1>4, <2>1, SameScan DEF vars, scanVars, args, pageVars
<1> QED
  BY <1>1, <1>2, <1>3, <1>4 DEF Next

LEMMA ScanInvariant == Spec => [](IngestInv /\ ScanInv)
<1>1. Init => IngestInv /\ ScanInv
  BY InitIngestInv, InitScanInv
<1>2. (IngestInv /\ ScanInv) /\ [Next]_vars => (IngestInv /\ ScanInv)'
  BY ScanStep
<1> QED
  BY <1>1, <1>2, PTL DEF Spec

\* The streams never have more backing indices than the bound, every document is
\* an event that a source handed over, and the cursor of the scan is the sort key
\* of a document: _doc is below the number of documents.
THEOREM TelemetryTypeCorrect == Spec => []TypeOK
<1>1. ASSUME IngestInv, ScanInv, TelemetryInv PROVE TypeOK
  <2>1. /\ shards \in [Stream -> Seq(IndexOf(Document))]
        /\ \A s \in Stream : shards[s] # <<>> /\ Len(shards[s]) <= MaxIndices
    BY <1>1 DEF IngestInv, ShardsInv, ShardsOf
  <2>2. \A s \in Stream : Len(shards[s]) \in 1 .. MaxIndices
    <3> TAKE s \in Stream
    <3>1. shards[s] \in Seq(IndexOf(Document)) /\ shards[s] # <<>> /\ Len(shards[s]) <= MaxIndices
      BY <2>1
    <3>2. Len(shards[s]) \in Nat /\ Len(shards[s]) # 0
      BY <3>1
    <3> QED
      BY <3>1, <3>2, MaxIndicesAssumption
  <2>3. queue \subseteq Events \X (1 .. MaxSent)
    BY <1>1, BoundsAssumption DEF IngestInv
  <2>4. ScanType /\ Letters /\ sent \in 0 .. MaxSent /\ lost \in 0 .. MaxLost
    BY <1>1 DEF IngestInv, ScanInv, PagesInv, TelemetryInv
  <2> QED
    BY <2>1, <2>2, <2>3, <2>4 DEF TypeOK, ScanType, Letters, IndexOf
<1> QED
  BY <1>1, ScanInvariant, TelemetryInvariant, PTL

\* _scan sorts by @timestamp and pages behind a cursor: the documents come in the
\* order of their timestamps, although the shards change between two searches.
THEOREM TelemetryTimeOrdered == Spec => []TimeOrdered
<1>1. ScanInv => TimeOrdered
  BY DEF ScanInv, PagesInv
<1> QED
  BY <1>1, ScanInvariant, PTL

\* The places among the records where a document is.
LEMMA CountFacts ==
  ASSUME ScanType, NEW d
  PROVE  LET places == { n \in DOMAIN yielded : Rebuilds(d) /\ yielded[n] = d } IN
         /\ Count(d) = Cardinality(places) /\ IsFiniteSet(places)
         /\ Count(d) = 0 => places = {}
<1> DEFINE places == { n \in DOMAIN yielded : Rebuilds(d) /\ yielded[n] = d }
<1>1. { n \in DOMAIN Records : Records[n] = d } = places
  BY DEF Records
<1>2. yielded \in Seq(Document)
  BY DEF ScanType
<1>3. IsFiniteSet(1 .. Len(yielded))
  BY <1>2, FS_Interval
<1>4. places \in SUBSET (1 .. Len(yielded))
  BY <1>2
<1>5. IsFiniteSet(places)
  BY <1>3, <1>4, FS_Subset
<1> HIDE DEF places
<1>6. Count(d) = Cardinality(places)
  BY <1>1 DEF Count
<1>7. Cardinality(places) = 0 => places = {}
  BY <1>5, FS_EmptySet
<1> QED
  BY <1>5, <1>6, <1>7 DEF places

\* --limit bounds the documents read, and cuts off the latest: what is left out is
\* not earlier than anything read, but for ties of a cursor and shards that did not
\* answer (fetch_payloads, _scan).
THEOREM TelemetryLimitKept == Spec => []LimitKept
<1>1. ASSUME ScanInv PROVE LimitKept
  <2>1. limit # NoLimit => Len(yielded) <= limit
    BY <1>1 DEF ScanInv, PagesInv, WithinLimit
  <2>2. ASSUME pc = "done", ~partial, NEW d \in Expected, Count(d) = 0, ~AtPageEnd(d)
        PROVE  \A n \in DOMAIN yielded : yielded[n].event.time <= d.event.time
    <3>1. d \in atStart /\ Rebuilds(d)
      BY <2>2 DEF Expected
    <3>2. Yields(d) \/ Ahead(d)
      BY <1>1, <2>2, <3>1 DEF ScanInv, PagesInv, Covered
    <3>3. { n \in DOMAIN yielded : Rebuilds(d) /\ yielded[n] = d } = {}
      BY <1>1, <2>2, CountFacts DEF ScanInv, PagesInv
    <3>4. ~Yields(d)
      BY <3>1, <3>3 DEF Yields
    <3> QED
      BY <2>2, <3>2, <3>4 DEF Ahead
  <2> QED
    BY <2>1, <2>2 DEF LimitKept
<1> QED
  BY <1>1, ScanInvariant, PTL

\* A search has no point in time, and _doc changes with every refresh: but only
\* documents of a millisecond in which a page ended can be missed or repeated.
THEOREM TelemetryOnlyTiesSuffer == Spec => []OnlyTiesSuffer
<1>1. ASSUME ScanInv PROVE OnlyTiesSuffer
  <2> SUFFICES ASSUME pc = "done", limit = NoLimit, ~partial, NEW d \in Expected, ~AtPageEnd(d)
               PROVE  Count(d) = 1
    BY DEF OnlyTiesSuffer
  <2> DEFINE places == { n \in DOMAIN yielded : Rebuilds(d) /\ yielded[n] = d }
  <2>1. d \in atStart /\ Rebuilds(d)
    BY DEF Expected
  <2>2. Yields(d)
    BY <1>1, <2>1 DEF ScanInv, PagesInv, Covered, Ahead
  <2>3. PICK n \in DOMAIN yielded : yielded[n] = d
    BY <2>2 DEF Yields
  <2>4. \A m \in DOMAIN yielded : yielded[m] = d => m = n
    BY <1>1, <2>3 DEF ScanInv, PagesInv, NoTwice
  <2>5. places = {n}
    BY <2>1, <2>3, <2>4
  <2>6. Count(d) = Cardinality(places)
    BY <1>1, CountFacts DEF ScanInv, PagesInv
  <2> QED
    BY <2>5, <2>6, FS_Singleton
<1> QED
  BY <1>1, ScanInvariant, PTL

\* A scan under which nothing moves and whose sort keys differ returns what is
\* there, each readable document once: a document that document_to_record cannot
\* rebuild costs no other.
THEOREM TelemetrySteadyScanExact == Spec => []SteadyScanExact
<1>1. ASSUME IngestInv, ScanInv PROVE SteadyScanExact
  <2> SUFFICES ASSUME pc = "done", limit = NoLimit, ~partial, ~moved, NoTies
               PROVE  ToSet(Records) = Expected /\ IsInjective(Records)
    BY DEF SteadyScanExact, NoTies
  <2>1. /\ atStart = DocsOf(until, minScore)
        /\ \A n \in DOMAIN yielded : yielded[n] \in atStart
        /\ IsInjective(yielded)
        /\ \A h \in Matching(until, minScore) : Yields(h.doc)
    BY <1>1 DEF ScanInv, Steady
  <2>2. \A d \in atStart : Yields(d)
    BY <2>1 DEF DocsOf
  <2>3. /\ DOMAIN Records = { n \in DOMAIN yielded : Rebuilds(yielded[n]) }
        /\ \A n \in DOMAIN Records : Records[n] = yielded[n]
    BY DEF Records
  <2>4. ToSet(Records) = Expected
    BY <2>1, <2>2, <2>3 DEF ToSet, Expected, Yields
  <2>5. IsInjective(Records)
    BY <2>1, <2>3 DEF IsInjective
  <2> QED
    BY <2>4, <2>5
<1> QED
  BY <1>1, ScanInvariant, PTL

\* What the sensor rated by signatures that Logstash sees as well is analysed with
\* the verdict of the sensor, by every scan of everything at or above --min-score
\* that nothing disturbs: the pipeline's weights and bands are those of scoring.py.
THEOREM TelemetryMatchedIsAnalysed == Spec => []MatchedIsAnalysed
<1>1. ASSUME IngestInv, ScanInv PROVE MatchedIsAnalysed
  <2> SUFFICES ASSUME Undisturbed, NEW d \in Captured,
                      PayloadOf[d.event.body].matches # {},
                      PayloadOf[d.event.body].head = PayloadOf[d.event.body].matches,
                      Sent[d.event.body].score >= minScore
               PROVE  Analysed(d)
    BY DEF MatchedIsAnalysed
  <2> DEFINE body == d.event.body
  <2>1. PICK i \in DOMAIN shards["pcap"] : d \in ToSet(Searchable(shards["pcap"][i]))
    BY DEF Captured, ToSet
  <2>2. d \in Document /\ d \in Docs(shards["pcap"][i])
    <3> DEFINE docs == Searchable(shards["pcap"][i])
    <3>1. docs \in Seq(Document) /\ ToSet(docs) = Docs(shards["pcap"][i])
      BY <1>1, ShardFacts
    <3>2. d \in ToSet(docs)
      BY <2>1
    <3> HIDE DEF docs
    <3>3. ToSet(docs) \subseteq Document
      BY <3>1 DEF ToSet
    <3> QED
      BY <3>1, <3>2, <3>3
  <2>3. d.event \in Events /\ Wanted(d, until, 0)
    BY <2>2 DEF Captured, Document
  <2>4. d.event.tag = "tshark"
    BY <2>3 DEF Wanted, Dataset
  <2>5. body \in DOMAIN PayloadOf /\ PayloadOf[body] \in Payload
    BY <2>3, <2>4, ScanAssumption
  <2>6. Indexed[body] = RubyFilter(PayloadOf[body]) /\ Sent[body] = ScorePayload(PayloadOf[body])
    BY <2>5 DEF Indexed, Sent
  <2>7. Indexed[body] = Sent[body]
    BY <2>5, <2>6, SameVerdict
  <2>8. Rebuilds(d)
    BY <2>5, <2>6, KnownBand DEF Rebuilds
  <2>9. Wanted(d, until, minScore)
    BY <2>3, <2>7 DEF Wanted
  <2>10. d \in DocsOf(until, minScore)
    BY <1>1, <2>2, <2>9, DocsOfParts
  <2>11. NoTies
    <3>1. \A h : h \in Matching(until, minScore) => h \in Matching(until, 0)
      <4> TAKE h
      <4> HAVE h \in Matching(until, minScore)
      <4>1. Finds(until, minScore, h)
        BY MatchingParts
      <4>2. Finds(until, 0, h)
        BY <4>1 DEF Finds, Wanted
      <4> QED
        BY <4>2, MatchingParts
    <3> QED
      BY <3>1 DEF Undisturbed, NoTies
  <2>12. Yields(d)
    BY <1>1, <2>10, <2>11 DEF Undisturbed, ScanInv, Steady, DocsOf
  <2>13. PICK n \in DOMAIN yielded : yielded[n] = d
    BY <2>12 DEF Yields
  <2>14. n \in DOMAIN Records /\ Records[n] = d
    BY <2>8, <2>13 DEF Records
  <2> QED
    BY <2>7, <2>14 DEF Analysed
<1> QED
  BY <1>1, ScanInvariant, PTL

-----------------------------------------------------------------------------
(* A scan takes a bounded number of turns.                                   *)

\* The sort keys, in the range of the query, that the cursor has not passed.
KeysLeft ==
  { k \in (0 .. until) \X DocNumber :
      searchAfter = <<>> \/ SortBefore(searchAfter, k) }

\* Each turn of the loop is the last or passes a key, and nothing gives a key
\* back: however many documents come in and however often they are renumbered,
\* a scan does not turn for ever.
TurnsEnd ==
  [][/\ pc = "paging" /\ pc' = "paging" => KeysLeft' \subseteq KeysLeft
     /\ \A answering \in SUBSET DOMAIN shards["pcap"] :
          FetchPage(answering) =>
            pc' = "done" \/ Cardinality(KeysLeft') < Cardinality(KeysLeft)]_vars

LEMMA KeysFinite ==
  ASSUME ScanInv
  PROVE  IsFiniteSet(KeysLeft)
<1>1. until \in Int
  BY DEF ScanInv, PagesInv, ScanType
<1>2. IsFiniteSet(0 .. until) /\ IsFiniteSet(DocNumber)
  BY <1>1, DocNumbers, FS_Interval
<1>3. IsFiniteSet((0 .. until) \X DocNumber)
  BY <1>2, FS_Product
<1> QED
  BY <1>3, FS_Subset DEF KeysLeft

\* The last hit of a page is after the cursor, and the cursor moves there.
LEMMA TurnPasses ==
  ASSUME IngestInv, ScanInv, NEW answering, FetchPage(answering), pc' # "done"
  PROVE  KeysLeft' \subseteq KeysLeft /\ Cardinality(KeysLeft') < Cardinality(KeysLeft)
<1>1. PICK hits : PageOf(answering, hits)
  BY FetchFacts
<1>2. ~EndsScan(hits) /\ UNCHANGED until
  BY <1>1 DEF PageOf, FetchPage, args
<1>3. Len(hits) \in DOMAIN hits /\ Len(hits) \in Nat
  <2>1. hits \in Seq(Matching(until, minScore)) /\ hits # <<>>
    BY <1>1, <1>2 DEF PageOf, EndsScan
  <2>2. Len(hits) \in Nat /\ Len(hits) # 0 /\ DOMAIN hits = 1 .. Len(hits)
    BY <2>1
  <2> QED
    BY <2>2
<1> DEFINE h == hits[Len(hits)]
<1>4. h \in Matching(until, minScore) /\ Reached(h) /\ searchAfter' = h.sort
  BY <1>1, <1>2, <1>3 DEF PageOf
<1> HIDE DEF h
<1>5. /\ h.sort \in (0 .. until) \X DocNumber
      /\ h.sort[1] \in Int /\ h.sort[2] \in Int
  <2>1. /\ h.sort \in Nat \X DocNumber /\ h.sort[1] = h.doc.event.time
        /\ Wanted(h.doc, until, minScore)
    BY <1>4, HitFacts
  <2>2. until \in Int
    BY DEF ScanInv, PagesInv, ScanType
  <2>3. h.sort[1] <= until
    BY <2>1 DEF Wanted
  <2>4. h.sort[1] \in Nat /\ h.sort[2] \in DocNumber /\ h.sort = <<h.sort[1], h.sort[2]>>
    BY <2>1
  <2>5. h.sort[2] \in Nat
    BY <2>4, DocNumbers
  <2> QED
    BY <2>2, <2>3, <2>4, <2>5
<1>6. h.sort \in KeysLeft /\ h.sort # <<>>
  <2>1. h.sort \in KeysLeft
    BY <1>4, <1>5 DEF KeysLeft, Reached
  <2> QED
    BY <1>5, <2>1
<1>7. KeysLeft' = { k \in (0 .. until) \X DocNumber : SortBefore(h.sort, k) }
  BY <1>2, <1>4, <1>6 DEF KeysLeft, SortBefore
<1>8. h.sort \notin KeysLeft'
  BY <1>5, <1>7 DEF SortBefore
<1>9. KeysLeft' \subseteq KeysLeft
  <2> SUFFICES ASSUME NEW k \in KeysLeft' PROVE k \in KeysLeft
    OBVIOUS
  <2>1. k \in (0 .. until) \X DocNumber /\ SortBefore(h.sort, k)
    BY <1>7
  <2>2. k[1] \in Int /\ k[2] \in Int
    <3>1. until \in Int /\ k[1] \in 0 .. until /\ k[2] \in DocNumber
      BY <2>1 DEF ScanInv, PagesInv, ScanType
    <3>2. k[2] \in Nat
      BY <3>1, DocNumbers
    <3> QED
      BY <3>1, <3>2
  <2>3. searchAfter = <<>> \/ SortBefore(searchAfter, k)
    <3>1. CASE searchAfter = <<>>
      BY <3>1
    <3>2. CASE searchAfter # <<>>
      <4>1. searchAfter[1] \in Int /\ searchAfter[2] \in Int
        <5>1. searchAfter[1] \in Nat /\ searchAfter[2] \in DocNumber
          BY <3>2 DEF ScanInv, PagesInv, ScanType
        <5>2. searchAfter[2] \in Nat
          BY <5>1, DocNumbers
        <5> QED
          BY <5>1, <5>2
      <4>2. SortBefore(searchAfter, h.sort)
        BY <1>4, <3>2 DEF Reached
      <4> QED
        BY <1>5, <2>1, <2>2, <4>1, <4>2 DEF SortBefore
    <3> QED
      BY <3>1, <3>2
  <2> QED
    BY <2>1, <2>3 DEF KeysLeft
<1>10. KeysLeft' \in SUBSET KeysLeft /\ KeysLeft' # KeysLeft
  BY <1>6, <1>8, <1>9
<1> QED
  BY <1>9, <1>10, KeysFinite, FS_Subset, FS_CardinalityType

\* The loop of _scan ends, for every page size and whatever the shards do.
THEOREM TelemetryTurnsEnd == Spec => TurnsEnd
<1> DEFINE Turn ==
      /\ pc = "paging" /\ pc' = "paging" => KeysLeft' \subseteq KeysLeft
      /\ \A answering \in SUBSET DOMAIN shards["pcap"] :
           FetchPage(answering) =>
             pc' = "done" \/ Cardinality(KeysLeft') < Cardinality(KeysLeft)
<1>1. ASSUME IngestInv, ScanInv, [Next]_vars PROVE Turn
  <2>1. ASSUME pc = "paging", pc' = "paging" PROVE KeysLeft' \subseteq KeysLeft
    <3>1. CASE UNCHANGED <<until, searchAfter>>
      BY <3>1 DEF KeysLeft
    <3>2. CASE \E answering : FetchPage(answering)
      BY <1>1, <2>1, <3>2, TurnPasses
    <3>3. UNCHANGED <<until, searchAfter>> \/ \E answering : FetchPage(answering)
      BY <1>1, <2>1
      DEF Next, ScanNext, Start, NothingWanted, SearchFails, StreamsMove, vars, scanVars, args
    <3> QED
      BY <3>1, <3>2, <3>3
  <2> QED
    BY <1>1, <2>1, TurnPasses
<1>2. IngestInv /\ ScanInv /\ [Next]_vars => [Turn]_vars
  BY <1>1
<1> QED
  BY <1>2, ScanInvariant, PTL DEF Spec, TurnsEnd

=============================================================================
