---------------------------- MODULE FindingsProofs ----------------------------
(***************************************************************************)
(* Theorems about Findings: the parts of a report agree, for every number  *)
(* of sources and records, every window, threshold and limit.              *)
(***************************************************************************)
EXTENDS CampaignProofs, WellFoundedInduction

-----------------------------------------------------------------------------
(* Finite sets: least elements stand in for induction.                      *)

LEMMA LeastNat ==
  ASSUME NEW T, T \subseteq Nat, T # {}
  PROVE  \E m \in T : \A k \in T : m <= k
<1>1. PICK x \in T : \A y \in T : ~(<<y, x>> \in OpToRel(<, Nat))
  BY NatLessThanWellFounded, WFMin
<1>2. \A y \in T : ~(y < x)
  BY <1>1 DEF OpToRel
<1> QED
  BY <1>2

Pick(t) == CHOOSE x \in t : TRUE

\* What goes wrong for a set goes wrong for a smaller one, and not for the empty
\* one: it does not go wrong.
LEMMA NoneBad ==
  ASSUME NEW S, IsFiniteSet(S), NEW Bad, Bad \subseteq SUBSET S,
         {} \notin Bad, \A t \in Bad : t \ {Pick(t)} \in Bad
  PROVE  Bad = {}
<1> SUFFICES ASSUME Bad # {} PROVE FALSE
  OBVIOUS
<1> DEFINE Sizes == { Cardinality(t) : t \in Bad }
<1>1. \A t \in Bad : IsFiniteSet(t) /\ Cardinality(t) \in Nat
  BY FS_Subset, FS_CardinalityType
<1>2. PICK m \in Sizes : \A k \in Sizes : m <= k
  <2>1. Sizes \subseteq Nat /\ Sizes # {}
    BY <1>1
  <2> HIDE DEF Sizes
  <2> QED
    BY <2>1, LeastNat
<1>3. PICK t \in Bad : m = Cardinality(t)
  BY <1>2
<1>4. t # {} /\ Pick(t) \in t
  BY <1>3 DEF Pick
<1>5. Cardinality(t \ {Pick(t)}) = Cardinality(t) - 1
  BY <1>1, <1>4, FS_RemoveElement
<1> QED
  BY <1>1, <1>2, <1>3, <1>5

\* The least and the greatest number of a set.
LEMMA MinMaxFacts ==
  ASSUME NEW S, IsFiniteSet(S), S # {}, S \subseteq Int
  PROVE  /\ Min(S) \in S /\ \A x \in S : Min(S) <= x
         /\ Max(S) \in S /\ \A x \in S : x <= Max(S)
<1> DEFINE Bad == { t \in SUBSET S : /\ t # {}
                                     /\ ~ (/\ \E a \in t : \A x \in t : a <= x
                                           /\ \E b \in t : \A x \in t : x <= b) }
<1>1. Bad = {}
  <2>1. Bad \subseteq SUBSET S /\ {} \notin Bad
    OBVIOUS
  <2>2. ASSUME NEW t \in Bad PROVE t \ {Pick(t)} \in Bad
    <3> SUFFICES ASSUME t \ {Pick(t)} \notin Bad PROVE FALSE
      OBVIOUS
    <3> PICK p : p = Pick(t)
      OBVIOUS
    <3>1. p \in t /\ p \in Int /\ t \subseteq Int
      BY DEF Pick
    <3>2. CASE t \ {p} = {}
      <4>1. \A x \in t : x = p
        BY <3>2
      <4>2. \A x \in t : p <= x /\ x <= p
        BY <3>1, <4>1
      <4> QED
        BY <3>1, <4>2
    <3>3. CASE t \ {p} # {}
      <4>1. PICK a \in t \ {p}, b \in t \ {p} : \A x \in t \ {p} : a <= x /\ x <= b
        BY <3>3
      <4>2. a \in Int /\ b \in Int
        BY <3>1, <4>1
      <4>3. \E y \in t : \A x \in t : y <= x
        <5>1. CASE a <= p
          BY <4>1, <5>1
        <5>2. CASE p <= a
          <6>1. \A x \in t : p <= x
            BY <3>1, <4>1, <4>2, <5>2
          <6> QED
            BY <3>1, <6>1
        <5> QED
          BY <3>1, <4>2, <5>1, <5>2
      <4>4. \E y \in t : \A x \in t : x <= y
        <5>1. CASE p <= b
          BY <4>1, <5>1
        <5>2. CASE b <= p
          <6>1. \A x \in t : x <= p
            BY <3>1, <4>1, <4>2, <5>2
          <6> QED
            BY <3>1, <6>1
        <5> QED
          BY <3>1, <4>2, <5>1, <5>2
      <4> QED
        BY <4>3, <4>4
    <3> QED
      BY <3>2, <3>3
  <2> HIDE DEF Bad
  <2> QED
    BY <2>1, <2>2, NoneBad
<1>2. (\E a \in S : \A x \in S : a <= x) /\ (\E b \in S : \A x \in S : x <= b)
  BY <1>1
<1>3. \E b \in S : \A x \in S : b >= x
  BY <1>2
<1> QED
  BY <1>2, <1>3 DEF Min, Max

-----------------------------------------------------------------------------
(* Sums over finite sets.                                                    *)

\* f[t] is the sum of w over t.
Sums(w, S, f) ==
  f = [t \in SUBSET S |-> IF t = {} THEN 0 ELSE w[Pick(t)] + f[t \ {Pick(t)}]]

\* Up to n members.
SumsTo(w, S, n, f) ==
  f = [t \in { t \in SUBSET S : Cardinality(t) <= n } |->
         IF t = {} THEN 0 ELSE w[Pick(t)] + f[t \ {Pick(t)}]]

LEMMA SubsetFacts ==
  ASSUME NEW S, IsFiniteSet(S), NEW t \in SUBSET S
  PROVE  /\ IsFiniteSet(t) /\ Cardinality(t) \in Nat /\ Cardinality(t) <= Cardinality(S)
         /\ Cardinality(t) = 0 <=> t = {}
         /\ t # {} => /\ Pick(t) \in t /\ t \ {Pick(t)} \in SUBSET S
                      /\ Cardinality(t \ {Pick(t)}) = Cardinality(t) - 1
<1>1. IsFiniteSet(t) /\ Cardinality(t) \in Nat /\ Cardinality(t) <= Cardinality(S)
  BY FS_Subset, FS_CardinalityType
<1>2. Cardinality(t) = 0 <=> t = {}
  BY <1>1, FS_EmptySet
<1>3. t # {} => Pick(t) \in t
  BY DEF Pick
<1>4. t # {} => Cardinality(t \ {Pick(t)}) = Cardinality(t) - 1
  BY <1>1, <1>3, FS_RemoveElement
<1> QED
  BY <1>1, <1>2, <1>3, <1>4

LEMMA SumExists ==
  ASSUME NEW w, NEW S, IsFiniteSet(S)
  PROVE  \E f : Sums(w, S, f)
<1> DEFINE Bad == { m \in Nat : ~ \E f : SumsTo(w, S, m, f) }
<1>1. Bad = {}
  <2> SUFFICES ASSUME Bad # {} PROVE FALSE
    OBVIOUS
  <2>1. PICK m \in Bad : \A k \in Bad : m <= k
    <3>1. Bad \subseteq Nat
      OBVIOUS
    <3> HIDE DEF Bad
    <3> QED
      BY <3>1, LeastNat
  <2>2. m # 0
    <3> DEFINE none == { t \in SUBSET S : Cardinality(t) <= 0 }
               f    == [t \in none |-> 0]
    <3>1. ASSUME NEW t \in none PROVE t = {}
      <4>1. t \in SUBSET S /\ Cardinality(t) <= 0
        OBVIOUS
      <4>2. Cardinality(t) \in Nat /\ (Cardinality(t) = 0 <=> t = {})
        BY <4>1, SubsetFacts
      <4> QED
        BY <4>1, <4>2
    <3>2. f = [t \in none |-> IF t = {} THEN 0 ELSE w[Pick(t)] + f[t \ {Pick(t)}]]
      BY <3>1
    <3>3. SumsTo(w, S, 0, f)
      BY <3>2 DEF SumsTo
    <3> QED
      BY <3>3
  <2>3. PICK g : SumsTo(w, S, m - 1, g)
    BY <2>1, <2>2
  <2> DEFINE D(n) == { t \in SUBSET S : Cardinality(t) <= n }
             f == [t \in D(m) |-> IF Cardinality(t) <= m - 1 THEN g[t]
                                  ELSE w[Pick(t)] + g[t \ {Pick(t)}]]
  <2>4. ASSUME NEW t \in D(m)
        PROVE  f[t] = IF t = {} THEN 0 ELSE w[Pick(t)] + f[t \ {Pick(t)}]
    <3>1. /\ Cardinality(t) \in Nat /\ t \in SUBSET S /\ Cardinality(t) <= m
          /\ t # {} => /\ t \ {Pick(t)} \in SUBSET S
                       /\ Cardinality(t \ {Pick(t)}) = Cardinality(t) - 1
          /\ Cardinality(t) = 0 <=> t = {}
      BY SubsetFacts
    <3>2. t # {} => t \ {Pick(t)} \in D(m) /\ Cardinality(t \ {Pick(t)}) <= m - 1
      BY <3>1
    <3>3. t # {} => f[t \ {Pick(t)}] = g[t \ {Pick(t)}]
      BY <3>2
    <3>4. CASE Cardinality(t) <= m - 1
      <4>1. g[t] = IF t = {} THEN 0 ELSE w[Pick(t)] + g[t \ {Pick(t)}]
        BY <2>3, <3>1, <3>4 DEF SumsTo
      <4> QED
        BY <3>3, <3>4, <4>1
    <3>5. CASE ~(Cardinality(t) <= m - 1)
      <4>1. t # {}
        BY <2>2, <3>1, <3>5
      <4>2. f[t] = w[Pick(t)] + g[t \ {Pick(t)}]
        BY <3>5
      <4> QED
        BY <3>3, <4>1, <4>2
    <3> QED
      BY <3>4, <3>5
  <2>5. SumsTo(w, S, m, f)
    <3>1. f = [t \in D(m) |-> f[t]]
      OBVIOUS
    <3> HIDE DEF f
    <3> QED
      BY <2>4, <3>1 DEF SumsTo
  <2> QED
    BY <2>5
<1>2. Cardinality(S) \in Nat
  BY FS_CardinalityType
<1>3. PICK f : SumsTo(w, S, Cardinality(S), f)
  BY <1>1, <1>2
<1>4. { t \in SUBSET S : Cardinality(t) <= Cardinality(S) } = SUBSET S
  BY SubsetFacts
<1> QED
  BY <1>3, <1>4 DEF SumsTo, Sums

LEMMA SumParts ==
  ASSUME NEW w, NEW S, NEW f, Sums(w, S, f), NEW t \in SUBSET S
  PROVE  f[t] = IF t = {} THEN 0 ELSE w[Pick(t)] + f[t \ {Pick(t)}]
BY DEF Sums

\* A sum is at least each summand.
LEMMA SumBounds ==
  ASSUME NEW S, IsFiniteSet(S), NEW w \in [S -> Nat], NEW f, Sums(w, S, f)
  PROVE  f[S] \in Nat /\ \A x \in S : w[x] <= f[S]
<1> DEFINE Good(t) == f[t] \in Nat /\ \A x \in t : w[x] <= f[t]
           Bad == { t \in SUBSET S : ~Good(t) }
<1>1. Good({})
  <2>1. f[{}] = 0
    BY DEF Sums
  <2> QED
    BY <2>1
<1>2. ASSUME NEW t \in SUBSET S, t # {}, Good(t \ {Pick(t)}) PROVE Good(t)
  <2>1. Pick(t) \in t /\ f[t] = w[Pick(t)] + f[t \ {Pick(t)}]
    BY <1>2, SumParts, SubsetFacts
  <2>2. w[Pick(t)] \in Nat /\ f[t \ {Pick(t)}] \in Nat
    BY <1>2, <2>1
  <2>3. \A x \in t : w[x] \in Nat /\ (x = Pick(t) \/ w[x] <= f[t \ {Pick(t)}])
    BY <1>2
  <2> QED
    BY <2>1, <2>2, <2>3
<1> HIDE DEF Good
<1>3. Bad = {}
  <2>1. Bad \subseteq SUBSET S /\ {} \notin Bad /\ \A t \in Bad : t \ {Pick(t)} \in Bad
    BY <1>1, <1>2, SubsetFacts
  <2> HIDE DEF Bad
  <2> QED
    BY <2>1, NoneBad
<1> QED
  BY <1>3 DEF Good

\* Larger summands, larger sums.
LEMMA SumGrows ==
  ASSUME NEW S, IsFiniteSet(S), NEW w \in [S -> Nat], NEW v \in [S -> Nat],
         \A x \in S : w[x] <= v[x],
         NEW f, Sums(w, S, f), NEW g, Sums(v, S, g)
  PROVE  f[S] <= g[S]
<1> DEFINE Good(t) == f[t] \in Nat /\ g[t] \in Nat /\ f[t] <= g[t]
           Bad == { t \in SUBSET S : ~Good(t) }
<1>1. Good({})
  <2>1. f[{}] = 0 /\ g[{}] = 0
    BY DEF Sums
  <2> QED
    BY <2>1
<1>2. ASSUME NEW t \in SUBSET S, t # {}, Good(t \ {Pick(t)}) PROVE Good(t)
  <2>1. /\ Pick(t) \in t /\ f[t] = w[Pick(t)] + f[t \ {Pick(t)}]
        /\ g[t] = v[Pick(t)] + g[t \ {Pick(t)}]
    <3>1. Pick(t) \in t
      BY <1>2, SubsetFacts
    <3> QED
      BY <1>2, <3>1 DEF Sums
  <2>2. w[Pick(t)] \in Nat /\ v[Pick(t)] \in Nat /\ w[Pick(t)] <= v[Pick(t)]
    BY <2>1
  <2> QED
    BY <1>2, <2>1, <2>2
<1> HIDE DEF Good
<1>3. Bad = {}
  <2>1. Bad \subseteq SUBSET S /\ {} \notin Bad /\ \A t \in Bad : t \ {Pick(t)} \in Bad
    BY <1>1, <1>2, SubsetFacts
  <2> HIDE DEF Bad
  <2> QED
    BY <2>1, NoneBad
<1> QED
  BY <1>3 DEF Good

\* The sizes of disjoint sets add up to the size of their union.
LEMMA SumOfSizes ==
  ASSUME NEW S, IsFiniteSet(S), NEW sets, \A x \in S : IsFiniteSet(sets[x]),
         \A x, y \in S : x # y => sets[x] \cap sets[y] = {},
         NEW f, Sums([x \in S |-> Cardinality(sets[x])], S, f)
  PROVE  f[S] = Cardinality(UNION { sets[x] : x \in S })
<1> DEFINE w == [x \in S |-> Cardinality(sets[x])]
           Good(t) == /\ IsFiniteSet(UNION { sets[x] : x \in t })
                      /\ f[t] = Cardinality(UNION { sets[x] : x \in t })
           Bad == { t \in SUBSET S : ~Good(t) }
<1>1. Good({})
  <2>1. UNION { sets[x] : x \in {} } = {}
    OBVIOUS
  <2>2. f[{}] = 0
    BY DEF Sums
  <2> QED
    BY <2>1, <2>2, FS_EmptySet
<1>2. ASSUME NEW t \in SUBSET S, t # {}, Good(t \ {Pick(t)}) PROVE Good(t)
  <2> DEFINE A == sets[Pick(t)]
             B == UNION { sets[x] : x \in t \ {Pick(t)} }
  <2>1. Pick(t) \in t /\ Pick(t) \in S /\ f[t] = Cardinality(A) + f[t \ {Pick(t)}]
    <3>1. Pick(t) \in t /\ Pick(t) \in S
      BY <1>2, SubsetFacts
    <3>2. w[Pick(t)] = Cardinality(A)
      BY <3>1
    <3> HIDE DEF w, A
    <3>3. f[t] = w[Pick(t)] + f[t \ {Pick(t)}]
      BY <1>2 DEF Sums, w
    <3> QED
      BY <3>1, <3>2, <3>3
  <2>2. UNION { sets[x] : x \in t } = A \cup B
    BY <2>1
  <2>3. A \cap B = {}
    BY <2>1
  <2>4. IsFiniteSet(A) /\ IsFiniteSet(B) /\ f[t \ {Pick(t)}] = Cardinality(B)
    BY <1>2, <2>1
  <2> HIDE DEF A, B
  <2>5. /\ IsFiniteSet(A \cup B)
        /\ Cardinality(A \cup B) = Cardinality(A) + Cardinality(B) - Cardinality(A \cap B)
    BY <2>4, FS_Union
  <2>6. Cardinality(A) \in Nat /\ Cardinality(B) \in Nat /\ Cardinality(A \cap B) = 0
    BY <2>3, <2>4, FS_CardinalityType, FS_EmptySet
  <2>7. Cardinality(A \cup B) = f[t]
    BY <2>1, <2>4, <2>5, <2>6
  <2> QED
    BY <2>2, <2>5, <2>7
<1> HIDE DEF Good
<1>3. Bad = {}
  <2>1. Bad \subseteq SUBSET S /\ {} \notin Bad /\ \A t \in Bad : t \ {Pick(t)} \in Bad
    BY <1>1, <1>2, SubsetFacts
  <2> HIDE DEF Bad
  <2> QED
    BY <2>1, NoneBad
<1> QED
  BY <1>3 DEF Good

-----------------------------------------------------------------------------
(* The records of the sources.                                               *)

LEMMA ImageFinite ==
  ASSUME NEW S, IsFiniteSet(S), NEW f, NEW T, \A y \in T : \E x \in S : y = f[x]
  PROVE  IsFiniteSet(T) /\ Cardinality(T) <= Cardinality(S)
<1> DEFINE R == { x \in S : f[x] \in T }
           g == [x \in R |-> f[x]]
<1>1. g \in Surjection(R, T)
  BY DEF Surjection
<1>2. R \in SUBSET S
  OBVIOUS
<1> HIDE DEF g, R
<1>3. IsFiniteSet(R) /\ Cardinality(R) <= Cardinality(S)
  BY <1>2, FS_Subset
<1>4. IsFiniteSet(T) /\ Cardinality(T) <= Cardinality(R)
  BY <1>1, <1>3, FS_Surjection
<1> QED
  BY <1>3, <1>4, FS_CardinalityType

LEMMA SourceFacts ==
  /\ IsFiniteSet(Source) /\ Cardinality(Source) = NumSources /\ Source # {}
  /\ \A s \in Source : s \in Nat
<1>1. NumSources \in Nat /\ NumSources >= 1
  BY NumSourcesAssumption
<1>2. IsFiniteSet(1 .. NumSources) /\ Cardinality(1 .. NumSources) = NumSources
  BY <1>1, FS_Interval
<1> QED
  BY <1>1, <1>2 DEF Source

\* The records of one source, and what Behaviour makes of them.
LEMMA HistoryFacts ==
  ASSUME TypeOK, NEW s \in Source
  PROVE  LET h == seen[s].records IN
         /\ Len(h) \in Nat /\ Len(h) > 0 /\ DOMAIN h = 1 .. Len(h)
         /\ \A n \in DOMAIN h : /\ h[n] \in Record /\ Judged(h[n])
                                /\ h[n].signatures \subseteq seen[s].signatures
                                /\ h[n].port \in seen[s].ports
                                /\ seen[s].first <= h[n].time /\ h[n].time <= seen[s].last
         /\ \A name \in seen[s].signatures : \E n \in DOMAIN h : name \in h[n].signatures
         /\ \E n \in DOMAIN h : seen[s].first = h[n].time
         /\ \E n \in DOMAIN h : seen[s].last = h[n].time
         /\ IsFiniteSet(seen[s].signatures) /\ IsFiniteSet(seen[s].ports)
         /\ seen[s].first \in Int /\ seen[s].last \in Int
<1> PICK b : b = seen[s]
  OBVIOUS
<1> PICK h : h = b.records
  OBVIOUS
<1>1. b \in Behaviours
  BY DEF TypeOK
<1>2. /\ h \in Seq(Record) /\ h # <<>> /\ b = Behaviour(h)
      /\ \A n \in DOMAIN h : Judged(h[n])
  BY <1>1, BehavioursOfRecords
<1>3. Len(h) \in Nat /\ Len(h) > 0 /\ DOMAIN h = 1 .. Len(h) /\ \A n \in DOMAIN h : h[n] \in Record
  BY <1>2
<1>4. IsFiniteSet(b.signatures) /\ IsFiniteSet(b.ports) /\ b.first \in Int /\ b.last \in Int
  BY <1>1, BehavioursAssumption
<1>5. /\ b.signatures = UNION { h[n].signatures : n \in DOMAIN h }
      /\ b.ports = { h[n].port : n \in DOMAIN h }
      /\ b.first = Min(Times(h)) /\ b.last = Max(Times(h))
  BY <1>2 DEF Behaviour
<1>6. IsFiniteSet(Times(h)) /\ Times(h) # {} /\ Times(h) \subseteq Int
  <2> DEFINE f == [n \in DOMAIN h |-> h[n].time]
  <2>1. IsFiniteSet(DOMAIN h)
    BY <1>3, FS_Interval
  <2>2. \A x \in Times(h) : \E n \in DOMAIN h : x = f[n]
    BY DEF Times
  <2> HIDE DEF f
  <2>3. IsFiniteSet(Times(h))
    BY <2>1, <2>2, ImageFinite
  <2>4. Times(h) # {}
    <3>1. 1 \in DOMAIN h
      BY <1>3
    <3> QED
      BY <3>1 DEF Times
  <2>5. Times(h) \subseteq Int
    <3>1. \A n \in DOMAIN h : h[n].time \in Int
      BY <1>3 DEF Record
    <3> QED
      BY <3>1 DEF Times
  <2> QED
    BY <2>3, <2>4, <2>5
<1>7. /\ b.first \in Times(h) /\ b.last \in Times(h)
      /\ \A x \in Times(h) : b.first <= x /\ x <= b.last
  BY <1>5, <1>6, MinMaxFacts
<1>8. ASSUME NEW n \in DOMAIN h
      PROVE  /\ h[n].signatures \subseteq b.signatures /\ h[n].port \in b.ports
             /\ b.first <= h[n].time /\ h[n].time <= b.last
  BY <1>5, <1>7 DEF Times
<1>9. (\E n \in DOMAIN h : b.first = h[n].time) /\ (\E n \in DOMAIN h : b.last = h[n].time)
  BY <1>7 DEF Times
<1>10. \A name \in b.signatures : \E n \in DOMAIN h : name \in h[n].signatures
  BY <1>5
<1> QED
  BY <1>2, <1>3, <1>4, <1>8, <1>9, <1>10

\* A record among all of them.
LEMMA RecordFacts ==
  ASSUME TypeOK, NEW r \in Records
  PROVE  /\ r = <<r[1], r[2]>>
         /\ r[1] \in Source /\ r[2] \in DOMAIN seen[r[1]].records
         /\ Rec(r) \in Record /\ Judged(Rec(r))
         /\ Rec(r).signatures \subseteq seen[r[1]].signatures
         /\ Rec(r).port \in seen[r[1]].ports
         /\ Rec(r).time \in Int
         /\ seen[r[1]].first <= Rec(r).time /\ Rec(r).time <= seen[r[1]].last
<1>1. PICK s \in Source : r \in {s} \X DOMAIN seen[s].records
  BY DEF Records
<1>2. r = <<r[1], r[2]>> /\ r[1] = s /\ r[2] \in DOMAIN seen[s].records
  BY <1>1
<1>3. Rec(r) = seen[s].records[r[2]]
  BY <1>2 DEF Rec
<1>4. Rec(r) \in Record /\ Judged(Rec(r))
  BY <1>2, <1>3, HistoryFacts
<1>5. Rec(r).time \in Int
  BY <1>4 DEF Record
<1> QED
  BY <1>2, <1>3, <1>4, <1>5, HistoryFacts

LEMMA RecordAt ==
  ASSUME TypeOK, NEW s \in Source, NEW n \in DOMAIN seen[s].records
  PROVE  <<s, n>> \in Records /\ Rec(<<s, n>>) = seen[s].records[n]
BY DEF Records, Rec

LEMMA RecordsFinite ==
  ASSUME TypeOK
  PROVE  IsFiniteSet(Records) /\ SourcesOf(Records) = Source
<1> DEFINE f == [s \in Source |-> {s} \X DOMAIN seen[s].records]
<1>1. Records = UNION { f[s] : s \in Source }
  BY DEF Records
<1>2. \A s \in Source : IsFiniteSet(f[s])
  <2> TAKE s \in Source
  <2>1. IsFiniteSet(DOMAIN seen[s].records)
    BY HistoryFacts, FS_Interval
  <2>2. IsFiniteSet({s})
    BY FS_Singleton
  <2>3. IsFiniteSet({s} \X DOMAIN seen[s].records)
    BY <2>1, <2>2, FS_Product
  <2> QED
    BY <2>3
<1> HIDE DEF f
<1>3. IsFiniteSet(UNION { f[s] : s \in Source })
  <2>1. IsFiniteSet({ f[s] : s \in Source })
    BY SourceFacts, ImageFinite
  <2> QED
    BY <1>2, <2>1, FS_UNION
<1>4. SourcesOf(Records) \subseteq Source
  BY RecordFacts DEF SourcesOf
<1>5. ASSUME NEW s \in Source PROVE s \in SourcesOf(Records)
  <2>1. 1 \in DOMAIN seen[s].records
    BY HistoryFacts
  <2>2. <<s, 1>> \in Records
    BY <2>1, RecordAt
  <2> QED
    BY <2>2 DEF SourcesOf
<1> QED
  BY <1>1, <1>3, <1>4, <1>5

\* The times of some records.
LEMMA TimesFacts ==
  ASSUME TypeOK, NEW R \in SUBSET Records, R # {}
  PROVE  /\ Min(TimesOf(R)) \in Int /\ Max(TimesOf(R)) \in Int
         /\ \A r \in R : Min(TimesOf(R)) <= Rec(r).time /\ Rec(r).time <= Max(TimesOf(R))
<1> DEFINE f == [r \in R |-> Rec(r).time]
<1>1. IsFiniteSet(R)
  BY RecordsFinite, FS_Subset
<1>2. \A x \in TimesOf(R) : \E r \in R : x = f[r]
  BY DEF TimesOf
<1>3. TimesOf(R) \subseteq Int /\ TimesOf(R) # {}
  BY RecordFacts DEF TimesOf
<1> HIDE DEF f
<1>4. IsFiniteSet(TimesOf(R))
  BY <1>1, <1>2, ImageFinite
<1>5. /\ Min(TimesOf(R)) \in TimesOf(R) /\ Max(TimesOf(R)) \in TimesOf(R)
      /\ \A x \in TimesOf(R) : Min(TimesOf(R)) <= x /\ x <= Max(TimesOf(R))
  BY <1>3, <1>4, MinMaxFacts
<1> QED
  BY <1>3, <1>5 DEF TimesOf

-----------------------------------------------------------------------------
(* The ranking of the sources.                                               *)

LEMMA BandFacts ==
  ASSUME NEW score \in 0 .. MAX_SCORE
  PROVE  /\ FromScore(score) = "critical" <=> score >= 80
         /\ FromScore(score) = "likely-malicious" <=> score >= 50 /\ score < 80
         /\ FromScore(score) = "suspicious" <=> score >= 20 /\ score < 50
         /\ score < 20 => FromScore(score) \notin Actionable
<1>1. score \in Int /\ score >= 0 /\ score <= 100
  BY DEF MAX_SCORE
<1>2. CASE score <= 0
  <2>1. FromScore(score) = "benign"
    BY <1>2 DEF FromScore
  <2> QED
    BY <1>1, <1>2, <2>1 DEF Actionable
<1>3. CASE score \in 1 .. 19
  <2>1. FromScore(score) = "noise"
    BY <1>3 DEF FromScore
  <2> QED
    BY <1>1, <1>3, <2>1 DEF Actionable
<1>4. CASE score \in 20 .. 49
  <2>1. FromScore(score) = "suspicious"
    BY <1>4 DEF FromScore
  <2> QED
    BY <1>1, <1>4, <2>1
<1>5. CASE score \in 50 .. 79
  <2>1. FromScore(score) = "likely-malicious"
    BY <1>5 DEF FromScore
  <2> QED
    BY <1>1, <1>5, <2>1
<1>6. CASE score >= 80
  <2>1. FromScore(score) = "critical"
    BY <1>1, <1>6 DEF FromScore
  <2> QED
    BY <1>1, <1>6, <2>1
<1> QED
  BY <1>1, <1>2, <1>3, <1>4, <1>5, <1>6

\* The band of a record and its score.
LEMMA JudgedFacts ==
  ASSUME NEW r \in Record, Judged(r)
  PROVE  /\ r.score \in 0 .. MAX_SCORE /\ r.score \in Int
         /\ r.triage = "critical" <=> r.score >= 80
         /\ r.triage = "likely-malicious" <=> r.score >= 50 /\ r.score < 80
         /\ r.score >= 20 => r.triage \in Actionable
<1>1. r.score \in 0 .. MAX_SCORE /\ r.score \in Int
  BY DEF Record, MAX_SCORE
<1>2. CASE r.triage = FromScore(r.score)
  <2>1. r.score >= 20 => r.triage \in Actionable
    BY <1>1, <1>2, BandFacts DEF Actionable
  <2> QED
    BY <1>1, <1>2, <2>1, BandFacts
<1>3. CASE r.score = 0 /\ r.triage = "suspicious"
  BY <1>1, <1>3
<1> QED
  BY <1>2, <1>3 DEF Judged

LEMMA MaxScoreFacts ==
  ASSUME TypeOK, NEW s \in Source
  PROVE  /\ MaxScore(s) \in 0 .. MAX_SCORE /\ MaxScore(s) \in Int
         /\ \A r \in Records : r[1] = s => Rec(r).score <= MaxScore(s)
         /\ \E r \in Records : r[1] = s /\ Rec(r).score = MaxScore(s)
<1> DEFINE R == { r \in Records : r[1] = s }
           scores == { Rec(r).score : r \in R }
           f == [r \in R |-> Rec(r).score]
<1>1. IsFiniteSet(R)
  BY RecordsFinite, FS_Subset
<1>2. R # {}
  BY RecordsFinite DEF SourcesOf
<1>3. \A r \in R : Rec(r).score \in 0 .. MAX_SCORE /\ Rec(r).score \in Int
  BY RecordFacts, JudgedFacts
<1>4. \A x \in scores : \E r \in R : x = f[r]
  OBVIOUS
<1>5. scores # {} /\ scores \subseteq Int
  BY <1>2, <1>3
<1>6. MaxScore(s) = Max(scores)
  BY DEF MaxScore
<1>7. \A x : x \in scores <=> \E r \in R : x = Rec(r).score
  OBVIOUS
<1> HIDE DEF f, scores
<1>8. IsFiniteSet(scores)
  BY <1>1, <1>4, ImageFinite
<1>9. MaxScore(s) \in scores /\ \A x \in scores : x <= MaxScore(s)
  BY <1>5, <1>6, <1>8, MinMaxFacts
<1> QED
  BY <1>3, <1>7, <1>9

\* Ahead in the ranking, ties in the order of the sources.
Before(t, s) == RanksBefore(t, s) \/ (t < s /\ ~RanksBefore(s, t))

LEMMA RankOrder ==
  ASSUME TypeOK, NEW s \in Source, NEW t \in Source
  PROVE  /\ ~Before(s, s)
         /\ s = t \/ Before(s, t) \/ Before(t, s)
         /\ \A u \in Source : Before(s, t) /\ Before(t, u) => Before(s, u)
         /\ Before(s, t) => MaxScore(s) >= MaxScore(t)
<1>1. ASSUME NEW u \in Source PROVE MaxScore(u) \in Int /\ Events(u) \in Int /\ u \in Int
  <2>1. Events(u) \in Nat
    BY HistoryFacts DEF Events
  <2> QED
    BY <2>1, MaxScoreFacts, SourceFacts
<1>2. ~Before(s, s) /\ (s = t \/ Before(s, t) \/ Before(t, s))
      /\ (Before(s, t) => MaxScore(s) >= MaxScore(t))
  BY <1>1 DEF Before, RanksBefore
<1>3. ASSUME NEW u \in Source, Before(s, t), Before(t, u) PROVE Before(s, u)
  BY <1>1, <1>3 DEF Before, RanksBefore
<1> QED
  BY <1>2, <1>3

Rank(s) == Cardinality({ t \in Source : Before(t, s) })

LEMMA RankFacts ==
  ASSUME TypeOK, NEW s \in Source
  PROVE  /\ Rank(s) \in 0 .. NumSources - 1
         /\ \A t \in Source : Before(t, s) <=> Rank(t) < Rank(s)
<1> DEFINE ahead(u) == { t \in Source : Before(t, u) }
<1>1. ASSUME NEW u \in Source
      PROVE  IsFiniteSet(ahead(u)) /\ Cardinality(ahead(u)) \in Nat /\ Rank(u) = Cardinality(ahead(u))
  <2>1. ahead(u) \in SUBSET Source
    OBVIOUS
  <2> QED
    BY <2>1, SourceFacts, FS_Subset, FS_CardinalityType DEF Rank
<1>2. Cardinality(ahead(s)) < NumSources
  <2>1. ahead(s) \in SUBSET Source /\ s \notin ahead(s)
    BY RankOrder
  <2>2. Cardinality(ahead(s)) <= NumSources /\ (Cardinality(ahead(s)) = NumSources => ahead(s) = Source)
    BY <2>1, SourceFacts, FS_Subset
  <2> QED
    BY <1>1, <2>1, <2>2, NumSourcesAssumption
<1>3. ASSUME NEW t \in Source, NEW u \in Source, Before(t, u) PROVE Rank(t) < Rank(u)
  <2>1. ahead(t) \in SUBSET ahead(u) /\ t \in ahead(u) /\ t \notin ahead(t)
    BY <1>3, RankOrder
  <2>2. Cardinality(ahead(t)) <= Cardinality(ahead(u))
        /\ (Cardinality(ahead(t)) = Cardinality(ahead(u)) => ahead(t) = ahead(u))
    BY <1>1, <2>1, FS_Subset
  <2> QED
    BY <1>1, <2>1, <2>2
<1>4. ASSUME NEW t \in Source, Rank(t) < Rank(s) PROVE Before(t, s)
  <2>1. t # s /\ ~(Rank(s) < Rank(t))
    <3>1. Rank(s) \in Nat /\ Rank(t) \in Nat
      BY <1>1
    <3> HIDE DEF ahead
    <3> QED
      BY <3>1, <1>4
  <2> QED
    BY <1>3, <2>1, RankOrder
<1> QED
  BY <1>1, <1>2, <1>3, <1>4, NumSourcesAssumption

\* The ranking shows all sources, or as many as it may; it leaves out later ones.
LEMMA TopFacts ==
  ASSUME TypeOK
  PROVE  /\ TopSources = Source \/ Cardinality(TopSources) = TopLimit
         /\ TopSources \subseteq Source /\ TopSources # {}
         /\ \A s \in TopSources : \A t \in Source \ TopSources : MaxScore(s) >= MaxScore(t)
<1> DEFINE N == NumSources
           rank == [s \in Source |-> Rank(s)]
<1>1. N \in Nat /\ N >= 1 /\ TopLimit \in Nat /\ TopLimit >= 1
  BY NumSourcesAssumption, ReportAssumption
<1>2. TopSources = { s \in Source : Rank(s) < TopLimit }
  BY DEF TopSources, Rank, Before
<1>3. \A s \in Source : Rank(s) \in 0 .. N - 1 /\ Rank(s) \in Int
  BY <1>1, RankFacts
<1>4. \A s, t \in Source : Rank(s) = Rank(t) => s = t
  <2> SUFFICES ASSUME NEW s \in Source, NEW t \in Source, Rank(s) = Rank(t) PROVE s = t
    OBVIOUS
  <2>1. ~(Rank(s) < Rank(t)) /\ ~(Rank(t) < Rank(s))
    BY <1>3
  <2>2. ~Before(s, t) /\ ~Before(t, s)
    BY <2>1, RankFacts
  <2> QED
    BY <2>2, RankOrder
<1>5. rank \in Injection(Source, 0 .. N - 1)
  <2>1. rank \in [Source -> 0 .. N - 1] /\ IsInjective(rank)
    BY <1>3, <1>4 DEF IsInjective
  <2> HIDE DEF rank
  <2> QED
    BY <2>1 DEF Injection, IsInjective
<1>6. IsFiniteSet(0 .. N - 1) /\ Cardinality(0 .. N - 1) = N
  BY <1>1, FS_Interval
<1>7. rank \in Surjection(Source, 0 .. N - 1)
  <2> HIDE DEF rank
  <2> QED
    BY <1>5, <1>6, SourceFacts, FS_Injection
<1>8. \A n \in 0 .. N - 1 : \E s \in Source : Rank(s) = n
  <2>1. \A n \in 0 .. N - 1 : \E s \in Source : rank[s] = n
    <3> HIDE DEF rank
    <3> QED
      BY <1>7 DEF Surjection
  <2> QED
    BY <2>1
<1>9. ASSUME TopLimit >= N PROVE TopSources = Source
  BY <1>1, <1>2, <1>3, <1>9
<1>10. ASSUME TopLimit < N PROVE Cardinality(TopSources) = TopLimit
  <2> DEFINE top == [s \in TopSources |-> Rank(s)]
  <2>1. /\ \A s \in TopSources : s \in Source /\ Rank(s) \in 0 .. TopLimit - 1
        /\ \A n \in 0 .. TopLimit - 1 : \E s \in TopSources : Rank(s) = n
    BY <1>1, <1>2, <1>3, <1>8, <1>10
  <2>2. /\ top \in [TopSources -> 0 .. TopLimit - 1] /\ \A s \in TopSources : top[s] = Rank(s)
        /\ DOMAIN top = TopSources
    BY <2>1
  <2> HIDE DEF top
  <2>3. top \in Injection(TopSources, 0 .. TopLimit - 1)
    BY <1>4, <2>1, <2>2 DEF Injection, IsInjective
  <2>4. top \in Surjection(TopSources, 0 .. TopLimit - 1)
    BY <2>1, <2>2 DEF Surjection
  <2>5. IsFiniteSet(0 .. TopLimit - 1) /\ Cardinality(0 .. TopLimit - 1) = TopLimit
    BY <1>1, FS_Interval
  <2> QED
    BY <2>3, <2>4, <2>5, FS_Injection
<1>11. TopSources # {}
  <2>1. PICK s \in Source : Rank(s) = 0
    BY <1>1, <1>8
  <2> QED
    BY <1>1, <1>2, <2>1
<1>12. ASSUME NEW s \in TopSources, NEW t \in Source \ TopSources PROVE MaxScore(s) >= MaxScore(t)
  <2>1. s \in Source /\ Rank(s) < Rank(t)
    BY <1>1, <1>2, <1>3
  <2>2. Before(s, t)
    BY <2>1, RankFacts
  <2> QED
    BY <2>1, <2>2, RankOrder
<1> QED
  <2>1. TopLimit >= N \/ TopLimit < N
    <3> HIDE DEF N
    <3> QED
      BY <1>1
  <2>2. TopSources \subseteq Source
    BY <1>2
  <2> QED
    BY <1>9, <1>10, <1>11, <1>12, <2>1, <2>2

-----------------------------------------------------------------------------

LEMMA CountFacts ==
  ASSUME TypeOK, NEW band
  PROVE  /\ TriageCount(band) \in Nat
         /\ TriageCount(band) > 0 <=> \E r \in Records : Rec(r).triage = band
<1> DEFINE R == { r \in Records : Rec(r).triage = band }
<1>1. IsFiniteSet(R)
  BY RecordsFinite, FS_Subset
<1>2. Cardinality(R) \in Nat /\ (Cardinality(R) = 0 <=> R = {})
  BY <1>1, FS_CardinalityType, FS_EmptySet
<1>3. TriageCount(band) = Cardinality(R)
  BY DEF TriageCount
<1>4. R # {} <=> \E r \in Records : Rec(r).triage = band
  OBVIOUS
<1> QED
  <2> HIDE DEF R
  <2> QED
    BY <1>2, <1>3, <1>4

\* The sum of the counts counts the records of each actionable band.
LEMMA ActionableFacts ==
  ASSUME TypeOK, ActionableCount = 0, NEW band \in Actionable
  PROVE  TriageCount(band) = 0
<1> DEFINE w == [b \in Actionable |-> TriageCount(b)]
           Iter(f) == f = [t \in SUBSET Actionable |->
                             IF t = {} THEN 0
                             ELSE TriageCount(CHOOSE x \in t : TRUE)
                                    + f[t \ {CHOOSE x \in t : TRUE}]]
           sum == CHOOSE f : Iter(f)
<1>1. IsFiniteSet(Actionable)
  <2>1. Actionable = {"suspicious"} \cup {"likely-malicious"} \cup {"critical"}
    BY DEF Actionable
  <2> QED
    BY <2>1, FS_Singleton, FS_Union
<1>2. w \in [Actionable -> Nat] /\ \A b \in Actionable : w[b] = TriageCount(b)
  BY CountFacts
<1>3. ActionableCount = sum[Actionable]
  BY DEF ActionableCount, MapThenSumSet, MapThenFoldSet
<1>4. ASSUME NEW f PROVE Sums(w, Actionable, f) <=> Iter(f)
  <2> DEFINE F == [t \in SUBSET Actionable |->
                     IF t = {} THEN 0 ELSE w[Pick(t)] + f[t \ {Pick(t)}]]
             G == [t \in SUBSET Actionable |->
                     IF t = {} THEN 0
                     ELSE TriageCount(CHOOSE x \in t : TRUE) + f[t \ {CHOOSE x \in t : TRUE}]]
  <2>1. ASSUME NEW t \in SUBSET Actionable, t # {} PROVE w[Pick(t)] = TriageCount(CHOOSE x \in t : TRUE)
    <3>1. Pick(t) \in t /\ Pick(t) = CHOOSE x \in t : TRUE
      BY <2>1 DEF Pick
    <3> HIDE DEF w
    <3> QED
      BY <1>2, <3>1
  <2>2. \A t \in SUBSET Actionable : F[t] = G[t]
    <3> HIDE DEF w
    <3> QED
      BY <2>1 DEF Pick
  <2>3. F = G
    <3> HIDE DEF w
    <3> QED
      BY <2>2
  <2> QED
    <3> HIDE DEF w
    <3> QED
      BY <2>3 DEF Sums
<1> HIDE DEF w, Iter
<1>5. \E f : Iter(f)
  BY <1>1, <1>4, SumExists
<1>6. Iter(sum)
  BY <1>5
<1> HIDE DEF sum
<1>7. Sums(w, Actionable, sum)
  BY <1>4, <1>6
<1>8. w[band] <= sum[Actionable]
  BY <1>1, <1>2, <1>7, SumBounds
<1> QED
  BY <1>2, <1>3, <1>8, CountFacts

LEMMA SeriousListed == TypeOK => SeriousAreListed
<1> SUFFICES ASSUME TypeOK PROVE SeriousAreListed
  OBVIOUS
<1>1. ASSUME NEW r \in Records
      PROVE  /\ r[1] \in Source /\ Rec(r).score \in Int /\ Rec(r).score <= MaxScore(r[1])
             /\ MaxScore(r[1]) \in Int
             /\ Rec(r).triage = "critical" <=> Rec(r).score >= 80
             /\ Rec(r).triage = "likely-malicious" <=> Rec(r).score >= 50 /\ Rec(r).score < 80
             /\ Rec(r).score >= 20 => Rec(r).triage \in Actionable
  BY RecordFacts, JudgedFacts, MaxScoreFacts
<1>2. ASSUME NEW s \in Source
      PROVE  /\ MaxScore(s) \in Int
             /\ FromScore(MaxScore(s)) = "critical" <=> MaxScore(s) >= 80
             /\ \E q \in Records : q[1] = s /\ Rec(q).score = MaxScore(s)
  BY MaxScoreFacts, BandFacts
<1>3. ASSUME NEW r \in Records, Rec(r).triage \in Serious, r[1] \notin TopSources,
             NEW s \in TopSources
      PROVE  \E q \in Records : q[1] = s /\ Rec(q).triage \in {Rec(r).triage, "critical"}
  <2>1. s \in Source /\ MaxScore(s) >= MaxScore(r[1])
    BY <1>1, <1>3, TopFacts
  <2>2. PICK q \in Records : q[1] = s /\ Rec(q).score = MaxScore(s)
    BY <1>2, <2>1
  <2>3. Rec(q).score >= Rec(r).score
    BY <1>1, <1>2, <2>1, <2>2
  <2>4. Rec(r).score >= 50 /\ (Rec(r).triage # "critical" => Rec(r).triage = "likely-malicious")
    BY <1>1, <1>3 DEF Serious
  <2>5. Rec(q).triage \in {Rec(r).triage, "critical"}
    BY <1>1, <2>3, <2>4
  <2> QED
    BY <2>2, <2>5
<1>4. (\E r \in Records : Rec(r).triage = "critical")
        => \E s \in TopSources : FromScore(MaxScore(s)) = "critical"
  <2> SUFFICES ASSUME NEW r \in Records, Rec(r).triage = "critical"
               PROVE  \E s \in TopSources : FromScore(MaxScore(s)) = "critical"
    OBVIOUS
  <2>1. MaxScore(r[1]) >= 80
    BY <1>1
  <2>2. \E s \in TopSources : MaxScore(s) >= MaxScore(r[1])
    BY <1>1, TopFacts
  <2> QED
    BY <1>1, <1>2, <2>1, <2>2, TopFacts
<1>5. ASSUME NEW s \in TopSources, FromScore(MaxScore(s)) = "critical"
      PROVE  \E r \in Records : Rec(r).triage = "critical"
  BY <1>1, <1>2, <1>5, TopFacts
<1>6. ASSUME ActionableCount = 0, NEW s \in TopSources PROVE MaxScore(s) < 20
  <2>1. s \in Source
    BY TopFacts
  <2>2. PICK q \in Records : q[1] = s /\ Rec(q).score = MaxScore(s)
    BY <1>2, <2>1
  <2>3. ASSUME MaxScore(s) >= 20 PROVE FALSE
    <3>1. Rec(q).triage \in Actionable
      BY <1>1, <2>2, <2>3
    <3>2. TriageCount(Rec(q).triage) > 0
      BY CountFacts
    <3> QED
      BY <1>6, <3>1, <3>2, ActionableFacts
  <2> QED
    BY <1>2, <2>1, <2>3
<1>7. TopSources = Source \/ Cardinality(TopSources) = TopLimit
  BY TopFacts
<1>8. TriageCount("critical") > 0 <=> \E s \in TopSources : FromScore(MaxScore(s)) = "critical"
  BY <1>4, <1>5, CountFacts
<1> QED
  BY <1>3, <1>6, <1>7, <1>8 DEF SeriousAreListed

\* Whatever the limit of the ranking, it shows the critical records that are
\* counted, and leaves no serious record out but for one as serious.
THEOREM FindingsSeriousListed == Spec => []SeriousAreListed
<1> QED
  BY CampaignTypeOK, SeriousListed, PTL

-----------------------------------------------------------------------------

\* The records of a signature come from no more sources than there are records.
LEMMA MatchedFacts ==
  ASSUME TypeOK, NEW name
  PROVE  /\ Matched(name) \subseteq Records /\ IsFiniteSet(Matched(name))
         /\ IsFiniteSet(SourcesOf(Matched(name)))
         /\ Cardinality(Matched(name)) \in Nat /\ Cardinality(SourcesOf(Matched(name))) \in Nat
         /\ Cardinality(SourcesOf(Matched(name))) <= Cardinality(Matched(name))
<1> DEFINE M == Matched(name)
           source == [r \in M |-> r[1]]
<1>1. M \subseteq Records
  BY DEF Matched
<1>2. IsFiniteSet(M)
  BY <1>1, RecordsFinite, FS_Subset
<1>3. \A s \in SourcesOf(M) : \E r \in M : s = source[r]
  BY DEF SourcesOf
<1> HIDE DEF M, source
<1>4. IsFiniteSet(SourcesOf(M)) /\ Cardinality(SourcesOf(M)) <= Cardinality(M)
  BY <1>2, <1>3, ImageFinite
<1>5. Cardinality(M) \in Nat /\ Cardinality(SourcesOf(M)) \in Nat
  BY <1>2, <1>4, FS_CardinalityType
<1> USE DEF M
<1> QED
  BY <1>1, <1>2, <1>4, <1>5

LEMMA PatternFacts ==
  ASSUME TypeOK, NEW p \in Patterns
  PROVE  /\ p.occurrences \in Nat /\ p.unique_sources \in Nat
         /\ p.unique_sources <= p.occurrences
<1>1. PICK name : p = Pattern(name)
  BY DEF Patterns
<1>2. /\ p.occurrences = Cardinality(Matched(name))
      /\ p.unique_sources = Cardinality(SourcesOf(Matched(name)))
  BY <1>1 DEF Pattern
<1> QED
  BY <1>2, MatchedFacts

\* A name of a record, and its row.
LEMMA PatternOf ==
  ASSUME TypeOK, NEW r \in Records, NEW name \in Rec(r).signatures
  PROVE  Pattern(name) \in Patterns /\ r \in Matched(name)
<1>1. Rec(r).signatures \subseteq Signature \cup {Unprintable}
  BY RecordFacts DEF Record
<1>2. r \in Matched(name)
  BY DEF Matched
<1> QED
  BY <1>1, <1>2 DEF Patterns

LEMMA PatternsFinite ==
  ASSUME TypeOK
  PROVE  IsFiniteSet(Patterns)
<1> DEFINE sets == { seen[s].signatures : s \in Source }
           names == UNION sets
           row == [name \in names |-> Pattern(name)]
           signatures == [s \in Source |-> seen[s].signatures]
<1>1. \A y \in sets : \E s \in Source : y = signatures[s]
  OBVIOUS
<1>2. \A y \in sets : IsFiniteSet(y)
  BY HistoryFacts
<1>3. \A p \in Patterns : \E name \in names : p = row[name]
  <2> SUFFICES ASSUME NEW p \in Patterns PROVE \E name \in names : p = row[name]
    OBVIOUS
  <2>1. PICK name : p = Pattern(name) /\ Matched(name) # {}
    BY DEF Patterns
  <2>2. PICK r \in Records : name \in Rec(r).signatures
    BY <2>1 DEF Matched
  <2>3. r[1] \in Source /\ name \in seen[r[1]].signatures
    BY <2>2, RecordFacts
  <2>4. name \in names
    BY <2>3
  <2> QED
    BY <2>1, <2>4
<1>4. IsFiniteSet(sets)
  <2> HIDE DEF sets, signatures
  <2> QED
    BY <1>1, SourceFacts, ImageFinite
<1>5. IsFiniteSet(names)
  <2> HIDE DEF sets
  <2> QED
    BY <1>2, <1>4, FS_UNION
<1> QED
  <2> HIDE DEF names, row
  <2> QED
    BY <1>3, <1>5, ImageFinite

\* The sums of a technique are those of functions.
LEMMA TechniqueSums ==
  ASSUME NEW id, NEW S, S = { p \in Patterns : p.technique = id }, IsFiniteSet(S)
  PROVE  /\ \E f : Sums([p \in S |-> p.occurrences], S, f) /\ Technique(id).occurrences = f[S]
         /\ \E f : Sums([p \in S |-> p.unique_sources], S, f) /\ Technique(id).unique_sources = f[S]
<1> DEFINE w == [p \in S |-> p.occurrences]
           v == [p \in S |-> p.unique_sources]
           IterW(f) == f = [t \in SUBSET S |->
                             IF t = {} THEN 0
                             ELSE Pick(t).occurrences + f[t \ {Pick(t)}]]
           IterV(f) == f = [t \in SUBSET S |->
                             IF t = {} THEN 0
                             ELSE Pick(t).unique_sources + f[t \ {Pick(t)}]]
           sumW == CHOOSE f : IterW(f)
           sumV == CHOOSE f : IterV(f)
<1>1. Technique(id).occurrences = sumW[S] /\ Technique(id).unique_sources = sumV[S]
  BY DEF Technique, MapThenSumSet, MapThenFoldSet, Pick
<1>2. ASSUME NEW t \in SUBSET S, t # {}
      PROVE  /\ w[Pick(t)] = Pick(t).occurrences
             /\ v[Pick(t)] = Pick(t).unique_sources
  <2>1. Pick(t) \in S
    BY <1>2 DEF Pick
  <2> QED
    BY <2>1
<1>3. ASSUME NEW f PROVE Sums(w, S, f) <=> IterW(f)
  <2> DEFINE F == [t \in SUBSET S |-> IF t = {} THEN 0 ELSE w[Pick(t)] + f[t \ {Pick(t)}]]
             G == [t \in SUBSET S |->
                     IF t = {} THEN 0
                     ELSE Pick(t).occurrences + f[t \ {Pick(t)}]]
  <2> HIDE DEF w
  <2>1. \A t \in SUBSET S : F[t] = G[t]
    BY <1>2
  <2>2. F = G
    BY <2>1
  <2> QED
    BY <2>2 DEF Sums
<1>4. ASSUME NEW f PROVE Sums(v, S, f) <=> IterV(f)
  <2> DEFINE F == [t \in SUBSET S |-> IF t = {} THEN 0 ELSE v[Pick(t)] + f[t \ {Pick(t)}]]
             G == [t \in SUBSET S |->
                     IF t = {} THEN 0
                     ELSE Pick(t).unique_sources + f[t \ {Pick(t)}]]
  <2> HIDE DEF v
  <2>1. \A t \in SUBSET S : F[t] = G[t]
    BY <1>2
  <2>2. F = G
    BY <2>1
  <2> QED
    BY <2>2 DEF Sums
<1> HIDE DEF w, v, IterW, IterV
<1>5. (\E f : IterW(f)) /\ (\E f : IterV(f))
  BY <1>3, <1>4, SumExists
<1>6. IterW(sumW) /\ IterV(sumV)
  BY <1>5
<1> HIDE DEF sumW, sumV
<1>7. Sums(w, S, sumW) /\ Sums(v, S, sumV)
  BY <1>3, <1>4, <1>6
<1> QED
  <2> USE DEF w, v
  <2> QED
    BY <1>1, <1>7

\* The row of a technique covers the rows of its patterns.
LEMMA TechniqueFacts ==
  ASSUME TypeOK, NEW p \in Patterns
  PROVE  \E t \in Techniques :
           /\ t.technique = p.technique
           /\ p.unique_sources <= t.unique_sources
           /\ t.unique_sources <= t.occurrences
<1> DEFINE S == { q \in Patterns : q.technique = p.technique }
           w == [q \in S |-> q.occurrences]
           v == [q \in S |-> q.unique_sources]
           t == Technique(p.technique)
<1>1. IsFiniteSet(S) /\ p \in S
  BY PatternsFinite, FS_Subset
<1>2. PICK f : Sums(w, S, f) /\ t.occurrences = f[S]
  BY <1>1, TechniqueSums
<1>3. PICK g : Sums(v, S, g) /\ t.unique_sources = g[S]
  BY <1>1, TechniqueSums
<1>4. /\ w \in [S -> Nat] /\ v \in [S -> Nat] /\ v[p] = p.unique_sources
      /\ \A q \in S : v[q] <= w[q]
  BY <1>1, PatternFacts
<1>5. t \in Techniques /\ t.technique = p.technique
  BY DEF Techniques, Technique
<1>6. v[p] <= g[S] /\ g[S] <= f[S]
  <2> HIDE DEF S, w, v
  <2> QED
    BY <1>1, <1>2, <1>3, <1>4, SumBounds, SumGrows
<1> QED
  BY <1>2, <1>3, <1>4, <1>5, <1>6

-----------------------------------------------------------------------------

LEMMA ClassFacts ==
  /\ IsFiniteSet(Result)
  /\ \A c \in Result : c \in SUBSET Source /\ c # {} /\ IsFiniteSet(c)
  /\ \A c, d \in Result : c # d => c \cap d = {}
<1>1. \A c \in Result : \E r \in Source : c = { s \in Source : cluster[s] = r }
  BY DEF Result
<1>2. \A c \in Result : c \in SUBSET Source /\ c # {}
  BY DEF Result
<1>3. \A c, d \in Result : c # d => c \cap d = {}
  <2> SUFFICES ASSUME NEW c \in Result, NEW d \in Result, NEW s \in c \cap d PROVE c = d
    OBVIOUS
  <2>1. PICK q \in Source : c = { x \in Source : cluster[x] = q }
    BY <1>1
  <2>2. PICK r \in Source : d = { x \in Source : cluster[x] = r }
    BY <1>1
  <2>3. cluster[s] = q /\ cluster[s] = r
    BY <2>1, <2>2
  <2> QED
    BY <2>1, <2>2, <2>3
<1>4. Result \subseteq SUBSET Source
  BY <1>2
<1>5. IsFiniteSet(SUBSET Source)
  BY SourceFacts, FS_SUBSET
<1> QED
  BY <1>2, <1>3, <1>4, <1>5, SourceFacts, FS_Subset

\* The fields of a campaign.
LEMMA CampaignFacts ==
  ASSUME TypeOK, NEW c \in Reported
  PROVE  /\ c.sources \in Result /\ c = Campaign(c.sources)
         /\ \A s \in c.sources :
              /\ seen[s].ports \subseteq c.target_ports
              /\ c.first_seen <= seen[s].first /\ seen[s].last <= c.last_seen
         /\ \E s \in c.sources : c.first_seen = seen[s].first
         /\ \E s \in c.sources : c.last_seen = seen[s].last
<1>1. PICK m \in Result : c = Campaign(m)
  BY DEF Reported
<1>2. /\ c.sources = m
      /\ c.target_ports = UNION { seen[s].ports : s \in m }
      /\ c.first_seen = Min({ seen[s].first : s \in m })
      /\ c.last_seen = Max({ seen[s].last : s \in m })
  BY <1>1 DEF Campaign
<1>3. m \in SUBSET Source /\ m # {} /\ IsFiniteSet(m)
  BY ClassFacts
<1> DEFINE firsts == { seen[s].first : s \in m }
           lasts  == { seen[s].last : s \in m }
           first  == [s \in m |-> seen[s].first]
           last   == [s \in m |-> seen[s].last]
<1>4. /\ \A t \in firsts : \E s \in m : t = first[s]
      /\ \A t \in lasts : \E s \in m : t = last[s]
  OBVIOUS
<1>5. \A s \in m : seen[s].first \in Int /\ seen[s].last \in Int
  BY <1>3, HistoryFacts
<1>6. firsts \subseteq Int /\ lasts \subseteq Int /\ firsts # {} /\ lasts # {}
  BY <1>3, <1>5
<1>7. /\ \A t : t \in firsts <=> \E s \in m : t = seen[s].first
      /\ \A t : t \in lasts <=> \E s \in m : t = seen[s].last
  OBVIOUS
<1>8. c.first_seen = Min(firsts) /\ c.last_seen = Max(lasts)
  BY <1>2
<1> HIDE DEF firsts, lasts, first, last
<1>9. IsFiniteSet(firsts) /\ IsFiniteSet(lasts)
  BY <1>3, <1>4, ImageFinite
<1>10. /\ Min(firsts) \in firsts /\ \A t \in firsts : Min(firsts) <= t
       /\ Max(lasts) \in lasts /\ \A t \in lasts : t <= Max(lasts)
  BY <1>6, <1>9, MinMaxFacts
<1>11. \A s \in m : seen[s].ports \subseteq c.target_ports
  BY <1>2
<1> QED
  BY <1>1, <1>2, <1>7, <1>8, <1>10, <1>11

\* The campaigns count each source once.
LEMMA ReportedSizes ==
  ASSUME TypeOK
  PROVE  MapThenSumSet(LAMBDA c : Cardinality(c.sources), Reported)
           <= Cardinality(SourcesOf(Records))
<1> DEFINE S == Reported
           w == [c \in S |-> Cardinality(c.sources)]
           sets == [c \in S |-> c.sources]
           size == [c \in S |-> Cardinality(sets[c])]
           Iter(f) == f = [t \in SUBSET S |->
                             IF t = {} THEN 0 ELSE Cardinality(Pick(t).sources) + f[t \ {Pick(t)}]]
           sum == CHOOSE f : Iter(f)
           report == [m \in Result |-> Campaign(m)]
<1>1. MapThenSumSet(LAMBDA c : Cardinality(c.sources), Reported) = sum[S]
  BY DEF MapThenSumSet, MapThenFoldSet, Pick
<1>2. IsFiniteSet(S)
  <2>1. \A c \in S : \E m \in Result : c = report[m]
    BY DEF Reported
  <2> HIDE DEF S, report
  <2> QED
    BY <2>1, ClassFacts, ImageFinite
<1>3. ASSUME NEW t \in SUBSET S, t # {} PROVE w[Pick(t)] = Cardinality(Pick(t).sources)
  <2>1. Pick(t) \in S
    BY <1>3 DEF Pick
  <2> QED
    BY <2>1
<1>4. ASSUME NEW f PROVE Sums(w, S, f) <=> Iter(f)
  <2> DEFINE F == [t \in SUBSET S |-> IF t = {} THEN 0 ELSE w[Pick(t)] + f[t \ {Pick(t)}]]
             G == [t \in SUBSET S |->
                     IF t = {} THEN 0 ELSE Cardinality(Pick(t).sources) + f[t \ {Pick(t)}]]
  <2> HIDE DEF w, S
  <2>1. \A t \in SUBSET S : F[t] = G[t]
    BY <1>3
  <2>2. F = G
    BY <2>1
  <2> QED
    BY <2>2 DEF Sums
<1>5. w = size
  OBVIOUS
<1>6. /\ \A c \in S : sets[c] = c.sources /\ sets[c] \in SUBSET Source /\ IsFiniteSet(sets[c])
      /\ \A c, d \in S : c # d => sets[c] \cap sets[d] = {}
  <2>1. \A c \in S : sets[c] = c.sources /\ c.sources \in Result /\ c = Campaign(c.sources)
    BY CampaignFacts
  <2> HIDE DEF sets, S
  <2>2. \A c, d \in S : c # d => c.sources # d.sources
    BY <2>1
  <2> QED
    BY <2>1, <2>2, ClassFacts
<1>7. Iter(sum)
  <2> HIDE DEF Iter, S, w
  <2>1. \E f : Iter(f)
    BY <1>2, <1>4, SumExists
  <2> QED
    BY <2>1
<1>8. Sums(size, S, sum)
  <2> HIDE DEF Iter, S, w, sum, size
  <2> QED
    BY <1>4, <1>5, <1>7
<1> DEFINE members == UNION { sets[c] : c \in S }
<1>9. members \in SUBSET Source
  <2> HIDE DEF sets, S
  <2> QED
    BY <1>6
<1>10. sum[S] = Cardinality(members)
  <2> HIDE DEF sets, S, sum
  <2> QED
    BY <1>2, <1>6, <1>8, SumOfSizes
<1>11. Cardinality(members) <= Cardinality(Source)
  <2> HIDE DEF members
  <2> QED
    BY <1>9, SourceFacts, FS_Subset
<1> QED
  <2> HIDE DEF sum, S, members
  <2> QED
    BY <1>1, <1>10, <1>11, RecordsFinite

\* A name that two sources share, a record of one of them with it, and its row.
LEMMA SharedPattern ==
  ASSUME TypeOK, NEW c \in Reported, NEW s \in c.sources, NEW b \in c.sources, s # b,
         NEW name \in seen[s].signatures \cap seen[b].signatures
  PROVE  LET p == Pattern(name) IN
         /\ p \in Patterns /\ p.name = name
         /\ p.unique_sources >= 2
         /\ p.ports \cap c.target_ports # {}
         /\ p.first_seen <= c.last_seen /\ c.first_seen <= p.last_seen
<1> DEFINE p == Pattern(name)
           M == Matched(name)
<1>1. s \in Source /\ b \in Source
  BY CampaignFacts, ClassFacts
<1>2. \A d \in {s, b} : \E r \in Records : r[1] = d /\ name \in Rec(r).signatures
  <2> SUFFICES ASSUME NEW d \in {s, b}
               PROVE  \E r \in Records : r[1] = d /\ name \in Rec(r).signatures
    OBVIOUS
  <2>1. PICK n \in DOMAIN seen[d].records : name \in seen[d].records[n].signatures
    BY <1>1, HistoryFacts
  <2>2. <<d, n>> \in Records /\ Rec(<<d, n>>) = seen[d].records[n]
    BY <1>1, RecordAt
  <2> QED
    BY <2>1, <2>2
<1>3. PICK r \in Records : r[1] = s /\ name \in Rec(r).signatures
  BY <1>2
<1>4. p \in Patterns /\ r \in M /\ M \subseteq Records
  BY <1>3, PatternOf, MatchedFacts
<1>5. /\ p.name = name /\ p.unique_sources = Cardinality(SourcesOf(M))
      /\ p.ports = { Rec(q).port : q \in M }
      /\ p.first_seen = Min(TimesOf(M)) /\ p.last_seen = Max(TimesOf(M))
  BY DEF Pattern
<1>6. p.unique_sources >= 2
  <2>1. s \in SourcesOf(M) /\ b \in SourcesOf(M)
    BY <1>2 DEF SourcesOf, Matched
  <2>2. Cardinality(SourcesOf(M)) > 1 /\ Cardinality(SourcesOf(M)) \in Nat
    BY <2>1, MatchedFacts, TwoApart
  <2> QED
    BY <1>5, <2>2
<1>7. Rec(r).port \in p.ports \cap c.target_ports
  BY <1>3, <1>4, <1>5, RecordFacts, CampaignFacts
<1>8. p.first_seen <= Rec(r).time /\ Rec(r).time <= p.last_seen
  BY <1>4, <1>5, TimesFacts
<1>9. /\ c.first_seen <= Rec(r).time /\ Rec(r).time <= c.last_seen
      /\ c.first_seen \in Int /\ c.last_seen \in Int /\ Rec(r).time \in Int
  <2>1. seen[s].first <= Rec(r).time /\ Rec(r).time <= seen[s].last /\ Rec(r).time \in Int
    BY <1>3, RecordFacts
  <2>2. c.first_seen <= seen[s].first /\ seen[s].last <= c.last_seen
    BY CampaignFacts
  <2>3. /\ seen[s].first \in Int /\ seen[s].last \in Int
        /\ c.first_seen \in Int /\ c.last_seen \in Int
    BY <1>1, CampaignFacts, ClassFacts, HistoryFacts
  <2> QED
    BY <2>1, <2>2, <2>3
<1>10. p.first_seen \in Int /\ p.last_seen \in Int
  BY <1>4, <1>5, TimesFacts
<1> HIDE DEF p
<1>11. p.first_seen <= c.last_seen /\ c.first_seen <= p.last_seen
  BY <1>8, <1>9, <1>10
<1> USE DEF p
<1> QED
  BY <1>4, <1>5, <1>6, <1>7, <1>11

\* The window of the report contains the campaigns.
LEMMA InWindow ==
  ASSUME TypeOK, NEW c \in Reported
  PROVE  WindowStart <= c.first_seen /\ c.last_seen <= WindowEnd
<1>1. \A s \in c.sources : s \in Source
  BY CampaignFacts, ClassFacts
<1>2. PICK s \in c.sources : c.first_seen = seen[s].first
  BY CampaignFacts
<1>3. PICK d \in c.sources : c.last_seen = seen[d].last
  BY CampaignFacts
<1>4. PICK n \in DOMAIN seen[s].records : seen[s].first = seen[s].records[n].time
  BY <1>1, HistoryFacts
<1>5. PICK k \in DOMAIN seen[d].records : seen[d].last = seen[d].records[k].time
  BY <1>1, HistoryFacts
<1>6. /\ <<s, n>> \in Records /\ Rec(<<s, n>>).time = c.first_seen
      /\ <<d, k>> \in Records /\ Rec(<<d, k>>).time = c.last_seen
  BY <1>1, <1>2, <1>3, <1>4, <1>5, RecordAt
<1>7. \A r \in Records : WindowStart <= Rec(r).time /\ Rec(r).time <= WindowEnd
  BY <1>6, TimesFacts DEF WindowStart, WindowEnd
<1> QED
  BY <1>6, <1>7

\* The parts of a report agree, on every set of records.
THEOREM FindingsMatch == Spec => []CampaignsMatchFindings
<1>1. TypeOK /\ CampaignsAreCoherent => CampaignsMatchFindings
  <2> SUFFICES ASSUME TypeOK, CampaignsAreCoherent, pc = "done", MinSources >= 2
               PROVE  CampaignsMatchFindings
    BY DEF CampaignsMatchFindings
  <2>1. ASSUME NEW c \in Reported, NEW s \in c.sources
        PROVE  \E p \in Patterns :
                 /\ p.name \in seen[s].signatures
                 /\ p.unique_sources >= 2
                 /\ p.ports \cap c.target_ports # {}
                 /\ p.first_seen <= c.last_seen /\ c.first_seen <= p.last_seen
                 /\ \E t \in Techniques :
                      /\ t.technique = p.technique
                      /\ p.unique_sources <= t.unique_sources
                      /\ t.unique_sources <= t.occurrences
    <3>1. c.sources \in Result
      BY CampaignFacts
    <3>2. PICK b \in c.sources \ {s} : seen[s].signatures \cap seen[b].signatures # {}
      BY <3>1 DEF CampaignsAreCoherent
    <3>3. PICK name : name \in seen[s].signatures \cap seen[b].signatures
      BY <3>2
    <3> DEFINE p == Pattern(name)
    <3>4. /\ p \in Patterns /\ p.name \in seen[s].signatures
          /\ p.unique_sources >= 2
          /\ p.ports \cap c.target_ports # {}
          /\ p.first_seen <= c.last_seen /\ c.first_seen <= p.last_seen
      BY <3>2, <3>3, SharedPattern
    <3> HIDE DEF p
    <3> QED
      BY <3>4, TechniqueFacts
  <2> QED
    BY <2>1, InWindow, ReportedSizes DEF CampaignsMatchFindings
<1> QED
  BY <1>1, CampaignTypeOK, CampaignCoherent, PTL

-----------------------------------------------------------------------------
(* What score_payload makes of a payload meets BehavioursOfRecords.         *)

\* A score is bounded, positive if one of its weights is, and 0 without one.
LEMMA ScoreFacts ==
  ASSUME NEW names, IsFiniteSet(names), NEW weights, \A name \in names : weights[name] \in Nat
  PROVE  /\ Score(weights, names) \in 0 .. MAX_SCORE
         /\ names = {} => Score(weights, names) = 0
         /\ \A name \in names : weights[name] > 0 => Score(weights, names) > 0
<1> DEFINE w == [name \in names |-> weights[name]]
           Iter(f) == f = [t \in SUBSET names |->
                             IF t = {} THEN 0 ELSE weights[Pick(t)] + f[t \ {Pick(t)}]]
           sum == CHOOSE f : Iter(f)
<1>1. MapThenSumSet(LAMBDA name : weights[name], names) = sum[names]
  BY DEF MapThenSumSet, MapThenFoldSet, Pick
<1>2. w \in [names -> Nat] /\ \A name \in names : w[name] = weights[name]
  OBVIOUS
<1>3. ASSUME NEW f PROVE Sums(w, names, f) <=> Iter(f)
  <2> DEFINE F == [t \in SUBSET names |-> IF t = {} THEN 0 ELSE w[Pick(t)] + f[t \ {Pick(t)}]]
             G == [t \in SUBSET names |-> IF t = {} THEN 0 ELSE weights[Pick(t)] + f[t \ {Pick(t)}]]
  <2>1. ASSUME NEW t \in SUBSET names, t # {} PROVE Pick(t) \in names
    BY <2>1 DEF Pick
  <2> HIDE DEF w
  <2>2. \A t \in SUBSET names : F[t] = G[t]
    BY <1>2, <2>1
  <2>3. F = G
    BY <2>2
  <2> QED
    BY <2>3 DEF Sums
<1> HIDE DEF w, Iter
<1>4. \E f : Iter(f)
  BY <1>3, SumExists
<1>5. Sums(w, names, sum)
  BY <1>3, <1>4
<1> HIDE DEF sum
<1>6. sum[names] \in Nat /\ \A name \in names : weights[name] <= sum[names]
  BY <1>2, <1>5, SumBounds
<1>7. names = {} => sum[names] = 0
  BY <1>5 DEF Sums
<1>8. Score(weights, names) = IF sum[names] > MAX_SCORE THEN MAX_SCORE ELSE sum[names]
  BY <1>1 DEF Score
<1> QED
  BY <1>6, <1>7, <1>8 DEF MAX_SCORE

LEMMA SignatureFacts ==
  /\ IsFiniteSet(Signature)
  /\ \A name \in Signature : Weights[name] \in Nat /\ Weights[name] > 0
  /\ Unprintable \notin Signature
<1> DEFINE names ==
      <<"shell_pipe_execution", "remote_payload_fetch", "reverse_shell", "sql_injection",
        "path_traversal", "command_injection", "log4shell", "webshell_upload",
        "credential_probe", "iot_botnet_dropper", "cve_probe_struts", "xxe_attempt",
        "encoded_powershell", "scanner_fingerprint">>
<1>1. \A name \in Signature : \E n \in 1 .. 14 : name = names[n]
  <2>1. /\ names[1] = "shell_pipe_execution" /\ names[2] = "remote_payload_fetch"
        /\ names[3] = "reverse_shell" /\ names[4] = "sql_injection"
        /\ names[5] = "path_traversal" /\ names[6] = "command_injection"
        /\ names[7] = "log4shell" /\ names[8] = "webshell_upload"
        /\ names[9] = "credential_probe" /\ names[10] = "iot_botnet_dropper"
        /\ names[11] = "cve_probe_struts" /\ names[12] = "xxe_attempt"
        /\ names[13] = "encoded_powershell" /\ names[14] = "scanner_fingerprint"
    OBVIOUS
  <2> HIDE DEF names
  <2> QED
    BY <2>1 DEF Signature, SIGNATURES
<1>2. IsFiniteSet(1 .. 14)
  <2>1. 1 \in Int /\ 14 \in Int
    OBVIOUS
  <2> HIDE DEF names
  <2> QED
    BY <2>1, FS_Interval
<1>3. IsFiniteSet(Signature)
  <2> HIDE DEF names
  <2> QED
    BY <1>1, <1>2, ImageFinite
<1>4. \A name \in Signature : SIGNATURES[name].weight \in Nat /\ SIGNATURES[name].weight > 0
  BY DEF Signature, SIGNATURES, Sig
<1>5. Unprintable \notin Signature
  BY DEF Signature, SIGNATURES, Unprintable
<1> QED
  BY <1>3, <1>4, <1>5 DEF Weights

\* The assumption on the records is what score_payload guarantees.
THEOREM PayloadsAreJudged ==
  ASSUME NEW time \in Int, NEW port \in Nat, NEW p \in Payload
  PROVE  PayloadRecord(time, port, p) \in Record /\ Judged(PayloadRecord(time, port, p))
<1> DEFINE score == Score(Weights, p.matches)
<1>1. p.matches \in SUBSET Signature /\ IsFiniteSet(p.matches)
  <2>1. p.matches \in SUBSET Signature
    BY DEF Payload
  <2> QED
    BY <2>1, SignatureFacts, FS_Subset
<1>2. score \in 0 .. MAX_SCORE /\ \A name \in p.matches : score > 0
  BY <1>1, SignatureFacts, ScoreFacts
<1>3. FromScore(score) \in TriageBand /\ "suspicious" \in TriageBand
  BY <1>2 DEF FromScore, TriageBand, Bands
<1> HIDE DEF score
<1>4. CASE p.matches = {} /\ p.printable < 60
  <2>1. ScorePayload(p) = Verdict(0, {Unprintable}, "suspicious")
    BY <1>4 DEF ScorePayload
  <2>2. PayloadRecord(time, port, p) =
          [time |-> time, port |-> port, score |-> 0,
           signatures |-> {Unprintable}, triage |-> "suspicious"]
    BY <2>1 DEF PayloadRecord, Verdict
  <2> QED
    BY <1>3, <2>2 DEF Record, Judged, MAX_SCORE
<1>5. CASE ~(p.matches = {} /\ p.printable < 60)
  <2>1. ScorePayload(p) = Verdict(score, p.matches, FromScore(score))
    BY <1>5 DEF ScorePayload, score
  <2>2. PayloadRecord(time, port, p) =
          [time |-> time, port |-> port, score |-> score,
           signatures |-> p.matches, triage |-> FromScore(score)]
    BY <2>1 DEF PayloadRecord, Verdict
  <2> QED
    BY <1>1, <1>2, <1>3, <2>2 DEF Record, Judged
<1> QED
  BY <1>4, <1>5

\* And what correlate_campaigns keeps of such records meets BehavioursAssumption.
THEOREM HistoriesAreBehaviours ==
  ASSUME NEW h \in Seq(Record), h # <<>>
  PROVE  LET b == Behaviour(h) IN
         /\ IsFiniteSet(b.signatures)
         /\ IsFiniteSet(b.ports) /\ b.ports # {}
         /\ b.first \in Int /\ b.last \in Int /\ b.first <= b.last
<1> DEFINE b     == Behaviour(h)
           times == Times(h)
           time  == [n \in DOMAIN h |-> h[n].time]
           port  == [n \in DOMAIN h |-> h[n].port]
<1>1. Len(h) \in Nat /\ Len(h) > 0 /\ DOMAIN h = 1 .. Len(h) /\ \A n \in DOMAIN h : h[n] \in Record
  OBVIOUS
<1>2. IsFiniteSet(DOMAIN h) /\ 1 \in DOMAIN h
  BY <1>1, FS_Interval
<1>3. /\ b.signatures = UNION { h[n].signatures : n \in DOMAIN h }
      /\ b.ports = { h[n].port : n \in DOMAIN h }
      /\ b.first = Min(times) /\ b.last = Max(times)
  BY DEF Behaviour
<1>4. IsFiniteSet(b.signatures)
  <2>1. b.signatures \in SUBSET (Signature \cup {Unprintable})
    BY <1>1, <1>3 DEF Record
  <2>2. IsFiniteSet(Signature \cup {Unprintable})
    BY SignatureFacts, FS_Singleton, FS_Union
  <2> QED
    BY <2>1, <2>2, FS_Subset
<1>5. /\ \A t \in times : \E n \in DOMAIN h : t = time[n]
      /\ \A x \in b.ports : \E n \in DOMAIN h : x = port[n]
  BY <1>3 DEF Times
<1>6. times \subseteq Int /\ h[1].time \in times /\ h[1].port \in b.ports
  BY <1>1, <1>2, <1>3 DEF Times, Record
<1> HIDE DEF b, times, time, port
<1>7. IsFiniteSet(times) /\ IsFiniteSet(b.ports)
  BY <1>2, <1>5, ImageFinite
<1>8. /\ b.first \in times /\ b.last \in times
      /\ \A t \in times : b.first <= t /\ t <= b.last
  <2>1. times # {} /\ times \subseteq Int
    BY <1>6
  <2>2. /\ Min(times) \in times /\ \A t \in times : Min(times) <= t
        /\ Max(times) \in times /\ \A t \in times : t <= Max(times)
    BY <1>7, <2>1, MinMaxFacts
  <2> QED
    BY <1>3, <2>2
<1>9. b.ports # {} /\ b.first \in Int /\ b.last \in Int /\ b.first <= b.last
  BY <1>6, <1>8
<1> QED
  BY <1>4, <1>7, <1>9 DEF b

=============================================================================
