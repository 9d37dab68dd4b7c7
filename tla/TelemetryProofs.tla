--------------------------- MODULE TelemetryProofs ---------------------------
(***************************************************************************)
(* Theorems about the writing side of Telemetry: what the document ids of  *)
(* 90-output.conf keep out of an index, and what they may not keep out,    *)
(* for all events, repetitions, lost answers, refreshes and rollovers; and *)
(* about the verdict that a document carries.                              *)
(***************************************************************************)
EXTENDS Telemetry, SequenceTheorems, TLAPS

\* An index whose documents are out of a set, and the shards of such indices: a
\* stream has one to write to at all times.
IndexOf(D) == [segments : Seq(Seq(D)), buffer : Seq(D)]

ShardsOf(D) ==
  /\ shards \in [Stream -> Seq(IndexOf(D))]
  /\ \A s \in Stream : shards[s] # <<>>

-----------------------------------------------------------------------------
(* Where the two implementations of the scoring agree: on every payload     *)
(* that matches something, if both see the same matches in it.              *)

\* The two tables have the same weights.
LEMMA SameWeights == Weights = RUBY_WEIGHTS
BY DEF Weights, RUBY_WEIGHTS, Signature, SIGNATURES, Sig

\* The verdict in the index is the one of the sensor and of replay, for every
\* payload in whose payload_ascii Logstash finds the signatures that the whole of
\* it matches, at least one.
THEOREM SameVerdict ==
  ASSUME NEW p \in Payload, p.matches # {}, p.head = p.matches
  PROVE  RubyFilter(p) = ScorePayload(p)
BY SameWeights DEF RubyFilter, ScorePayload

\* And then document_to_record knows its band.
THEOREM KnownBand ==
  ASSUME NEW p \in Payload, p.head # {}
  PROVE  RubyFilter(p).triage \in TriageBand
<1>1. \A score : FromScore(score) \in TriageBand
  <2> SUFFICES ASSUME NEW score PROVE FromScore(score) \in TriageBand
    OBVIOUS
  <2>1. TriageBand = {"benign", "noise", "suspicious", "likely-malicious", "critical"}
    BY DEF TriageBand, Bands
  <2> QED
    BY <2>1 DEF FromScore
<1> QED
  BY <1>1 DEF RubyFilter, Verdict

-----------------------------------------------------------------------------
(* Sequences as sets. *)

LEMMA AppendRange ==
  ASSUME NEW S, NEW s \in Seq(S), NEW e \in S
  PROVE  Append(s, e) \in Seq(S) /\ ToSet(Append(s, e)) = ToSet(s) \cup {e}
<1>1. /\ Append(s, e) \in Seq(S) /\ Len(s) \in Nat /\ Len(Append(s, e)) = Len(s) + 1
      /\ DOMAIN s = 1 .. Len(s) /\ DOMAIN Append(s, e) = 1 .. Len(s) + 1
      /\ \A i \in 1 .. Len(s) : Append(s, e)[i] = s[i]
      /\ Append(s, e)[Len(s) + 1] = e
  OBVIOUS
<1>2. Len(s) + 1 \in DOMAIN Append(s, e) /\ DOMAIN s \subseteq DOMAIN Append(s, e)
      /\ \A i \in DOMAIN Append(s, e) : i \in DOMAIN s \/ i = Len(s) + 1
  BY <1>1
<1> QED
  BY <1>1, <1>2 DEF ToSet

\* A sequence over a set is one over any larger set, and so is an index.
LEMMA SeqMonotone ==
  ASSUME NEW S, NEW T, S \subseteq T, NEW s \in Seq(S)
  PROVE  s \in Seq(T)
<1>1. /\ Len(s) \in Nat /\ \A i \in 1 .. Len(s) : s[i] \in S
      /\ s = [i \in 1 .. Len(s) |-> s[i]]
  OBVIOUS
<1>2. \A i \in 1 .. Len(s) : s[i] \in T
  BY <1>1
<1>3. [i \in 1 .. Len(s) |-> s[i]] \in Seq(T)
  BY <1>1, <1>2
<1> QED
  BY <1>1, <1>3

LEMMA ShardsMonotone ==
  ASSUME NEW D, NEW E, D \subseteq E, NEW q \in Seq(IndexOf(D))
  PROVE  q \in Seq(IndexOf(E))
<1>1. \A s \in Seq(D) : s \in Seq(E)
  BY SeqMonotone
<1>2. Seq(D) \subseteq Seq(E)
  BY <1>1
<1>3. \A t \in Seq(Seq(D)) : t \in Seq(Seq(E))
  BY <1>2, SeqMonotone
<1>4. IndexOf(D) \subseteq IndexOf(E)
  BY <1>1, <1>3 DEF IndexOf
<1> QED
  BY <1>4, SeqMonotone

\* What is where after an insertion.
LEMMA InsertAtPositions ==
  ASSUME NEW S, NEW s \in Seq(S), NEW e \in S, NEW p \in 1 .. Len(s) + 1,
         NEW t, t = InsertAt(s, p, e)
  PROVE  /\ t \in Seq(S) /\ Len(t) = Len(s) + 1
         /\ \A i \in 1 .. p - 1 : t[i] = s[i]
         /\ t[p] = e
         /\ \A i \in p + 1 .. Len(s) + 1 : t[i] = s[i - 1]
<1> DEFINE head == SubSeq(s, 1, p - 1)
           tail == SubSeq(s, p, Len(s))
<1>1. Len(s) \in Nat /\ p \in Nat /\ 1 <= p /\ p <= Len(s) + 1 /\ DOMAIN s = 1 .. Len(s)
  OBVIOUS
<1>2. /\ head \in Seq(S) /\ Len(head) = p - 1
      /\ \A i \in 1 .. p - 1 : head[i] = s[i]
  BY <1>1
<1>3. /\ tail \in Seq(S) /\ Len(tail) = Len(s) - p + 1
      /\ \A i \in 1 .. Len(s) - p + 1 : tail[i] = s[p + i - 1]
  BY <1>1
<1>4. t = (head \o <<e>>) \o tail
  BY DEF InsertAt
<1> HIDE DEF head, tail
<1> DEFINE front == head \o <<e>>
<1>5. /\ front \in Seq(S) /\ Len(front) = p
      /\ \A i \in 1 .. p - 1 : front[i] = s[i]
      /\ front[p] = e
  <2>1. <<e>> \in Seq(S) /\ Len(<<e>>) = 1 /\ <<e>>[1] = e
    OBVIOUS
  <2>2. /\ front \in Seq(S) /\ Len(front) = p
        /\ \A i \in 1 .. p : front[i] = IF i <= p - 1 THEN head[i] ELSE <<e>>[i - (p - 1)]
    BY <1>1, <1>2, <2>1, ConcatProperties
  <2>3. p \in 1 .. p /\ p - (p - 1) = 1 /\ \A i \in 1 .. p - 1 : i \in 1 .. p /\ i <= p - 1
    BY <1>1
  <2> QED
    BY <1>1, <1>2, <2>1, <2>2, <2>3
<1>6. /\ t \in Seq(S) /\ Len(t) = Len(s) + 1
      /\ \A i \in 1 .. p : t[i] = front[i]
      /\ \A i \in p + 1 .. Len(s) + 1 : t[i] = tail[i - p]
  <2> HIDE DEF front
  <2>1. /\ front \o tail \in Seq(S) /\ Len(front \o tail) = Len(front) + Len(tail)
        /\ \A i \in 1 .. Len(front) + Len(tail) :
             (front \o tail)[i] = IF i <= Len(front) THEN front[i] ELSE tail[i - Len(front)]
    BY <1>3, <1>5, ConcatProperties
  <2>2. t = front \o tail
    BY <1>4 DEF front
  <2>3. Len(front) = p /\ Len(front) + Len(tail) = Len(s) + 1
    BY <1>1, <1>3, <1>5
  <2>4. /\ t \in Seq(S) /\ Len(t) = Len(s) + 1
        /\ \A i \in 1 .. Len(s) + 1 : t[i] = IF i <= p THEN front[i] ELSE tail[i - p]
    BY <2>1, <2>2, <2>3
  <2> QED
    BY <1>1, <2>4
<1> HIDE DEF front
<1>7. /\ \A i \in 1 .. p - 1 : t[i] = s[i]
      /\ t[p] = e
      /\ \A i \in p + 1 .. Len(s) + 1 : t[i] = s[i - 1]
  <2>1. \A i \in 1 .. p - 1 : i \in 1 .. p /\ t[i] = s[i]
    BY <1>1, <1>5, <1>6
  <2>2. p \in 1 .. p /\ t[p] = e
    BY <1>1, <1>5, <1>6
  <2>3. ASSUME NEW i \in p + 1 .. Len(s) + 1 PROVE t[i] = s[i - 1]
    <3>1. i - p \in 1 .. Len(s) - p + 1 /\ p + (i - p) - 1 = i - 1
      BY <1>1
    <3>2. tail[i - p] = s[p + (i - p) - 1]
      BY <1>3, <3>1
    <3> QED
      BY <1>6, <3>1, <3>2
  <2> QED
    BY <2>1, <2>2, <2>3
<1> QED
  BY <1>6, <1>7

\* Inserting into a sequence adds an element and loses none.
LEMMA InsertAtRange ==
  ASSUME NEW S, NEW s \in Seq(S), NEW e \in S, NEW p \in 1 .. Len(s) + 1
  PROVE  InsertAt(s, p, e) \in Seq(S) /\ ToSet(InsertAt(s, p, e)) = ToSet(s) \cup {e}
<1> PICK t : t = InsertAt(s, p, e)
  OBVIOUS
<1>1. Len(s) \in Nat /\ p \in Nat /\ 1 <= p /\ p <= Len(s) + 1 /\ DOMAIN s = 1 .. Len(s)
  OBVIOUS
<1>2. /\ t \in Seq(S) /\ Len(t) = Len(s) + 1
      /\ \A i \in 1 .. p - 1 : t[i] = s[i]
      /\ t[p] = e
      /\ \A i \in p + 1 .. Len(s) + 1 : t[i] = s[i - 1]
  BY InsertAtPositions
<1>3. ASSUME NEW i \in DOMAIN s PROVE \E j \in DOMAIN t : t[j] = s[i]
  <2>1. CASE i < p
    BY <1>1, <1>2, <2>1
  <2>2. CASE i >= p
    <3>1. i + 1 \in p + 1 .. Len(s) + 1 /\ (i + 1) - 1 = i /\ i + 1 \in DOMAIN t
      BY <1>1, <1>2, <2>2
    <3> QED
      BY <1>2, <3>1
  <2> QED
    BY <1>1, <2>1, <2>2
<1>4. ASSUME NEW j \in DOMAIN t PROVE t[j] = e \/ \E i \in DOMAIN s : t[j] = s[i]
  <2>1. j \in 1 .. Len(s) + 1
    BY <1>2
  <2>2. CASE j < p
    BY <1>1, <1>2, <2>1, <2>2
  <2>3. CASE j > p
    <3>1. j \in p + 1 .. Len(s) + 1 /\ j - 1 \in DOMAIN s
      BY <1>1, <2>1, <2>3
    <3> QED
      BY <1>2, <3>1
  <2> QED
    BY <1>1, <1>2, <2>1, <2>2, <2>3
<1>5. p \in DOMAIN t /\ t[p] = e
  BY <1>1, <1>2
<1>6. ToSet(t) = ToSet(s) \cup {e}
  BY <1>3, <1>4, <1>5 DEF ToSet
<1> QED
  BY <1>2, <1>6

\* What a refresh does to an index, and what a document added to it does.
LEMMA RefreshedIndex ==
  ASSUME NEW D, NEW index \in IndexOf(D), NEW p \in 1 .. Len(index.segments) + 1,
         NEW new, new = [segments |-> InsertAt(index.segments, p, index.buffer), buffer |-> <<>>]
  PROVE  new \in IndexOf(D) /\ StoredIn(new) = StoredIn(index)
<1>1. index.segments \in Seq(Seq(D)) /\ index.buffer \in Seq(D)
  BY DEF IndexOf
<1>2. /\ new.segments \in Seq(Seq(D))
      /\ ToSet(new.segments) = ToSet(index.segments) \cup {index.buffer}
  BY <1>1, InsertAtRange
<1>3. new.buffer = <<>> /\ ToSet(new.buffer) = {}
  BY DEF ToSet
<1>4. UNION { ToSet(segment) : segment \in ToSet(index.segments) \cup {index.buffer} }
        = ToSet(index.buffer) \cup UNION { ToSet(segment) : segment \in ToSet(index.segments) }
  OBVIOUS
<1>5. StoredIn(new) = StoredIn(index)
  BY <1>2, <1>3, <1>4 DEF StoredIn
<1>6. new \in IndexOf(D)
  BY <1>2 DEF IndexOf
<1> QED
  BY <1>5, <1>6

LEMMA BufferedIndex ==
  ASSUME NEW D, NEW index \in IndexOf(D), NEW d \in D,
         NEW new, new = [index EXCEPT !.buffer = Append(@, d)]
  PROVE  new \in IndexOf(D) /\ StoredIn(new) = StoredIn(index) \cup {d}
<1>1. index.segments \in Seq(Seq(D)) /\ index.buffer \in Seq(D)
  BY DEF IndexOf
<1>2. new.segments = index.segments /\ new.buffer = Append(index.buffer, d) /\ new \in IndexOf(D)
  BY <1>1, AppendRange DEF IndexOf
<1>3. ToSet(new.buffer) = ToSet(index.buffer) \cup {d}
  BY <1>1, <1>2, AppendRange
<1> QED
  BY <1>2, <1>3 DEF StoredIn

-----------------------------------------------------------------------------
(* The steps of the streams. *)

\* A step that moves documents and neither adds nor loses one: an index that is
\* new is empty.
Moved ==
  \A s \in Stream :
    /\ DOMAIN shards[s] \subseteq DOMAIN shards'[s]
    /\ \A i \in DOMAIN shards'[s] :
         StoredIn(shards'[s][i]) = IF i \in DOMAIN shards[s] THEN StoredIn(shards[s][i]) ELSE {}

LEMMA StreamsInitShards == ASSUME NEW D, StreamsInit PROVE ShardsOf(D)
<1>1. EmptyIndex \in IndexOf(D) /\ <<EmptyIndex>> \in Seq(IndexOf(D))
  BY DEF EmptyIndex, IndexOf
<1> QED
  BY <1>1 DEF StreamsInit, ShardsOf

LEMMA RefreshShards ==
  ASSUME NEW D, ShardsOf(D), NEW s \in Stream, NEW i \in DOMAIN shards[s], NEW p, Refresh(s, i, p)
  PROVE  ShardsOf(D)' /\ Moved
<1> DEFINE index == shards[s][i]
           new   == [segments |-> InsertAt(index.segments, p, index.buffer), buffer |-> <<>>]
<1>1. shards' = [shards EXCEPT ![s][i] = new] /\ p \in 1 .. Len(index.segments) + 1
  BY DEF Refresh
<1>2. shards[s] \in Seq(IndexOf(D)) /\ index \in IndexOf(D)
  BY DEF ShardsOf
<1>3. new \in IndexOf(D) /\ StoredIn(new) = StoredIn(index)
  BY <1>1, <1>2, RefreshedIndex
<1> HIDE DEF new, index
<1>4. shards' = [shards EXCEPT ![s] = [shards[s] EXCEPT ![i] = new]]
  BY <1>1
<1>5. /\ [shards[s] EXCEPT ![i] = new] \in Seq(IndexOf(D))
      /\ Len([shards[s] EXCEPT ![i] = new]) = Len(shards[s])
      /\ Len(shards[s]) >= 1
  BY <1>2, <1>3 DEF ShardsOf
<1>6. ShardsOf(D)'
  BY <1>4, <1>5 DEF ShardsOf
<1>7. Moved
  BY <1>2, <1>3, <1>4 DEF Moved, ShardsOf, index
<1> QED
  BY <1>6, <1>7

LEMMA RolloverShards ==
  ASSUME NEW D, ShardsOf(D), NEW s \in Stream, Rollover(s)
  PROVE  ShardsOf(D)' /\ Moved
<1>1. EmptyIndex \in IndexOf(D) /\ StoredIn(EmptyIndex) = {}
  BY DEF EmptyIndex, IndexOf, StoredIn, ToSet
<1>2. shards' = [shards EXCEPT ![s] = Append(shards[s], EmptyIndex)] /\ shards[s] \in Seq(IndexOf(D))
  BY DEF Rollover, ShardsOf
<1> DEFINE longer == Append(shards[s], EmptyIndex)
<1>3. /\ longer \in Seq(IndexOf(D)) /\ longer # <<>>
      /\ DOMAIN shards[s] \subseteq DOMAIN longer
      /\ \A i \in DOMAIN longer :
           longer[i] = IF i \in DOMAIN shards[s] THEN shards[s][i] ELSE EmptyIndex
  BY <1>1, <1>2
<1> HIDE DEF longer
<1>4. shards' = [shards EXCEPT ![s] = longer]
  BY <1>2 DEF longer
<1>5. ShardsOf(D)'
  BY <1>3, <1>4 DEF ShardsOf
<1>6. Moved
  <2>1. shards'[s] = longer /\ \A o \in Stream : o # s => shards'[o] = shards[o]
    BY <1>4 DEF ShardsOf
  <2> QED
    BY <1>1, <1>3, <2>1 DEF Moved
<1> QED
  BY <1>5, <1>6

\* An accepted request adds a document of its event to the index written to.
NewDocument(e) == [event |-> e, nr |-> Cardinality(AllStored) + 1]

Wrote(e) ==
  LET s == StreamOf(e)
      n == Len(shards[s])
      d == NewDocument(e) IN
  /\ DOMAIN shards'[s] = DOMAIN shards[s] /\ n \in DOMAIN shards[s]
  /\ shards'[s][n] = [shards[s][n] EXCEPT !.buffer = Append(@, d)]
  /\ StoredIn(shards'[s][n]) = StoredIn(shards[s][n]) \cup {d}
  /\ \A i \in DOMAIN shards[s] \ {n} : shards'[s][i] = shards[s][i]
  /\ \A o \in Stream \ {s} : shards'[o] = shards[o]

LEMMA StoreShards ==
  ASSUME NEW D, ShardsOf(D), NEW e, Store(e), ~Rejected(e), ~Refused(e)
  PROVE  Wrote(e) /\ \E E : E = D \cup {NewDocument(e)} /\ ShardsOf(E)'
<1> DEFINE s == StreamOf(e)
           d == NewDocument(e)
           n == Len(shards[s])
           new == [shards[s][n] EXCEPT !.buffer = Append(@, d)]
           q == [shards[s] EXCEPT ![n] = new]
<1>1. s \in Stream
  BY DEF StreamOf, Stream
<1>2. /\ shards \in [Stream -> Seq(IndexOf(D))] /\ shards[s] \in Seq(IndexOf(D))
      /\ n \in DOMAIN shards[s] /\ DOMAIN shards[s] = 1 .. n /\ n \in Nat
  BY <1>1 DEF ShardsOf
<1>3. shards' = [shards EXCEPT ![s] = q]
  BY DEF Store, NewDocument
<1>4. PICK E : E = D \cup {d}
  OBVIOUS
<1>5. D \subseteq E /\ d \in E
  BY <1>4
<1> HIDE DEF d
<1>6. \A o \in Stream : shards[o] \in Seq(IndexOf(E)) /\ shards[o] # <<>>
  BY <1>5, ShardsMonotone DEF ShardsOf
<1>7. new \in IndexOf(E) /\ StoredIn(new) = StoredIn(shards[s][n]) \cup {d}
  <2>1. shards[s][n] \in IndexOf(E)
    BY <1>1, <1>2, <1>6
  <2> QED
    BY <1>5, <2>1, BufferedIndex
<1> HIDE DEF new, n, s
<1>8. /\ q \in Seq(IndexOf(E)) /\ DOMAIN q = DOMAIN shards[s] /\ Len(q) = n /\ q # <<>>
      /\ q[n] = new
      /\ \A i \in DOMAIN shards[s] \ {n} : q[i] = shards[s][i]
  <2>1. shards[s] \in Seq(IndexOf(E)) /\ Len(shards[s]) = n /\ n \in 1 .. n
    BY <1>1, <1>2, <1>6 DEF n
  <2> QED
    BY <1>2, <1>7, <2>1
<1> HIDE DEF q
<1>9. shards'[s] = q /\ \A o \in Stream \ {s} : shards'[o] = shards[o]
  BY <1>1, <1>2, <1>3
<1>10. ShardsOf(E)'
  <2>1. shards' \in [Stream -> Seq(IndexOf(E))]
    BY <1>1, <1>2, <1>3, <1>6, <1>8
  <2>2. ASSUME NEW o \in Stream PROVE shards'[o] # <<>>
    <3>1. CASE o = s
      BY <1>8, <1>9, <3>1
    <3>2. CASE o # s
      BY <1>6, <1>9, <3>2
    <3> QED
      BY <3>1, <3>2
  <2> QED
    BY <2>1, <2>2 DEF ShardsOf
<1>11. Wrote(e)
  <2>1. q[n] = [shards[s][n] EXCEPT !.buffer = Append(@, d)]
    BY <1>8 DEF new
  <2> QED
    BY <1>2, <1>7, <1>8, <1>9, <2>1 DEF Wrote, s, n, d
<1> QED
  BY <1>4, <1>10, <1>11 DEF d

-----------------------------------------------------------------------------
(* The steps of the analysis plane. *)

\* What a step is to the streams: their documents move, an event is written to
\* them that was not refused, or nothing.
StreamStep ==
  \/ Moved
  \/ \E e : ~Refused(e) /\ Wrote(e)

LEMMA UnchangedMoves == ASSUME UNCHANGED shards PROVE Moved
BY DEF Moved

LEMMA NextStreamStep ==
  ASSUME NEW D, ShardsOf(D), [Next]_vars
  PROVE  StreamStep /\ \E E : ShardsOf(E)'
<1>1. ASSUME UNCHANGED shards PROVE StreamStep /\ \E E : ShardsOf(E)'
  BY <1>1, UnchangedMoves DEF StreamStep, ShardsOf
<1>2. ASSUME NEW e, Store(e) PROVE StreamStep /\ \E E : ShardsOf(E)'
  <2>1. CASE Rejected(e) \/ Refused(e)
    BY <1>1, <1>2, <2>1 DEF Store
  <2>2. CASE ~Rejected(e) /\ ~Refused(e)
    BY <1>2, <2>2, StoreShards, Zenon DEF StreamStep
  <2> QED
    BY <2>1, <2>2
<1>3. CASE IngestNext
  <2>1. ASSUME NEW e \in Events, Receive(e) PROVE UNCHANGED shards
    BY <2>1 DEF Receive
  <2>2. ASSUME NEW item \in queue, Index(item) \/ IndexUnanswered(item) PROVE Store(item[1])
    BY <2>2 DEF Index, IndexUnanswered
  <2> QED
    BY <1>1, <1>2, <1>3, <2>1, <2>2 DEF IngestNext
<1>4. CASE StreamsMove
  <2>1. ASSUME NEW s \in Stream, Rollover(s) PROVE ShardsOf(D)' /\ Moved
    BY <2>1, RolloverShards
  <2>2. ASSUME NEW s \in Stream, NEW i \in DOMAIN shards[s], NEW p, Refresh(s, i, p)
        PROVE  ShardsOf(D)' /\ Moved
    BY <2>2, RefreshShards
  <2>3. ShardsOf(D)' /\ Moved
    BY <1>4, <2>1, <2>2 DEF StreamsMove
  <2> QED
    BY <2>3 DEF StreamStep
<1>5. CASE ScanNext
  <2>1. UNCHANGED shards
    BY <1>5 DEF ScanNext, Start, NothingWanted, FetchPage, SearchFails
  <2> QED
    BY <1>1, <2>1
<1>6. CASE UNCHANGED vars
  BY <1>1, <1>6 DEF vars
<1> QED
  BY <1>3, <1>4, <1>5, <1>6 DEF Next

\* An index that a step does not write to holds what it held, or nothing; one
\* that it writes to did not have the fingerprint.
LEMMA StreamStepSessions ==
  ASSUME SessionsOnce, StreamStep
  PROVE  SessionsOnce'
<1>1. CASE Moved
  BY <1>1 DEF Moved, SessionsOnce, Stream
<1>2. ASSUME NEW e, ~Refused(e), Wrote(e) PROVE SessionsOnce'
  <2>1. CASE StreamOf(e) = "honeypot"
    <3> DEFINE n == Len(shards["honeypot"])
               d == NewDocument(e)
    <3>1. /\ d.event = e
          /\ DOMAIN shards'["honeypot"] = DOMAIN shards["honeypot"]
          /\ n \in DOMAIN shards["honeypot"]
          /\ StoredIn(shards'["honeypot"][n]) = StoredIn(shards["honeypot"][n]) \cup {d}
          /\ \A i \in DOMAIN shards["honeypot"] \ {n} :
               shards'["honeypot"][i] = shards["honeypot"][i]
      BY <1>2, <2>1 DEF Wrote, NewDocument
    <3>2. \A x \in StoredIn(shards["honeypot"][n]) : Fingerprint(x.event) # Fingerprint(e)
      BY <1>2, <2>1 DEF Refused, HasDocumentId, Last
    <3> HIDE DEF n, d
    <3>3. ASSUME NEW i \in DOMAIN shards'["honeypot"],
                 NEW x \in StoredIn(shards'["honeypot"][i]),
                 NEW y \in StoredIn(shards'["honeypot"][i]),
                 Fingerprint(x.event) = Fingerprint(y.event)
          PROVE  x = y
      <4>1. CASE i = n
        <5>1. /\ x \in StoredIn(shards["honeypot"][n]) \/ x = d
              /\ y \in StoredIn(shards["honeypot"][n]) \/ y = d
          BY <3>1, <3>3, <4>1
        <5> QED
          BY <3>1, <3>2, <3>3, <5>1 DEF SessionsOnce
      <4>2. CASE i # n
        BY <3>1, <3>3, <4>2 DEF SessionsOnce
      <4> QED
        BY <4>1, <4>2
    <3> QED
      BY <3>3 DEF SessionsOnce, Fingerprint, Dataset
  <2>2. CASE StreamOf(e) # "honeypot"
    <3>1. shards'["honeypot"] = shards["honeypot"]
      BY <1>2, <2>2 DEF Wrote, Stream
    <3> QED
      BY <3>1 DEF SessionsOnce
  <2> QED
    BY <2>1, <2>2
<1> QED
  BY <1>1, <1>2 DEF StreamStep

\* How a payload record may leave the queue.
KeptOrBuried(item) ==
  \/ \E d \in Stored("pcap")' : d.event = item[1]
  \/ /\ Rejected(item[1])
     /\ \/ item[1] \in ToSet(deadLetters')
        \/ Len(deadLetters) = MaxLetters

\* A rejected event is a dead letter if there is room for one.
LEMMA BuryFacts ==
  ASSUME NEW e \in Events, deadLetters \in Seq(Events), Len(deadLetters) <= MaxLetters, Bury(e)
  PROVE  /\ deadLetters' \in Seq(Events) /\ Len(deadLetters') <= MaxLetters
         /\ Rejected(e) => e \in ToSet(deadLetters') \/ Len(deadLetters) = MaxLetters
<1>1. Len(deadLetters) \in Nat /\ MaxLetters \in Nat
  BY BoundsAssumption
<1>2. CASE Rejected(e) /\ Len(deadLetters) < MaxLetters
  <2>1. deadLetters' = Append(deadLetters, e)
    BY <1>2 DEF Bury
  <2>2. deadLetters' \in Seq(Events) /\ Len(deadLetters') = Len(deadLetters) + 1
    BY <2>1
  <2>3. e \in ToSet(deadLetters')
    BY <2>1, AppendRange
  <2> QED
    BY <1>1, <1>2, <2>2, <2>3
<1>3. CASE ~(Rejected(e) /\ Len(deadLetters) < MaxLetters)
  <2>1. deadLetters' = deadLetters
    BY <1>3 DEF Bury
  <2> QED
    BY <1>1, <1>3, <2>1
<1> QED
  BY <1>2, <1>3

\* The dead letter queue is written by the output only.
Letters == deadLetters \in Seq(Events) /\ Len(deadLetters) <= MaxLetters

QueueOfEvents == \A item \in queue : item[1] \in Events

LEMMA NextLetters ==
  ASSUME Letters, QueueOfEvents, [Next]_vars
  PROVE  Letters' /\ QueueOfEvents'
<1>1. CASE UNCHANGED <<queue, deadLetters>>
  BY <1>1 DEF Letters, QueueOfEvents
<1>2. ASSUME NEW e \in Events, Receive(e) PROVE Letters' /\ QueueOfEvents'
  BY <1>2 DEF Letters, QueueOfEvents, Receive
<1>3. ASSUME NEW item \in queue, Index(item) \/ IndexUnanswered(item)
      PROVE  Letters' /\ QueueOfEvents'
  <2>1. item[1] \in Events
    BY DEF QueueOfEvents
  <2>2. Bury(item[1]) \/ UNCHANGED deadLetters
    BY <1>3 DEF Index, IndexUnanswered
  <2>3. Letters'
    BY <2>1, <2>2, BuryFacts DEF Letters
  <2>4. queue' \subseteq queue
    BY <1>3 DEF Index, IndexUnanswered
  <2> QED
    BY <2>3, <2>4 DEF QueueOfEvents
<1> QED
  BY <1>1, <1>2, <1>3 DEF Next, IngestNext, StreamsMove, vars, ingestVars

\* Only Index takes from the queue, and the request for a payload record is
\* never refused: it is carried out, or rejected.
LEMMA StepKeepsPayloads ==
  ASSUME NEW D, ShardsOf(D), Letters, QueueOfEvents, [Next]_vars,
         NEW item \in queue \ queue', item[1].tag = "tshark"
  PROVE  KeptOrBuried(item)
<1>1. ~ UNCHANGED queue
  OBVIOUS
<1>2. Index(item)
  <2>1. IngestNext
    BY <1>1 DEF Next, vars, ingestVars, StreamsMove
  <2>2. \A e \in Events : ~Receive(e)
    BY DEF Receive
  <2>3. PICK other \in queue : Index(other)
    BY <1>1, <2>1, <2>2 DEF IngestNext, IndexUnanswered
  <2>4. other = item
    BY <2>3 DEF Index
  <2> QED
    BY <2>3, <2>4
<1>3. StreamOf(item[1]) = "pcap" /\ ~Refused(item[1])
  BY DEF StreamOf, Refused, HasDocumentId
<1>4. CASE Rejected(item[1])
  <2>1. item[1] \in Events /\ Bury(item[1])
    BY <1>2 DEF QueueOfEvents, Index
  <2> QED
    BY <1>4, <2>1, BuryFacts DEF Letters, KeptOrBuried
<1>5. CASE ~Rejected(item[1])
  <2>1. Wrote(item[1])
    BY <1>2, <1>3, <1>5, StoreShards DEF Index
  <2> DEFINE n == Len(shards["pcap"])
  <2>2. PICK d : /\ d.event = item[1]
                 /\ n \in DOMAIN shards'["pcap"]
                 /\ d \in StoredIn(shards'["pcap"][n])
    BY <1>3, <2>1 DEF Wrote, NewDocument
  <2>3. d \in Stored("pcap")'
    BY <2>2 DEF Stored
  <2> QED
    BY <2>2, <2>3 DEF KeptOrBuried
<1> QED
  BY <1>4, <1>5

-----------------------------------------------------------------------------

\* The invariant: there are indices to write to, each honeypot index holds a
\* session event once, and there is no more in the dead letter queue than fits.
TelemetryInv == (\E D : ShardsOf(D)) /\ SessionsOnce /\ Letters /\ QueueOfEvents

LEMMA TelemetryInit == ASSUME Init PROVE TelemetryInv
<1>1. \E D : ShardsOf(D)
  BY StreamsInitShards DEF Init
<1>2. SessionsOnce
  BY DEF Init, StreamsInit, SessionsOnce, EmptyIndex, StoredIn, ToSet, Stream
<1>3. Letters /\ QueueOfEvents
  BY BoundsAssumption DEF Init, IngestInit, Letters, QueueOfEvents
<1> QED
  BY <1>1, <1>2, <1>3 DEF TelemetryInv

LEMMA TelemetryStep == ASSUME TelemetryInv, [Next]_vars PROVE TelemetryInv'
BY NextStreamStep, StreamStepSessions, NextLetters DEF TelemetryInv

LEMMA TelemetryInvariant == Spec => []TelemetryInv
BY TelemetryInit, TelemetryStep, PTL DEF Spec

\* Whatever Logstash is handed again and however many answers get lost, no
\* index of the honeypot stream holds a session event twice (90-output.conf).
THEOREM TelemetrySessionsOnce == Spec => []SessionsOnce
<1>1. TelemetryInv => SessionsOnce
  BY DEF TelemetryInv
<1> QED
  BY <1>1, TelemetryInvariant, PTL

\* A payload record leaves the queue only once it is in the pcap stream, which
\* takes every request that its template does not reject as a document of its own
\* (90-output.conf), or in the dead letter queue (logstash.yml) if there is room.
THEOREM TelemetryPayloadsKept == Spec => PayloadsKept
<1> DEFINE Kept == \A item \in queue \ queue' :
                     item[1].tag = "tshark" => KeptOrBuried(item)
<1>1. TelemetryInv /\ [Next]_vars => [Kept]_vars
  BY StepKeepsPayloads DEF TelemetryInv
<1>2. PayloadsKept <=> [][Kept]_vars
  BY DEF PayloadsKept, KeptOrBuried
<1> HIDE DEF Kept
<1> QED
  BY <1>1, <1>2, TelemetryInvariant, PTL DEF Spec

=============================================================================
