------------------------------- MODULE Streams -------------------------------
(***************************************************************************)
(* The data streams of Elasticsearch, as the repository's own templates    *)
(* configure them: one primary shard per backing index, no replica, a      *)
(* refresh that makes the documents of the last interval searchable as one *)
(* more segment, and a rollover that starts another backing index.  The    *)
(* pipeline (Ingest) writes them and the analysis toolkit (Scan) reads     *)
(* them.  Documents of this age are not deleted.                           *)
(***************************************************************************)
EXTENDS Integers, Sequences, FiniteSets, SequencesExt

CONSTANTS
  Events,     \* what the sources hand to Logstash: records with the fields
              \* tag, source, port, time, body, and mapped: that the template
              \* of its stream takes every field the filters leave in it
  MaxIndices  \* bound on the backing indices of a stream

ASSUME EventsAssumption ==
  \A e \in Events : e.tag \in {"cowrie", "tshark"} /\ e.time \in Nat /\ e.mapped \in BOOLEAN
ASSUME MaxIndicesAssumption == MaxIndices \in Nat \ {0}

VARIABLE
  shards  \* shards[s][i]: the shard of backing index i of stream s, that is
          \* the documents of its segments and those not yet searchable

-----------------------------------------------------------------------------

Stream == {"honeypot", "pcap"}

\* The date filter sets the time of the event itself, so a second shipping of
\* it has the same fields again.
Dataset(e) == IF e.tag = "tshark" THEN "pcap.payload" ELSE "honeypot.session"

\* A document: the event, and a number that tells it from other documents.
Document == [event : Events, nr : Nat]

EmptyIndex == [segments |-> <<>>, buffer |-> <<>>]

\* The documents a search of the index can see, in the order of _doc.
Searchable(index) == FlattenSeq(index.segments)

StoredIn(index) ==
  ToSet(index.buffer) \cup UNION { ToSet(segment) : segment \in ToSet(index.segments) }

Stored(s) == UNION { StoredIn(shards[s][i]) : i \in DOMAIN shards[s] }

AllStored == UNION { Stored(s) : s \in Stream }

StreamsInit == shards = [s \in Stream |-> <<EmptyIndex>>]

\* A refresh turns the buffer into a segment.  Lucene numbers the documents of
\* a shard segment by segment, and where a new segment comes in that order is
\* its own business (a data stream puts the most recent ones first).
Refresh(s, i, position) ==
  LET index == shards[s][i] IN
  /\ index.buffer # <<>>
  /\ position \in 1 .. Len(index.segments) + 1
  /\ shards' = [shards EXCEPT ![s][i] =
       [segments |-> InsertAt(index.segments, position, index.buffer),
        buffer   |-> <<>>]]

\* The policy of the stream is due (max_age, max_primary_shard_size).
Rollover(s) ==
  /\ Len(shards[s]) < MaxIndices
  /\ StoredIn(Last(shards[s])) # {}
  /\ shards' = [shards EXCEPT ![s] = Append(@, EmptyIndex)]

=============================================================================
