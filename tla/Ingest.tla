-------------------------------- MODULE Ingest --------------------------------
(***************************************************************************)
(* The Logstash pipeline between its inputs and the data streams: the      *)
(* persisted queue, the fingerprint of 50-enrich.conf, the routing of      *)
(* 90-output.conf and the bulk requests, which are retried until they are  *)
(* answered.  A source may hand over the same event again: the extraction  *)
(* service after a crash, an archived capture put back into the capture    *)
(* directory, a log file read again without its sincedb.                   *)
(***************************************************************************)
EXTENDS Streams

CONSTANTS
  MaxSent,    \* bound on the events handed over, repetitions included
  MaxLost,    \* bound on the answers of Elasticsearch that get lost
  MaxLetters  \* dead_letter_queue.max_bytes, in events

ASSUME BoundsAssumption ==
  MaxSent \in Nat \ {0} /\ MaxLost \in Nat /\ MaxLetters \in Nat

VARIABLES
  sent,        \* the number of events handed over so far
  queue,       \* the persisted queue: pairs of an event and its number
  lost,        \* the answers lost so far
  deadLetters  \* the dead letter queue, which nothing here reads

ingestVars == <<sent, queue, lost, deadLetters>>

-----------------------------------------------------------------------------

\* [event][id]: what makes two events the same one.
Fingerprint(e) == <<e.source, e.port, e.time, Dataset(e)>>

\* The first branch of the output that matches.
StreamOf(e) == IF e.tag = "cowrie" THEN "honeypot" ELSE "pcap"

\* Mutants of the next definition: no branch has a document_id; all have one.
NoDocumentId(e) == FALSE

EveryDocumentId(e) == TRUE

\* Only the honeypot branch names documents by the fingerprint; elsewhere
\* Elasticsearch invents an id for every request.
HasDocumentId(e) == StreamOf(e) = "honeypot"

\* A document with a field or a value that the template does not take is
\* rejected (400): the one of the pcap stream is strict about unknown fields.
Rejected(e) == ~e.mapped

\* "create" refuses an id that the index written to already has (409), and
\* Logstash drops the event.
Refused(e) ==
  /\ HasDocumentId(e)
  /\ \E d \in StoredIn(Last(shards[StreamOf(e)])) :
       Fingerprint(d.event) = Fingerprint(e)

IngestInit == sent = 0 /\ queue = {} /\ lost = 0 /\ deadLetters = <<>>

\* An input puts an event into the queue, where it survives a restart.
Receive(e) ==
  /\ sent < MaxSent
  /\ sent' = sent + 1
  /\ queue' = queue \cup {<<e, sent + 1>>}
  /\ UNCHANGED <<lost, deadLetters, shards>>

\* What Elasticsearch makes of the request for event e.
Store(e) ==
  LET s == StreamOf(e)
      d == [event |-> e, nr |-> Cardinality(AllStored) + 1] IN
  shards' = IF Rejected(e) \/ Refused(e) THEN shards
            ELSE [shards EXCEPT ![s][Len(shards[s])].buffer = Append(@, d)]

\* What Logstash does about a rejected document: it keeps the event as a dead
\* letter, and drops it if there is no room for one.
Bury(e) ==
  deadLetters' = IF Rejected(e) /\ Len(deadLetters) < MaxLetters
                   THEN Append(deadLetters, e) ELSE deadLetters

\* A worker takes any queued event (pipeline.ordered is false) through the
\* filters and the output, and acknowledges it.
Index(item) ==
  /\ Store(item[1])
  /\ Bury(item[1])
  /\ queue' = queue \ {item}
  /\ UNCHANGED <<sent, lost>>

\* The same, but the answer is lost (a timeout), or Logstash is restarted
\* before the acknowledgement: the event is still in the queue.
IndexUnanswered(item) ==
  /\ lost < MaxLost
  /\ lost' = lost + 1
  /\ Store(item[1])
  /\ Bury(item[1]) \/ UNCHANGED deadLetters
  /\ UNCHANGED <<sent, queue>>

IngestNext ==
  \/ \E e \in Events : Receive(e)
  \/ \E item \in queue : Index(item) \/ IndexUnanswered(item)

=============================================================================
