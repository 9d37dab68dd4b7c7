--------------------------------- MODULE Scan ---------------------------------
(***************************************************************************)
(* TelemetryStore.fetch_payloads and its generator _scan: one analysis run *)
(* reads the payload documents of a time range, page by page, with         *)
(* search_after over (@timestamp, _doc).  The consumer does nothing but    *)
(* collect, so a page is one step.  The filter on the sensor only selects  *)
(* fewer documents, like the upper bound of the range.                     *)
(***************************************************************************)
EXTENDS Streams, Scoring

CONSTANTS
  PageSize,   \* PAGE_SIZE
  Queries,    \* what an analyst may ask for: records with the fields limit
              \* (NoLimit for None), until and minScore
  PayloadOf   \* the payload in the body of a tshark event

NoLimit == -1

ASSUME ScanAssumption ==
  /\ PageSize \in Nat \ {0}
  /\ Queries \subseteq
       [limit : Nat \cup {NoLimit}, until : Nat, minScore : 0 .. MAX_SCORE]
  /\ \A e \in Events : e.tag = "tshark" =>
       e.body \in DOMAIN PayloadOf /\ PayloadOf[e.body] \in Payload

VARIABLES
  pc,           \* "idle", "paging", "done", or "failed" when a search raised
  limit, until, minScore, \* the arguments
  searchAfter,  \* the sort key of the last hit, <<>> before the first page
  yielded,      \* the documents yielded so far
  \* History, for the properties only.
  atStart,      \* the documents that were searchable when the scan began
  cursors,      \* the values of searchAfter so far
  moved,        \* the searchable documents have changed since
  partial       \* some shard did not answer one of the searches

args == <<limit, until, minScore>>
scanVars == <<pc, args, searchAfter, yielded, atStart, cursors, moved, partial>>

-----------------------------------------------------------------------------

\* The verdict in the document, and the one that the sensor sent.
Indexed == [body \in DOMAIN PayloadOf |-> RubyFilter(PayloadOf[body])]
Sent    == [body \in DOMAIN PayloadOf |-> ScorePayload(PayloadOf[body])]

\* document_to_record gets a record out of a document: TriageBand() knows its
\* band (the pipeline leaves out no other field that it needs).
Rebuilds(d) == Indexed[d.event.body].triage \in TriageBand

\* The query: the range of @timestamp, the dataset, which only the pcap stream
\* has, and the score that Logstash gave the document.
Wanted(d, t, m) ==
  /\ d.event.time <= t
  /\ Dataset(d.event) = "pcap.payload"
  /\ m > 0 => Indexed[d.event.body].score >= m

\* What a search finds: the documents that match the query, each with
\* its shard and its sort values, the second of them its _doc, from 0.
Matching(t, m) ==
  UNION { LET docs == Searchable(shards["pcap"][i]) IN
          { [doc |-> docs[k], sort |-> <<docs[k].event.time, k - 1>>, shard |-> i]
              : k \in { k \in DOMAIN docs : Wanted(docs[k], t, m) } }
            : i \in DOMAIN shards["pcap"] }

SortBefore(a, b) == a[1] < b[1] \/ (a[1] = b[1] /\ a[2] < b[2])

\* Mutant: "desc" for "asc".
HitAfter(h, g) == SortBefore(g.sort, h.sort)

\* Hits with equal sort values come in the order of their shards.
HitBefore(h, g) ==
  SortBefore(h.sort, g.sort) \/ (h.sort = g.sort /\ h.shard < g.shard)

\* The place of a hit among hits.
Place(h, hits) == Cardinality({ g \in hits : HitBefore(g, h) }) + 1

\* What a search may return: the hits, in the shards that answer it, whose sort
\* values come after search_after.
After(answering) ==
  { h \in Matching(until, minScore) :
      /\ h.shard \in answering
      /\ searchAfter = <<>> \/ SortBefore(searchAfter, h.sort) }

\* What it returns: the first of them, in order.
Hits(size, answering) ==
  LET after == After(answering)
      page  == { h \in after : Place(h, after) <= size }
  IN  [n \in 1 .. Cardinality(page) |-> CHOOSE h \in page : Place(h, after) = n]

\* Mutant: the count starts again with every page.
ReturnedOfPage == 0

\* How many documents the pages before have yielded.
Returned == Len(yielded)

\* The size of the next page.
NextSize ==
  LET remaining == limit - Returned IN
  IF limit = NoLimit \/ PageSize < remaining THEN PageSize ELSE remaining

ScanInit ==
  /\ pc = "idle"
  /\ limit = NoLimit /\ until = 0 /\ minScore = 0
  /\ searchAfter = <<>> /\ yielded = <<>>
  /\ atStart = {} /\ cursors = {} /\ moved = FALSE /\ partial = FALSE

\* The generator is created, with the query fixed.
Start(q) ==
  /\ pc = "idle"
  /\ pc' = "paging"
  /\ limit' = q.limit /\ until' = q.until /\ minScore' = q.minScore
  /\ atStart' = { h.doc : h \in Matching(q.until, q.minScore) }
  /\ UNCHANGED <<searchAfter, yielded, cursors, moved, partial, shards>>

\* size <= 0: nothing is asked for.
NothingWanted ==
  /\ pc = "paging"
  /\ NextSize <= 0
  /\ pc' = "done"
  /\ UNCHANGED <<args, searchAfter, yielded, atStart, cursors, moved, partial, shards>>

\* The n-th hit of a page is the last one that was asked for.
AtLimit(n) == limit # NoLimit /\ Returned + n >= limit

\* The documents of a page that the generator yields, up to the limit.
Taken(hits) ==
  [n \in { n \in DOMAIN hits : \A m \in 1 .. n - 1 : ~AtLimit(m) } |-> hits[n].doc]

\* Mutants of the next definition: a page that is not longer than a page is
\* taken for the last ("<=" for "<"); an empty page is not.
ShortPage(hits) == Len(hits) <= PageSize

LimitOnly(hits) == \E n \in DOMAIN hits : AtLimit(n)

\* The two returns of the loop.
LastPage(hits) == hits = <<>> \/ \E n \in DOMAIN hits : AtLimit(n)

\* Mutants of the next definition: hits[0] for hits[-1]; the timestamp only.
CursorAtFirst(hits) == IF hits = <<>> THEN searchAfter ELSE hits[1].sort

CursorOfTime(hits) == IF hits = <<>> THEN searchAfter ELSE <<Last(hits).sort[1]>>

\* Where the page after these hits begins.
Cursor(hits) == IF hits = <<>> THEN searchAfter ELSE Last(hits).sort

\* One turn of the loop.  The response also says which shards failed, but only
\* its hits are looked at.
FetchPage(answering) ==
  /\ pc = "paging"
  /\ NextSize > 0
  /\ answering # {}
  /\ LET hits == Hits(NextSize, answering) IN
     /\ yielded' = yielded \o Taken(hits)
     /\ IF LastPage(hits)
          THEN pc' = "done" /\ UNCHANGED <<searchAfter, cursors>>
          ELSE /\ UNCHANGED pc
               /\ searchAfter' = Cursor(hits)
               /\ cursors' = cursors \cup {searchAfter'}
  /\ partial' = (partial \/ answering # DOMAIN shards["pcap"])
  /\ UNCHANGED <<args, atStart, moved, shards>>

\* client.search() raises: so does fetch_payloads, and the records are gone.
SearchFails ==
  /\ pc = "paging"
  /\ NextSize > 0
  /\ pc' = "failed"
  /\ UNCHANGED <<args, searchAfter, yielded, atStart, cursors, moved, partial, shards>>

ScanNext ==
  \/ \E q \in Queries : Start(q)
  \/ NothingWanted
  \/ \E answering \in SUBSET DOMAIN shards["pcap"] : FetchPage(answering)
  \/ SearchFails

\* What fetch_payloads makes records of, by its place among the documents yielded:
\* document_to_record returns None for a document that it cannot rebuild, and the
\* next one is tried.
Records == [n \in { n \in DOMAIN yielded : Rebuilds(yielded[n]) } |-> yielded[n]]

=============================================================================
