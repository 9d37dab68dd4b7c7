------------------------------ MODULE Telemetry ------------------------------
(***************************************************************************)
(* The analysis plane: Logstash writes the data streams (Ingest) while an  *)
(* analysis run reads one of them (Scan).                                  *)
(***************************************************************************)
EXTENDS Ingest, Scan

vars == <<shards, ingestVars, scanVars>>

Init == StreamsInit /\ IngestInit /\ ScanInit

\* A refresh or a rollover under a scan: the client holds no point in time, so
\* its next search sees the shards as they are by then.
StreamsMove ==
  /\ \E s \in Stream :
       \/ Rollover(s)
       \/ \E i \in DOMAIN shards[s] :
            \E position \in 1 .. Len(shards[s][i].segments) + 1 :
              Refresh(s, i, position)
  /\ moved' = (moved \/ pc # "idle")
  /\ UNCHANGED <<ingestVars, pc, args, searchAfter, yielded, atStart, cursors, partial>>

Next ==
  \/ IngestNext /\ UNCHANGED scanVars
  \/ StreamsMove
  \/ ScanNext /\ UNCHANGED ingestVars

Spec == Init /\ [][Next]_vars

\* The loop goes on for as long as the process runs, and the client has a request
\* timeout: a search is answered, or it raises, which ends the scan as well.
ScanSteps ==
  /\ \/ NothingWanted
     \/ \E answering \in SUBSET DOMAIN shards["pcap"] : FetchPage(answering)
  /\ UNCHANGED ingestVars

LiveSpec == Spec /\ WF_vars(ScanSteps)

-----------------------------------------------------------------------------

\* The values of _doc.
DocNumber == 0 .. MaxSent + MaxLost - 1

\* Type invariant: in particular no index is beyond the last, and the cursor is
\* the sort key of a document.
TypeOK ==
  /\ shards \in [Stream -> Seq([segments : Seq(Seq(Document)),
                               buffer   : Seq(Document)])]
  /\ \A s \in Stream : Len(shards[s]) \in 1 .. MaxIndices
  /\ sent \in 0 .. MaxSent
  /\ queue \subseteq Events \X (1 .. MaxSent)
  /\ lost \in 0 .. MaxLost
  /\ deadLetters \in Seq(Events) /\ Len(deadLetters) <= MaxLetters
  /\ pc \in {"idle", "paging", "done", "failed"}
  /\ limit \in Nat \cup {NoLimit} /\ until \in Nat /\ minScore \in 0 .. MAX_SCORE
  /\ searchAfter \in {<<>>} \cup (Nat \X DocNumber)
  /\ yielded \in Seq(Document)
  /\ atStart \subseteq Document
  /\ cursors \subseteq Nat \X DocNumber
  /\ moved \in BOOLEAN /\ partial \in BOOLEAN

\* A payload record that Logstash has acknowledged is in the pcap stream, even
\* one with the same source, port and millisecond as another: the fingerprint
\* does not tell two payloads of one such moment apart, and may not become the
\* document id of this stream.  Only what the strict template rejects is not: it
\* is a dead letter then, unless these are at their limit.
PayloadsKept ==
  [][\A item \in queue \ queue' :
       item[1].tag = "tshark" =>
         \/ \E d \in Stored("pcap")' : d.event = item[1]
         \/ /\ Rejected(item[1])
            /\ \/ item[1] \in ToSet(deadLetters')
               \/ Len(deadLetters) = MaxLetters]_vars

\* Whatever is handed over again, and however many answers are lost, an index
\* of the honeypot stream holds a session event once.
SessionsOnce ==
  \A i \in DOMAIN shards["honeypot"] :
    \A d, e \in StoredIn(shards["honeypot"][i]) :
      Fingerprint(d.event) = Fingerprint(e.event) => d = e

\* The documents come in the order of their timestamps, even if the shards
\* change between two pages.
TimeOrdered ==
  \A m, n \in DOMAIN yielded :
    m < n => yielded[m].event.time <= yielded[n].event.time

\* How often a document is among the records, and the documents that should be.
Count(d) == Cardinality({ n \in DOMAIN Records : Records[n] = d })

Expected == { d \in atStart : Rebuilds(d) }

\* A page ended within the millisecond of the document, so that the cursor has to
\* tell it from its ties by _doc.  (Not only full pages end: a short one is
\* followed by another, which may find what has become searchable meanwhile.)
AtPageEnd(d) == \E c \in cursors : c # <<>> /\ c[1] = d.event.time

\* --limit bounds the documents read, and what it cuts off are the latest: no
\* record that was left out is earlier than a document that was read, unless a
\* page ended within its millisecond or a shard did not answer.
LimitKept ==
  /\ limit # NoLimit => Len(yielded) <= limit
  /\ pc = "done" /\ ~partial /\ Len(yielded) = limit =>
       \A d \in Expected : Count(d) = 0 /\ ~AtPageEnd(d) =>
         \A n \in DOMAIN yielded : yielded[n].event.time <= d.event.time

\* A readable document that was searchable when an unlimited scan began is
\* among the records exactly once, whatever else becomes searchable meanwhile,
\* unless a page ended within its millisecond: only the ties that _doc has to
\* break are at risk.
OnlyTiesSuffer ==
  pc = "done" /\ limit = NoLimit /\ ~partial =>
    \A d \in Expected : ~AtPageEnd(d) => Count(d) = 1

\* If nothing became searchable meanwhile, and no two documents of different
\* indices have equal sort values, the records are the readable documents of
\* the range, each once; a document that cannot be rebuilt costs no other.
SteadyScanExact ==
  pc = "done" /\ limit = NoLimit /\ ~partial /\ ~moved
    /\ (\A h, g \in Matching(until, minScore) : h.sort = g.sort => h = g)
  => /\ ToSet(Records) = Expected
     /\ IsInjective(Records)

\* The payload records of the sensors in the range of a scan, with the verdict
\* that the extraction service gave them, and replay would give them again.
Captured ==
  { d \in UNION { ToSet(Searchable(index)) : index \in ToSet(shards["pcap"]) } :
      Wanted(d, until, 0) }

\* An undisturbed scan of everything (no ties, as above).
Undisturbed ==
  /\ pc = "done" /\ limit = NoLimit /\ ~partial /\ ~moved
  /\ \A h, g \in Matching(until, 0) : h.sort = g.sort => h = g

Analysed(d) ==
  \E n \in DOMAIN Records :
    Records[n] = d /\ Indexed[d.event.body] = Sent[d.event.body]

\* What the sensor found worth a look, by signatures that payload_ascii still
\* shows to Logstash, is analysed with the verdict of the sensor: on the way,
\* nothing that is at or above --min-score is filtered out, dropped as malformed
\* or rated otherwise by the second table of weights.
MatchedIsAnalysed ==
  Undisturbed =>
    \A d \in Captured :
      LET p == PayloadOf[d.event.body] IN
      p.matches # {} /\ p.head = p.matches /\ Sent[d.event.body].score >= minScore
        => Analysed(d)

\* "a payload receives the same verdict either way" (architecture.md): what
\* replay rates suspicious or above is not less to analyse.
SameVerdictEitherWay ==
  Undisturbed /\ minScore = 0 =>
    \A d \in Captured :
      Sent[d.event.body].triage \in Actionable => Analysed(d)

\* Every scan ends, although documents keep coming in.
ScanEnds == pc = "paging" ~> pc \in {"done", "failed"}

\* 50-enrich.conf: "Fingerprint the event so that a capture replayed twice does
\* not duplicate documents in the index."
ReplayAddsNothing ==
  \A s \in Stream : \A d, e \in Stored(s) : d.event = e.event => d = e

=============================================================================
