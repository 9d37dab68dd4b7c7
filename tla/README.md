# A verification development for Deception Shield

Deception Shield is an AWS honeypot sensor network. On each sensor tcpdump records
every packet into rotating capture files; an extraction service hands finished
captures to tshark, ships the records to Logstash, archives the captures to S3 and
deletes them. Logstash enriches events and routes them into Elasticsearch, and an
analysis toolkit reads them back and correlates the sources into campaigns. This
directory holds TLA+ models of that system, TLC runs on small instances, and proofs
checked by TLAPS.

## 1. Inventory: the system's parts

| Part | Source | State it keeps | Operations | Talks to |
|---|---|---|---|---|
| packet capture | `capture/capture.sh`, its systemd unit | the capture files | open a rotation, write a frame, rotate (`-G`, `-C`), gzip (`-z`) | extraction service, through the directory only |
| extraction service | `analysis/deception_shield/extractor.py` (`ExtractorService`, `CaptureArchiver`) | `_processed`, `_sizes`, `_running`, the state file `.processed.json`, objects in S3 | `_settled_captures`, `process`, `archive`, `unlink`, `_save_state`, `_load_state`, `run`, `stop` | directory, tshark, Logstash, S3, systemd |
| Logstash shipper | `extractor.py` (`LogstashShipper`) | the cached socket | `_connect`, `send` (two attempts), `close` | Logstash over TCP |
| capture dissection | `analysis/deception_shield/pcap.py` | one tshark process, its two pipes, a temporary file | `_materialise`, `extract_records`, `parse_field_line` | the service as its caller, tshark |
| campaign correlation | `analysis/deception_shield/patterns.py` | a union-find forest per call | `correlate_campaigns` with `find` and `union` | the analysis commands |
| payload scoring | `scoring.py`, and again in `patterns/score_payload.rb` of Logstash | none beyond a call | `score_payload`, `filter(event)` | dissection; pipeline; the bands of `models.py` |
| records and reports | `models.py`, `report.py`, the rest of `patterns.py`, `cli.py` | none beyond a call | `analyse`: profiles, patterns, techniques, sweeps, ranking, counts | the analysis commands |
| telemetry store | `es_client.py` | the cursor of a scan | `_scan`, `top_sources`, `document_to_record` | Elasticsearch |
| Logstash pipeline | `stack/logstash` | persisted queue, dead letter queue, sincedb (in Logstash) | five inputs, enrichment, fingerprint, routing | Elasticsearch |
| scripts, deployment, dashboards | `scripts`, `ansible`, `infra`, `stack` | none | idempotent set-up | |

What is hard here, and where:

* The capture side and the service share a directory and nothing else. The service
  guesses from two equal sizes that a file is finished (`extractor.py:181`), while
  gzip replaces each file by one of another name under it.
* `process` has effects on four stores - Logstash, S3, the directory, the state file -
  one after the other, with a crash or a failure possible between any two.
* The state file is truncated before it is written and holds 5000 names only.
* `send` learns of a dead connection one write too late, or half way through a line.
* `extract_records` reads one of tshark's two pipes while tshark writes both.
* Documents that arrive twice, or that the strict template of their stream rejects, and a
  scan that pages over numbers Elasticsearch may change between two requests.
* `find` rewrites the forest that an earlier `find` has returned a root of.
* Links are transitive, so a campaign may be a chain whose ends have nothing in common.
* A verdict is computed twice, in two languages over two views of the payload, and the
  second one overwrites the first on the way into the index.
* A report is a set of passes over the same records, each with its own keys.

`PROJECT.json` lists each hazard at its line with the properties that would notice it
going wrong, also those of the parts that have no module.

## 2. Modules

```
  CaptureDir ---- PacketCapture ---.
       `--------- Extractor -------- Sensor ---- SensorInvariants ---- MCSensor
                                   /                 `-- SensorProofs - ReleaseProofs
              Custody ------------'  (refined by Sensor)

  Dissection --.
  Shipper ------ Processing ---- MCProcessing   (One == INSTANCE Extractor: ProcessKept)
     `- ShipperProofs - ProcessingProofs

  Campaigns --.
               Findings ---- MCFindings
              '     `------- CampaignProofs - FindingsProofs
         Scoring
              `------- Scan ----.
              .-------'          Telemetry ---- MCTelemetry
         Streams ------ Ingest -'       `------ TelemetryProofs - ScanProofs
```

**`CaptureDir`** - the shared directory: a name is a rotation and plain or `.gz`, its
size counts the frames in it (`NoFile` without a file). Sizes are the only data that
`_settled_captures` sees, and a compressed file that is cut off is unreadable.

**`PacketCapture`** - tcpdump and the gzip it forks per rotation, one action per step
that changes the directory. `phase[r]` is a rotation's life: none, open, closed,
zipping, done. `CaptureKilled` is a SIGKILL or power loss, `CaptureStopped` the
restart that ansible and systemd do.

**`Extractor`** - `ExtractorService` as one thread whose `pc` stands at the points of
`run` and `process` between two effects; see the table in the module's header.
Exceptions go where the code sends them: `DissectEnds` (caught in `process`), `Raise`
(caught in `run`, which drops the rest of the poll). `Mark` and `Save` are the two
halves of `write_text`. `Crash` loses the memory, `Stop` is the signal handler.
`send` is a Boolean here; `received` counts how often it was True for a frame.

**`Sensor`** - both side by side, the assumption `Timely`, fairness, and the
properties. **`Custody`** is the abstract promise: closed rotations are on the sensor or
in S3, and only archived ones leave. `Sensor` refines it (`CustodyKept`).

**`Shipper`** - `LogstashShipper` with TCP: a connection is live, closed by the peer
(`fin`), reset, or silent; each has lines that Logstash can still read, and a timed out
`sendall` may leave a fragment of one. A connection may be refused or time out although
Logstash listens.

**`Dissection`** - `extract_records` as a generator, tshark as a process, two bounded
pipes. Its ends are a return, an exception (of `wait`, of the caller at the yield, of a
line that cannot be read), and the exception in `_materialise`.

**`Processing`** - the loop of `process` over both for one capture: what `Extractor`
does in one step per record is opened up here. `ProcessKept` says that it is the same
thing: under the instance `One` of `Extractor` every step of `Processing` is a
`TsharkMissing`, `ShipDelivered`, `ShipDropped` or `DissectEnds`, or it changes nothing
there. So the Boolean that `Extractor` takes `send` for, and the point at which
`process` learns that tshark is missing, are results here and not assumptions.

**`Scoring`** - the verdict on a payload, as `score_payload` and as the filter of
Logstash compute it. A payload is what each side sees of it: the signatures it finds
(`matches` in all of it, `head` in `payload_ascii`) and its printable share. Regular
expressions are not modelled; weights, cap, bands and the unprintable case are.

**`Campaigns`** - `correlate_campaigns`: what a source did (signatures, ports, first and
last time), the nested loops over pairs, `find` one iteration at a time, `union`, and the
labelling at the end. **`Findings`** - `analyse`: histories of records, from which
`Behaviour` computes what `Campaigns` sees of a source, and the other parts of a report
over the same records, as operators
(`Record` and `Judged` say what a record is, whichever way it came): `derive_patterns`,
`technique_breakdown`, `detect_sweeps`, `summarise_sources`, `triage_counts`, and the fields of a campaign.

**`Streams`** - the data streams: backing indices of one shard, whose segments decide
the numbers `_doc`; a refresh may put its segment anywhere in that order, a rollover
starts another index. Elasticsearch is not part of the repository: what is modelled is
what its templates and the two users of the streams rely on.

**`Ingest`** - Logstash: the persisted queue, the fingerprint, the branch of the output,
and bulk requests that are retried when their answer is lost. The same event may be
handed over again (a re-shipped or replayed capture). Elasticsearch stores an event,
refuses it for its id (409), or rejects it because the strict template does not know a
field of it (400, `Rejected`); Logstash acknowledges all three, and writes the last to the
dead letter queue as long as that has room (`Bury`, `MaxLetters` for `max_bytes`). Which
events are rejected is left open: `mapped` is a field of the event. **`Scan`** - `fetch_payloads` with
`_scan`, one page per step: its size, the hits behind `search_after`, the check of the
limit after each hit, the two returns, the new cursor; `_doc` counts from 0, and a hit's
place is its rank in the order of the sort keys, ties of two indices in theirs. `cursors` is a history variable, the values `search_after` had, so that
the properties can say where pages ended (`AtPageEnd`).
Shards may fail to answer, or the search raises. The query compares
`--min-score` with the score Logstash gave, and `document_to_record` gives a record only
of a document whose band it knows (`Rebuilds`). **`Telemetry`** - both at once.

Left out everywhere: logging, the summary, the wording of commands and reports.
Abstracted: a poll looks at all files in one step (the code looks at each once, in
order; a condition of the poll concerns one file only); a page of a scan is one step
(its consumer only collects); the 5000 names of the state
file are `StateLimit`; which rows of tshark become records is left open; the similarity
threshold is in percent, compared in integers. The `close` at the end of `run` is the
end of the process. `-W` does not delete files when tcpdump is given `-G` and `-C`, so
the model has no ring.

## 3. Runs

`tlc -config <cfg> <module>`; none takes more than about two minutes. "violation" runs show a
disagreement between the code and what the repository says of it.

| Run | Config | What it shows |
|---|---|---|
| `custody` | `MCSensor_custody.cfg` | whatever fails, no recorded frame is lost, nothing unfinished is processed, nothing leaves the sensor before it was shipped, and `Custody` is implemented |
| `once` | `MCSensor_once.cfg` | without crashes no frame is shipped twice, over restarts and both names of a rotation |
| `handled` | `MCSensor_handled.cfg` | every finished capture is handled some day, and not taken up again, through crashes, kills, stops and lost state files |
| `capture` | `MCProcessing_capture.cfg` | one capture through tshark, generator and `send`: it ends, leaves no process, socket or temporary file, doubles no record, loses none without a restart of Logstash, and implements the dissection of `Extractor` |
| `components` | `MCFindings_components.cfg` | campaigns are the connected components of the links, without a silence longer than the window, `find` ends, and the separately computed parts of a report agree |
| `telemetry` | `MCTelemetry_scan.cfg` | an acknowledged payload record is in its stream or, if the template rejects it and there is room, a dead letter; no session event is double in an index; a paged scan ends, keeps its limit and the order of time, is exact over a steady store, and otherwise misses or repeats nothing but ties at a page end; what matched a signature is analysed with the sensor's verdict |
| `quiet_loss` | `MCSensor_quietloss.cfg` | *violation*: an open capture without a frame for one poll interval is uploaded and unlinked under tcpdump; the rest of the rotation is lost |
| `unarchived` | `MCSensor_unarchived.cfg` | *violation*: an upload that fails once is never tried again |
| `stale` | `MCProcessing_stale.cfg` | *violation*: the first record after a restart of Logstash is discarded, and `send` returns True |
| `stderr` | `MCProcessing_stderr.cfg` | *violation*: a tshark that fills its stderr pipe and the service wait for each other for ever |
| `replay` | `MCTelemetry_replay.cfg` | *violation*: a payload record that arrives twice is stored twice, since its branch of the output has no `document_id` |
| `verdict` | `MCTelemetry_verdict.cfg` | *violation*: an unprintable payload that replay calls suspicious is dropped from an analysis of the index, whose band "inspect" is not a `TriageBand` |

Some further disagreements are visible in the models without a run of their own:

* Shipping is at least once. A crash between the first record and the state file ships
  the capture's records again, although `_load_state` remembers "what has been handled so
  a restart does not re-ship records" (`extractor.py:149`, `test_extractor.py:85`).
  `ShippedAtMostOnce` is checked with orderly stops, for which the claim is meant.
* A record for which `send` returns False is dropped although its capture is deleted
  afterwards (`ReleasedImpliesShipped` needs the absence of fault "logstash").
* A compressed capture that cannot be expanded leaves its temporary file (`TempRemoved`
  excepts `ExpandRaises`). A capture that cannot be unlinked (`Undeletable`) ends every
  poll before the captures after it.
* Without a bucket, a name trimmed from the state file is processed again.
* `_scan` does not page "in stable order" (`es_client.py:83`): `OnlyTiesSuffer` and
  `SteadyScanExact` say what is left of that promise, and neither holds without its
  exceptions.
* The cap of the score does not do what its comment says (`score_payload.rb:29`): many
  low weights still outrank one conclusive rule, up to 100.
* "Shared behaviour" in a report (`report.py:180`) is the union of the members'
  signatures (`patterns.py:177`); no signature need be common to all.
  `CampaignsAreCoherent` says what is common: each member shares one with another.
* `correlate_campaigns` speaks of attack signatures, but `non_printable_payload` links
  sources as well.
* `technique_breakdown` adds up the sources of each pattern, so a source that shows two
  patterns of one technique counts twice; `CampaignsMatchFindings` takes the figure for
  an upper bound.
* A suspicious record of score 0 (an unprintable payload) ranks its source last;
  `SeriousAreListed` is about the two bands above.
* Nothing in the repository reads the dead letter queue (`logstash.yml:13`), so a payload
  record that the strict template rejects is in no analysis, although its capture may be
  deleted.
* `fetch-captures.sh` stores the captures of all sensors under their base names.

### Faults and bounds

`Faults` switches what the environment may do, so a run says under which of them its
properties hold: "kill" (capture side), "crash" and "stop" (service), "tshark",
"dissect", "logstash", "upload", "save" (failures of the calls of those names), "slow"
(drops `Timely`). `Undeletable` are files that cannot be unlinked.

* Two rotations with up to two frames each: enough for a file that is cut off, one that
  grows between polls, two files of one rotation in one poll, a poll that is aborted
  with work left, and an open rotation beside a finished one. `once` has three, so that
  the four names of the state are fewer than the six there are.
* One crash or stop: the properties that a second one could break are invariants of
  arbitrary states after the first; the theorems below hold for any number.
* `StateLimit` 1 in `handled`, 2 in `custody`: trimming happens.
* `received` counts to two: no property tells more apart.
* `capture`: three records, two lines of room, two restarts, pipes of one entry. A
  second stale connection, a fragment with lines before it and a retry that meets a
  restarted Logstash all happen. `stderr` needs one complaint more than fits.
* `components`: four sources, all assignments of ten histories of one to four records
  that make chains, a link by one signature only, port-only overlap, windows apart, an
  unprintable and an unmatched payload, and sources on several ports; forests of depth two
  occur, so paths are halved. With `PortThreshold` 4 two histories are sweeps: they come
  into one campaign by their ports, one of them into a campaign by two signatures and a
  single port, which is just at the threshold, and neither by one signature and one port.
  `TopLimit` 2 cuts the ranking.
* `telemetry`: two hand-overs and one lost answer of five events make up to three
  documents, two indices and pages of two, so that a page is full, the next one is not,
  ties fall on a page end or on two indices, and a segment comes in between; two of the
  events share time, source and port, one body cannot be rebuilt, one is on the edge of a
  band and of `--min-score`, one is rejected by the template, alone or twice, so that the
  one dead letter there is room for is or is not enough; the limits are none, 0 and 2, the
  last of which ends a scan on a full page or on two pages of one document. The proofs of
  the scan cover the limits above a page, which need more documents.

`CHECK_DEADLOCK FALSE` stands where a run really ends: a capture is processed, the
campaigns are computed, a scan has ended. `Sensor` never stops, and deadlock is checked there.

### Fairness

* `Sensor`: weak fairness of the service as a whole (systemd has `Restart=always`,
  and nothing in its loop waits for ever at this level), and of each rotation's
  closing and gzip. None for frames, faults or stops. `unarchived` adds strong
  fairness of a successful upload, to show that even then nothing is uploaded twice.
* `Processing`: weak fairness of the thread (socket calls and `wait` have timeouts)
  and of tshark working its capture off - not of its exit when "hangs" is on, and none
  of Logstash, which may be down for ever.
* `Campaigns`: weak fairness of the only thread.
* `Telemetry`: weak fairness of the turns of the scan's loop; none of Logstash,
  refreshes or rollovers, so documents may come in at any moment, or never.

### The assumption `Timely`

`_settled_captures` takes a file for closed when two polls, 60 s apart, see one size.
`Timely` says that tcpdump and gzip do change every file they still work on between two
polls. It is an assumption on traffic and load, not a fact about the code: `custody`,
`once` and `handled` hold under it, and `quiet_loss` drops it.

## 4. Proofs

All proofs are checked by TLAPS, for every value of the constants that satisfies the
named assumptions of the modules.

| Theorem | Module | Says |
|---|---|---|
| `SensorTypeOK` | `SensorProofs` | type invariant of the sensor |
| `SensorEvidenceInv`, `SensorEvidenceRetained`, `SensorOnlyClosed` | `SensorProofs` | no recorded frame is lost; only finished files are processed (if `"slow" \notin Faults`) |
| `SensorReleasedImpliesShipped`, `SensorShippedInv` | `ReleaseProofs` | what leaves the sensor was shipped (if none of "slow", "logstash", "dissect" is on) |
| `SensorCustodyKept` | `ReleaseProofs` | `Sensor` refines `Custody` |
| `SensorNeverReprocessed` | `ReleaseProofs` | a capture is handled once (if `ArchiverWorks`: a bucket, none of "slow" and "upload", files can be unlinked) |
| `SensorShippedAtMostOnce` | `ReleaseProofs` | no frame is shipped twice (if `OrderlyStops`: none of "slow", "kill", "crash" and "save", files can be unlinked, and the state file holds a name per rotation) |
| `CampaignTypeOK` | `CampaignProofs` | type invariant of the correlation |
| `CampaignSamePartition` | `CampaignProofs` | at every step union-find classes = components of the links so far |
| `CampaignComponents` | `CampaignProofs` | two sources are in one campaign iff links connect them |
| `CampaignCoherent` | `CampaignProofs` | each source of a campaign shares a signature, within the window, with another, and not that alone |
| `CampaignSweepsApart` | `CampaignProofs` | a source that sweeps comes into a campaign by one on two of its ports or more, or by signatures that outweigh the ports of a sweep |
| `CampaignUnionFind`, `CampaignContinuous` | `CampaignProofs` | the forest is acyclic and the roots in hand are right; no silence longer than the window splits a campaign |
| `CampaignFindEnds` | `CampaignProofs` | each iteration of `find` leaves fewer nodes above it: the loop ends |
| `FindingsMatch` | `FindingsProofs` | campaigns, patterns, techniques and window of a report agree (`CampaignsMatchFindings`) |
| `FindingsSeriousListed` | `FindingsProofs` | the ranking drops no serious source for a lesser one, whatever its limit, and agrees with the counts (`SeriousAreListed`) |
| `PayloadsAreJudged`, `HistoriesAreBehaviours` | `FindingsProofs` | what `score_payload` makes of any payload, and `correlate_campaigns` of any records, meets the assumptions `BehavioursOfRecords` and `BehavioursAssumption` |
| `TypeCorrect`, `NeverSentTwice`, `FalseIsLost`, `FragmentsEndConnections`, `SocketsClosed`, `OnlyRestartsLose` | `ProcessingProofs` | what `send` promises, with any number of records, restarts and lines of room |
| `ReturnsComplete`, `ChildEnds`, `TempEnds` | `ProcessingProofs` | what `extract_records` leaves behind, for every combination of faults |
| `ProcessImplements` | `ProcessingProofs` | `Processing` implements the dissection steps of `Extractor` (`ProcessKept`) |
| `TelemetrySessionsOnce`, `TelemetryPayloadsKept` | `TelemetryProofs` | a session event is once in an index; a payload record leaves the queue for the stream or, if rejected and there is room, for the dead letters only |
| `SameVerdict`, `KnownBand` | `TelemetryProofs` | where both scorings see the same signatures, at least one, they agree; and the band is known |
| `TelemetryTypeCorrect` | `ScanProofs` | type invariant of streams, pipeline and scan |
| `TelemetryTimeOrdered`, `TelemetryLimitKept` | `ScanProofs` | records come in the order of time; the limit is kept, and cuts off nothing earlier than what it leaves but ties of a cursor |
| `TelemetryOnlyTiesSuffer` | `ScanProofs` | whatever moves meanwhile, a readable document is missed or repeated only if a page ended in its millisecond |
| `TelemetrySteadyScanExact` | `ScanProofs` | if nothing moves and no sort keys are equal, a scan returns the readable documents, each once |
| `TelemetryTurnsEnd` | `ScanProofs` | each turn of a scan is the last or passes a sort key for good: the loop ends |
| `TelemetryMatchedIsAnalysed` | `ScanProofs` | what both scorings match is analysed with the sensor's verdict |

**Evidence.** `EvidenceRetained` is not inductive: a step may unlink the last file of a
rotation, and only what the rest of the state says about it shows that there is a copy.
`EvidenceInv` adds the size of both files per phase (`FilesOf`), that S3 copies are of
finished files (`CopyOf`), that everything queued or in hand is finished (`InHand`) and
that `unlink` follows an upload (`UnlinksCopied`). The proof goes rotation by rotation:
a capture step touches one (a kill: all, but no file that matters), a service step
touches at most the capture in hand, which is finished. `Poll` is where `Timely` is
used, and nowhere else. **Release** adds `Progress`: what `process` counts as sent has
arrived, and past the dissection a complete capture has been shipped. The refinement
follows from the two invariants, step by step.

**Once.** `NeverReprocessed` follows from `GoneInv`: what was handled has no file, and a
finished rotation gets none again. It needs no memory, so crashes and lost state files
are allowed. `ShippedAtMostOnce` is the opposite case: uploads may fail, so files stay,
and everything rests on the names. `OnceInv` says that without kills a finished rotation
exists as `.gz` only (`OneName`, so that it is never taken under two names), that memory
and state file agree but between the two halves of the save (`MemoryKept`; `NothingTrimmed`
counts the names), and that a capture which is neither remembered nor in hand was not
shipped, one in hand no further than `process` got (`ShippedOnce`). `handled`
and `once` check the two under just these assumptions, with one crash or stop.

**Campaigns.** The proof never speaks of paths. A class is known by the sets that are
closed under it; halving a path leaves the closed sets alone, and a union keeps those
that do not separate the two roots - as a new link does with the components. So the
closed sets of forest and links stay the same (`SamePartition`). `UnionFindInv` carries
what that needs: no cycle (every set closed upwards has a root), different roots are
separated by a closed set, and `find` stays in its class. Continuity is about any cut of
a campaign in time: were it longer than the window, the sources before it would be closed
under the links. `CampaignPartner` finds each member a link within its campaign, since
alone it would be closed under them; coherence and the distance of sweeps are then about
two similar profiles, by the cardinalities of their parts (`SharesMore`,
`SignaturesOutweigh`). `SweepsStayApart` excepts what the code does not exclude: with a
threshold of 50 percent and 15 ports, a source on one of the ports of a sweep would need 13
signatures in common with it. With two ports or more in common the property says nothing;
how many it takes then depends on the signatures as well.

**Processing.** `ShipperProofs` holds the invariant of the shipper: a record has at most
one whole line anywhere (`OneLine`), none once Logstash read it (`ReadOnce`), and none
at all before `send` returned True (`OnlyAnswered`), which needs that a line that was
sent in part stays a fragment at the end of a closed connection (`FragmentsAreLast`);
that lines fit (`Room`), that records are taken in turn (`InTurn`), and that nothing is
lost before the first restart (`NoneLost`). `Shipper` counts lines; the invariant speaks
of single places, which the provers can handle, and `WaitingAtMostOne` leads from one to the
other. `ProcessingProofs` adds the generator: tshark lives only while its output is
wanted (`Tended`), the loop ends with an empty pipe (`Drained`), `send` is at work while
a record is in hand (`Handed`), none was handed over before tshark started (`Early`). The
refinement goes step by step from there.

**Telemetry.** The proof needs only that there is an index to write to and what a step
does to the documents of each: moves them (a refresh, a rollover), adds one whose request
was neither refused nor rejected, or nothing (`StreamStep`). What leaves the queue is then
stored or buried (`KeptOrBuried`), and a rejected event finds room or the dead letters full
(`BuryFacts`). `InsertAtRange` says of the community
modules' `InsertAt` that it loses no element.

**Scan.** `IngestInv` says of the streams that no document is stored twice in one and that
documents are numbered in the order of arrival; stored and queued ones together are at most
as many as were handed over or indexed again, which bounds `_doc`, and so the type of a
cursor. `ScanInv` has three parts. `PagesInv` does not speak of the streams: what was
yielded is sorted and not after the cursor (`AtCursor`), and of the documents that were there
when the scan began each is yielded, or the scan has not got there, or a page ended in its
millisecond (`Covered`); none is yielded twice but such a one (`NoTwice`). It is not inductive
alone: that the next page has what lies behind the cursor needs that those documents are
still found (`StillThere`), however refreshes and rollovers moved them. `Steady` is the exact
account while nothing moves: what is yielded is what the cursor has passed. A page is the
first hits in the order of their ranks; that it is a sequence without gaps, and what is
not on it comes after all of it, is `PageFacts`, which counts the hits before a hit. That
the check of the limit after each hit cuts none off a page, as its size has made it short
enough, is `PageTaken`.

The attempt to prove the properties changed two of them, which were false for instances the
run did not reach. `OnlyTiesSuffer` took the pages to end at the multiples of `PageSize`; but
the loop ends on an empty page, not on a short one, and documents that come in after a short
page continue behind it (it takes pages of three). `LimitKept` said that a limit cuts off nothing
earlier than what it leaves, but a tie of two indices at a page end is lost before the limit is
reached (it takes a limit above the page size). Both now speak of the cursors the scan had.

**Findings.** The operators of a report are maxima, minima and sums over finite sets, and
induction over them is out of reach: instead, of the subsets for which a claim fails one has
the fewest members, and taking one member away gives a smaller (`NoneBad`). So sums exist
(`SumExists`), bound their summands (`SumBounds`), grow with them (`SumGrows`), and over disjoint
sets count the union (`SumOfSizes`). The ranking is a total order of the sources (`RankOrder`);
the number of sources before a source is its place, a bijection with `0 .. NumSources - 1`
(`RankFacts`), so a cut at `TopLimit` leaves just that many. `FindingsMatch` takes the partner that
`CampaignCoherent` gives each source, and follows the signature they share through `Pattern`,
`Technique` and the window. Both need to know what a record is; `BehavioursOfRecords` says so, and
the last two theorems show that every payload, and every history of records, meets it.

**Only model-checked:** all liveness (`EveryCaptureHandled`, `ProcessingEnds`,
`Finishes`, `ScanEnds`), since fairness and ENABLED are out of the prover's reach. Of
`Finishes` and `ScanEnds` the safety half is proved: the two unbounded loops, `find` and the
pages of a scan, have measures that every iteration decreases (the nodes above the one at
hand, which is not above its own parent (`NoWayBack`); the sort keys of the range that the
cursor has not passed). Every
safety property of the passing runs, invariant or refinement, is also a theorem.

## 5. What the models do not say

* `received` and `returned` mean that `send` returned True. What Logstash does with a
  line after reading it is outside.
* A tshark that dies half way is only logged by the code, and its capture counts as
  dissected; `CompleteOnReturn` speaks of exit status 0.
* Memory: `process` keeps all records of a capture; the unit's `MemoryMax` kills it
  then, which is `Crash`. Sizes in bytes, disk space and time are not modelled.
* Of Logstash, the filters that rename fields and the inputs other than cowrie and
  tshark; of Elasticsearch, merges (a merge renumbers like a refresh) and the deletion of
  old indices. Two session events of one millisecond share a fingerprint, and the second
  is dropped: the repository promises nothing about that, so no property does.
* Why a document is rejected: which fields Logstash and its filters add in a given version
  (the layout of `geoip` under ECS, say) is outside, so a rejected event is one of several
  that may come, never the rule. What is rejected is missing from an analysis, and no
  property of the scan says otherwise. Nothing takes dead letters out again.
* Fragments are taken for unreadable. One that lacks nothing but the newline is a whole JSON
  document, which a codec that is flushed at the end of its connection would read; with the
  retry the record would then arrive twice.
* The order of names: `Before` takes sorted names for the order of rotations. With `-C` a
  second file of one interval has a number after `.pcap`, and from ten on these do not
  sort as numbers. It decides only in what order a poll takes the captures and which names
  a full state file drops.
* The regular expressions of the two scorings: that both find the same signatures in a
  payload (`p.head = p.matches`) is an assumption of `SameVerdict` and
  `MatchedIsAnalysed`, and fails for what stands beyond the 4096 bytes of `payload_ascii`.
* The confidence of a campaign and the rate of a sweep, which are floating point numbers
  that only the report shows; the rendering and the parsing of arguments.

### Not modelled

Operator scripts (command sequences over AWS and Docker that keep no state), index
templates, ILM and dashboards (data that Elasticsearch and Kibana interpret; the one
shard, the rollover and the `create` that the streams rely on are in `Streams` and
`Ingest`), the deployment by Terraform and ansible (its restart and limit settings are in
`PacketCapture` and `Extractor`), and the configuration of the honeypots, which are
third-party programs. Of the partly modelled parts: `ping` and `top_sources` are single
requests; the dionaea, suricata and beats inputs differ from the modelled ones in the
stream they go to.

## 6. Plan

Done, in this order: the sensor (capture, extraction, their composition, `Custody`), the
processing of a capture (dissection and shipper) and its refinement of `process`, the
campaigns and the report around them, the scoring, the telemetry (pipeline and scan),
and the proofs of section 4. What would come next:

1. A scan as the refinement of an abstract one that returns every document once, over a
   steady store; `Steady` is the invariant it needs. Measures for `Processing` as well, as
   the safety half of `ProcessingEnds`.
2. Several captures over one shipper, so that the cached connection outlives a capture.
3. The other inputs and streams of the pipeline.
