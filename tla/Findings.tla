------------------------------- MODULE Findings -------------------------------
(***************************************************************************)
(* analyse (report.py): what a run of the toolkit concludes from its       *)
(* records, whether they come from captures (cmd_replay) or from the index *)
(* (cmd_analyse).  The campaigns are those of module Campaigns; the rest   *)
(* (patterns.py) are passes over the records, which are operators here.    *)
(* NumSources is positive: without a record analyse() returns at once.     *)
(***************************************************************************)
EXTENDS Campaigns, Scoring, Sequences

CONSTANTS
  PortThreshold,  \* port_threshold of detect_sweeps
  TopLimit        \* limit of summarise_sources

ASSUME ReportAssumption == PortThreshold \in Nat \ {0} /\ TopLimit \in Nat \ {0}

\* parse_field_line: the record of a payload, with the verdict on it.
PayloadRecord(time, port, p) ==
  LET verdict == ScorePayload(p) IN
  [ time |-> time, port |-> port, score |-> verdict.score,
    signatures |-> verdict.signatures, triage |-> verdict.triage ]

Times(h) == { h[n].time : n \in DOMAIN h }

\* What correlate_campaigns keeps of the records h of a source: by_source,
\* _behaviour_profile and spans.
Behaviour(h) ==
  [ signatures |-> UNION { h[n].signatures : n \in DOMAIN h },
    ports      |-> { h[n].port : n \in DOMAIN h },
    first      |-> Min(Times(h)),
    last       |-> Max(Times(h)),
    records    |-> h ]

\* What a record is, and the band that goes with its score: score_payload has the
\* one of the score, but for an unprintable payload.  document_to_record returns
\* no other records, since TriageBand() does not know the band of Logstash for
\* such a payload, and takes the one of the score where the document has none.
Record ==
  [ time : Int, port : Nat, score : 0 .. MAX_SCORE,
    signatures : SUBSET (Signature \cup {Unprintable}), triage : TriageBand ]

Judged(r) ==
  \/ r.signatures \subseteq Signature /\ r.triage = FromScore(r.score)
  \/ r.signatures = {Unprintable} /\ r.score = 0 /\ r.triage = "suspicious"

ASSUME BehavioursOfRecords ==
  \A b \in Behaviours :
    /\ b.records \in Seq(Record) /\ b.records # <<>>
    /\ \A n \in DOMAIN b.records : Judged(b.records[n])
    /\ b = Behaviour(b.records)

-----------------------------------------------------------------------------

\* The records, each as its source and its number there.
Records == UNION { {s} \X DOMAIN seen[s].records : s \in Source }
Rec(r)  == seen[r[1]].records[r[2]]

SourcesOf(records) == { r[1] : r \in records }
TimesOf(records)   == { Rec(r).time : r \in records }

\* Mutant: a record is counted for the heaviest of its signatures only.
HeaviestMatched(name) ==
  { r \in Records : /\ name \in Rec(r).signatures
                    /\ \A other \in Rec(r).signatures \ {name} :
                         other \in Signature /\ name \in Signature =>
                           SIGNATURES[other].weight < SIGNATURES[name].weight }

\* The bucket of a name: a record is in the bucket of each of its signatures.
Matched(name) == { r \in Records : name \in Rec(r).signatures }

\* derive_patterns
Pattern(name) ==
  LET matched == Matched(name) IN
  [ name           |-> name,
    technique      |-> IF name \in Signature THEN SIGNATURES[name].technique
                       ELSE "unmapped",
    occurrences    |-> Cardinality(matched),
    unique_sources |-> Cardinality(SourcesOf(matched)),
    ports          |-> { Rec(r).port : r \in matched },
    first_seen     |-> Min(TimesOf(matched)),
    last_seen      |-> Max(TimesOf(matched)) ]

Patterns ==
  { Pattern(name) : name \in { n \in Signature \cup {Unprintable} : Matched(n) # {} } }

\* technique_breakdown: the rows of a technique's patterns are added up, and so
\* a source with two of them counts twice.
Technique(id) ==
  LET rolled == { p \in Patterns : p.technique = id } IN
  [ technique      |-> id,
    occurrences    |-> MapThenSumSet(LAMBDA p : p.occurrences, rolled),
    unique_sources |-> MapThenSumSet(LAMBDA p : p.unique_sources, rolled) ]

Techniques == { Technique(p.technique) : p \in Patterns }

\* The fields of a Campaign, its confidence apart.
Campaign(members) ==
  [ sources      |-> members,
    patterns     |-> UNION { seen[s].signatures : s \in members },
    first_seen   |-> Min({ seen[s].first : s \in members }),
    last_seen    |-> Max({ seen[s].last : s \in members }),
    target_ports |-> UNION { seen[s].ports : s \in members } ]

Reported == { Campaign(members) : members \in Result }

\* detect_sweeps
Sweeps == { s \in Source : Cardinality(seen[s].ports) >= PortThreshold }

\* The rows of summarise_sources, as far as they are ranked by them.
Events(s)   == Len(seen[s].records)
MaxScore(s) == Max({ Rec(r).score : r \in { r \in Records : r[1] = s } })

\* Mutant: the most active source leads.
BusiestFirst(s, t) ==
  \/ Events(s) > Events(t)
  \/ Events(s) = Events(t) /\ MaxScore(s) > MaxScore(t)

RanksBefore(s, t) ==
  \/ MaxScore(s) > MaxScore(t)
  \/ MaxScore(s) = MaxScore(t) /\ Events(s) > Events(t)

\* rows[:limit], with ties in the order of the sources (the code has them in the
\* order of their first records, which no property looks at).
TopSources ==
  { s \in Source :
      Cardinality({ t \in Source : RanksBefore(t, s)
                                   \/ (t < s /\ ~RanksBefore(s, t)) }) < TopLimit }

\* triage_counts
TriageCount(band) == Cardinality({ r \in Records : Rec(r).triage = band })

\* actionable_count of Findings
ActionableCount == MapThenSumSet(TriageCount, Actionable)

WindowStart == Min(TimesOf(Records))
WindowEnd   == Max(TimesOf(Records))

-----------------------------------------------------------------------------

\* The parts of a report are computed separately, and agree ("Both are built
\* from the same Findings object so the two never drift", report.py): a source is
\* in one campaign at most; each source of a campaign has a behaviour whose row
\* under the patterns counts two sources or more, on a port and in a time of the
\* campaign, and its technique no fewer sources, but no more than occurrences; and
\* no campaign is outside the window of the report.
CampaignsMatchFindings ==
  pc = "done" /\ MinSources >= 2 =>
    /\ MapThenSumSet(LAMBDA c : Cardinality(c.sources), Reported)
         <= Cardinality(SourcesOf(Records))
    /\ \A c \in Reported :
         /\ WindowStart <= c.first_seen /\ c.last_seen <= WindowEnd
         /\ \A s \in c.sources : \E p \in Patterns :
              /\ p.name \in seen[s].signatures
              /\ p.unique_sources >= 2
              /\ p.ports \cap c.target_ports # {}
              /\ p.first_seen <= c.last_seen /\ c.first_seen <= p.last_seen
              /\ \E t \in Techniques :
                   /\ t.technique = p.technique
                   /\ p.unique_sources <= t.unique_sources
                   /\ t.unique_sources <= t.occurrences

\* A sweep "says a host is enumerating, not that it has chosen a target"
\* (patterns.py), and is no reason to take its source for an accomplice of each
\* one that it meets on some port: what draws it into a campaign is another source
\* that was on more than one of its ports, or else the signatures in common
\* outweigh the ports of a sweep (13 signatures for the 15 ports and the threshold
\* of 0.5 of patterns.py).
SweepsStayApart ==
  pc = "done" /\ MinSources >= 2 =>
    \A c \in Result : \A s \in c \cap Sweeps : \E t \in c \ {s} :
      LET both == Cardinality(seen[s].signatures \cap seen[t].signatures)
          same == Cardinality(seen[s].ports \cap seen[t].ports) IN
      same > 1 \/ Threshold * (PortThreshold + both) <= 100 * (1 + both)

\* "Peak severity leads, because one serious attempt matters more than a long
\* tail of harmless probes" (patterns.py): a source is left out of the ranking
\* for the limit only, and with a serious record for others with one as serious;
\* and the ranking shows the critical records that the summary counts.  (Not so
\* for an unprintable payload, which is suspicious with a score of 0.)
Serious == {"likely-malicious", "critical"}

SeriousAreListed ==
  pc = "done" =>
    /\ TopSources = Source \/ Cardinality(TopSources) = TopLimit
    /\ \A r \in Records : Rec(r).triage \in Serious /\ r[1] \notin TopSources =>
         \A s \in TopSources : \E q \in Records :
           q[1] = s /\ Rec(q).triage \in {Rec(r).triage, "critical"}
    /\ TriageCount("critical") > 0 <=>
         \E s \in TopSources : FromScore(MaxScore(s)) = "critical"
    /\ ActionableCount = 0 => \A s \in TopSources : MaxScore(s) < 20

=============================================================================
