------------------------------- MODULE Scoring -------------------------------
(***************************************************************************)
(* The verdict on a payload, which the repository computes twice: by       *)
(* score_payload (scoring.py) where tshark's rows become records, and by   *)
(* the ruby filter of Logstash (score_payload.rb), which overwrites the    *)
(* first one on the way into the index, from where document_to_record      *)
(* (es_client.py) rebuilds the record.                                     *)
(*                                                                         *)
(* A payload is what the two see of it, a record with the fields           *)
(*   matches    the signatures found in all of it, by the first            *)
(*   head       the signatures found in payload_ascii, by the second: in   *)
(*              the first 4096 bytes, in another regex dialect and after   *)
(*              another decoding of percent signs                          *)
(*   printable  the printable bytes, in percent (tab and newlines are)     *)
(*   plain      the characters of payload_ascii in " " .. "~", in percent  *)
(***************************************************************************)
EXTENDS Integers, FiniteSetsExt

Sig(weight, technique) == [weight |-> weight, technique |-> technique]

SIGNATURES ==
  [ shell_pipe_execution |-> Sig(40, "T1059"),
    remote_payload_fetch |-> Sig(30, "T1105"),
    reverse_shell        |-> Sig(40, "T1059"),
    sql_injection        |-> Sig(25, "T1190"),
    path_traversal       |-> Sig(15, "T1083"),
    command_injection    |-> Sig(30, "T1059"),
    log4shell            |-> Sig(45, "T1190"),
    webshell_upload      |-> Sig(35, "T1505.003"),
    credential_probe     |-> Sig(20, "T1003"),
    iot_botnet_dropper   |-> Sig(40, "T1105"),
    cve_probe_struts     |-> Sig(35, "T1190"),
    xxe_attempt          |-> Sig(30, "T1190"),
    encoded_powershell   |-> Sig(35, "T1059.001"),
    scanner_fingerprint  |-> Sig(5,  "T1595") ]

\* The weights of score_payload.rb.
RUBY_WEIGHTS ==
  [ shell_pipe_execution |-> 40, remote_payload_fetch |-> 30,
    reverse_shell        |-> 40, sql_injection        |-> 25,
    path_traversal       |-> 15, command_injection    |-> 30,
    log4shell            |-> 45, webshell_upload      |-> 35,
    credential_probe     |-> 20, iot_botnet_dropper   |-> 40,
    cve_probe_struts     |-> 35, xxe_attempt          |-> 30,
    encoded_powershell   |-> 35, scanner_fingerprint  |-> 5 ]

Signature == DOMAIN SIGNATURES

\* A payload without a match that is largely unprintable gets this name instead.
Unprintable == "non_printable_payload"

Payload ==
  [matches : SUBSET Signature, head : SUBSET Signature,
   printable : 0 .. 100, plain : 0 .. 100]

MAX_SCORE == 100

-----------------------------------------------------------------------------

\* TriageBand, in the order of _BAND_ORDER.
Bands == <<"benign", "noise", "suspicious", "likely-malicious", "critical">>
TriageBand == { Bands[rank] : rank \in DOMAIN Bands }

FromScore(score) ==
  CASE score <= 0          -> "benign"
    [] score \in  1 .. 19  -> "noise"
    [] score \in 20 .. 49  -> "suspicious"
    [] score \in 50 .. 79  -> "likely-malicious"
    [] OTHER               -> "critical"

Actionable == {"suspicious", "likely-malicious", "critical"}

\* The weights of the matches add up, to MAX_SCORE at most.
Score(weights, names) ==
  LET sum == MapThenSumSet(LAMBDA name : weights[name], names) IN
  IF sum > MAX_SCORE THEN MAX_SCORE ELSE sum

Verdict(score, signatures, triage) ==
  [score |-> score, signatures |-> signatures, triage |-> triage]

Weights == [name \in Signature |-> SIGNATURES[name].weight]

\* score_payload, without the techniques: no record keeps them.
ScorePayload(p) ==
  LET score == Score(Weights, p.matches) IN
  IF p.matches = {} /\ p.printable < 60
  THEN Verdict(0, {Unprintable}, "suspicious")
  ELSE Verdict(score, p.matches, FromScore(score))

\* Mutant: a weight of the other table is changed, and this one is not.
DriftedFilter(p) ==
  LET score == Score([RUBY_WEIGHTS EXCEPT !.credential_probe = 15], p.head) IN
  IF p.head = {} /\ p.plain < 60
  THEN Verdict(score, {Unprintable}, "inspect")
  ELSE Verdict(score, p.head, FromScore(score))

\* filter(event) of score_payload.rb: the threat fields of the document.
RubyFilter(p) ==
  LET score == Score(RUBY_WEIGHTS, p.head) IN
  IF p.head = {} /\ p.plain < 60
  THEN Verdict(score, {Unprintable}, "inspect")
  ELSE Verdict(score, p.head, FromScore(score))

=============================================================================
