------------------------------ MODULE Processing ------------------------------
(***************************************************************************)
(* The first half of ExtractorService.process (extractor.py): one thread   *)
(* that alternates between the generator extract_records and send(), with  *)
(* tshark on the one side and Logstash on the other.  What is one step per *)
(* record in module Extractor (ShipDelivered, ShipDropped, DissectEnds) is *)
(* opened up here, for one capture.                                        *)
(***************************************************************************)
EXTENDS Integers, Dissection, Shipper

vars == <<dissectVars, shipperVars>>

ASSUME OneRecordPerLine == NumRecords = Packets

Init == DissectInit /\ ShipperInit

\* process() has the next record and calls send() with it.
HandOver ==
  /\ gen = "yielded"
  /\ Call
  /\ gen' = "sending"
  /\ UNCHANGED <<gz, temp, child, left, out, wants, err>>

\* send() has returned, and process() asks for the next record.
Resume ==
  /\ gen = "sending"
  /\ pc = "idle"
  /\ gen' = "read"
  /\ UNCHANGED <<gz, temp, child, left, out, wants, err, shipperVars>>

Process ==
  \/ Generator /\ UNCHANGED shipperVars
  \/ HandOver
  \/ Send /\ UNCHANGED dissectVars
  \/ Resume

Next ==
  \/ Process
  \/ CallerStops /\ UNCHANGED shipperVars
  \/ Tshark /\ UNCHANGED shipperVars
  \/ Logstash /\ UNCHANGED dissectVars

Spec == Init /\ [][Next]_vars

\* The thread goes on where it can: a socket call returns at its timeout at the
\* latest, and so does wait().  tshark works its capture off.  Nothing is said
\* of Logstash: it may be down, stalled or silent for ever.
Fairness ==
  /\ WF_vars(Process)
  /\ WF_vars(TsharkProgress /\ UNCHANGED shipperVars)

LiveSpec == Spec /\ Fairness

-----------------------------------------------------------------------------

TypeOK ==
  /\ ShipperTypeOK
  /\ gen   \in Gen
  /\ gz    \in BOOLEAN
  /\ temp  \in BOOLEAN
  /\ child \in Child
  /\ left  \in 0 .. Packets
  /\ out   \in 0 .. OutCap
  /\ wants \in BOOLEAN
  /\ err   \in 0 .. Complaints

\* A dissection that returns after a tshark that succeeded has read everything:
\* no line is left in the pipe, and every record was handed to send().
CompleteOnReturn ==
  gen = "returned" /\ child = "exited" =>
    left = 0 /\ out = 0 /\ \A r \in 1 .. record : returned[r] # "none"

\* However the dissection ends, no tshark is left behind, ...
NoChildLeft == Ended => ~Alive

\* ... and no temporary file, unless its expansion failed (then it does stay).
TempRemoved == Ended /\ gen # "unexpanded" => ~temp

\* process() gets to the archiving of its capture, whatever the state of
\* Logstash: "one bad capture must not stop the service" (extractor.py).
ProcessingEnds == <>Ended

\* What LogstashShipper says of itself: "The connection is reopened on failure
\* rather than held open indefinitely, because ... a stale socket would silently
\* discard records" - a record for which send() returned True can be read.
NoSilentDiscard ==
  [][\A r \in Record :
       returned[r] # "true" /\ returned'[r] = "true" => Waiting(r)' = 1]_vars

-----------------------------------------------------------------------------

\* The service of module Extractor in the process() of one capture of as many
\* frames: its state while this module is at work.
Files   == {1} \X {"pcap", "gz"}
Capture == <<1, IF gz THEN "gz" ELSE "pcap">>
Sizes   == [f \in Files |-> IF f = Capture THEN Packets ELSE -1]
Gone    == gen = "missing"
Passed  == Cardinality({ r \in Record : returned[r] # "none" })

One == INSTANCE Extractor WITH
  NumRotations <- 1, MaxFrames <- Packets, HasBucket <- FALSE, StateLimit <- 1,
  Undeletable <- {}, MaxRestarts <- 0,
  Faults    <- {"logstash", "dissect"} \cup (IF "launch" \in DissectFaults THEN {"tshark"} ELSE {}),
  size      <- Sizes,
  written   <- [r \in {1} |-> Packets],
  pc        <- IF Gone THEN "idle" ELSE IF Ended THEN "archive" ELSE "dissect",
  running   <- TRUE,
  processed <- {},
  sizes     <- Sizes,
  queue     <- {},
  cur       <- IF Gone THEN <<0, "none">> ELSE Capture,
  recs      <- IF Gone THEN 0 ELSE Packets,
  sent      <- IF Gone THEN 0 ELSE Passed,
  stateFile <- {},
  s3        <- [f \in Files |-> -1],
  received  <- [r \in {1} |-> [i \in Record |-> IF returned[i] = "true" THEN 1 ELSE 0]],
  handled   <- {},
  restarts  <- 0

\* What Extractor takes for one step per record is one: however send() retries
\* and however tshark and the generator end, process() passes each record on
\* once and in order, the answer to it is final, TsharkNotAvailable comes before
\* the first record or not at all, and only then the capture is not archived.
ProcessKept ==
  [][One!TsharkMissing \/ One!ShipDelivered \/ One!ShipDropped \/ One!DissectEnds]_
    <<One!serviceVars, Sizes>>

=============================================================================
