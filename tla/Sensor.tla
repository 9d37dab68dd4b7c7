-------------------------------- MODULE Sensor --------------------------------
(***************************************************************************)
(* One sensor: the packet capture and the extraction service, two systemd  *)
(* units that run side by side and meet in the capture directory only.     *)
(***************************************************************************)
EXTENDS PacketCapture, Extractor

vars == <<captureVars, serviceVars>>

\* The assumption behind _settled_captures: tcpdump and gzip change every file
\* they still work on between two polls (POLL_INTERVAL, 60 s).  "slow" drops it.
Timely ==
  "slow" \in Faults \/ \A f \in Name : Owned(f) /\ size[f] > 0 => sizes[f] # size[f]

Service(Step) == Step /\ UNCHANGED <<written, phase>>

\* What run() does by itself, in the order of its code.
ServiceStep ==
  \/ Service(Start)
  \/ Service(Poll) /\ Timely
  \/ Service(Exit)
  \/ Service(Take)
  \/ Service(PollEnds)
  \/ Service(ProcessStep)

Next ==
  \/ CaptureNext /\ UNCHANGED serviceVars
  \/ ServiceStep
  \/ Service(Crash)
  \/ Service(Stop)

Init == CaptureInit /\ ServiceInit

Spec == Init /\ [][Next]_vars

\* systemd restarts the service (Restart=always) and nothing in its loop waits
\* for ever; tcpdump closes a rotation when -G has passed, and gzip ends.
\* Frames arrive or not, faults happen or not: no fairness for them.
Fairness ==
  /\ WF_vars(ServiceStep)
  /\ \A r \in Rotation :
       WF_vars((Rotate(r) \/ GzipStart(r) \/ GzipWrite(r) \/ GzipFinish(r))
               /\ UNCHANGED serviceVars)

LiveSpec == Spec /\ Fairness

\* As above, and S3 does not refuse for ever: an upload that is tried again and
\* again succeeds.
FairUploadSpec == LiveSpec /\ SF_vars(Service(ArchiveOk))

-----------------------------------------------------------------------------

TypeOK ==
  /\ size      \in [Name -> Size \cup {NoFile}]
  /\ written   \in [Rotation -> Size]
  /\ phase     \in [Rotation -> Phase]
  /\ pc        \in {"down", "idle", "next", "dissect", "archive", "unlink",
                    "mark", "save"}
  /\ running   \in BOOLEAN
  /\ processed \subseteq Name
  /\ sizes     \in [Name -> Size \cup {NoFile}]
  /\ queue     \subseteq Name
  /\ cur       \in Name \cup {NoName}
  /\ cur = NoName <=> pc \in {"down", "idle", "next"}
  /\ recs      \in Size
  /\ sent      \in 0 .. recs
  /\ stateFile \subseteq Name
  /\ s3        \in [Name -> Size \cup {NoFile}]
  /\ received  \in [Rotation -> [Frame -> 0 .. Twice]]
  /\ handled   \subseteq Name
  /\ restarts  \in 0 .. MaxRestarts

\* Recorded traffic is never lost: for a rotation that was opened, every frame
\* tcpdump has written to its file is still there, in one complete file on the
\* sensor or in one complete copy in S3 - through the change of names by gzip,
\* a kill of either side at any step, failed uploads and torn state files.
Retained(r) ==
  \E f \in {Plain(r), Gz(r)} :
    Whole(f) \/ (phase[r] # "open" /\ s3[f] = written[r])

EvidenceRetained == \A r \in Rotation : phase[r] # "none" => Retained(r)

\* "Only closed files are processed" (extractor.py): what process() works on,
\* and what run() will still hand to it, is not in use by tcpdump or gzip.
OnlyClosed == \A f \in Name : f \in queue \/ f = cur => ~Owned(f)

\* No record of a frame is passed to Logstash twice, although a rotation has
\* two names over time and a stopped service starts again from its state file
\* ("A restart must not re-ship records already sent", test_extractor.py).
ShippedAtMostOnce ==
  \A r \in Rotation : \A i \in Frame : received[r][i] <= 1

\* A capture whose processing was recorded is not taken up again.
NeverReprocessed == [][cur' # cur => cur' \notin handled]_vars

\* A capture leaves the sensor only after all its records went to Logstash.
Released(r) ==
  /\ phase[r] = "done"
  /\ written[r] > 0
  /\ ~Whole(Plain(r)) /\ ~Whole(Gz(r))

ReleasedImpliesShipped ==
  \A r \in Rotation : Released(r) => \A i \in 1 .. written[r] : received[r][i] > 0

\* The sensor keeps the abstract promise about closed rotations.
Closed(r) == phase[r] \notin {"none", "open"}
CustodyOf == INSTANCE Custody WITH
  Rotations <- Rotation,
  onSensor  <- {r \in Rotation : Closed(r) /\ (Whole(Plain(r)) \/ Whole(Gz(r)))},
  archived  <- {r \in Rotation : Closed(r) /\ written[r] \in {s3[Plain(r)], s3[Gz(r)]}}
CustodyKept == CustodyOf!Spec

\* Every capture the capture side is done with is handled some day, whatever
\* else happens to the service (or it is gone: gzip or the archiver took it).
\* It does not wait for a capture the service is not allowed to delete.
EveryCaptureHandled ==
  \A f \in Name \ Undeletable :
    (size[f] > 0 /\ ~Owned(f)) ~> (f \in handled \/ size[f] = NoFile)

\* "Captures leave for S3 as soon as they are dissected" (README): a finished
\* capture is some day archived.
EveryCaptureArchived ==
  \A f \in Name :
    (size[f] > 0 /\ ~Owned(f)) ~> (s3[f] # NoFile \/ size[f] = NoFile)

=============================================================================
