------------------------------ MODULE Extractor ------------------------------
(***************************************************************************)
(* The capture extraction service (analysis/deception_shield/extractor.py) *)
(* of one sensor: ExtractorService with its CaptureArchiver, and send() of *)
(* its LogstashShipper reduced to the Boolean it returns (module Shipper   *)
(* opens it up).  The service is one thread; pc is where it stands:        *)
(*                                                                         *)
(*   down      not running                                                 *)
(*   idle      between two polls (the sleep of run())                      *)
(*   next      run()'s loop over the settled captures                      *)
(*   dissect   process(), the loop over extract_records()                  *)
(*   archive   process(), archiver.archive(capture)                        *)
(*   unlink    process(), capture.unlink()                                 *)
(*   mark      process(), _processed.add() and the opening of the state    *)
(*             file, which truncates it                                    *)
(*   save      _save_state(), the state file is truncated but not written  *)
(***************************************************************************)
EXTENDS CaptureDir, FiniteSets

CONSTANTS
  HasBucket,    \* CAPTURE_BUCKET is set
  StateLimit,   \* the names _save_state keeps (5000 in the code)
  Undeletable,  \* the names the service may not unlink
  MaxRestarts   \* bound on the crashes and stops of a behaviour

ASSUME HasBucketAssumption   == HasBucket \in BOOLEAN
ASSUME StateLimitAssumption  == StateLimit \in Nat \ {0}
ASSUME UndeletableAssumption == Undeletable \subseteq Name
ASSUME MaxRestartsAssumption == MaxRestarts \in Nat

VARIABLES
  pc,
  running,    \* _running
  processed,  \* _processed
  sizes,      \* _sizes: what the last poll saw, NoFile where it has no entry
  queue,      \* the settled captures run() has not taken yet
  cur,        \* the capture process() works on, NoName otherwise
  recs,       \* the records extract_records yields for cur
  sent,       \* how many of them have been passed to the shipper
  stateFile,  \* what _load_state would return (nothing for a torn file)
  s3,         \* s3[f]: the size of f's last upload, NoFile without one
  received,   \* received[r][i]: how often send() accepted frame i of rotation r
  handled,    \* history: the names whose process() reached _processed.add()
  restarts    \* crashes and stops so far

memory      == <<running, processed, sizes, queue, cur, recs, sent>>
serviceVars == <<pc, memory, stateFile, s3, received, handled, restarts>>

NoName == <<0, "none">>
Frame  == 1 .. MaxFrames

\* received counts up to twice: more makes no difference to a property.
Twice == 2

-----------------------------------------------------------------------------

\* sorted(names)[-StateLimit:]
Recent(names) ==
  {f \in names : Cardinality({g \in names : Before(f, g)}) < StateLimit}

IsFirst(f, names) == f \in names /\ \A g \in names \ {f} : Before(f, g)

\* Mutants of the next definition: the sizes are not compared; names already
\* processed are not skipped.
SettledAtOnce == {f \in Name : size[f] > 0 /\ f \notin processed}
SettledAgain  == {f \in Name : size[f] > 0 /\ sizes[f] = size[f]}

\* _settled_captures: the files that have the size they had at the last poll.
Settled ==
  {f \in Name : size[f] > 0 /\ f \notin processed /\ sizes[f] = size[f]}

\* What a process that is gone held in memory.
Forget ==
  /\ running'   = FALSE
  /\ processed' = {}
  /\ sizes'     = [f \in Name |-> NoFile]
  /\ queue'     = {}
  /\ cur'       = NoName
  /\ recs'      = 0
  /\ sent'      = 0

\* Mutant: the capture of the last process() is not let go.
LeaveProcessKeeping(q) ==
  /\ queue' = q
  /\ cur'   = cur
  /\ recs'  = 0
  /\ sent'  = 0

\* process() is over: with a result, or with an exception that ends the poll.
LeaveProcess(q) ==
  /\ queue' = q
  /\ cur'   = NoName
  /\ recs'  = 0
  /\ sent'  = 0
Return == LeaveProcess(queue) /\ pc' = "next"
Raise  == LeaveProcess({})    /\ pc' = "idle"

-----------------------------------------------------------------------------

ServiceInit ==
  /\ pc        = "down"
  /\ running   = FALSE
  /\ processed = {}
  /\ sizes     = [f \in Name |-> NoFile]
  /\ queue     = {}
  /\ cur       = NoName
  /\ recs      = 0
  /\ sent      = 0
  /\ stateFile = {}
  /\ s3        = [f \in Name |-> NoFile]
  /\ received  = [r \in Rotation |-> [i \in Frame |-> 0]]
  /\ handled   = {}
  /\ restarts  = 0

Start ==
  /\ pc = "down"
  /\ pc'        = "idle"
  /\ running'   = TRUE
  /\ processed' = stateFile
  /\ UNCHANGED <<size, sizes, queue, cur, recs, sent, stateFile, s3, received,
                 handled, restarts>>

\* Mutant: the sizes of this poll are not kept for the next one.
PollForgets ==
  /\ pc = "idle"
  /\ running
  /\ pc'    = "next"
  /\ queue' = Settled
  /\ UNCHANGED <<size, running, processed, sizes, cur, recs, sent, stateFile, s3,
                 received, handled, restarts>>

Poll ==
  /\ pc = "idle"
  /\ running
  /\ pc'    = "next"
  /\ queue' = Settled
  /\ sizes' = size
  /\ UNCHANGED <<size, running, processed, cur, recs, sent, stateFile, s3,
                 received, handled, restarts>>

\* run() returns and the process exits; systemd starts it again.
Exit ==
  /\ pc = "idle"
  /\ ~running
  /\ pc' = "down"
  /\ Forget
  /\ UNCHANGED <<size, stateFile, s3, received, handled, restarts>>

\* process() opens the capture: the records are those of the file as it is
\* now, whatever it was when the poll saw it.
Take ==
  /\ pc = "next"
  /\ running
  /\ \E f \in Name :
       /\ IsFirst(f, queue)
       /\ cur'   = f
       /\ queue' = queue \ {f}
       /\ recs'  = Readable(f)
  /\ sent' = 0
  /\ pc'   = "dissect"
  /\ UNCHANGED <<size, running, processed, sizes, stateFile, s3, received,
                 handled, restarts>>

PollEnds ==
  /\ pc = "next"
  /\ queue = {} \/ ~running
  /\ pc'    = "idle"
  /\ queue' = {}
  /\ UNCHANGED <<size, running, processed, sizes, cur, recs, sent, stateFile,
                 s3, received, handled, restarts>>

\* Mutant: TsharkNotAvailable is caught with the other exceptions.
TsharkMissingIgnored ==
  /\ "tshark" \in Faults
  /\ pc = "dissect"
  /\ sent = 0
  /\ IsGz(cur) => size[cur] # NoFile /\ Whole(cur)
  /\ pc' = "archive"
  /\ UNCHANGED <<size, memory, stateFile, s3, received, handled, restarts>>

\* _materialise comes before tshark_path: a compressed capture that cannot be
\* expanded raises there, and process() goes on without a record.
TsharkMissing ==
  /\ "tshark" \in Faults
  /\ pc = "dissect"
  /\ sent = 0
  /\ IsGz(cur) => size[cur] # NoFile /\ Whole(cur)
  /\ Raise
  /\ UNCHANGED <<size, running, processed, sizes, stateFile, s3, received,
                 handled, restarts>>

ShipDelivered ==
  /\ pc = "dissect"
  /\ sent < recs
  /\ sent'     = sent + 1
  /\ received' = [received EXCEPT ![RotationOf(cur)][sent + 1] =
                    IF @ < Twice THEN @ + 1 ELSE @]
  /\ UNCHANGED <<size, pc, running, processed, sizes, queue, cur, recs,
                 stateFile, s3, handled, restarts>>

\* send() returned False: process() only counts the record as not shipped.
ShipDropped ==
  /\ "logstash" \in Faults
  /\ pc = "dissect"
  /\ sent < recs
  /\ sent' = sent + 1
  /\ UNCHANGED <<size, pc, running, processed, sizes, queue, cur, recs,
                 stateFile, s3, received, handled, restarts>>

\* The records are exhausted, or extract_records raised half way: process()
\* logs that and goes on as if they were.
DissectEnds ==
  /\ pc = "dissect"
  /\ sent = recs \/ "dissect" \in Faults
  /\ pc' = "archive"
  /\ UNCHANGED <<size, memory, stateFile, s3, received, handled, restarts>>

ArchiveOk ==
  /\ pc = "archive"
  /\ HasBucket
  /\ size[cur] # NoFile
  /\ s3' = [s3 EXCEPT ![cur] = size[cur]]
  /\ pc' = "unlink"
  /\ UNCHANGED <<size, memory, stateFile, received, handled, restarts>>

\* Mutant: the result of archive() is not looked at.
ArchiveFailsUnlinks ==
  /\ pc = "archive"
  /\ ~HasBucket \/ size[cur] = NoFile \/ "upload" \in Faults
  /\ pc' = "unlink"
  /\ UNCHANGED <<size, memory, stateFile, s3, received, handled, restarts>>

ArchiveFails ==
  /\ pc = "archive"
  /\ ~HasBucket \/ size[cur] = NoFile \/ "upload" \in Faults
  /\ pc' = "mark"
  /\ UNCHANGED <<size, memory, stateFile, s3, received, handled, restarts>>

\* Mutant: the archived capture stays (delete_after_archive is off).
UnlinkSkipped ==
  /\ pc = "unlink"
  /\ pc' = "mark"
  /\ UNCHANGED <<size, memory, stateFile, s3, received, handled, restarts>>

\* unlink(missing_ok=True)
Unlink ==
  /\ pc = "unlink"
  /\ size[cur] = NoFile \/ cur \notin Undeletable
  /\ size' = [size EXCEPT ![cur] = NoFile]
  /\ pc'   = "mark"
  /\ UNCHANGED <<memory, stateFile, s3, received, handled, restarts>>

UnlinkRaises ==
  /\ pc = "unlink"
  /\ size[cur] # NoFile
  /\ cur \in Undeletable
  /\ Raise
  /\ UNCHANGED <<size, running, processed, sizes, stateFile, s3, received,
                 handled, restarts>>

\* _processed.add(), then write_text opens the state file.
Mark ==
  /\ pc = "mark"
  /\ processed' = processed \cup {cur}
  /\ handled'   = handled \cup {cur}
  /\ stateFile' = {}
  /\ pc'        = "save"
  /\ UNCHANGED <<size, running, sizes, queue, cur, recs, sent, s3, received,
                 restarts>>

\* The state file or its directory cannot be opened: nothing is truncated.
MarkRaises ==
  /\ "save" \in Faults
  /\ pc = "mark"
  /\ processed' = processed \cup {cur}
  /\ handled'   = handled \cup {cur}
  /\ Raise
  /\ UNCHANGED <<size, running, sizes, stateFile, s3, received, restarts>>

Save ==
  /\ pc = "save"
  /\ stateFile' = Recent(processed)
  /\ processed' = Recent(processed)
  /\ Return
  /\ UNCHANGED <<size, running, sizes, s3, received, handled, restarts>>

\* The write fails (a full disk): the file stays truncated, the memory untrimmed.
SaveRaises ==
  /\ "save" \in Faults
  /\ pc = "save"
  /\ Raise
  /\ UNCHANGED <<size, running, processed, sizes, stateFile, s3, received,
                 handled, restarts>>

Crash ==
  /\ "crash" \in Faults
  /\ pc # "down"
  /\ restarts < MaxRestarts
  /\ restarts' = restarts + 1
  /\ pc' = "down"
  /\ Forget
  /\ UNCHANGED <<size, stateFile, s3, received, handled>>

\* The signal handler only clears the flag, at any point of the loop.
Stop ==
  /\ "stop" \in Faults
  /\ running
  /\ restarts < MaxRestarts
  /\ restarts' = restarts + 1
  /\ running'  = FALSE
  /\ UNCHANGED <<size, pc, processed, sizes, queue, cur, recs, sent, stateFile,
                 s3, received, handled>>

ProcessStep ==
  \/ TsharkMissing \/ ShipDelivered \/ ShipDropped \/ DissectEnds
  \/ ArchiveOk \/ ArchiveFails \/ Unlink \/ UnlinkRaises
  \/ Mark \/ MarkRaises \/ Save \/ SaveRaises

=============================================================================
