---------------------------- MODULE ReleaseProofs ----------------------------
(***************************************************************************)
(* Theorems about the release of captures, on top of EvidenceInv: what     *)
(* leaves the sensor has been shipped, and the sensor implements Custody;  *)
(* and about a capture that process() is through with: it is not taken up  *)
(* again if the archiver takes what it is given, and, stopped in an        *)
(* orderly way, the service sends no frame of a rotation twice, also if S3 *)
(* refuses uploads.                                                        *)
(***************************************************************************)
EXTENDS SensorProofs, FiniteSetTheorems

\* The capture side does not touch a rotation it has finished.
LEMMA FinishedStays ==
  ASSUME TypeInv, CaptureNext, NEW r \in Rotation, phase[r] = "done"
  PROVE  /\ phase'[r] = "done" /\ written'[r] = written[r]
         /\ size'[Plain(r)] = size[Plain(r)] /\ size'[Gz(r)] = size[Gz(r)]
BY NameFacts DEF CaptureNext, TypeInv, TypeOK, OpenRotation, WriteFrame, Rotate,
                 GzipStart, GzipWrite, GzipFinish, CaptureKilled, CaptureStopped,
                 CaptureEnds

\* A rotation leaves its last phase with all its frames in a file: there is no
\* copy of an unfinished one that could stand in for it.
LEMMA FinishedWhole ==
  ASSUME TypeInv, EvidenceInv, CaptureNext, UNCHANGED serviceVars,
         NEW r \in Rotation, phase[r] # "done", phase'[r] = "done"
  PROVE  (Whole(Plain(r)) \/ Whole(Gz(r)))'
<1>1. EvidenceInv' /\ TypeInv'
  BY EvidenceCapture, TypeCapture
<1>2. UNCHANGED s3
  BY DEF serviceVars
<1>3. s3[Plain(r)] = NoFile /\ s3[Gz(r)] = NoFile
  BY NameFacts DEF EvidenceInv, RotationInv, CopyOf
<1>4. Retained(r)' /\ written'[r] \in Size
  BY <1>1 DEF EvidenceInv, RotationInv, TypeInv, TypeOK
<1> QED
  BY <1>2, <1>3, <1>4, SizeFacts DEF Retained

-----------------------------------------------------------------------------
(* Released implies shipped. *)

\* The faults under which a record may be given up.
NothingGivenUp == Faults \cap {"slow", "logstash", "dissect"} = {}

LEMMA ShippedInit == Init => ShippedInv
BY DEF Init, CaptureInit, ServiceInit, ShippedInv, Progress, ReleasedImpliesShipped, Released

LEMMA ShippedCapture ==
  ASSUME TypeInv, EvidenceInv, ShippedInv, CaptureNext, UNCHANGED serviceVars
  PROVE  ShippedInv'
<1>1. UNCHANGED <<pc, cur, recs, sent, received>>
  BY DEF serviceVars, memory
<1>2. Progress'
  <2>1. CASE cur \notin Name
    BY <1>1, <2>1 DEF TypeInv, TypeOK, Progress
  <2>2. CASE cur \in Name
    <3>1. RotationOf(cur) \in Rotation /\ cur \in {Plain(RotationOf(cur)), Gz(RotationOf(cur))}
      BY <2>2, NameFacts
    <3>2. phase[RotationOf(cur)] = "done"
      BY <3>1, NameFacts DEF EvidenceInv, RotationInv, InHand
    <3>3. size'[cur] = size[cur] /\ written'[RotationOf(cur)] = written[RotationOf(cur)]
      BY <3>1, <3>2, FinishedStays
    <3> QED
      BY <1>1, <3>3 DEF ShippedInv, Progress, Readable, Whole, Shipped
  <2> QED
    BY <2>1, <2>2
<1>3. ReleasedImpliesShipped'
  <2> SUFFICES ASSUME NEW r \in Rotation, Released(r)'
               PROVE  (\A i \in 1 .. written[r] : received[r][i] > 0)'
    BY DEF ReleasedImpliesShipped
  <2>1. phase[r] = "done"
    BY FinishedWhole DEF Released
  <2>2. Released(r) /\ written'[r] = written[r]
    BY <2>1, FinishedStays, NameFacts DEF Released, Whole
  <2> QED
    BY <1>1, <2>2 DEF ShippedInv, ReleasedImpliesShipped
<1> QED
  BY <1>2, <1>3 DEF ShippedInv

\* A step that touches no file and is not within process().
LEMMA ShippedOutside ==
  ASSUME ShippedInv, UNCHANGED <<size, written, phase, received>>,
         pc' \notin {"dissect", "archive", "unlink"}
  PROVE  ShippedInv'
BY DEF ShippedInv, Progress, ReleasedImpliesShipped, Released, Whole

LEMMA ShippedTake ==
  ASSUME ShippedInv, Service(Take)
  PROVE  ShippedInv'
<1>1. /\ UNCHANGED <<size, written, phase, received>>
      /\ pc' = "dissect" /\ sent' = 0 /\ recs' = Readable(cur')
  BY DEF Service, Take
<1> QED
  BY <1>1 DEF ShippedInv, Progress, ReleasedImpliesShipped, Released, Whole, Readable

LEMMA ShippedDelivered ==
  ASSUME TypeInv, ShippedInv, Service(ShipDelivered)
  PROVE  ShippedInv'
<1>1. /\ UNCHANGED <<size, written, phase, pc, cur, recs>>
      /\ pc = "dissect" /\ sent' = sent + 1 /\ sent < recs
      /\ received' = [received EXCEPT ![RotationOf(cur)][sent + 1] =
                        IF @ < Twice THEN @ + 1 ELSE @]
  BY DEF Service, ShipDelivered
<1>2. /\ RotationOf(cur) \in Rotation /\ sent \in Nat /\ sent + 1 \in Frame
      /\ received \in [Rotation -> [Frame -> 0 .. Twice]]
      /\ written \in [Rotation -> Size]
  BY <1>1, NameFacts, SizeFacts, MaxFramesAssumption DEF TypeInv, TypeOK, Frame
<1>3. \A r \in Rotation : \A i \in Frame :
        received[r][i] > 0 => received'[r][i] > 0
  BY <1>1, <1>2 DEF Twice
<1>4. received'[RotationOf(cur)][sent + 1] > 0
  BY <1>1, <1>2 DEF Twice
<1>5. Progress'
  <2>1. ASSUME NEW i \in 1 .. sent' PROVE received'[RotationOf(cur)][i] > 0
    <3>1. i \in Frame
      BY <1>1, <1>2, MaxFramesAssumption DEF Frame
    <3>2. CASE i = sent + 1
      BY <1>4, <3>2
    <3>3. CASE i # sent + 1
      BY <1>1, <1>2, <1>3, <3>1, <3>3 DEF ShippedInv, Progress
    <3> QED
      BY <3>2, <3>3
  <2> QED
    BY <1>1, <2>1 DEF ShippedInv, Progress, Readable, Whole
<1>6. ReleasedImpliesShipped'
  <2> SUFFICES ASSUME NEW r \in Rotation, Released(r)', NEW i \in 1 .. written'[r]
               PROVE  received'[r][i] > 0
    BY DEF ReleasedImpliesShipped
  <2>1. Released(r) /\ i \in 1 .. written[r]
    BY <1>1 DEF Released, Whole
  <2>2. i \in Frame
    BY <1>2, <2>1, SizeFacts, MaxFramesAssumption DEF Frame
  <2> QED
    BY <1>3, <2>1, <2>2 DEF ShippedInv, ReleasedImpliesShipped
<1> QED
  BY <1>5, <1>6 DEF ShippedInv

\* The records of a complete capture are its frames: when they are exhausted,
\* every frame has arrived.
LEMMA ShippedDissected ==
  ASSUME TypeInv, ShippedInv, NothingGivenUp, Service(DissectEnds)
  PROVE  ShippedInv'
<1>1. /\ UNCHANGED <<size, written, phase, cur, received>>
      /\ pc = "dissect" /\ pc' = "archive" /\ sent = recs
  BY DEF Service, DissectEnds, memory, NothingGivenUp
<1>2. cur \in Name /\ written[RotationOf(cur)] \in Size
  BY <1>1, NameFacts DEF TypeInv, TypeOK
<1>3. Whole(cur) => Shipped(RotationOf(cur))
  BY <1>1, <1>2, SizeFacts DEF ShippedInv, Progress, Readable, Whole, Shipped
<1> QED
  BY <1>1, <1>3 DEF ShippedInv, Progress, ReleasedImpliesShipped, Released, Whole, Shipped

LEMMA ShippedArchive ==
  ASSUME ShippedInv, Service(ArchiveOk) \/ Service(ArchiveFails)
  PROVE  ShippedInv'
BY DEF Service, ArchiveOk, ArchiveFails, memory, ShippedInv, Progress,
       ReleasedImpliesShipped, Released, Whole, Shipped

\* The unlinking releases a rotation only if the file was its last complete one.
LEMMA ShippedUnlink ==
  ASSUME TypeInv, ShippedInv, Service(Unlink)
  PROVE  ShippedInv'
<1>1. /\ UNCHANGED <<written, phase, received>>
      /\ pc = "unlink" /\ pc' = "mark"
      /\ size' = [size EXCEPT ![cur] = NoFile]
  BY DEF Service, Unlink
<1>2. cur \in Name /\ size \in [Name -> Size \cup {NoFile}]
  BY <1>1 DEF TypeInv, TypeOK
<1>3. \A f \in Name \ {cur} : size'[f] = size[f]
  BY <1>1, <1>2
<1> SUFFICES ASSUME NEW r \in Rotation, Released(r)'
             PROVE  Shipped(r)
  BY <1>1 DEF ShippedInv, Progress, ReleasedImpliesShipped, Shipped
<1>4. CASE cur \in {Plain(r), Gz(r)} /\ Whole(cur)
  BY <1>1, <1>4, NameFacts DEF ShippedInv, Progress
<1>5. CASE ~(cur \in {Plain(r), Gz(r)} /\ Whole(cur))
  <2>1. Released(r)
    BY <1>1, <1>3, <1>5, NameFacts DEF Released, Whole
  <2> QED
    BY <2>1 DEF ShippedInv, ReleasedImpliesShipped, Shipped
<1> QED
  BY <1>4, <1>5

LEMMA ShippedStep ==
  ASSUME TypeInv, EvidenceInv, ShippedInv, NothingGivenUp, [Next]_vars
  PROVE  ShippedInv'
<1>1. CASE CaptureNext /\ UNCHANGED serviceVars
  BY <1>1, ShippedCapture
<1>2. CASE Service(Take)
  BY <1>2, ShippedTake
<1>3. CASE Service(ShipDelivered)
  BY <1>3, ShippedDelivered
<1>4. CASE Service(ShipDropped)
  BY <1>4 DEF Service, ShipDropped, NothingGivenUp
<1>5. CASE Service(DissectEnds)
  BY <1>5, ShippedDissected
<1>6. CASE Service(ArchiveOk) \/ Service(ArchiveFails)
  BY <1>6, ShippedArchive
<1>7. CASE Service(Unlink)
  BY <1>7, ShippedUnlink
<1>8. CASE Service(Stop) \/ UNCHANGED vars
  BY <1>8 DEF Service, Stop, vars, captureVars, serviceVars, memory, ShippedInv,
              Progress, ReleasedImpliesShipped, Released, Whole, Shipped, Readable
<1>9. CASE \/ Service(Start) \/ Service(Poll) \/ Service(Exit) \/ Service(PollEnds)
           \/ Service(Crash) \/ Service(TsharkMissing) \/ Service(UnlinkRaises)
           \/ Service(Mark) \/ Service(MarkRaises) \/ Service(Save)
           \/ Service(SaveRaises)
  <2>1. /\ UNCHANGED <<size, written, phase, received>>
        /\ pc' \notin {"dissect", "archive", "unlink"}
    BY <1>9 DEF Service, Start, Poll, Exit, PollEnds, Crash, TsharkMissing,
                UnlinkRaises, Mark, MarkRaises, Save, SaveRaises, Forget, Raise,
                Return, LeaveProcess
  <2> QED
    BY <2>1, ShippedOutside
<1> QED
  BY <1>1, <1>2, <1>3, <1>4, <1>5, <1>6, <1>7, <1>8, <1>9
     DEF Next, ServiceStep, ProcessStep, Service

\* What process() counts as sent has arrived, and a complete capture that it is
\* about to archive or unlink has been shipped - if Logstash accepts records,
\* tshark reads what it is given, and files in use grow between two polls.
THEOREM SensorShippedInv ==
  ASSUME NothingGivenUp
  PROVE  Spec => []ShippedInv
<1>1. TypeInv /\ EvidenceInv /\ ShippedInv /\ [Next]_vars => ShippedInv'
  BY ShippedStep
<1>2. Spec => [](TypeInv /\ EvidenceInv)
  BY SensorEvidenceInv DEF NothingGivenUp
<1> QED
  BY <1>1, <1>2, ShippedInit, PTL DEF Spec

\* A rotation that is complete nowhere on the sensor any more has had every
\* frame delivered to Logstash, under the same conditions.  Kills, restarts,
\* failed uploads, a missing tshark and lost state files do not matter.
THEOREM SensorReleasedImpliesShipped ==
  ASSUME NothingGivenUp
  PROVE  Spec => []ReleasedImpliesShipped
<1>1. ShippedInv => ReleasedImpliesShipped
  BY DEF ShippedInv
<1> QED
  BY <1>1, SensorShippedInv, PTL

-----------------------------------------------------------------------------
(* The sensor implements Custody. *)

OnSensor == {r \in Rotation : Closed(r) /\ (Whole(Plain(r)) \/ Whole(Gz(r)))}
Archived == {r \in Rotation : Closed(r) /\ written[r] \in {s3[Plain(r)], s3[Gz(r)]}}

\* At most one rotation is closed in a step, the open one; it is complete then.
LEMMA CustodyCapture ==
  ASSUME TypeInv, EvidenceInv, CaptureNext, UNCHANGED serviceVars
  PROVE  [CustodyOf!Next]_(CustodyOf!vars)
<1>1. EvidenceInv' /\ TypeInv' /\ UNCHANGED s3
  BY EvidenceCapture, TypeCapture DEF serviceVars
<1>2. \A r \in Rotation : RotationInv(r) /\ RotationInv(r)'
  BY <1>1 DEF EvidenceInv
<1>3. \A r \in Rotation : written[r] \in Size /\ written'[r] \in Size
                          /\ phase[r] \in Phase /\ phase'[r] \in Phase
  BY <1>1 DEF TypeInv, TypeOK
<1>4. \A r \in Rotation : Closed(r) => Closed(r)' /\ written'[r] = written[r]
  BY DEF CaptureNext, TypeInv, TypeOK, OpenRotation, WriteFrame, Rotate,
         GzipStart, GzipWrite, GzipFinish, CaptureKilled, CaptureStopped,
         CaptureEnds, Closed
<1>5. \A r \in Rotation : Closed(r)' => Closed(r) \/ phase[r] = "open"
  BY DEF CaptureNext, TypeInv, TypeOK, OpenRotation, WriteFrame, Rotate,
         GzipStart, GzipWrite, GzipFinish, CaptureKilled, CaptureStopped,
         CaptureEnds, Closed
<1>6. \A r \in Rotation : phase[r] = "done" =>
        /\ size'[Plain(r)] = size[Plain(r)] /\ size'[Gz(r)] = size[Gz(r)]
  BY FinishedStays
<1>7. \A r \in Rotation : phase[r] # "done" => s3[Plain(r)] = NoFile /\ s3[Gz(r)] = NoFile
  BY <1>2, NameFacts DEF RotationInv, CopyOf
<1>8. Archived' = Archived
  <2>1. ASSUME NEW r \in Rotation PROVE r \in Archived' <=> r \in Archived
    BY <1>1, <1>3, <1>4, <1>5, <1>7, SizeFacts DEF Archived, Closed
  <2> QED
    BY <2>1 DEF Archived
<1>9. \A r \in Rotation : Closed(r) => (r \in OnSensor' <=> r \in OnSensor)
  <2> SUFFICES ASSUME NEW r \in Rotation, Closed(r)
               PROVE  r \in OnSensor' <=> r \in OnSensor
    OBVIOUS
  <2>1. CASE phase[r] = "done"
    BY <1>4, <1>6, <2>1, NameFacts DEF OnSensor, Whole
  <2>2. CASE phase[r] # "done"
    <3>1. Whole(Plain(r))
      BY <1>2, <1>3, <2>2, NameFacts DEF RotationInv, FilesOf, Closed, Phase, Whole
    <3>2. (Whole(Plain(r)) \/ Whole(Gz(r)))'
      BY <1>1, <1>2, <1>3, <1>4, <1>7, <2>2, SizeFacts, NameFacts
         DEF RotationInv, Retained, Closed
    <3> QED
      BY <1>4, <3>1, <3>2 DEF OnSensor
  <2> QED
    BY <2>1, <2>2
<1>10. \A r \in Rotation : ~Closed(r) => r \notin OnSensor /\ r \notin Archived
  BY DEF OnSensor, Archived
<1>11. CASE \A r \in Rotation : Closed(r)' => Closed(r)
  <2>1. OnSensor' = OnSensor
    BY <1>9, <1>10, <1>11 DEF OnSensor
  <2> QED
    BY <1>8, <2>1 DEF CustodyOf!vars, OnSensor, Archived
<1>12. CASE \E r \in Rotation : Closed(r)' /\ ~Closed(r)
  <2>1. PICK r \in Rotation : Closed(r)' /\ ~Closed(r)
    BY <1>12
  <2>2. \A q \in Rotation \ {r} : Closed(q)' => Closed(q)
    BY <1>5, <2>1 DEF EvidenceInv, OneOpen
  <2>3. r \in OnSensor'
    BY <1>1, <1>2, <1>3, <1>7, <2>1, SizeFacts, NameFacts
       DEF RotationInv, Retained, Closed, OnSensor
  <2>4. OnSensor' = OnSensor \cup {r}
    BY <1>9, <1>10, <2>1, <2>2, <2>3 DEF OnSensor
  <2>5. CustodyOf!Close(r)
    BY <1>8, <1>10, <2>1, <2>4 DEF CustodyOf!Close, OnSensor, Archived
  <2> QED
    BY <2>5 DEF CustodyOf!Next
<1> QED
  BY <1>11, <1>12

\* A step of the service that leaves files and S3 copies alone is a stutter.
LEMMA CustodyStutter ==
  ASSUME UNCHANGED <<size, written, phase, s3>>
  PROVE  [CustodyOf!Next]_(CustodyOf!vars)
BY DEF CustodyOf!vars, Closed, Whole

LEMMA CustodyArchive ==
  ASSUME TypeInv, EvidenceInv, Service(ArchiveOk)
  PROVE  [CustodyOf!Next]_(CustodyOf!vars)
<1>1. /\ UNCHANGED <<size, written, phase>>
      /\ pc = "archive" /\ size[cur] # NoFile
      /\ s3' = [s3 EXCEPT ![cur] = size[cur]]
  BY DEF Service, ArchiveOk
<1>2. cur \in Name /\ s3 \in [Name -> Size \cup {NoFile}] /\ written \in [Rotation -> Size]
  BY <1>1 DEF TypeInv, TypeOK
<1>3. PICK r \in Rotation : cur \in {Plain(r), Gz(r)} /\ phase[r] = "done"
  BY <1>2, NameFacts DEF EvidenceInv, RotationInv, InHand
<1>4. OnSensor' = OnSensor
  BY <1>1 DEF OnSensor, Closed, Whole
<1>5. \A f \in Name : s3'[f] = IF f = cur THEN size[cur] ELSE s3[f]
  BY <1>1, <1>2
<1>6. \A q \in Rotation \ {r} : q \in Archived' <=> q \in Archived
  BY <1>1, <1>3, <1>5, NameFacts DEF Archived, Closed
<1>7. s3[cur] \in {NoFile, size[cur]}
  BY <1>1, <1>3 DEF EvidenceInv, RotationInv, CopyOf
<1>8. CASE r \in Archived
  <2>1. r \in Archived'
    BY <1>1, <1>2, <1>3, <1>5, <1>7, <1>8, NameFacts, SizeFacts DEF Archived, Closed
  <2>2. Archived' = Archived
    BY <1>6, <1>8, <2>1 DEF Archived
  <2> QED
    BY <1>4, <2>2 DEF CustodyOf!vars, OnSensor, Archived
<1>9. CASE r \notin Archived /\ r \notin Archived'
  <2>1. Archived' = Archived
    BY <1>6, <1>9 DEF Archived
  <2> QED
    BY <1>4, <2>1 DEF CustodyOf!vars, OnSensor, Archived
<1>10. CASE r \notin Archived /\ r \in Archived'
  <2>1. Archived' = Archived \cup {r}
    BY <1>3, <1>6, <1>10 DEF Archived
  <2>2. Whole(cur)
    BY <1>1, <1>2, <1>3, <1>5, <1>10, NameFacts DEF Archived, Closed, Whole
  <2>3. r \in OnSensor
    BY <1>3, <2>2 DEF OnSensor, Closed
  <2>4. CustodyOf!Archive(r)
    BY <1>4, <1>10, <2>1, <2>3 DEF CustodyOf!Archive, OnSensor, Archived
  <2> QED
    BY <1>3, <2>4 DEF CustodyOf!Next
<1> QED
  BY <1>8, <1>9, <1>10

LEMMA CustodyUnlink ==
  ASSUME TypeInv, EvidenceInv, Service(Unlink)
  PROVE  [CustodyOf!Next]_(CustodyOf!vars)
<1>1. /\ UNCHANGED <<written, phase, s3>>
      /\ pc = "unlink"
      /\ size' = [size EXCEPT ![cur] = NoFile]
  BY DEF Service, Unlink
<1>2. /\ cur \in Name /\ size \in [Name -> Size \cup {NoFile}]
      /\ written \in [Rotation -> Size] /\ s3[cur] # NoFile
  BY <1>1 DEF TypeInv, TypeOK, EvidenceInv, UnlinksCopied
<1>3. PICK r \in Rotation : cur \in {Plain(r), Gz(r)} /\ phase[r] = "done"
  BY <1>2, NameFacts DEF EvidenceInv, RotationInv, InHand
<1>4. Archived' = Archived
  BY <1>1 DEF Archived, Closed
<1>5. \A f \in Name : size'[f] = IF f = cur THEN NoFile ELSE size[f]
  BY <1>1, <1>2
<1>6. \A q \in Rotation \ {r} : q \in OnSensor' <=> q \in OnSensor
  BY <1>1, <1>3, <1>5, NameFacts DEF OnSensor, Closed, Whole
<1>7. CASE r \in OnSensor' <=> r \in OnSensor
  <2>1. OnSensor' = OnSensor
    BY <1>6, <1>7 DEF OnSensor
  <2> QED
    BY <1>4, <2>1 DEF CustodyOf!vars, OnSensor, Archived
<1>8. CASE r \in OnSensor' /\ r \notin OnSensor
  BY <1>1, <1>2, <1>3, <1>5, <1>8, NameFacts, SizeFacts DEF OnSensor, Closed, Whole
<1>9. CASE r \notin OnSensor' /\ r \in OnSensor
  <2>1. OnSensor' = OnSensor \ {r}
    BY <1>6, <1>9 DEF OnSensor
  <2>2. Whole(cur) /\ size[cur] # NoFile
    BY <1>1, <1>2, <1>3, <1>5, <1>9, NameFacts, SizeFacts DEF OnSensor, Closed, Whole
  <2>3. s3[cur] = written[r]
    BY <1>2, <1>3, <2>2, NameFacts DEF EvidenceInv, RotationInv, CopyOf, Whole
  <2>4. r \in Archived
    BY <1>3, <2>3 DEF Archived, Closed
  <2>5. CustodyOf!Release(r)
    BY <1>4, <1>9, <2>1, <2>4 DEF CustodyOf!Release, OnSensor, Archived
  <2> QED
    BY <1>3, <2>5 DEF CustodyOf!Next
<1> QED
  BY <1>7, <1>8, <1>9

LEMMA CustodyStep ==
  ASSUME TypeInv, EvidenceInv, [Next]_vars
  PROVE  [CustodyOf!Next]_(CustodyOf!vars)
<1>1. CASE CaptureNext /\ UNCHANGED serviceVars
  BY <1>1, CustodyCapture
<1>2. CASE Service(ArchiveOk)
  BY <1>2, CustodyArchive
<1>3. CASE Service(Unlink)
  BY <1>3, CustodyUnlink
<1>4. CASE UNCHANGED <<size, written, phase, s3>>
  BY <1>4, CustodyStutter
<1>5. ASSUME ~(CaptureNext /\ UNCHANGED serviceVars),
             ~Service(ArchiveOk), ~Service(Unlink)
      PROVE  UNCHANGED <<size, written, phase, s3>>
  BY <1>5 DEF Next, ServiceStep, ProcessStep, Service, Start, Poll, Exit, Take,
              PollEnds, TsharkMissing, ShipDelivered, ShipDropped, DissectEnds,
              ArchiveFails, UnlinkRaises, Mark, MarkRaises, Save, SaveRaises,
              Crash, Stop, vars, captureVars, serviceVars
<1> QED
  BY <1>1, <1>2, <1>3, <1>4, <1>5

LEMMA CustodyInit == Init => CustodyOf!Init
BY DEF Init, CaptureInit, CustodyOf!Init, Closed

\* The sensor implements Custody: a closed rotation is complete on the sensor or
\* in S3 at every moment, and only what S3 holds leaves the sensor.
THEOREM SensorCustodyKept ==
  ASSUME "slow" \notin Faults
  PROVE  Spec => CustodyKept
<1>1. Spec => [](TypeInv /\ EvidenceInv)
  BY SensorEvidenceInv
<1>2. TypeInv /\ EvidenceInv /\ [Next]_vars => [CustodyOf!Next]_(CustodyOf!vars)
  BY CustodyStep
<1> QED
  BY <1>1, <1>2, CustodyInit, PTL DEF Spec, CustodyKept, CustodyOf!Spec


-----------------------------------------------------------------------------
(* A capture is handled once. *)

\* Captures are archived and unlinked when they are processed.
ArchiverWorks == HasBucket /\ Faults \cap {"slow", "upload"} = {} /\ Undeletable = {}

\* What was handled is gone for good, and run() does not hold it; what is about
\* to be marked is gone already.
GoneInv ==
  /\ \A f \in handled : /\ size[f] = NoFile /\ phase[RotationOf(f)] = "done"
                        /\ f \notin queue
  /\ cur \notin queue
  /\ pc = "mark" => size[cur] = NoFile

LEMMA GoneInit == Init => GoneInv
BY DEF Init, CaptureInit, ServiceInit, GoneInv

LEMMA GoneCapture ==
  ASSUME TypeInv, EvidenceInv, GoneInv, CaptureNext, UNCHANGED serviceVars
  PROVE  GoneInv'
<1>1. UNCHANGED <<pc, cur, queue, handled>>
  BY DEF serviceVars, memory
<1>2. ASSUME NEW f \in Name, phase[RotationOf(f)] = "done"
      PROVE  size'[f] = size[f] /\ phase'[RotationOf(f)] = "done"
  BY <1>2, FinishedStays, NameFacts
<1>3. \A f \in handled : f \in Name /\ size[f] = NoFile /\ phase[RotationOf(f)] = "done" /\ f \notin queue
  BY DEF GoneInv, TypeInv, TypeOK
<1>4. ASSUME pc = "mark" PROVE size'[cur] = NoFile
  <2>1. cur \in Name /\ size[cur] = NoFile
    BY <1>4 DEF GoneInv, TypeInv, TypeOK
  <2>2. phase[RotationOf(cur)] = "done"
    BY <2>1, NameFacts DEF EvidenceInv, RotationInv, InHand
  <2> QED
    BY <1>2, <2>1, <2>2
<1> QED
  BY <1>1, <1>2, <1>3, <1>4 DEF GoneInv

\* A step that changes neither a file nor the history, lets go of captures at
\* most, and does not enter the marking.
LEMMA GoneMemory ==
  ASSUME TypeInv, GoneInv, UNCHANGED <<size, phase, handled>>,
         queue' \subseteq queue, cur' \in {cur, NoName}, pc' # "mark"
  PROVE  GoneInv'
<1>1. NoName \notin queue
  BY NameFacts DEF TypeInv, TypeOK
<1> QED
  BY <1>1 DEF GoneInv

LEMMA GoneStep ==
  ASSUME TypeInv, EvidenceInv, GoneInv, ArchiverWorks, [Next]_vars
  PROVE  GoneInv'
<1>1. CASE CaptureNext /\ UNCHANGED serviceVars
  BY <1>1, GoneCapture
<1>2. CASE Service(Poll)
  <2>1. /\ UNCHANGED <<size, phase, cur, handled>> /\ pc' = "next" /\ queue' = Settled
        /\ cur = NoName
    BY <1>2 DEF Service, Poll, TypeInv, TypeOK
  <2>2. \A f \in Settled : f \in Name /\ size[f] # NoFile
    BY SizeFacts DEF Settled
  <2> QED
    BY <2>1, <2>2, NameFacts DEF GoneInv
<1>3. CASE Service(Take)
  <2>1. /\ UNCHANGED <<size, phase, handled>> /\ pc' = "dissect"
        /\ cur' \in queue /\ queue' = queue \ {cur'}
    BY <1>3 DEF Service, Take, IsFirst
  <2> QED
    BY <2>1 DEF GoneInv
<1>4. CASE Service(ArchiveFails)
  <2>1. /\ UNCHANGED <<size, phase, cur, queue, handled>> /\ size[cur] = NoFile
    BY <1>4 DEF Service, ArchiveFails, memory, ArchiverWorks
  <2> QED
    BY <2>1 DEF GoneInv
<1>5. CASE Service(Unlink)
  <2>1. /\ UNCHANGED <<phase, cur, queue, handled>> /\ pc = "unlink"
        /\ size' = [size EXCEPT ![cur] = NoFile]
    BY <1>5 DEF Service, Unlink, memory
  <2>2. cur \in Name /\ handled \subseteq Name /\ size \in [Name -> Size \cup {NoFile}]
    BY <2>1 DEF TypeInv, TypeOK
  <2> QED
    BY <2>1, <2>2 DEF GoneInv
<1>6. CASE Service(Mark) \/ Service(MarkRaises)
  <2>1. /\ UNCHANGED <<size, phase>> /\ pc = "mark" /\ pc' # "mark"
        /\ handled' = handled \cup {cur}
        /\ queue' \subseteq queue /\ cur' \in {cur, NoName}
    BY <1>6 DEF Service, Mark, MarkRaises, Raise, LeaveProcess
  <2>2. cur \in Name /\ NoName \notin queue
    BY <2>1, NameFacts DEF TypeInv, TypeOK
  <2>3. phase[RotationOf(cur)] = "done"
    BY <2>2, NameFacts DEF EvidenceInv, RotationInv, InHand
  <2> QED
    BY <2>1, <2>2, <2>3 DEF GoneInv
<1>7. CASE \/ Service(Start) \/ Service(Exit) \/ Service(PollEnds) \/ Service(Crash)
           \/ Service(TsharkMissing) \/ Service(ShipDelivered) \/ Service(ShipDropped)
           \/ Service(DissectEnds) \/ Service(ArchiveOk) \/ Service(UnlinkRaises)
           \/ Service(Save) \/ Service(SaveRaises)
  <2>1. /\ UNCHANGED <<size, phase, handled>>
        /\ queue' \subseteq queue /\ cur' \in {cur, NoName} /\ pc' # "mark"
    BY <1>7 DEF Service, Start, Exit, PollEnds, Crash, Forget, TsharkMissing,
                ShipDelivered, ShipDropped, DissectEnds, ArchiveOk, UnlinkRaises,
                Save, SaveRaises, Raise, Return, LeaveProcess, memory
  <2> QED
    BY <2>1, GoneMemory
<1>8. CASE Service(Stop) \/ UNCHANGED vars
  BY <1>8 DEF Service, Stop, vars, captureVars, serviceVars, memory, GoneInv
<1> QED
  BY <1>1, <1>2, <1>3, <1>4, <1>5, <1>6, <1>7, <1>8
     DEF Next, ServiceStep, ProcessStep, Service

\* Only the loop of run() takes up captures, and it holds none that was handled.
LEMMA StepTakesFresh ==
  ASSUME TypeInv, GoneInv, [Next]_vars, cur' # cur
  PROVE  cur' \notin handled
<1>1. NoName \notin handled
  BY NameFacts DEF TypeInv, TypeOK
<1>2. cur' \in queue \cup {NoName}
  <2>1. CASE CaptureNext /\ UNCHANGED serviceVars
    BY <2>1 DEF serviceVars, memory
  <2>2. CASE Service(Take)
    BY <2>2 DEF Service, Take, IsFirst
  <2>3. ASSUME ~(CaptureNext /\ UNCHANGED serviceVars), ~Service(Take)
        PROVE  cur' \in {cur, NoName}
    BY <2>3 DEF Next, ServiceStep, ProcessStep, Service, Start, Poll, Exit, PollEnds,
                Crash, Stop, Forget, TsharkMissing, ShipDelivered, ShipDropped,
                DissectEnds, ArchiveOk, ArchiveFails, Unlink, UnlinkRaises, Mark,
                MarkRaises, Save, SaveRaises, Raise, Return, LeaveProcess, memory,
                vars, captureVars, serviceVars
  <2> QED
    BY <2>1, <2>2, <2>3
<1> QED
  BY <1>1, <1>2 DEF GoneInv

\* A capture whose processing was recorded is not taken up again, through crashes,
\* stops, kills, torn state files and trimmed names - if there is a bucket and it
\* accepts uploads, captures can be deleted, and files in use grow between polls.
THEOREM SensorNeverReprocessed ==
  ASSUME ArchiverWorks
  PROVE  Spec => NeverReprocessed
<1> DEFINE Fresh == cur' # cur => cur' \notin handled
<1>1. "slow" \notin Faults
  BY DEF ArchiverWorks
<1>2. Spec => [](TypeInv /\ EvidenceInv)
  BY <1>1, SensorEvidenceInv
<1>3. TypeInv /\ EvidenceInv /\ GoneInv /\ [Next]_vars => GoneInv'
  BY GoneStep
<1>4. TypeInv /\ GoneInv /\ [Next]_vars => [Fresh]_vars
  BY StepTakesFresh
<1>5. NeverReprocessed <=> [][Fresh]_vars
  BY DEF NeverReprocessed
<1> HIDE DEF Fresh
<1> QED
  BY <1>2, <1>3, <1>4, <1>5, GoneInit, PTL DEF Spec

-----------------------------------------------------------------------------
(* A frame is sent once. *)

\* Both sides are only stopped in an orderly way; what is remembered suffices.
OrderlyStops ==
  /\ Faults \cap {"slow", "kill", "crash", "save"} = {}
  /\ Undeletable = {}
  /\ NumRotations <= StateLimit

\* What the service remembers, or will when it is started.
Remembered == IF pc = "down" THEN stateFile ELSE processed

Fresh(r) == \A i \in Frame : received[r][i] = 0

Compressed == { Gz(r) : r \in Rotation }

\* A finished rotation is in its compressed file only, so this is what is settled.
OneName == \A r \in Rotation : phase[r] = "done" => size[Plain(r)] = NoFile

\* What a stop loses is in the state file, and no name is trimmed from it.
MemoryKept ==
  /\ processed \cup stateFile \cup queue \subseteq Compressed
  /\ cur \in Compressed \cup {NoName}
  /\ pc \notin {"down", "save"} => stateFile = processed

\* A rotation whose capture is neither remembered nor in hand was not shipped,
\* and one that is in hand was shipped up to the record at which process() is.
ShippedOnce ==
  /\ queue \cap Remembered = {} /\ cur \notin queue
  /\ pc = "save" => cur \in processed
  /\ \A r \in Rotation : Gz(r) \notin Remembered /\ Gz(r) # cur => Fresh(r)
  /\ pc = "dissect" => \A i \in Frame : i > sent => received[RotationOf(cur)][i] = 0

OnceInv == OneName /\ MemoryKept /\ ShippedOnce /\ ShippedAtMostOnce

LEMMA OnceInit == Init => OnceInv
<1> SUFFICES ASSUME Init PROVE OnceInv
  OBVIOUS
<1>1. OneName /\ MemoryKept
  BY DEF Init, CaptureInit, ServiceInit, OneName, MemoryKept
<1>2. \A r \in Rotation : \A i \in Frame : received[r][i] = 0
  BY DEF Init, ServiceInit
<1>3. pc = "down" /\ queue = {} /\ cur = NoName
  BY DEF Init, ServiceInit
<1>4. ShippedOnce /\ ShippedAtMostOnce
  BY <1>2, <1>3 DEF ShippedOnce, ShippedAtMostOnce, Fresh
<1> QED
  BY <1>1, <1>4 DEF OnceInv

\* There are no more compressed names than the state file holds.
LEMMA NothingTrimmed ==
  ASSUME NEW names, names \subseteq Compressed, NumRotations <= StateLimit
  PROVE  Recent(names) = names
<1> SUFFICES ASSUME NEW f \in names
             PROVE  Cardinality({g \in names : Before(f, g)}) < StateLimit
  BY DEF Recent
<1> DEFINE later == {g \in names : Before(f, g)}
<1>1. PICK r \in Rotation : f = Gz(r)
  BY DEF Compressed
<1> DEFINE rotation == [g \in later |-> RotationOf(g)]
<1>2. rotation \in Injection(later, r + 1 .. NumRotations)
  <2>1. ASSUME NEW g \in later PROVE g = Gz(RotationOf(g)) /\ RotationOf(g) \in r + 1 .. NumRotations
    <3>1. PICK q \in Rotation : g = Gz(q)
      BY DEF Compressed
    <3>2. r < q /\ RotationOf(g) = q
      BY <1>1, <3>1, NameFacts DEF Before
    <3> QED
      BY <3>1, <3>2, NumRotationsAssumption DEF Rotation
  <2> QED
    BY <2>1 DEF Injection, IsInjective
<1>3. /\ IsFiniteSet(r + 1 .. NumRotations)
      /\ Cardinality(r + 1 .. NumRotations) <= NumRotations - 1
  <2>1. r \in Nat /\ 1 <= r /\ r <= NumRotations /\ NumRotations \in Nat
    BY NumRotationsAssumption DEF Rotation
  <2>2. r + 1 \in Int /\ NumRotations \in Int
    BY <2>1
  <2>3. /\ IsFiniteSet(r + 1 .. NumRotations)
        /\ Cardinality(r + 1 .. NumRotations)
             = IF r + 1 > NumRotations THEN 0 ELSE NumRotations - (r + 1) + 1
    BY <2>2, FS_Interval
  <2> QED
    BY <2>1, <2>3
<1>4. IsFiniteSet(later) /\ Cardinality(later) <= Cardinality(r + 1 .. NumRotations)
  BY <1>2, <1>3, FS_Injection
<1>5. /\ Cardinality(later) \in Nat /\ Cardinality(r + 1 .. NumRotations) \in Nat
  BY <1>3, <1>4, FS_CardinalityType
<1> QED
  BY <1>3, <1>4, <1>5, NumRotationsAssumption, StateLimitAssumption

-----------------------------------------------------------------------------
(* The steps of the two sides, when they are stopped in an orderly way only. *)

LEMMA OneNameStep ==
  ASSUME TypeInv, EvidenceInv, OneName, OrderlyStops, [Next]_vars
  PROVE  OneName'
<1> SUFFICES ASSUME NEW r \in Rotation, phase'[r] = "done" PROVE size'[Plain(r)] = NoFile
  BY DEF OneName
<1>1. CASE CaptureNext /\ UNCHANGED serviceVars
  <2>1. CASE phase[r] = "done"
    BY <1>1, <2>1, FinishedStays DEF OneName
  <2>2. CASE phase[r] # "done"
    BY <1>1, <2>2, NameFacts
       DEF CaptureNext, TypeInv, TypeOK, OpenRotation, WriteFrame, Rotate, GzipStart,
           GzipWrite, GzipFinish, CaptureKilled, CaptureStopped, CaptureEnds, OrderlyStops
  <2> QED
    BY <2>1, <2>2
<1>2. CASE Service(Unlink)
  <2>1. UNCHANGED phase /\ size' = [size EXCEPT ![cur] = NoFile]
    BY <1>2 DEF Service, Unlink
  <2> QED
    BY <2>1, NameFacts DEF OneName, TypeInv, TypeOK
<1>3. ASSUME ~(CaptureNext /\ UNCHANGED serviceVars), ~Service(Unlink)
      PROVE  UNCHANGED <<size, phase>>
  BY <1>3 DEF Next, ServiceStep, ProcessStep, Service, Start, Poll, Exit, Take, PollEnds,
              TsharkMissing, ShipDelivered, ShipDropped, DissectEnds, ArchiveOk,
              ArchiveFails, UnlinkRaises, Mark, MarkRaises, Save, SaveRaises, Crash,
              Stop, vars, captureVars
<1> QED
  BY <1>1, <1>2, <1>3 DEF OneName

LEMMA MemoryStep ==
  ASSUME TypeInv, EvidenceInv, OneName, MemoryKept, OrderlyStops, [Next]_vars
  PROVE  MemoryKept'
<1>1. CASE (CaptureNext /\ UNCHANGED serviceVars) \/ Service(Stop) \/ UNCHANGED vars
  BY <1>1 DEF MemoryKept, Service, Stop, vars, serviceVars, memory
<1>2. CASE Service(Poll) /\ Timely
  <2>1. /\ UNCHANGED <<processed, stateFile, cur>> /\ pc = "idle" /\ pc' = "next"
        /\ queue' = Settled
    BY <1>2 DEF Service, Poll
  <2>2. Settled \subseteq Compressed
    <3> SUFFICES ASSUME NEW f \in Settled PROVE f \in Compressed
      OBVIOUS
    <3>1. f \in Name /\ f \in queue'
      BY <2>1 DEF Settled
    <3>2. EvidenceInv'
      BY <1>2, EvidencePoll DEF OrderlyStops
    <3>3. phase[RotationOf(f)] = "done"
      BY <1>2, <3>1, <3>2, NameFacts DEF EvidenceInv, RotationInv, InHand, Service
    <3>4. f # Plain(RotationOf(f))
      BY <3>1, <3>3, NameFacts, SizeFacts DEF OneName, Settled
    <3> QED
      BY <3>1, <3>4, NameFacts DEF Compressed
  <2> QED
    BY <2>1, <2>2 DEF MemoryKept
<1>3. CASE Service(Save)
  <2>1. /\ UNCHANGED queue /\ cur' = NoName /\ processed' = Recent(processed)
        /\ stateFile' = Recent(processed)
    BY <1>3 DEF Service, Save, Return, LeaveProcess
  <2>2. Recent(processed) = processed
    BY NothingTrimmed DEF MemoryKept, OrderlyStops
  <2> QED
    BY <2>1, <2>2 DEF MemoryKept
<1>4. CASE Service(Mark)
  <2>1. /\ UNCHANGED <<queue, cur>> /\ processed' = processed \cup {cur}
        /\ stateFile' = {} /\ pc = "mark" /\ pc' = "save"
    BY <1>4 DEF Service, Mark
  <2>2. cur \in Name
    BY <2>1 DEF TypeInv, TypeOK
  <2> QED
    BY <2>1, <2>2, NameFacts DEF MemoryKept
<1>5. CASE Service(Start) \/ Service(Exit)
  BY <1>5 DEF Service, Start, Exit, Forget, MemoryKept
<1>6. CASE Service(Take)
  BY <1>6 DEF Service, Take, IsFirst, MemoryKept
<1>7. CASE \/ Service(PollEnds) \/ Service(TsharkMissing) \/ Service(ShipDelivered)
           \/ Service(ShipDropped) \/ Service(DissectEnds) \/ Service(ArchiveOk)
           \/ Service(ArchiveFails) \/ Service(Unlink)
  <2>1. /\ UNCHANGED <<processed, stateFile>> /\ queue' \subseteq queue
        /\ cur' \in {cur, NoName} /\ pc \notin {"down", "save"}
    BY <1>7 DEF Service, PollEnds, TsharkMissing, ShipDelivered, ShipDropped, DissectEnds,
                ArchiveOk, ArchiveFails, Unlink, Raise, LeaveProcess, memory
  <2> QED
    BY <2>1 DEF MemoryKept
<1>8. ~Service(Crash) /\ ~Service(UnlinkRaises) /\ ~Service(MarkRaises) /\ ~Service(SaveRaises)
  BY DEF OrderlyStops, Service, Crash, UnlinkRaises, MarkRaises, SaveRaises
<1> QED
  BY <1>1, <1>2, <1>3, <1>4, <1>5, <1>6, <1>7, <1>8 DEF Next, ServiceStep, ProcessStep, Service

\* A step of process() or of the loop of run() that ships nothing, and whose
\* capture is let go only if it is remembered or nothing of it was shipped.
LEMMA ShippedKeeps ==
  ASSUME ShippedOnce, ShippedAtMostOnce, UNCHANGED received,
         pc' \notin {"dissect", "save"},
         Remembered' = Remembered, queue' \subseteq queue, NoName \notin queue,
         cur' = cur \/ (cur' = NoName /\ (cur \notin Compressed \/ cur \in Remembered
                                          \/ Fresh(RotationOf(cur))))
  PROVE  ShippedOnce' /\ ShippedAtMostOnce'
<1>1. ShippedAtMostOnce'
  BY DEF ShippedAtMostOnce
<1>2. queue' \cap Remembered' = {} /\ cur' \notin queue'
  BY DEF ShippedOnce
<1>3. ASSUME NEW r \in Rotation, Gz(r) \notin Remembered, Gz(r) # cur' PROVE Fresh(r)'
  <2>1. Fresh(r)
    BY <1>3, NameFacts DEF ShippedOnce, Compressed
  <2> QED
    BY <2>1 DEF Fresh
<1>4. \A r \in Rotation : Gz(r) \notin Remembered' /\ Gz(r) # cur' => Fresh(r)'
  BY <1>3
<1> QED
  BY <1>1, <1>2, <1>4 DEF ShippedOnce

LEMMA DeliveredOnce ==
  ASSUME TypeInv, MemoryKept, ShippedOnce, ShippedAtMostOnce, Service(ShipDelivered)
  PROVE  ShippedOnce' /\ ShippedAtMostOnce'
<1>1. /\ UNCHANGED <<pc, cur, queue, processed, stateFile>>
      /\ pc = "dissect" /\ sent' = sent + 1 /\ sent < recs
      /\ received' = [received EXCEPT ![RotationOf(cur)][sent + 1] =
                        IF @ < Twice THEN @ + 1 ELSE @]
  BY DEF Service, ShipDelivered
<1>2. /\ cur \in Name /\ RotationOf(cur) \in Rotation /\ sent \in Nat /\ sent + 1 \in Frame
      /\ received \in [Rotation -> [Frame -> 0 .. Twice]]
  BY <1>1, NameFacts, SizeFacts, MaxFramesAssumption DEF TypeInv, TypeOK, Frame
<1>3. received[RotationOf(cur)][sent + 1] = 0
  BY <1>1, <1>2 DEF ShippedOnce
<1>4. \A r \in Rotation : \A i \in Frame :
        received'[r][i] = IF r = RotationOf(cur) /\ i = sent + 1 THEN 1 ELSE received[r][i]
  BY <1>1, <1>2, <1>3 DEF Twice
<1>5. ShippedAtMostOnce'
  BY <1>4 DEF ShippedAtMostOnce
<1>6. cur = Gz(RotationOf(cur))
  BY <1>2, NameFacts DEF MemoryKept, Compressed
<1>7. \A r \in Rotation : Gz(r) \notin Remembered' /\ Gz(r) # cur' => Fresh(r)'
  BY <1>1, <1>4, <1>6 DEF ShippedOnce, Fresh, Remembered
<1>8. \A i \in Frame : i > sent' => received'[RotationOf(cur)][i] = 0
  <2> SUFFICES ASSUME NEW i \in Frame, i > sent + 1 PROVE received'[RotationOf(cur)][i] = 0
    BY <1>1
  <2>1. i > sent /\ i # sent + 1
    BY <1>2, MaxFramesAssumption DEF Frame
  <2> QED
    BY <1>1, <1>2, <1>4, <2>1 DEF ShippedOnce
<1>9. ShippedOnce'
  BY <1>1, <1>7, <1>8 DEF ShippedOnce, Remembered
<1> QED
  BY <1>5, <1>9

LEMMA OnceStep ==
  ASSUME TypeInv, EvidenceInv, OnceInv, OrderlyStops, [Next]_vars
  PROVE  ShippedOnce' /\ ShippedAtMostOnce'
<1> USE DEF OnceInv
<1>0. NoName \notin queue /\ NoName \notin Compressed
  BY NameFacts DEF TypeInv, TypeOK, Compressed
<1>1. CASE (CaptureNext /\ UNCHANGED serviceVars) \/ Service(Stop) \/ UNCHANGED vars
  BY <1>1 DEF ShippedOnce, ShippedAtMostOnce, Fresh, Remembered, Service, Stop, vars,
              serviceVars, memory
<1>2. CASE Service(Poll)
  <2>1. /\ UNCHANGED <<processed, stateFile, cur, received>> /\ pc = "idle" /\ pc' = "next"
        /\ queue' = Settled /\ cur = NoName
    BY <1>2 DEF Service, Poll, TypeInv, TypeOK
  <2>2. Settled \cap processed = {} /\ NoName \notin Settled
    BY NameFacts DEF Settled
  <2> QED
    BY <2>1, <2>2 DEF ShippedOnce, ShippedAtMostOnce, Fresh, Remembered
<1>3. CASE Service(Take)
  <2>1. /\ UNCHANGED <<processed, stateFile, received>> /\ pc = "next" /\ pc' = "dissect"
        /\ cur' \in queue /\ queue' = queue \ {cur'} /\ sent' = 0 /\ cur = NoName
    BY <1>3 DEF Service, Take, IsFirst, TypeInv, TypeOK
  <2>2. PICK r \in Rotation : cur' = Gz(r) /\ RotationOf(cur') = r
    BY <2>1, NameFacts DEF MemoryKept, Compressed
  <2>3. Fresh(r)
    BY <2>1, <2>2, NameFacts DEF ShippedOnce
  <2>4. \A i \in Frame : received'[RotationOf(cur')][i] = 0
    BY <2>1, <2>2, <2>3 DEF Fresh
  <2>5. \A q \in Rotation : Gz(q) \notin Remembered' /\ Gz(q) # cur' => Fresh(q)'
    BY <2>1, NameFacts DEF ShippedOnce, Fresh, Remembered
  <2> QED
    BY <2>1, <2>4, <2>5 DEF ShippedOnce, ShippedAtMostOnce, Remembered
<1>4. CASE Service(ShipDelivered)
  BY <1>4, DeliveredOnce
<1>5. CASE Service(ShipDropped)
  <2>1. /\ UNCHANGED <<pc, processed, stateFile, cur, queue, received>>
        /\ pc = "dissect" /\ sent' = sent + 1
    BY <1>5 DEF Service, ShipDropped
  <2>2. sent \in Nat
    BY SizeFacts DEF TypeInv, TypeOK, Size
  <2>3. \A i \in Frame : i > sent' => i > sent
    BY <2>1, <2>2 DEF Frame
  <2> QED
    BY <2>1, <2>3 DEF ShippedOnce, ShippedAtMostOnce, Fresh, Remembered
<1>6. CASE Service(TsharkMissing)
  <2>1. /\ UNCHANGED <<processed, stateFile, received>> /\ pc = "dissect" /\ pc' = "idle"
        /\ sent = 0 /\ cur' = NoName /\ queue' = {}
    BY <1>6 DEF Service, TsharkMissing, Raise, LeaveProcess
  <2>2. Fresh(RotationOf(cur))
    <3>1. \A i \in Frame : i > 0
      BY DEF Frame
    <3> QED
      BY <2>1, <3>1 DEF ShippedOnce, Fresh
  <2> QED
    BY <1>0, <2>1, <2>2, ShippedKeeps DEF Remembered
<1>7. CASE Service(Start) \/ Service(Exit)
  <2>1. /\ UNCHANGED received /\ pc' \notin {"dissect", "save"} /\ pc \in {"down", "idle"}
        /\ Remembered' = Remembered /\ queue' \subseteq queue /\ cur' \in {cur, NoName}
    BY <1>7 DEF Service, Start, Exit, Forget, Remembered, MemoryKept
  <2>2. cur = NoName
    BY <2>1 DEF TypeInv, TypeOK
  <2> QED
    BY <1>0, <2>1, <2>2, ShippedKeeps
<1>8. CASE \/ Service(PollEnds) \/ Service(DissectEnds) \/ Service(ArchiveOk)
           \/ Service(ArchiveFails) \/ Service(Unlink)
  <2>1. /\ UNCHANGED <<processed, stateFile, received, cur>> /\ queue' \subseteq queue
        /\ pc # "down" /\ pc' \notin {"down", "dissect", "save"}
    BY <1>8 DEF Service, PollEnds, DissectEnds, ArchiveOk, ArchiveFails, Unlink, memory
  <2> QED
    BY <1>0, <2>1, ShippedKeeps DEF Remembered
<1>9. CASE Service(Mark)
  <2>1. /\ UNCHANGED <<queue, cur, received>> /\ processed' = processed \cup {cur}
        /\ pc = "mark" /\ pc' = "save"
    BY <1>9 DEF Service, Mark
  <2>2. queue' \cap Remembered' = {} /\ cur' \notin queue' /\ cur' \in processed'
    BY <2>1 DEF ShippedOnce, Remembered
  <2>3. \A q \in Rotation : Gz(q) \notin Remembered' /\ Gz(q) # cur' => Fresh(q)'
    BY <2>1 DEF ShippedOnce, Fresh, Remembered
  <2> QED
    BY <2>1, <2>2, <2>3 DEF ShippedOnce, ShippedAtMostOnce
<1>10. CASE Service(Save)
  <2>1. /\ UNCHANGED <<queue, received>> /\ cur' = NoName /\ processed' = Recent(processed)
        /\ pc = "save" /\ pc' = "next"
    BY <1>10 DEF Service, Save, Return, LeaveProcess
  <2>2. Recent(processed) = processed
    BY NothingTrimmed DEF MemoryKept, OrderlyStops
  <2>3. cur \in Remembered
    BY <2>1 DEF ShippedOnce, Remembered
  <2> QED
    BY <1>0, <2>1, <2>2, <2>3, ShippedKeeps DEF Remembered
<1>11. ~Service(Crash) /\ ~Service(UnlinkRaises) /\ ~Service(MarkRaises) /\ ~Service(SaveRaises)
  BY DEF OrderlyStops, Service, Crash, UnlinkRaises, MarkRaises, SaveRaises
<1> QED
  BY <1>1, <1>2, <1>3, <1>4, <1>5, <1>6, <1>7, <1>8, <1>9, <1>10, <1>11
     DEF Next, ServiceStep, ProcessStep, Service

\* No frame goes to Logstash twice, over any number of stops and restarts of the
\* service and under both names of each rotation, whether or not S3 takes the
\* captures - if nobody is killed, the state file can be written and holds the
\* names of the captures that are left, and files in use grow between polls.
THEOREM SensorShippedAtMostOnce ==
  ASSUME OrderlyStops
  PROVE  Spec => []ShippedAtMostOnce
<1>1. Spec => [](TypeInv /\ EvidenceInv)
  BY SensorEvidenceInv DEF OrderlyStops
<1>2. TypeInv /\ EvidenceInv /\ OnceInv /\ [Next]_vars => OnceInv'
  BY OneNameStep, MemoryStep, OnceStep DEF OnceInv
<1>3. OnceInv => ShippedAtMostOnce
  BY DEF OnceInv
<1> QED
  BY <1>1, <1>2, <1>3, OnceInit, PTL DEF Spec

=============================================================================
