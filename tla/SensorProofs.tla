---------------------------- MODULE SensorProofs ----------------------------
(***************************************************************************)
(* Theorems about Sensor, for every number of rotations, frames, restarts  *)
(* and remembered names, and for every combination of faults.              *)
(***************************************************************************)
EXTENDS SensorInvariants, TLAPS

-----------------------------------------------------------------------------
(* The names and the sizes of files. *)

LEMMA NameFacts ==
  /\ \A r \in Rotation : /\ Plain(r) \in Name /\ Gz(r) \in Name
                         /\ Plain(r) # Gz(r)
                         /\ RotationOf(Plain(r)) = r /\ RotationOf(Gz(r)) = r
                         /\ ~IsGz(Plain(r)) /\ IsGz(Gz(r))
  /\ \A f \in Name : /\ RotationOf(f) \in Rotation
                     /\ f = IF IsGz(f) THEN Gz(RotationOf(f)) ELSE Plain(RotationOf(f))
  /\ NoName \notin Name
BY DEF Name, Plain, Gz, RotationOf, IsGz, NoName, Rotation

LEMMA SizeFacts ==
  /\ NoFile \notin Size
  /\ \A n \in Size : n \in Int /\ n >= 0 /\ n <= MaxFrames
  /\ 0 \in Size
  /\ \A n \in Size : n < MaxFrames => n + 1 \in Size
  /\ NoFile = -1
BY MaxFramesAssumption DEF Size, NoFile

\* The frames a reader gets out of a file are at most those tcpdump may write.
LEMMA ReadableType ==
  ASSUME TypeOK, NEW f \in Name
  PROVE  Readable(f) \in Size
BY SizeFacts DEF TypeOK, Readable

-----------------------------------------------------------------------------
(* Type correctness.  TypeOK alone is not inductive: that a file has no more *)
(* frames than its rotation is what keeps its size in range.                 *)

Bounded == \A f \in Name : size[f] <= written[RotationOf(f)]

TypeInv == TypeOK /\ Bounded

LEMMA TypeInit == Init => TypeInv
<1> SUFFICES ASSUME Init PROVE TypeInv
  OBVIOUS
<1>1. received \in [Rotation -> [Frame -> 0 .. Twice]]
  BY DEF Init, ServiceInit, Twice
<1>2. cur = NoName /\ pc = "down" /\ restarts \in 0 .. MaxRestarts /\ sent \in 0 .. recs
  BY MaxRestartsAssumption DEF Init, ServiceInit
<1>3. /\ size  \in [Name -> Size \cup {NoFile}]
      /\ sizes \in [Name -> Size \cup {NoFile}]
      /\ s3    \in [Name -> Size \cup {NoFile}]
      /\ written \in [Rotation -> Size]
      /\ phase \in [Rotation -> Phase]
  BY SizeFacts DEF Init, CaptureInit, ServiceInit, Phase
<1>4. running \in BOOLEAN
  BY Zenon DEF Init, ServiceInit
<1>5. TypeOK
  BY <1>1, <1>2, <1>3, <1>4, SizeFacts DEF Init, ServiceInit, TypeOK
<1>6. Bounded
  BY NameFacts, SizeFacts DEF Init, CaptureInit, Bounded
<1> QED
  BY <1>5, <1>6 DEF TypeInv

LEMMA TypeCapture ==
  ASSUME TypeInv, CaptureNext, UNCHANGED serviceVars
  PROVE  TypeInv'
<1> DEFINE T == /\ size' \in [Name -> Size \cup {NoFile}]
                /\ written' \in [Rotation -> Size]
                /\ phase' \in [Rotation -> Phase]
                /\ Bounded'
<1>1. UNCHANGED <<pc, running, processed, sizes, queue, cur, recs, sent,
                  stateFile, s3, received, handled, restarts>>
  BY DEF serviceVars, memory
<1>0. /\ size \in [Name -> Size \cup {NoFile}]
      /\ written \in [Rotation -> Size]
      /\ phase \in [Rotation -> Phase]
      /\ \A f \in Name : size[f] <= written[RotationOf(f)]
  BY DEF TypeInv, TypeOK, Bounded
<1> USE NameFacts, SizeFacts, MaxFramesAssumption, <1>0 DEF Phase, Bounded
<1>2. ASSUME NEW r \in Rotation, OpenRotation(r) PROVE T
  BY <1>2 DEF OpenRotation
<1>3. ASSUME NEW r \in Rotation, WriteFrame(r) PROVE T
  <2>1. written[r] + 1 \in Size
    BY <1>3 DEF WriteFrame
  <2>2. size[Plain(r)] # NoFile => size[Plain(r)] + 1 \in Size
    BY <1>3 DEF WriteFrame
  <2> QED
    BY <1>3, <2>1, <2>2 DEF WriteFrame
<1>4. ASSUME NEW r \in Rotation, Rotate(r) PROVE T
  BY <1>4 DEF Rotate
<1>5. ASSUME NEW r \in Rotation, GzipStart(r) PROVE T
  <2>1. CASE size[Plain(r)] = NoFile
    BY <1>5, <2>1 DEF GzipStart
  <2>2. CASE size[Plain(r)] # NoFile
    <3>1. size' = [size EXCEPT ![Gz(r)] = 0] /\ phase' = [phase EXCEPT ![r] = "zipping"]
      BY <1>5, <2>2 DEF GzipStart
    <3> QED
      BY <1>5, <3>1 DEF GzipStart
  <2> QED
    BY <2>1, <2>2
<1>6. ASSUME NEW r \in Rotation, GzipWrite(r) PROVE T
  <2>1. size[Gz(r)] + 1 \in Size /\ size[Gz(r)] + 1 <= written[r]
    BY <1>6 DEF GzipWrite
  <2> QED
    BY <1>6, <2>1 DEF GzipWrite
<1>7. ASSUME NEW r \in Rotation, GzipFinish(r) PROVE T
  BY <1>7 DEF GzipFinish
<1>8. ASSUME CaptureKilled PROVE T
  BY <1>8 DEF CaptureKilled, CaptureEnds
<1>9. ASSUME CaptureStopped PROVE T
  BY <1>9 DEF CaptureStopped, CaptureEnds
<1>10. T
  BY <1>2, <1>3, <1>4, <1>5, <1>6, <1>7, <1>8, <1>9 DEF CaptureNext
<1> QED
  BY <1>1, <1>10 DEF TypeInv, TypeOK

\* A step that only changes the service's memory keeps the types.
LEMMA TypeService ==
  ASSUME TypeInv, ServiceStep \/ Service(Crash) \/ Service(Stop)
  PROVE  TypeInv'
<1>0. UNCHANGED <<written, phase>>
  BY DEF ServiceStep, Service
<1>n. NoFile \in Size \cup {NoFile} /\ 0 \in Size /\ NoName \notin Name
  BY NameFacts, SizeFacts
<1>b. size' = size => Bounded'
  BY <1>0 DEF TypeInv, Bounded
<1> USE <1>0, <1>n, <1>b DEF TypeInv, TypeOK
<1>1. CASE Service(Start)
  BY <1>1 DEF Service, Start
<1>2. CASE Service(Poll)
  BY <1>2 DEF Service, Poll, Settled
<1>3. CASE Service(Exit)
  <2>1. running' \in BOOLEAN
    BY <1>3, Zenon DEF Service, Exit, Forget
  <2> QED
    BY <1>3, <2>1 DEF Service, Exit, Forget
<1>4. CASE Service(Take)
  <2>1. PICK f \in Name : cur' = f /\ queue' = queue \ {f} /\ recs' = Readable(f)
    BY <1>4 DEF Service, Take
  <2>2. recs' \in Size /\ 0 \in 0 .. recs'
    BY <2>1, ReadableType, SizeFacts
  <2> QED
    BY <1>4, <2>1, <2>2 DEF Service, Take
<1>5. CASE Service(PollEnds)
  BY <1>5 DEF Service, PollEnds
<1>6. CASE Service(TsharkMissing)
  BY <1>6 DEF Service, TsharkMissing, Raise, LeaveProcess
<1>7. CASE Service(ShipDelivered) \/ Service(ShipDropped)
  <2>1. sent + 1 \in 0 .. recs /\ sent + 1 \in Frame
    BY <1>7, SizeFacts, MaxFramesAssumption DEF Service, ShipDelivered, ShipDropped, Frame
  <2>2. received' \in [Rotation -> [Frame -> 0 .. Twice]]
    <3>1. CASE Service(ShipDropped)
      BY <3>1 DEF Service, ShipDropped
    <3>2. CASE Service(ShipDelivered)
      <4>1. cur \in Name /\ RotationOf(cur) \in Rotation
        BY <3>2, NameFacts DEF Service, ShipDelivered
      <4> DEFINE n == received[RotationOf(cur)][sent + 1]
      <4>2. n \in 0 .. Twice /\ (IF n < Twice THEN n + 1 ELSE n) \in 0 .. Twice
        BY <2>1, <4>1 DEF Twice
      <4> QED
        BY <2>1, <3>2, <4>1, <4>2 DEF Service, ShipDelivered
    <3> QED
      BY <1>7, <3>1, <3>2
  <2> QED
    BY <1>7, <2>1, <2>2 DEF Service, ShipDelivered, ShipDropped
<1>8. CASE Service(DissectEnds)
  BY <1>8 DEF Service, DissectEnds, memory
<1>9. CASE Service(ArchiveOk)
  BY <1>9 DEF Service, ArchiveOk, memory
<1>10. CASE Service(ArchiveFails)
  BY <1>10 DEF Service, ArchiveFails, memory
<1>11. CASE Service(Unlink)
  <2>1. Bounded'
    BY <1>11, NameFacts, SizeFacts DEF Service, Unlink, Bounded
  <2> QED
    BY <1>11, <2>1 DEF Service, Unlink, memory
<1>12. CASE Service(UnlinkRaises)
  BY <1>12 DEF Service, UnlinkRaises, Raise, LeaveProcess
<1>13. CASE Service(Mark)
  BY <1>13 DEF Service, Mark
<1>14. CASE Service(MarkRaises)
  BY <1>14 DEF Service, MarkRaises, Raise, LeaveProcess
<1>15. CASE Service(Save)
  BY <1>15 DEF Service, Save, Return, LeaveProcess, Recent
<1>16. CASE Service(SaveRaises)
  BY <1>16 DEF Service, SaveRaises, Raise, LeaveProcess
<1>17. CASE Service(Crash)
  <2>1. running' \in BOOLEAN
    BY <1>17, Zenon DEF Service, Crash, Forget
  <2> QED
    BY <1>17, <2>1, MaxRestartsAssumption DEF Service, Crash, Forget
<1>18. CASE Service(Stop)
  <2>1. running' \in BOOLEAN
    BY <1>18, Zenon DEF Service, Stop
  <2> QED
    BY <1>18, <2>1, MaxRestartsAssumption DEF Service, Stop
<1> QED
  BY <1>1, <1>2, <1>3, <1>4, <1>5, <1>6, <1>7, <1>8, <1>9, <1>10, <1>11, <1>12,
     <1>13, <1>14, <1>15, <1>16, <1>17, <1>18
     DEF ServiceStep, ProcessStep, Service

LEMMA TypeStep ==
  ASSUME TypeInv, [Next]_vars
  PROVE  TypeInv'
<1>1. CASE CaptureNext /\ UNCHANGED serviceVars
  BY <1>1, TypeCapture
<1>2. CASE ServiceStep \/ Service(Crash) \/ Service(Stop)
  BY <1>2, TypeService
<1>3. CASE UNCHANGED vars
  BY <1>3 DEF TypeInv, TypeOK, Bounded, vars, captureVars, serviceVars, memory
<1> QED
  BY <1>1, <1>2, <1>3 DEF Next

\* Every variable keeps its type, whatever goes wrong: no file ever outgrows its
\* rotation, and process() has a capture in hand exactly while it works.
THEOREM SensorTypeOK == Spec => []TypeOK
<1>1. TypeInv => TypeOK
  BY DEF TypeInv
<1> QED
  BY <1>1, TypeInit, TypeStep, PTL DEF Spec

-----------------------------------------------------------------------------
(* No recorded frame is lost: EvidenceInv is inductive when tcpdump and gzip *)
(* change the files they work on between two polls, whatever else goes       *)
(* wrong.  The argument goes rotation by rotation: an action of the capture  *)
(* side changes one rotation (a kill changes all of them), a step of the     *)
(* service changes at most the capture it has in hand, which is one that the *)
(* capture side is done with.                                                *)

\* A rotation that a step leaves alone keeps its part of the invariant.
LEMMA Untouched ==
  ASSUME NEW r \in Rotation, RotationInv(r),
         phase'[r] = phase[r], written'[r] = written[r],
         size'[Plain(r)] = size[Plain(r)], size'[Gz(r)] = size[Gz(r)],
         s3'[Plain(r)] = s3[Plain(r)], s3'[Gz(r)] = s3[Gz(r)],
         queue' \subseteq queue, cur' \in {cur, NoName}
  PROVE  RotationInv(r)'
<1>1. Plain(r) # NoName /\ Gz(r) # NoName /\ RotationOf(Plain(r)) = r /\ RotationOf(Gz(r)) = r
  BY NameFacts
<1>2. FilesOf(r)'
  BY DEF RotationInv, FilesOf
<1>3. CopyOf(Plain(r))' /\ CopyOf(Gz(r))'
  BY <1>1 DEF RotationInv, CopyOf
<1>4. InHand(Plain(r))' /\ InHand(Gz(r))'
  BY <1>1 DEF RotationInv, InHand
<1>5. (phase[r] # "none" => Retained(r))'
  BY <1>1 DEF RotationInv, Retained, Whole
<1> QED
  BY <1>2, <1>3, <1>4, <1>5 DEF RotationInv

LEMMA EvidenceInit == Init => EvidenceInv
<1> SUFFICES ASSUME Init PROVE EvidenceInv
  OBVIOUS
<1>1. ASSUME NEW r \in Rotation PROVE RotationInv(r)
  BY NameFacts DEF Init, CaptureInit, ServiceInit, RotationInv, FilesOf, CopyOf, InHand
<1>2. OneOpen /\ UnlinksCopied
  BY DEF Init, CaptureInit, ServiceInit, OneOpen, UnlinksCopied
<1> QED
  BY <1>1, <1>2 DEF EvidenceInv

-----------------------------------------------------------------------------
(* The steps of tcpdump and gzip. *)

LEMMA EvidenceCapture ==
  ASSUME TypeInv, EvidenceInv, CaptureNext, UNCHANGED serviceVars
  PROVE  EvidenceInv'
<1>1. UNCHANGED <<pc, queue, cur, s3>>
  BY DEF serviceVars, memory
<1>2. OneOpen /\ UnlinksCopied /\ \A q \in Rotation : RotationInv(q)
  BY DEF EvidenceInv
<1>3. UnlinksCopied'
  BY <1>1, <1>2 DEF UnlinksCopied
<1>4. /\ size \in [Name -> Size \cup {NoFile}]
      /\ written \in [Rotation -> Size]
      /\ phase \in [Rotation -> Phase]
  BY DEF TypeInv, TypeOK
<1> DEFINE Alone(r) == /\ phase'[r] = phase[r] /\ written'[r] = written[r]
                       /\ size'[Plain(r)] = size[Plain(r)] /\ size'[Gz(r)] = size[Gz(r)]
<1>5. ASSUME NEW r \in Rotation, \A q \in Rotation \ {r} : Alone(q), RotationInv(r)',
             phase[r] = "open" \/ phase'[r] # "open"
      PROVE  EvidenceInv'
  <2>1. \A q \in Rotation : RotationInv(q)'
    BY <1>1, <1>2, <1>5, Untouched
  <2>2. OneOpen'
    BY <1>2, <1>5 DEF OneOpen
  <2> QED
    BY <1>3, <2>1, <2>2 DEF EvidenceInv
<1> USE NameFacts, <1>1, <1>2, <1>4
    DEF RotationInv, FilesOf, CopyOf, InHand, Retained, Whole
<1>6. ASSUME NEW r \in Rotation, OpenRotation(r) PROVE EvidenceInv'
  <2>1. \A q \in Rotation \ {r} : Alone(q) /\ phase[q] # "open"
    BY <1>6 DEF OpenRotation
  <2>2. RotationInv(r)'
    BY <1>6, SizeFacts DEF OpenRotation
  <2>3. OneOpen'
    BY <2>1 DEF OneOpen
  <2> QED
    BY <2>1, <2>2, <2>3, <1>3, Untouched DEF EvidenceInv
<1>7. ASSUME NEW r \in Rotation, WriteFrame(r) PROVE EvidenceInv'
  <2>1. \A q \in Rotation \ {r} : Alone(q)
    BY <1>7 DEF WriteFrame
  <2>2. RotationInv(r)'
    BY <1>7, SizeFacts DEF WriteFrame
  <2> QED
    BY <1>5, <1>7, <2>1, <2>2 DEF WriteFrame
<1>8. ASSUME NEW r \in Rotation, Rotate(r) PROVE EvidenceInv'
  <2>1. \A q \in Rotation \ {r} : Alone(q)
    BY <1>8 DEF Rotate
  <2>2. RotationInv(r)'
    BY <1>8 DEF Rotate
  <2> QED
    BY <1>5, <1>8, <2>1, <2>2 DEF Rotate
<1>9. ASSUME NEW r \in Rotation, GzipStart(r) PROVE EvidenceInv'
  <2>0. size[Plain(r)] # NoFile
    BY <1>9, SizeFacts DEF GzipStart
  <2>1. \A q \in Rotation \ {r} : Alone(q)
    BY <1>9, <2>0 DEF GzipStart
  <2>2. RotationInv(r)'
    BY <1>9, <2>0, SizeFacts DEF GzipStart
  <2> QED
    BY <1>5, <1>9, <2>1, <2>2 DEF GzipStart
<1>10. ASSUME NEW r \in Rotation, GzipWrite(r) PROVE EvidenceInv'
  <2>1. \A q \in Rotation \ {r} : Alone(q)
    BY <1>10 DEF GzipWrite
  <2>2. RotationInv(r)'
    BY <1>10, SizeFacts DEF GzipWrite
  <2> QED
    BY <1>5, <1>10, <2>1, <2>2 DEF GzipWrite
<1>11. ASSUME NEW r \in Rotation, GzipFinish(r) PROVE EvidenceInv'
  <2>1. \A q \in Rotation \ {r} : Alone(q)
    BY <1>11 DEF GzipFinish
  <2>2. RotationInv(r)'
    BY <1>11, SizeFacts DEF GzipFinish
  <2> QED
    BY <1>5, <1>11, <2>1, <2>2 DEF GzipFinish
<1>12. ASSUME CaptureKilled PROVE EvidenceInv'
  <2>1. OneOpen'
    BY <1>12 DEF CaptureKilled, CaptureEnds, OneOpen
  <2>2. ASSUME NEW r \in Rotation PROVE RotationInv(r)'
    BY <1>12, SizeFacts DEF CaptureKilled, CaptureEnds, Phase
  <2> QED
    BY <1>3, <2>1, <2>2 DEF EvidenceInv
<1>13. ASSUME CaptureStopped PROVE EvidenceInv'
  <2>1. OneOpen'
    BY <1>13 DEF CaptureStopped, CaptureEnds, OneOpen
  <2>2. ASSUME NEW r \in Rotation PROVE RotationInv(r)'
    BY <1>13, SizeFacts DEF CaptureStopped, CaptureEnds, Phase
  <2> QED
    BY <1>3, <2>1, <2>2 DEF EvidenceInv
<1> QED
  BY <1>6, <1>7, <1>8, <1>9, <1>10, <1>11, <1>12, <1>13 DEF CaptureNext

-----------------------------------------------------------------------------
(* The steps of the service. *)

\* A step that changes neither a file nor a copy in S3, lets go of captures at
\* most, and does not enter the unlinking.
LEMMA EvidenceMemory ==
  ASSUME EvidenceInv, UNCHANGED <<size, written, phase, s3>>,
         queue' \subseteq queue, cur' \in {cur, NoName}, pc' # "unlink"
  PROVE  EvidenceInv'
BY Untouched DEF EvidenceInv, OneOpen, UnlinksCopied

\* A poll with the assumption Timely finds only files of finished rotations.
LEMMA EvidencePoll ==
  ASSUME TypeInv, EvidenceInv, "slow" \notin Faults, Service(Poll), Timely
  PROVE  EvidenceInv'
<1>1. /\ UNCHANGED <<size, written, phase, s3, cur>>
      /\ pc' = "next" /\ queue' = Settled
  BY DEF Service, Poll
<1>2. OneOpen' /\ UnlinksCopied'
  BY <1>1 DEF EvidenceInv, OneOpen, UnlinksCopied
<1>3. ASSUME NEW r \in Rotation PROVE RotationInv(r)'
  <2>1. RotationInv(r) /\ phase[r] \in Phase
    BY DEF EvidenceInv, TypeInv, TypeOK
  <2>2. \A f \in Name : f \in Settled => size[f] > 0 /\ ~Owned(f)
    BY DEF Timely, Settled
  <2>3. Plain(r) \in Settled => phase[r] = "done"
    BY <2>1, <2>2, NameFacts, SizeFacts DEF Owned, Phase, RotationInv, FilesOf
  <2>4. Gz(r) \in Settled => phase[r] = "done"
    BY <2>1, <2>2, NameFacts, SizeFacts DEF Owned, Phase, RotationInv, FilesOf
  <2> QED
    BY <1>1, <2>1, <2>3, <2>4, NameFacts
       DEF RotationInv, FilesOf, CopyOf, InHand, Retained, Whole
<1> QED
  BY <1>2, <1>3 DEF EvidenceInv

LEMMA EvidenceTake ==
  ASSUME TypeInv, EvidenceInv, Service(Take)
  PROVE  EvidenceInv'
<1>1. /\ UNCHANGED <<size, written, phase, s3>>
      /\ pc' = "dissect" /\ queue' \subseteq queue /\ cur' \in queue
  BY DEF Service, Take, IsFirst
<1>2. OneOpen' /\ UnlinksCopied'
  BY <1>1 DEF EvidenceInv, OneOpen, UnlinksCopied
<1>3. ASSUME NEW r \in Rotation PROVE RotationInv(r)'
  BY <1>1, NameFacts
     DEF EvidenceInv, RotationInv, FilesOf, CopyOf, InHand, Retained, Whole
<1> QED
  BY <1>2, <1>3 DEF EvidenceInv

\* The upload copies a finished capture as it is on disk.
LEMMA EvidenceArchive ==
  ASSUME TypeInv, EvidenceInv, Service(ArchiveOk)
  PROVE  EvidenceInv'
<1>1. /\ UNCHANGED <<size, written, phase, queue, cur>>
      /\ pc = "archive" /\ pc' = "unlink"
      /\ s3' = [s3 EXCEPT ![cur] = size[cur]] /\ size[cur] # NoFile
  BY DEF Service, ArchiveOk, memory
<1>2. cur \in Name /\ s3 \in [Name -> Size \cup {NoFile}]
  BY <1>1 DEF TypeInv, TypeOK
<1>3. OneOpen' /\ UnlinksCopied'
  BY <1>1, <1>2 DEF EvidenceInv, OneOpen, UnlinksCopied
<1>4. ASSUME NEW r \in Rotation PROVE RotationInv(r)'
  <2>1. RotationInv(r)
    BY DEF EvidenceInv
  <2>2. \A f \in Name : s3'[f] = IF f = cur THEN size[cur] ELSE s3[f]
    BY <1>1, <1>2
  <2> QED
    BY <1>1, <2>1, <2>2, NameFacts
       DEF RotationInv, FilesOf, CopyOf, InHand, Retained, Whole
<1> QED
  BY <1>3, <1>4 DEF EvidenceInv

\* What is unlinked has its copy in S3.
LEMMA EvidenceUnlink ==
  ASSUME TypeInv, EvidenceInv, Service(Unlink)
  PROVE  EvidenceInv'
<1>1. /\ UNCHANGED <<written, phase, s3, queue, cur>>
      /\ pc = "unlink" /\ pc' = "mark"
      /\ size' = [size EXCEPT ![cur] = NoFile]
  BY DEF Service, Unlink, memory
<1>2. cur \in Name /\ size \in [Name -> Size \cup {NoFile}] /\ s3[cur] # NoFile
  BY <1>1 DEF TypeInv, TypeOK, EvidenceInv, UnlinksCopied
<1>3. OneOpen' /\ UnlinksCopied'
  BY <1>1 DEF EvidenceInv, OneOpen, UnlinksCopied
<1>4. ASSUME NEW r \in Rotation PROVE RotationInv(r)'
  <2>1. RotationInv(r) /\ written[r] \in Size
    BY DEF EvidenceInv, TypeInv, TypeOK
  <2>2. \A f \in Name : size'[f] = IF f = cur THEN NoFile ELSE size[f]
    BY <1>1, <1>2
  <2> QED
    BY <1>1, <1>2, <2>1, <2>2, NameFacts, SizeFacts
       DEF RotationInv, FilesOf, CopyOf, InHand, Retained, Whole
<1> QED
  BY <1>3, <1>4 DEF EvidenceInv

LEMMA EvidenceService ==
  ASSUME TypeInv, EvidenceInv, "slow" \notin Faults,
         ServiceStep \/ Service(Crash) \/ Service(Stop)
  PROVE  EvidenceInv'
<1>1. CASE Service(Poll) /\ Timely
  BY <1>1, EvidencePoll
<1>2. CASE Service(Take)
  BY <1>2, EvidenceTake
<1>3. CASE Service(ArchiveOk)
  BY <1>3, EvidenceArchive
<1>4. CASE Service(Unlink)
  BY <1>4, EvidenceUnlink
<1>5. CASE Service(Stop)
  BY <1>5, Untouched DEF EvidenceInv, OneOpen, UnlinksCopied, Service, Stop
<1>6. CASE Service(Start) \/ Service(Exit) \/ Service(PollEnds) \/ Service(Crash)
  <2>1. /\ UNCHANGED <<size, written, phase, s3>>
        /\ queue' \subseteq queue /\ cur' \in {cur, NoName} /\ pc' # "unlink"
    BY <1>6 DEF Service, Start, Exit, PollEnds, Crash, Forget
  <2> QED
    BY <2>1, EvidenceMemory
<1>7. CASE \/ Service(TsharkMissing) \/ Service(ShipDelivered) \/ Service(ShipDropped)
           \/ Service(DissectEnds) \/ Service(ArchiveFails) \/ Service(UnlinkRaises)
           \/ Service(Mark) \/ Service(MarkRaises) \/ Service(Save)
           \/ Service(SaveRaises)
  <2>1. /\ UNCHANGED <<size, written, phase, s3>>
        /\ queue' \subseteq queue /\ cur' \in {cur, NoName} /\ pc' # "unlink"
    BY <1>7 DEF Service, TsharkMissing, ShipDelivered, ShipDropped, DissectEnds,
                ArchiveFails, UnlinkRaises, Mark, MarkRaises, Save, SaveRaises,
                Raise, Return, LeaveProcess, memory
  <2> QED
    BY <2>1, EvidenceMemory
<1> QED
  BY <1>1, <1>2, <1>3, <1>4, <1>5, <1>6, <1>7 DEF ServiceStep, ProcessStep, Service

LEMMA EvidenceStep ==
  ASSUME TypeInv, EvidenceInv, "slow" \notin Faults, [Next]_vars
  PROVE  EvidenceInv'
<1>1. CASE CaptureNext /\ UNCHANGED serviceVars
  BY <1>1, EvidenceCapture
<1>2. CASE ServiceStep \/ Service(Crash) \/ Service(Stop)
  BY <1>2, EvidenceService
<1>3. CASE UNCHANGED vars
  BY <1>3, Untouched DEF vars, captureVars, serviceVars, memory, EvidenceInv, OneOpen, UnlinksCopied
<1> QED
  BY <1>1, <1>2, <1>3 DEF Next

\* The invariant holds for ever.
THEOREM SensorEvidenceInv ==
  ASSUME "slow" \notin Faults
  PROVE  Spec => [](TypeInv /\ EvidenceInv)
<1>1. Init => TypeInv /\ EvidenceInv
  BY TypeInit, EvidenceInit
<1>2. TypeInv /\ EvidenceInv /\ [Next]_vars => TypeInv' /\ EvidenceInv'
  BY TypeStep, EvidenceStep
<1> QED
  BY <1>1, <1>2, PTL DEF Spec

\* No frame that tcpdump has written is ever lost, whichever of the two sides is
\* killed at whichever step, whatever S3 and the state file do.
THEOREM SensorEvidenceRetained ==
  ASSUME "slow" \notin Faults
  PROVE  Spec => []EvidenceRetained
<1>1. EvidenceInv => EvidenceRetained
  BY DEF EvidenceInv, EvidenceRetained, RotationInv
<1> QED
  BY <1>1, SensorEvidenceInv, PTL

\* process() never has a capture in hand that tcpdump or gzip still uses.
THEOREM SensorOnlyClosed ==
  ASSUME "slow" \notin Faults
  PROVE  Spec => []OnlyClosed
<1>1. EvidenceInv => OnlyClosed
  BY NameFacts DEF EvidenceInv, RotationInv, InHand, OnlyClosed, Owned
<1> QED
  BY <1>1, SensorEvidenceInv, PTL

=============================================================================
