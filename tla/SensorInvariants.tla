--------------------------- MODULE SensorInvariants ---------------------------
(***************************************************************************)
(* The inductive invariants behind the safety properties of Sensor: what   *)
(* the capture directory, the S3 copies and process() have to agree on.    *)
(* Both hold under the assumption Timely ("slow" is not among the faults). *)
(***************************************************************************)
EXTENDS Sensor

\* tcpdump has one file open at a time.
OneOpen ==
  \A q, r \in Rotation : phase[q] = "open" /\ phase[r] = "open" => q = r

\* What the phase of a rotation says about its two files: the service, which
\* only unlinks what it works on, leaves the files in use alone.
FilesOf(r) ==
  /\ phase[r] = "none" => written[r] = 0 /\ size[Plain(r)] = NoFile
  /\ phase[r] \in {"open", "closed", "zipping"} => size[Plain(r)] = written[r]
  /\ phase[r] = "done" => size[Plain(r)] \in {NoFile, written[r]}
  /\ phase[r] \in {"none", "open", "closed"} => size[Gz(r)] = NoFile
  /\ phase[r] = "zipping" => size[Gz(r)] # NoFile

\* What is in S3 is a copy of a finished file, as it is on disk if it still is.
CopyOf(f) ==
  s3[f] # NoFile => /\ phase[RotationOf(f)] = "done"
                    /\ size[f] \in {NoFile, s3[f]}

\* The capture side is done with everything run() and process() work on.
InHand(f) == f \in queue \/ f = cur => phase[RotationOf(f)] = "done"

\* process() only unlinks a capture that it has uploaded.
UnlinksCopied == pc = "unlink" => s3[cur] # NoFile

RotationInv(r) ==
  /\ FilesOf(r)
  /\ CopyOf(Plain(r)) /\ CopyOf(Gz(r))
  /\ InHand(Plain(r)) /\ InHand(Gz(r))
  /\ phase[r] # "none" => Retained(r)

\* What run(), the archiver, tcpdump and gzip keep true together, so that no
\* order of their steps loses a recorded frame.
EvidenceInv ==
  /\ OneOpen
  /\ UnlinksCopied
  /\ \A r \in Rotation : RotationInv(r)

\* Every record of the rotation went to Logstash.
Shipped(r) == \A i \in 1 .. written[r] : received[r][i] > 0

\* How far process() is with its capture: what it counts as sent has arrived,
\* and from there on a complete capture has been shipped.
Progress ==
  LET r == RotationOf(cur)
  IN  /\ pc = "dissect" =>
           /\ \A i \in 1 .. sent : received[r][i] > 0
           /\ size[cur] # NoFile => recs = Readable(cur)
      /\ pc \in {"archive", "unlink"} => (Whole(cur) => Shipped(r))

\* What ties the release of a capture to the records sent for it.
ShippedInv ==
  /\ Progress
  /\ ReleasedImpliesShipped

=============================================================================
