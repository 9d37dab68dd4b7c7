---------------------------- MODULE PacketCapture ----------------------------
(***************************************************************************)
(* The capture side of the sensor: tcpdump as capture.sh starts it,        *)
(*   tcpdump -G .. -C .. -w sensor-<time>.pcap -z /usr/bin/gzip,           *)
(* and the gzip it forks for each closed rotation.  systemd restarts it    *)
(* when it dies (Restart=always), and a restart opens a new rotation.      *)
(***************************************************************************)
EXTENDS CaptureDir

VARIABLE
  phase  \* phase[r]: how far tcpdump and gzip are with rotation r

Phase == {"none", "open", "closed", "zipping", "done"}

captureVars == <<size, written, phase>>

\* The capture side has not finished with the file.
Owned(f) ==
  LET p == phase[RotationOf(f)]
  IN  IF IsGz(f) THEN p = "zipping" ELSE p \in {"open", "closed", "zipping"}

-----------------------------------------------------------------------------

CaptureInit ==
  /\ size    = [f \in Name |-> NoFile]
  /\ written = [r \in Rotation |-> 0]
  /\ phase   = [r \in Rotation |-> "none"]

OpenRotation(r) ==
  /\ phase[r] = "none"
  /\ \A q \in Rotation : IF q < r THEN phase[q] \notin {"none", "open"}
                                  ELSE phase[q] = "none"
  /\ phase' = [phase EXCEPT ![r] = "open"]
  /\ size'  = [size EXCEPT ![Plain(r)] = 0]
  /\ UNCHANGED written

\* tcpdump writes to the inode it opened: a file unlinked under it stays gone.
WriteFrame(r) ==
  /\ phase[r] = "open"
  /\ written[r] < MaxFrames
  /\ written' = [written EXCEPT ![r] = @ + 1]
  /\ size'    = [size EXCEPT ![Plain(r)] = IF @ = NoFile THEN @ ELSE @ + 1]
  /\ UNCHANGED phase

\* tcpdump looks at -G and -C when a packet arrives, so it never closes a
\* rotation without a frame.
Rotate(r) ==
  /\ phase[r] = "open"
  /\ written[r] > 0
  /\ phase' = [phase EXCEPT ![r] = "closed"]
  /\ UNCHANGED <<size, written>>

\* gzip opens the closed file and creates its output; without input it fails.
GzipStart(r) ==
  /\ phase[r] = "closed"
  /\ IF size[Plain(r)] = NoFile
     THEN /\ phase' = [phase EXCEPT ![r] = "done"]
          /\ UNCHANGED size
     ELSE /\ phase' = [phase EXCEPT ![r] = "zipping"]
          /\ size'  = [size EXCEPT ![Gz(r)] = 0]
  /\ UNCHANGED written

GzipWrite(r) ==
  /\ phase[r] = "zipping"
  /\ size[Gz(r)] \in 0 .. (written[r] - 1)
  /\ size' = [size EXCEPT ![Gz(r)] = @ + 1]
  /\ UNCHANGED <<written, phase>>

\* The output is complete (or was unlinked meanwhile): gzip removes its input.
GzipFinish(r) ==
  /\ phase[r] = "zipping"
  /\ size[Gz(r)] \in {NoFile, written[r]}
  /\ phase' = [phase EXCEPT ![r] = "done"]
  /\ size'  = [size EXCEPT ![Plain(r)] = NoFile]
  /\ UNCHANGED written

\* tcpdump and gzip end at any point and nobody finishes their rotations any
\* more.  After SIGKILL or a power loss the directory stays as it is; on
\* SIGTERM (systemctl restart) gzip removes the output it has not completed.
CaptureEnds ==
  /\ "kill" \in Faults
  /\ \E r \in Rotation : phase[r] \in {"open", "closed", "zipping"}
  /\ phase' = [r \in Rotation |-> IF phase[r] = "none" THEN "none" ELSE "done"]
  /\ UNCHANGED written

CaptureKilled ==
  /\ CaptureEnds
  /\ UNCHANGED size

CaptureStopped ==
  /\ CaptureEnds
  /\ size' = [f \in Name |-> IF IsGz(f) /\ phase[RotationOf(f)] = "zipping"
                           THEN NoFile ELSE size[f]]

CaptureNext ==
  \/ \E r \in Rotation :
       \/ OpenRotation(r)
       \/ WriteFrame(r)
       \/ Rotate(r)
       \/ GzipStart(r)
       \/ GzipWrite(r)
       \/ GzipFinish(r)
  \/ CaptureKilled
  \/ CaptureStopped

=============================================================================
