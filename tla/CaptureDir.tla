------------------------------ MODULE CaptureDir ------------------------------
(***************************************************************************)
(* The capture directory of one sensor (CAPTURE_DIR), the only state that  *)
(* the packet capture (tcpdump and its gzip hook) and the extraction       *)
(* service share.  They never exchange a message: the service infers what  *)
(* the capture side is doing from file names and file sizes alone.         *)
(*                                                                         *)
(* A rotation is one -G/-C period of tcpdump.  Its frames are first in     *)
(* sensor-<time>.pcap and, once gzip is done, in sensor-<time>.pcap.gz;    *)
(* the service's glob "sensor-*.pcap*" sees both names.                    *)
(***************************************************************************)
EXTENDS Integers

CONSTANTS
  NumRotations, \* rotations tcpdump may open
  MaxFrames,    \* bound on the frames of one rotation
  Faults        \* the things that may go wrong, a subset of FaultKinds

FaultKinds ==
  { "slow",     \* a file still in use keeps its size for a whole poll interval
    "kill",     \* tcpdump and gzip are killed (power loss, SIGKILL)
    "crash",    \* the service is killed (OOM, SIGKILL after a stop timeout)
    "stop",     \* the service receives SIGTERM or SIGINT
    "tshark",   \* tshark is not on PATH
    "dissect",  \* a dissection ends early (tshark dies, times out, bad frame)
    "logstash", \* Logstash does not accept a record
    "upload",   \* S3 refuses an upload
    "save" }    \* the state file cannot be written

ASSUME NumRotationsAssumption == NumRotations \in Nat \ {0}
ASSUME MaxFramesAssumption    == MaxFrames \in Nat \ {0}
ASSUME FaultsAssumption       == Faults \subseteq FaultKinds

VARIABLES
  size,    \* size[f]: the size of file f in frames, NoFile when it is absent
  written  \* written[r]: the frames tcpdump has written in rotation r

-----------------------------------------------------------------------------

Rotation == 1 .. NumRotations

Name     == Rotation \X {"pcap", "gz"}
Plain(r) == <<r, "pcap">>
Gz(r)    == <<r, "gz">>

RotationOf(f) == f[1]
IsGz(f)       == f[2] = "gz"

NoFile == -1
Size   == 0 .. MaxFrames

\* The order sorted() gives the names: they start with the time of the
\* rotation, and a name comes before its own extension by ".gz".
Before(f, g) ==
  \/ RotationOf(f) < RotationOf(g)
  \/ RotationOf(f) = RotationOf(g) /\ ~IsGz(f) /\ IsGz(g)

\* The file holds every frame of its rotation.
Whole(f) == size[f] = written[RotationOf(f)]

\* The frames a reader that opens f now gets out of it.  A pcap file gives
\* every frame written so far, a truncated gzip stream (or no file) none.
Readable(f) ==
  IF size[f] = NoFile \/ (IsGz(f) /\ ~Whole(f)) THEN 0 ELSE size[f]

=============================================================================
