------------------------------- MODULE Custody -------------------------------
(***************************************************************************)
(* What the sensor promises about recorded traffic, without files, polls,  *)
(* gzip or restarts: the frames of a closed rotation are on the sensor, in *)
(* the S3 archive, or in both, and only an archived rotation ever leaves   *)
(* the sensor ("The capture uploads to S3 and is removed from the          *)
(* sensor", docs/architecture.md).                                         *)
(***************************************************************************)
CONSTANT Rotations

VARIABLES
  onSensor,  \* the closed rotations that are complete on the sensor
  archived   \* the closed rotations that are complete in S3

vars == <<onSensor, archived>>

TypeOK ==
  /\ onSensor \subseteq Rotations
  /\ archived \subseteq Rotations

Init ==
  /\ onSensor = {}
  /\ archived = {}

Close(r) ==
  /\ r \notin onSensor \cup archived
  /\ onSensor' = onSensor \cup {r}
  /\ UNCHANGED archived

Archive(r) ==
  /\ r \in onSensor \ archived
  /\ archived' = archived \cup {r}
  /\ UNCHANGED onSensor

Release(r) ==
  /\ r \in onSensor \cap archived
  /\ onSensor' = onSensor \ {r}
  /\ UNCHANGED archived

Next == \E r \in Rotations : Close(r) \/ Archive(r) \/ Release(r)

Spec == Init /\ [][Next]_vars

=============================================================================
