------------------------------- MODULE MCSensor -------------------------------
(* Small instances of Sensor for TLC.                                       *)
EXTENDS SensorInvariants

NoUndeletable  == {}
OneUndeletable == {Gz(1)}

=============================================================================
