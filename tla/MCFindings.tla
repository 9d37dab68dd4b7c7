------------------------------ MODULE MCFindings ------------------------------
(* Small instances of Findings, and with it of Campaigns, for TLC.           *)
EXTENDS Findings

Text(names) == [matches |-> names, head |-> names, printable |-> 100, plain |-> 100]

Fetch   == Text({"remote_payload_fetch"})
Pipe    == Text({"shell_pipe_execution"})
Both    == Text({"remote_payload_fetch", "shell_pipe_execution"})
Dropper == Text({"shell_pipe_execution", "iot_botnet_dropper"})
Banner  == Text({})
Binary  == [Text({}) EXCEPT !.printable = 30, !.plain = 20]

\* Similar ones in a chain, one that shares a port only, one that is too early
\* for all but the long running one, one that shares a signature only, and one
\* that matches nothing.  Then two that sweep: each one's ports are mostly those of
\* the other; the second is as similar to the one with two signatures as the
\* threshold asks for, and neither is to those that only meet it on a port.
SomeHistories ==
  { << PayloadRecord(10, 22, Fetch),  PayloadRecord(11, 22, Fetch) >>,
    << PayloadRecord(14, 22, Fetch),  PayloadRecord(16, 22, Pipe) >>,
    << PayloadRecord(10, 22, Pipe),   PayloadRecord(20, 80, Pipe) >>,
    << PayloadRecord(10, 22, Banner), PayloadRecord(12, 22, Banner) >>,
    << PayloadRecord(0, 22, Fetch),   PayloadRecord(2, 22, Fetch),
       PayloadRecord(1, 22, Fetch) >>,
    << PayloadRecord(12, 80, Both),   PayloadRecord(2, 80, Banner) >>,
    << PayloadRecord(11, 443, Dropper) >>,
    << PayloadRecord(9, 22, Binary),  PayloadRecord(9, 23, Binary) >>,
    << PayloadRecord(11, 22, Fetch),  PayloadRecord(12, 23, Banner),
       PayloadRecord(12, 443, Banner), PayloadRecord(12, 8080, Banner) >>,
    << PayloadRecord(13, 80, Both),   PayloadRecord(13, 22, Banner),
       PayloadRecord(14, 23, Banner), PayloadRecord(14, 443, Banner) >> }

SomeBehaviours == { Behaviour(h) : h \in SomeHistories }

=============================================================================
