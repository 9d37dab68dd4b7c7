----------------------------- MODULE MCTelemetry -----------------------------
(* Small instances of Telemetry for TLC.                                     *)
EXTENDS Telemetry

Happening(tag, time, body) ==
  [tag |-> tag, source |-> "s1", port |-> 22, time |-> time, body |-> body,
   mapped |-> TRUE]

\* Two payloads and a later one, the first two in the same millisecond, and one
\* with a field that the strict template does not know.
SomePayloads ==
  { Happening("tshark", 1, "probe"), Happening("tshark", 1, "shellcode"),
    Happening("tshark", 2, "probe"),
    [Happening("tshark", 2, "probe") EXCEPT !.mapped = FALSE] }

\* And what the honeypot says of the same moment.
SomeEvents == SomePayloads \cup { Happening("cowrie", 1, "login") }

\* One that is on the edge of a band and of --min-score, and one that Logstash
\* gives a band which document_to_record does not know.
SomeBodies ==
  [ probe     |-> [matches |-> {"credential_probe"}, head |-> {"credential_probe"},
                   printable |-> 98, plain |-> 97],
    shellcode |-> [matches |-> {}, head |-> {}, printable |-> 30, plain |-> 20] ]

Query(n, t, m) == [limit |-> n, until |-> t, minScore |-> m]

SomeQueries ==
  { Query(NoLimit, 2, 0), Query(NoLimit, 1, 20), Query(0, 0, 0), Query(2, 2, 0) }

EverythingOnce == { Query(NoLimit, 2, 0) }

=============================================================================
