------------------------------ MODULE Dissection ------------------------------
(***************************************************************************)
(* extract_records (analysis/deception_shield/pcap.py): a generator over   *)
(* the output of a tshark process.  The two sides meet in a pipe for       *)
(* tshark's output and one for its complaints; both hold so much and block *)
(* the writer after that, and only the first is read while tshark runs.    *)
(***************************************************************************)
EXTENDS Naturals

CONSTANTS
  Packets,       \* lines tshark has to print for the capture
  OutCap,        \* lines that fit between tshark and the generator
  ErrCap,        \* complaints that fit in the pipe of stderr
  Complaints,    \* bound on the complaints of tshark
  DissectFaults  \* what may go wrong

ASSUME PacketsAssumption    == Packets \in Nat
ASSUME PipesAssumption      == OutCap \in Nat \ {0} /\ ErrCap \in Nat \ {0}
ASSUME ComplaintsAssumption == Complaints \in Nat

\* "gzip": a compressed capture cannot be expanded; "launch": no tshark, or no
\* process for it; "dies": tshark ends with an error status; "hangs": it does
\* not exit when it is done; "line": a line is not text, or not one of its fields
\* what it should be; "caller": the caller stops early.
ASSUME DissectFaultsAssumption ==
  DissectFaults \subseteq {"gzip", "launch", "dies", "hangs", "line", "caller"}

VARIABLES
  gen,     \* where extract_records stands
  gz,      \* the capture is compressed
  temp,    \* the temporary file exists
  child,   \* the tshark process
  left,    \* lines tshark has still to print
  out,     \* lines printed and not yet read
  wants,   \* tshark is about to write a complaint
  err      \* complaints written to stderr

dissectVars == <<gen, gz, temp, child, left, out, wants, err>>

\* "yielded" waits for the caller, which is in send() in "sending"; the last four
\* are the ends: by return, by an exception, by TsharkNotAvailable, which process()
\* alone does not catch, and by an exception in _materialise.
Gen   == {"new", "expand", "launch", "read", "yielded", "sending", "wait",
          "returned", "raised", "missing", "unexpanded"}
Ended == gen \in {"returned", "raised", "missing", "unexpanded"}

\* "closing" has closed its output; "exited" with status 0, "failed" with another.
Child   == {"none", "running", "closing", "exited", "failed", "killed"}
Alive   == child \in {"running", "closing"}

-----------------------------------------------------------------------------

DissectInit ==
  /\ gen   = "new"
  /\ gz    \in BOOLEAN
  /\ temp  = FALSE
  /\ child = "none"
  /\ left  = Packets
  /\ out   = 0
  /\ wants = FALSE
  /\ err   = 0

\* _materialise: NamedTemporaryFile for a compressed capture.
Materialise ==
  /\ gen = "new"
  /\ gen'  = IF gz THEN "expand" ELSE "launch"
  /\ temp' = gz
  /\ UNCHANGED <<gz, child, left, out, wants, err>>

Expand ==
  /\ gen = "expand"
  /\ gen' = "launch"
  /\ UNCHANGED <<gz, temp, child, left, out, wants, err>>

\* gzip.open or copyfileobj raises (a truncated file, a full disk): its caller is
\* not in the try block yet, and the temporary file stays.
ExpandRaises ==
  /\ "gzip" \in DissectFaults
  /\ gen = "expand"
  /\ gen' = "unexpanded"
  /\ UNCHANGED <<gz, temp, child, left, out, wants, err>>

Launch ==
  /\ gen = "launch"
  /\ gen'   = "read"
  /\ child' = "running"
  /\ UNCHANGED <<gz, temp, left, out, wants, err>>

\* Mutant: tshark is looked for outside of the try block.
LaunchRaisesEarly ==
  /\ "launch" \in DissectFaults
  /\ gen = "launch"
  /\ gen' \in {"missing", "raised"}
  /\ UNCHANGED <<gz, temp, child, left, out, wants, err>>

\* tshark_path or Popen raises; the outer finally removes the temporary file.
LaunchRaises ==
  /\ "launch" \in DissectFaults
  /\ gen = "launch"
  /\ gen' \in {"missing", "raised"}
  /\ temp' = FALSE
  /\ UNCHANGED <<gz, child, left, out, wants, err>>

\* A line becomes a record, or nothing (parse_field_line returned None).
ReadLine ==
  /\ gen = "read"
  /\ out > 0
  /\ out' = out - 1
  /\ gen' \in {"read", "yielded"}
  /\ UNCHANGED <<gz, temp, child, left, wants, err>>

\* A line cannot be decoded, or parse_field_line raises: both finally blocks run.
ReadRaises ==
  /\ "line" \in DissectFaults
  /\ gen = "read"
  /\ out > 0
  /\ out'   = out - 1
  /\ gen'   = "raised"
  /\ child' = IF Alive THEN "killed" ELSE child
  /\ temp'  = FALSE
  /\ UNCHANGED <<gz, left, wants, err>>

\* Mutant: the loop ends when the process has, not at the end of its output.
ReadEofEarly ==
  /\ gen = "read"
  /\ out = 0 \/ ~Alive
  /\ child # "running"
  /\ gen' = "wait"
  /\ UNCHANGED <<gz, temp, child, left, out, wants, err>>

ReadEof ==
  /\ gen = "read"
  /\ out = 0
  /\ child # "running"
  /\ gen' = "wait"
  /\ UNCHANGED <<gz, temp, child, left, out, wants, err>>

\* process.wait() returns; an error status is logged and no more.
WaitReturns ==
  /\ gen = "wait"
  /\ ~Alive
  /\ gen'  = "returned"
  /\ temp' = FALSE
  /\ UNCHANGED <<gz, child, left, out, wants, err>>

\* Mutant: wait() without a timeout.
WaitsForever == FALSE /\ UNCHANGED dissectVars

WaitTimesOut ==
  /\ gen = "wait"
  /\ Alive
  /\ gen'   = "raised"
  /\ child' = "killed"
  /\ temp'  = FALSE
  /\ UNCHANGED <<gz, left, out, wants, err>>

\* Mutant: no kill in the inner finally.
CallerStopsOnly ==
  /\ "caller" \in DissectFaults
  /\ gen = "yielded"
  /\ gen'   = "raised"
  /\ temp'  = FALSE
  /\ UNCHANGED <<gz, child, left, out, wants, err>>

\* The caller raises with a record in hand: the generator is closed at its
\* yield, and both finally blocks run.
CallerStops ==
  /\ "caller" \in DissectFaults
  /\ gen = "yielded"
  /\ gen'   = "raised"
  /\ child' = IF Alive THEN "killed" ELSE child
  /\ temp'  = FALSE
  /\ UNCHANGED <<gz, left, out, wants, err>>

Generator ==
  \/ Materialise \/ Expand \/ ExpandRaises \/ Launch \/ LaunchRaises
  \/ ReadLine \/ ReadRaises \/ ReadEof \/ WaitReturns \/ WaitTimesOut

-----------------------------------------------------------------------------

\* tshark prints a line, or has something to complain about, and waits for
\* room in the pipe.
Prints ==
  /\ child = "running"
  /\ ~wants
  /\ left > 0
  /\ out < OutCap
  /\ left' = left - 1
  /\ out'  = out + 1
  /\ UNCHANGED <<gen, gz, temp, child, wants, err>>

Objects ==
  /\ Alive
  /\ ~wants
  /\ err < Complaints
  /\ wants' = TRUE
  /\ UNCHANGED <<gen, gz, temp, child, left, out, err>>

Complains ==
  /\ Alive
  /\ wants
  /\ err < ErrCap
  /\ wants' = FALSE
  /\ err'   = err + 1
  /\ UNCHANGED <<gen, gz, temp, child, left, out>>

Closes ==
  /\ child = "running"
  /\ ~wants
  /\ left = 0
  /\ child' = "closing"
  /\ UNCHANGED <<gen, gz, temp, left, out, wants, err>>

Exits ==
  /\ child = "closing"
  /\ ~wants
  /\ child' = "exited"
  /\ UNCHANGED <<gen, gz, temp, left, out, wants, err>>

Dies ==
  /\ "dies" \in DissectFaults
  /\ Alive
  /\ child' = "failed"
  /\ UNCHANGED <<gen, gz, temp, left, out, wants, err>>

Tshark == Prints \/ Objects \/ Complains \/ Closes \/ Exits \/ Dies

\* What tshark does on its own in the end, unless it hangs.
TsharkProgress == Prints \/ Complains \/ Closes \/ ("hangs" \notin DissectFaults /\ Exits)

=============================================================================
