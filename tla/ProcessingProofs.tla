--------------------------- MODULE ProcessingProofs ---------------------------
(***************************************************************************)
(* Theorems about Processing, for every number of records, size of pipe,   *)
(* number of complaints and of restarts, and every combination of faults.  *)
(***************************************************************************)
EXTENDS Processing, ShipperProofs

DissectTypes ==
  /\ gen   \in Gen
  /\ gz    \in BOOLEAN
  /\ temp  \in BOOLEAN
  /\ child \in Child
  /\ left  \in 0 .. Packets
  /\ out   \in 0 .. OutCap
  /\ wants \in BOOLEAN
  /\ err   \in 0 .. Complaints
  /\ wants => err < Complaints

\* tshark is about while its output is read, and until wait() has returned.
Tended == Alive => gen \in {"read", "yielded", "sending", "wait"}

\* tshark closes its output with nothing left to print, and the loop over it
\* ends when nothing is left to read.
Drained ==
  /\ child \in {"closing", "exited"} => left = 0
  /\ gen \in {"wait", "returned"} => out = 0 /\ child # "running"

\* send() is at work while process() holds a record, and then only.
Handed == pc # "idle" => gen = "sending"

DissectInv == DissectTypes /\ Tended /\ TempRemoved /\ Drained

\* No record has been handed over while tshark has not been started.
Early == gen \in {"new", "expand", "launch", "missing", "unexpanded"} => record = 0

ProcessingInv == ShipperInv /\ DissectInv /\ Handed /\ Early

-----------------------------------------------------------------------------

LEMMA ProcessingInitInv == Init => ProcessingInv
<1> SUFFICES ASSUME Init PROVE ProcessingInv
  OBVIOUS
<1>1. ShipperInv /\ Handed /\ Early
  BY ShipperInitInv DEF Init, ShipperInit, Handed, Early
<1>2. temp \in BOOLEAN /\ wants \in BOOLEAN
  BY Zenon DEF Init, DissectInit
<1>3. DissectTypes
  BY <1>2, PacketsAssumption, PipesAssumption, ComplaintsAssumption
     DEF Init, DissectInit, DissectTypes, Gen, Child
<1>4. Tended /\ TempRemoved /\ Drained
  BY DEF Init, DissectInit, Tended, TempRemoved, Drained, Alive, Ended
<1> QED
  BY <1>1, <1>3, <1>4 DEF ProcessingInv, DissectInv

\* The steps of the generator, of tshark, and of the caller that stops early.
LEMMA GeneratorInv == DissectInv /\ Generator => DissectInv'
<1> SUFFICES ASSUME DissectInv, Generator PROVE DissectInv'
  OBVIOUS
<1> USE DEF DissectInv, DissectTypes, Tended, TempRemoved, Drained, Alive, Ended, Gen, Child
<1>1. CASE Materialise
  BY <1>1 DEF Materialise
<1>2. CASE Expand
  BY <1>2 DEF Expand
<1>3. CASE ExpandRaises
  BY <1>3 DEF ExpandRaises
<1>4. CASE Launch
  BY <1>4 DEF Launch
<1>5. CASE LaunchRaises
  BY <1>5 DEF LaunchRaises
<1>6. CASE ReadLine
  BY <1>6, PipesAssumption DEF ReadLine
<1>7. CASE ReadEof
  BY <1>7 DEF ReadEof
<1>8. CASE WaitReturns
  BY <1>8 DEF WaitReturns
<1>9. CASE WaitTimesOut
  BY <1>9 DEF WaitTimesOut
<1>10. CASE ReadRaises
  <2>1. /\ gen' = "raised" /\ temp' = FALSE
        /\ child' \in Child \ {"running", "closing"}
        /\ UNCHANGED <<gz, left, wants, err>> /\ out' = out - 1 /\ out > 0
        /\ child' = "exited" => child = "exited"
    BY <1>10 DEF ReadRaises
  <2>2. temp' \in BOOLEAN
    BY <2>1, Zenon
  <2> QED
    BY <2>1, <2>2, PipesAssumption
<1> QED
  BY <1>1, <1>2, <1>3, <1>4, <1>5, <1>6, <1>7, <1>8, <1>9, <1>10 DEF Generator

LEMMA CallerStopsInv == DissectInv /\ CallerStops => DissectInv'
<1> SUFFICES ASSUME DissectInv, CallerStops PROVE DissectInv'
  OBVIOUS
<1>1. /\ gen' = "raised" /\ temp' = FALSE
      /\ child' \in Child \ {"running", "closing"}
      /\ UNCHANGED <<gz, left, out, wants, err>>
      /\ child' = "exited" => child = "exited"
  BY DEF CallerStops, Alive, Child, DissectInv, DissectTypes
<1>2. temp' \in BOOLEAN
  BY <1>1, Zenon
<1> QED
  BY <1>1, <1>2 DEF DissectInv, DissectTypes, Tended, TempRemoved, Drained, Alive, Ended, Gen

LEMMA TsharkInv == DissectInv /\ Tshark => DissectInv'
<1> SUFFICES ASSUME DissectInv, Tshark PROVE DissectInv'
  OBVIOUS
<1> USE DEF DissectInv, DissectTypes, Tended, TempRemoved, Drained, Alive, Ended, Gen, Child
<1>1. CASE Prints
  BY <1>1, PacketsAssumption, PipesAssumption DEF Prints
<1>2. CASE Objects
  BY <1>2 DEF Objects
<1>3. CASE Complains
  <2>1. wants' = FALSE /\ err' = err + 1 /\ UNCHANGED <<gen, gz, temp, child, left, out>>
    BY <1>3 DEF Complains
  <2>2. wants' \in BOOLEAN /\ ~wants'
    BY <2>1, Zenon
  <2>3. err \in Nat /\ err < Complaints
    BY <1>3, ComplaintsAssumption DEF Complains
  <2>4. err' \in 0 .. Complaints
    BY <2>1, <2>3, ComplaintsAssumption
  <2> QED
    BY <2>1, <2>2, <2>4
<1>4. CASE Closes
  BY <1>4 DEF Closes
<1>5. CASE Exits
  BY <1>5 DEF Exits
<1>6. CASE Dies
  BY <1>6 DEF Dies
<1> QED
  BY <1>1, <1>2, <1>3, <1>4, <1>5, <1>6 DEF Tshark

LEMMA DissectStutters == DissectInv /\ UNCHANGED dissectVars => DissectInv'
BY DEF dissectVars, DissectInv, DissectTypes, Tended, TempRemoved, Drained, Alive, Ended

\* The steps of process() at the two ends of send().
LEMMA HandOverInv == ProcessingInv /\ HandOver => ProcessingInv'
<1> SUFFICES ASSUME ProcessingInv, HandOver PROVE ProcessingInv'
  OBVIOUS
<1>1. ShipperInv'
  BY ShipperStep DEF ProcessingInv, HandOver
<1>2. DissectInv'
  BY DEF ProcessingInv, HandOver, DissectInv, DissectTypes, Tended, TempRemoved, Drained, Alive, Ended, Gen
<1>3. Handed' /\ Early'
  BY DEF HandOver, Handed, Early
<1> QED
  BY <1>1, <1>2, <1>3 DEF ProcessingInv

LEMMA ResumeInv == ProcessingInv /\ Resume => ProcessingInv'
<1> SUFFICES ASSUME ProcessingInv, Resume PROVE ProcessingInv'
  OBVIOUS
<1>1. ShipperInv'
  BY ShipperStep DEF ProcessingInv, Resume
<1>2. DissectInv'
  BY DEF ProcessingInv, Resume, DissectInv, DissectTypes, Tended, TempRemoved, Drained, Alive, Ended, Gen
<1>3. Handed' /\ Early'
  BY DEF Resume, Handed, Early, shipperVars, sendVars
<1> QED
  BY <1>1, <1>2, <1>3 DEF ProcessingInv

\* send() is not at work where the generator moves.
LEMMA HandedKept ==
  ASSUME ProcessingInv, Generator \/ CallerStops \/ Tshark, UNCHANGED shipperVars
  PROVE  Handed' /\ Early'
<1>1. pc' = pc /\ record' = record
  BY DEF shipperVars, sendVars
<1>2. /\ gen = "sending" => gen' = "sending"
      /\ gen' \in {"new", "expand", "launch", "missing", "unexpanded"} =>
           gen \in {"new", "expand", "launch", "missing", "unexpanded"}
  BY DEF Generator, Materialise, Expand, ExpandRaises, Launch, LaunchRaises, ReadLine, ReadRaises, ReadEof,
         WaitReturns, WaitTimesOut, CallerStops, Tshark, Prints, Objects, Complains, Closes, Exits, Dies
<1> QED
  BY <1>1, <1>2 DEF ProcessingInv, Handed, Early

LEMMA ProcessingStep == ProcessingInv /\ [Next]_vars => ProcessingInv'
<1> SUFFICES ASSUME ProcessingInv, [Next]_vars PROVE ProcessingInv'
  OBVIOUS
<1>1. CASE (Generator \/ CallerStops \/ Tshark) /\ UNCHANGED shipperVars
  BY <1>1, GeneratorInv, CallerStopsInv, TsharkInv, ShipperStep, HandedKept DEF ProcessingInv
<1>2. CASE HandOver
  BY <1>2, HandOverInv
<1>3. CASE Send /\ UNCHANGED dissectVars
  <2>1. pc # "idle"
    BY <1>3 DEF Send, Connect, SendsLine, ConnectFails, SendRaises, Retry
  <2>2. record' = record
    BY <1>3 DEF Send, Connect, SendsLine, ConnectFails, SendRaises, Retry, Fails, Return
  <2>3. Handed' /\ Early'
    BY <1>3, <2>1, <2>2 DEF ProcessingInv, Handed, Early, dissectVars
  <2> QED
    BY <1>3, <2>3, ShipperStep, DissectStutters DEF ProcessingInv
<1>4. CASE Resume
  BY <1>4, ResumeInv
<1>5. CASE Logstash /\ UNCHANGED dissectVars
  <2>1. pc' = pc /\ record' = record
    BY <1>5 DEF Logstash, Reads, Stops, Starts, sendVars
  <2>2. Handed' /\ Early'
    BY <1>5, <2>1 DEF ProcessingInv, Handed, Early, dissectVars
  <2> QED
    BY <1>5, <2>2, ShipperStep, DissectStutters DEF ProcessingInv
<1>6. CASE UNCHANGED vars
  <2>1. Handed' /\ Early'
    BY <1>6 DEF ProcessingInv, Handed, Early, vars, dissectVars, shipperVars, sendVars
  <2> QED
    BY <1>6, <2>1, ShipperStep, DissectStutters DEF ProcessingInv, vars
<1> QED
  BY <1>1, <1>2, <1>3, <1>4, <1>5, <1>6 DEF Next, Process

-----------------------------------------------------------------------------

LEMMA ProcessingInvariant == Spec => []ProcessingInv
<1> QED
  BY ProcessingInitInv, ProcessingStep, PTL DEF Spec

\* Every variable of process() and of what it talks to keeps its type.
THEOREM TypeCorrect == Spec => []TypeOK
<1>1. ProcessingInv => TypeOK
  BY ShipperInvImplies DEF ProcessingInv, DissectInv, DissectTypes, TypeOK
<1> QED
  BY <1>1, ProcessingInvariant, PTL

\* send() never doubles a record, whatever Logstash and the network do to its
\* two attempts.
THEOREM NeverSentTwice == Spec => []NeverTwice
<1>1. ProcessingInv => NeverTwice
  BY ShipperInvImplies DEF ProcessingInv
<1> QED
  BY <1>1, ProcessingInvariant, PTL

\* send() returns False for no record that Logstash has read or will read.
THEOREM FalseIsLost == Spec => []FalseMeansLost
<1>1. ProcessingInv => FalseMeansLost
  BY ShipperInvImplies DEF ProcessingInv
<1> QED
  BY <1>1, ProcessingInvariant, PTL

\* What a failed sendall() left behind is never followed by another line.
THEOREM FragmentsEndConnections == Spec => []FragmentsAreLast
<1>1. ProcessingInv => FragmentsAreLast
  BY ShipperInvImplies DEF ProcessingInv
<1> QED
  BY <1>1, ProcessingInvariant, PTL

\* LogstashShipper keeps no connection open but the one in _socket.
THEOREM SocketsClosed == Spec => []NoSocketLeaks
<1>1. ProcessingInv => NoSocketLeaks
  BY ShipperInvImplies DEF ProcessingInv
<1> QED
  BY <1>1, ProcessingInvariant, PTL

\* A record that send() reports as sent is lost to a restart of Logstash only.
THEOREM OnlyRestartsLose == Spec => []LossNeedsRestart
<1>1. ProcessingInv => LossNeedsRestart
  BY ShipperInvImplies DEF ProcessingInv
<1> QED
  BY <1>1, ProcessingInvariant, PTL

\* extract_records returns after a tshark that succeeded with all of its lines
\* read, and process() has an answer from send() to every record of them.
THEOREM ReturnsComplete == Spec => []CompleteOnReturn
<1>1. ProcessingInv => CompleteOnReturn
  <2> SUFFICES ASSUME ProcessingInv, gen = "returned", child = "exited"
               PROVE  left = 0 /\ out = 0 /\ \A r \in 1 .. record : returned[r] # "none"
    BY DEF CompleteOnReturn
  <2>1. left = 0 /\ out = 0
    BY DEF ProcessingInv, DissectInv, Drained
  <2>2. pc = "idle"
    BY DEF ProcessingInv, Handed
  <2>3. ASSUME NEW r \in 1 .. record PROVE returned[r] # "none"
    BY <2>2, <2>3, NumRecordsAssumption DEF ProcessingInv, ShipperInv, ShipperTypes, InTurn, Record
  <2> QED
    BY <2>1, <2>3
<1> QED
  BY <1>1, ProcessingInvariant, PTL

\* However extract_records ends, its tshark has ended or was killed ...
THEOREM ChildEnds == Spec => []NoChildLeft
<1>1. ProcessingInv => NoChildLeft
  BY DEF ProcessingInv, DissectInv, Tended, NoChildLeft, Ended
<1> QED
  BY <1>1, ProcessingInvariant, PTL

\* ... and its temporary file is gone, unless _materialise raised.
THEOREM TempEnds == Spec => []TempRemoved
<1>1. ProcessingInv => TempRemoved
  BY DEF ProcessingInv, DissectInv
<1> QED
  BY <1>1, ProcessingInvariant, PTL

-----------------------------------------------------------------------------
(* What Extractor says of the dissection of a capture, it may say.            *)

\* The records with an answer are those before the one in hand.
LEMMA PassedCount ==
  ShipperInv => Passed = IF pc = "idle" THEN record ELSE record - 1
<1> SUFFICES ASSUME ShipperInv PROVE Passed = IF pc = "idle" THEN record ELSE record - 1
  OBVIOUS
<1>1. record \in Nat /\ record <= NumRecords /\ (pc # "idle" => record >= 1)
  BY NumRecordsAssumption DEF ShipperInv, ShipperTypes, Record
<1>2. \A n \in Nat : Cardinality(1 .. n) = n
  <2> SUFFICES ASSUME NEW n \in Nat PROVE Cardinality(1 .. n) = n
    OBVIOUS
  <2>1. 1 \in Int /\ n \in Int
    OBVIOUS
  <2>2. Cardinality(1 .. n) = IF 1 > n THEN 0 ELSE n - 1 + 1
    BY <2>1, FS_Interval
  <2> QED
    BY <2>2
<1>3. CASE pc = "idle"
  <2>1. { r \in Record : returned[r] # "none" } = 1 .. record
    BY <1>1, <1>3, NumRecordsAssumption DEF ShipperInv, InTurn, Record
  <2> QED
    BY <1>1, <1>2, <1>3, <2>1 DEF Passed
<1>4. CASE pc # "idle"
  <2>1. { r \in Record : returned[r] # "none" } = 1 .. record - 1
    BY <1>1, <1>4, NumRecordsAssumption DEF ShipperInv, InTurn, Record
  <2>2. record - 1 \in Nat
    BY <1>1, <1>4
  <2>3. Cardinality(1 .. record - 1) = record - 1
    BY <1>2, <2>2
  <2> QED
    BY <1>4, <2>1, <2>3 DEF Passed
<1> QED
  BY <1>3, <1>4

\* A step that leaves the compression, the answers and the place of process()
\* as they are is none of Extractor's.
LEMMA KeptStutters ==
  ASSUME gz' = gz, returned' = returned, Ended' <=> Ended, Gone' <=> Gone
  PROVE  UNCHANGED <<One!serviceVars, Sizes>>
<1>1. Passed' = Passed
  BY DEF Passed
<1>2. Capture' = Capture
  BY DEF Capture
<1> QED
  BY <1>1, <1>2 DEF One!serviceVars, One!memory, Sizes

\* TsharkNotAvailable ends the process() of a capture before its first record.
LEMMA MissingKept ==
  ASSUME ProcessingInv, LaunchRaises, gen' = "missing", UNCHANGED shipperVars
  PROVE  One!TsharkMissing
<1>1. "launch" \in DissectFaults /\ gen = "launch" /\ gz' = gz /\ returned' = returned
  BY DEF LaunchRaises, shipperVars, sendVars
<1>2. Passed = 0
  BY <1>1, PassedCount DEF ProcessingInv, Handed, Early
<1>3. ~Gone /\ ~Ended /\ Gone' /\ Ended'
  BY <1>1 DEF Gone, Ended
<1>4. Sizes' = Sizes /\ Sizes[Capture] = Packets /\ Capture[1] = 1
  BY <1>1 DEF Sizes, Files, Capture
<1>5. Packets # -1
  BY PacketsAssumption
<1> QED
  BY <1>1, <1>2, <1>3, <1>4, <1>5
     DEF One!TsharkMissing, One!Raise, One!LeaveProcess, One!NoName, One!NoFile, One!IsGz,
         One!Whole, One!RotationOf

\* Any other end of the generator is the end of the dissection.
LEMMA EndKept ==
  ASSUME gz' = gz, returned' = returned, ~Ended, Ended', ~Gone'
  PROVE  One!DissectEnds
<1>1. Passed' = Passed /\ Sizes' = Sizes /\ Capture' = Capture /\ ~Gone
  BY DEF Passed, Sizes, Capture, Gone, Ended
<1> QED
  BY <1>1 DEF One!DissectEnds, One!memory

\* The answer of send() is the answer to the next record, for good.
LEMMA AnswerKept ==
  ASSUME ProcessingInv, ProcessingInv', pc # "idle", UNCHANGED dissectVars,
         NEW result \in {"true", "false"}, Return(result)
  PROVE  One!ShipDelivered \/ One!ShipDropped
<1>1. /\ record' = record /\ pc' = "idle" /\ gz' = gz /\ gen = "sending" /\ gen' = "sending"
      /\ returned' = [returned EXCEPT ![record] = result]
  BY DEF Return, dissectVars, ProcessingInv, Handed
<1>2. record \in Nat /\ 1 <= record /\ record <= Packets /\ record \in Record
  BY NumRecordsAssumption, OneRecordPerLine DEF ProcessingInv, ShipperInv, ShipperTypes, Record
<1>3. returned[record] = "none" /\ returned \in [Record -> {"none", "true", "false"}]
  BY <1>2 DEF ProcessingInv, ShipperInv, ShipperTypes, InTurn
<1>4. Passed = record - 1 /\ Passed' = record
  <2>1. Passed = record - 1
    BY PassedCount DEF ProcessingInv
  <2>2. Passed' = record
    <3>1. (ShipperInv => Passed = IF pc = "idle" THEN record ELSE record - 1)'
      BY PassedCount, PTL
    <3> QED
      BY <1>1, <3>1 DEF ProcessingInv
  <2> QED
    BY <2>1, <2>2
<1>5. Sizes' = Sizes /\ Capture' = Capture /\ Capture[1] = 1 /\ ~Ended /\ ~Ended' /\ ~Gone /\ ~Gone'
  BY <1>1 DEF Sizes, Capture, Ended, Gone
<1>6. (record - 1) + 1 = record /\ record - 1 < Packets
  BY <1>2, PacketsAssumption
<1> DEFINE accepted == [i \in Record |-> IF returned[i] = "true" THEN 1 ELSE 0]
<1>7. CASE result = "true"
  <2>1. accepted' = [accepted EXCEPT ![record] = 1] /\ accepted[record] = 0
    BY <1>1, <1>2, <1>3, <1>7
  <2>2. [i \in {1} |-> accepted]' = [[i \in {1} |-> accepted] EXCEPT ![1][record] = IF @ < 2 THEN @ + 1 ELSE @]
    BY <2>1
  <2> QED
    BY <1>1, <1>2, <1>4, <1>5, <1>6, <2>2
       DEF One!ShipDelivered, One!RotationOf, One!Twice
<1>8. CASE result = "false"
  BY <1>1, <1>2, <1>3, <1>4, <1>5, <1>6, <1>8 DEF One!ShipDropped
<1> QED
  BY <1>7, <1>8

StepOfOne == One!TsharkMissing \/ One!ShipDelivered \/ One!ShipDropped \/ One!DissectEnds
KeptStep  == StepOfOne \/ UNCHANGED <<One!serviceVars, Sizes>>

LEMMA GeneratorKept ==
  ASSUME ProcessingInv, Generator \/ CallerStops, UNCHANGED shipperVars
  PROVE  KeptStep
<1>1. gz' = gz /\ returned' = returned
  BY DEF Generator, Materialise, Expand, ExpandRaises, Launch, LaunchRaises, ReadLine, ReadRaises, ReadEof,
         WaitReturns, WaitTimesOut, CallerStops, shipperVars, sendVars
<1>2. ~Ended
  BY DEF Generator, Materialise, Expand, ExpandRaises, Launch, LaunchRaises, ReadLine, ReadRaises, ReadEof,
         WaitReturns, WaitTimesOut, CallerStops, Ended
<1>3. CASE LaunchRaises /\ gen' = "missing"
  BY <1>3, MissingKept DEF KeptStep, StepOfOne
<1>4. CASE ~(LaunchRaises /\ gen' = "missing")
  <2>1. gen' # "missing"
    BY <1>4 DEF Generator, Materialise, Expand, ExpandRaises, Launch, LaunchRaises, ReadLine,
                ReadRaises, ReadEof, WaitReturns, WaitTimesOut, CallerStops
  <2>2. ~Gone /\ ~Gone'
    BY <1>2, <2>1 DEF Gone, Ended
  <2>3. CASE Ended'
    BY <1>1, <1>2, <2>2, <2>3, EndKept DEF KeptStep, StepOfOne
  <2>4. CASE ~Ended'
    BY <1>1, <1>2, <2>2, <2>4, KeptStutters DEF KeptStep
  <2> QED
    BY <2>3, <2>4
<1> QED
  BY <1>3, <1>4

LEMMA SendKept ==
  ASSUME ProcessingInv, ProcessingInv', Send, UNCHANGED dissectVars
  PROVE  KeptStep
<1>1. pc # "idle" /\ gz' = gz /\ gen' = gen
  BY DEF Send, Connect, SendsLine, ConnectFails, SendRaises, Retry, dissectVars
<1>2. \/ returned' = returned
      \/ \E result \in {"true", "false"} : Return(result)
  BY DEF Send, Connect, SendsLine, ConnectFails, SendRaises, Retry, Fails
<1>3. CASE returned' = returned
  BY <1>1, <1>3, KeptStutters DEF KeptStep, Ended, Gone
<1>4. CASE \E result \in {"true", "false"} : Return(result)
  BY <1>1, <1>4, AnswerKept DEF KeptStep, StepOfOne
<1> QED
  BY <1>2, <1>3, <1>4

LEMMA NextKept == ProcessingInv /\ ProcessingInv' /\ [Next]_vars => KeptStep
<1> SUFFICES ASSUME ProcessingInv, ProcessingInv', [Next]_vars PROVE KeptStep
  OBVIOUS
<1>1. CASE (Generator \/ CallerStops) /\ UNCHANGED shipperVars
  BY <1>1, GeneratorKept
<1>2. CASE Send /\ UNCHANGED dissectVars
  BY <1>2, SendKept
<1>3. CASE HandOver \/ Resume
  <2>1. gz' = gz /\ returned' = returned /\ (Ended' <=> Ended) /\ (Gone' <=> Gone)
    BY <1>3 DEF HandOver, Resume, Call, shipperVars, sendVars, Ended, Gone
  <2> QED
    BY <2>1, KeptStutters DEF KeptStep
<1>4. CASE \/ Tshark /\ UNCHANGED shipperVars
           \/ Logstash /\ UNCHANGED dissectVars
           \/ UNCHANGED vars
  <2>1. gz' = gz /\ gen' = gen /\ returned' = returned
    BY <1>4 DEF Tshark, Prints, Objects, Complains, Closes, Exits, Dies,
                Logstash, Reads, Stops, Starts, vars, dissectVars, shipperVars, sendVars
  <2> QED
    BY <2>1, KeptStutters DEF KeptStep, Ended, Gone
<1> QED
  BY <1>1, <1>2, <1>3, <1>4 DEF Next, Process

\* Extractor's account of the dissection of a capture is true: the retries of
\* send(), the pipes and the ends of tshark and of the generator add up to one
\* final answer per record, in order, and to one end.
THEOREM ProcessImplements == Spec => ProcessKept
<1>1. ProcessingInv /\ ProcessingInv' /\ [Next]_vars
        => [StepOfOne]_<<One!serviceVars, Sizes>>
  BY NextKept DEF KeptStep
<1> QED
  BY <1>1, ProcessingInvariant, PTL DEF Spec, ProcessKept, StepOfOne

===============================================================================
