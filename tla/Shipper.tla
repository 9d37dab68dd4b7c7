-------------------------------- MODULE Shipper --------------------------------
(***************************************************************************)
(* LogstashShipper (analysis/deception_shield/extractor.py): line          *)
(* delimited JSON over one TCP connection to the Logstash input, with two  *)
(* attempts per record.  The other end is Logstash, which restarts and     *)
(* stalls, and the two TCP stacks in between: after Logstash is gone the   *)
(* sender learns of it at a later write only, or never.                    *)
(***************************************************************************)
EXTENDS Naturals, Sequences, FiniteSets

CONSTANTS
  NumRecords,   \* records to send, one after the other
  Capacity,     \* lines that fit between sendall() and Logstash's read
  MaxRestarts,  \* bound on the restarts of Logstash
  Vanishes      \* Logstash may also go without closing its connections

ASSUME NumRecordsAssumption  == NumRecords \in Nat \ {0}
ASSUME CapacityAssumption    == Capacity \in Nat \ {0}
ASSUME MaxRestartsAssumption == MaxRestarts \in Nat
ASSUME VanishesAssumption    == Vanishes \in BOOLEAN

VARIABLES
  pc,         \* "idle", or inside send(): "attempt", "retry" (asleep)
  record,     \* the record being sent, or the last one
  attempt,    \* the loop variable of send()
  sock,       \* _socket: the number of its connection, NoSocket for None
  peer,       \* peer[c]: what is at the other end of connection c
  lines,      \* lines[c]: what Logstash can still read from connection c
  up,         \* Logstash listens
  returned,   \* returned[r]: what send() returned for record r, "none" before
  delivered,  \* delivered[r]: how often Logstash has read the line of r
  restarts    \* restarts of Logstash so far

sendVars    == <<pc, record, attempt, sock, returned>>
netVars     == <<peer, lines, up, delivered, restarts>>
shipperVars == <<sendVars, netVars>>

Record == 1 .. NumRecords

\* A record opens a connection at most twice.
Connection == 1 .. 2 * NumRecords
NoSocket   == 0

\* "new" before connect(); "live" with Logstash at the other end; "fin" when it
\* closed, "rst" when it reset the connection, "silent" when it went without a
\* word; "closed" when the shipper has closed it.
Peer == {"new", "live", "fin", "rst", "silent", "closed"}

\* A line is the whole of record r, or what a failed sendall() left of it.
Line        == [of : Record, whole : BOOLEAN]
WholeLine(r) == [of |-> r, whole |-> TRUE]
Fragment(r)  == [of |-> r, whole |-> FALSE]

-----------------------------------------------------------------------------

ShipperInit ==
  /\ pc        = "idle"
  /\ record    = 0
  /\ attempt   = 0
  /\ sock      = NoSocket
  /\ peer      = [c \in Connection |-> "new"]
  /\ lines     = [c \in Connection |-> <<>>]
  /\ up        = TRUE
  /\ returned  = [r \in Record |-> "none"]
  /\ delivered = [r \in Record |-> 0]
  /\ restarts  = 0

\* process() calls send() for the next record.
Call ==
  /\ pc = "idle"
  /\ record < NumRecords
  /\ record'  = record + 1
  /\ attempt' = 1
  /\ pc'      = "attempt"
  /\ UNCHANGED <<sock, returned, peer, lines, up, delivered, restarts>>

\* _connect() without a socket: create_connection() succeeds.
Connect ==
  /\ pc = "attempt"
  /\ sock = NoSocket
  /\ up
  /\ \E c \in Connection :
       /\ peer[c] = "new"
       /\ \A d \in Connection : d < c => peer[d] # "new"
       /\ sock' = c
       /\ peer' = [peer EXCEPT ![c] = "live"]
  /\ UNCHANGED <<pc, record, attempt, returned, lines, up, delivered, restarts>>

\* Mutant: the loop goes on after a write that succeeded.
ReturnAgain(result) ==
  /\ returned' = [returned EXCEPT ![record] = result]
  /\ IF attempt = 1 THEN pc' = "attempt" /\ attempt' = 2
                    ELSE pc' = "idle" /\ UNCHANGED attempt
  /\ UNCHANGED record

\* return True, return False.
Return(result) ==
  /\ returned' = [returned EXCEPT ![record] = result]
  /\ pc' = "idle"
  /\ UNCHANGED <<record, attempt>>

\* sendall() hands the line to the TCP stack and returns.  With Logstash at the
\* other end it can be read there; without, it is lost, and the stack answers a
\* write on a closed connection with the reset that the next write sees.
SendsLine ==
  /\ pc = "attempt"
  /\ sock # NoSocket
  /\ \/ /\ peer[sock] = "live"
        /\ Len(lines[sock]) < Capacity
        /\ lines' = [lines EXCEPT ![sock] = Append(@, WholeLine(record))]
        /\ UNCHANGED peer
     \/ /\ peer[sock] = "fin"
        /\ peer' = [peer EXCEPT ![sock] = "rst"]
        /\ UNCHANGED lines
     \/ /\ peer[sock] = "silent"
        /\ UNCHANGED <<peer, lines>>
  /\ Return("true")
  /\ UNCHANGED <<sock, up, delivered, restarts>>

\* Mutant: the socket is kept for the next attempt.
FailsOpen ==
  /\ UNCHANGED sock
  /\ UNCHANGED peer
  /\ IF attempt = 2
     THEN Return("false")
     ELSE /\ pc' = "retry"
          /\ UNCHANGED <<record, attempt, returned>>

\* Mutant: the second attempt starts over.
FailsForever ==
  /\ sock' = NoSocket
  /\ peer' = IF sock = NoSocket THEN peer ELSE [peer EXCEPT ![sock] = "closed"]
  /\ pc' = "retry"
  /\ UNCHANGED <<record, attempt, returned>>

\* Mutant: the failure is logged and the record taken for sent.
FailsSilently ==
  /\ sock' = NoSocket
  /\ peer' = IF sock = NoSocket THEN peer ELSE [peer EXCEPT ![sock] = "closed"]
  /\ Return("true")

\* Mutant: the socket is forgotten and not closed.
FailsForgets ==
  /\ sock' = NoSocket
  /\ UNCHANGED peer
  /\ IF attempt = 2
     THEN Return("false")
     ELSE /\ pc' = "retry"
          /\ UNCHANGED <<record, attempt, returned>>

\* The except branch: close(), then False after the second attempt or a second
\* of sleep after the first.
Fails ==
  /\ sock' = NoSocket
  /\ peer' = IF sock = NoSocket THEN peer ELSE [peer EXCEPT ![sock] = "closed"]
  /\ IF attempt = 2
     THEN Return("false")
     ELSE /\ pc' = "retry"
          /\ UNCHANGED <<record, attempt, returned>>

\* create_connection() is refused or times out, which it may do although Logstash
\* listens.
ConnectFails ==
  /\ pc = "attempt"
  /\ sock = NoSocket
  /\ Fails
  /\ UNCHANGED <<lines, up, delivered, restarts>>

\* sendall() raises: the connection was reset, or nothing was read at the other
\* end for the timeout - then a part of the line may already be on its way.
SendRaises ==
  /\ pc = "attempt"
  /\ sock # NoSocket
  /\ \/ peer[sock] = "rst" /\ UNCHANGED lines
     \/ peer[sock] = "silent" /\ UNCHANGED lines
     \/ /\ peer[sock] = "live"
        /\ \/ UNCHANGED lines
           \/ lines' = [lines EXCEPT ![sock] = Append(@, Fragment(record))]
        /\ Len(lines[sock]) >= Capacity
  /\ Fails
  /\ UNCHANGED <<up, delivered, restarts>>

Retry ==
  /\ pc = "retry"
  /\ pc'      = "attempt"
  /\ attempt' = attempt + 1
  /\ UNCHANGED <<record, sock, returned, peer, lines, up, delivered, restarts>>

Send == Connect \/ SendsLine \/ ConnectFails \/ SendRaises \/ Retry

-----------------------------------------------------------------------------

\* Logstash reads a line.  A connection that the shipper has closed is read to
\* its end; a fragment becomes an event with a parse failure.
Reads(c) ==
  /\ up
  /\ peer[c] \in {"live", "closed"}
  /\ lines[c] # <<>>
  /\ lines' = [lines EXCEPT ![c] = Tail(@)]
  /\ delivered' = IF Head(lines[c]).whole
                  THEN [delivered EXCEPT ![Head(lines[c]).of] = @ + 1]
                  ELSE delivered
  /\ UNCHANGED <<sendVars, peer, up, restarts>>

\* Logstash stops.  What it has not read is gone.  The stack resets a connection
\* with unread lines, closes one without, or (host or network gone) says nothing.
Stops ==
  /\ up
  /\ restarts < MaxRestarts
  /\ restarts' = restarts + 1
  /\ up' = FALSE
  /\ lines' = [c \in Connection |-> <<>>]
  /\ \E silent \in IF Vanishes THEN BOOLEAN ELSE {FALSE} :
       peer' = [c \in Connection |->
                  IF peer[c] # "live" THEN peer[c]
                  ELSE IF silent THEN "silent"
                  ELSE IF lines[c] = <<>> THEN "fin" ELSE "rst"]
  /\ UNCHANGED <<sendVars, delivered>>

Starts ==
  /\ ~up
  /\ up' = TRUE
  /\ UNCHANGED <<sendVars, peer, lines, delivered, restarts>>

Logstash == (\E c \in Connection : Reads(c)) \/ Stops \/ Starts

-----------------------------------------------------------------------------

ShipperTypeOK ==
  /\ pc \in {"idle", "attempt", "retry"}
  /\ record \in 0 .. NumRecords
  /\ attempt \in 0 .. 2
  /\ sock \in Connection \cup {NoSocket}
  /\ peer \in [Connection -> Peer]
  /\ \A c \in Connection : lines[c] \in Seq(Line)
  /\ up \in BOOLEAN
  /\ returned \in [Record -> {"none", "true", "false"}]
  /\ delivered \in [Record -> 0 .. 2]
  /\ restarts \in 0 .. MaxRestarts

\* The places of the whole line of record r among the lines still to be read.
Places(r) ==
  { p \in Connection \X (1 .. Capacity + 1) :
      p[2] \in 1 .. Len(lines[p[1]]) /\ lines[p[1]][p[2]] = WholeLine(r) }

Waiting(r) == Cardinality(Places(r))

\* A retry never doubles a record: what Logstash has read and can still read of
\* it is one line at most, on whichever connections its attempts went out.
NeverTwice == \A r \in Record : delivered[r] + Waiting(r) <= 1

\* send() returns False only for a record that Logstash has not read and never
\* will: the count of shipped records in process() is not too low.
FalseMeansLost ==
  \A r \in Record : returned[r] = "false" => delivered[r] + Waiting(r) = 0

\* A fragment is the last thing on its connection: the retried record is not
\* glued to the beginning of its first attempt.
FragmentsAreLast ==
  \A c \in Connection : \A i \in 1 .. Len(lines[c]) :
    ~lines[c][i].whole => i = Len(lines[c]) /\ peer[c] = "closed"

\* A socket that is not the shipper's any more is closed: failures and restarts
\* leave no connection open behind it.
NoSocketLeaks == \A c \in Connection : peer[c] \notin {"new", "closed"} => sock = c

\* As long as Logstash does not restart, a record for which send() returned True
\* arrives: a stalled Logstash, timeouts and reconnections lose none of them.
Lost == {r \in Record : returned[r] = "true" /\ delivered[r] + Waiting(r) = 0}

LossNeedsRestart == restarts = 0 => Lost = {}

=============================================================================
