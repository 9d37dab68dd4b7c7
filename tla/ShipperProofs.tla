---------------------------- MODULE ShipperProofs ----------------------------
(***************************************************************************)
(* The invariant of LogstashShipper, of its own steps and of those of      *)
(* Logstash, for any number of records, restarts and lines of room.  What  *)
(* Shipper counts (Waiting) is said here of single places in the lines.    *)
(***************************************************************************)
EXTENDS Shipper, FiniteSetTheorems, TLAPS

\* Place i of connection c holds the whole line of record r.
HasLine(l, c, i, r) == i \in 1 .. Len(l[c]) /\ l[c][i] = WholeLine(r)

ShipperTypes ==
  /\ pc \in {"idle", "attempt", "retry"}
  /\ record \in 0 .. NumRecords
  /\ attempt \in 0 .. 2
  /\ pc # "idle" => record \in Record
  /\ pc = "attempt" => attempt \in 1 .. 2
  /\ pc = "retry" => attempt = 1
  /\ sock \in Connection \cup {NoSocket}
  /\ peer \in [Connection -> Peer]
  /\ lines \in [Connection -> Seq(Line)]
  /\ up \in BOOLEAN
  /\ returned \in [Record -> {"none", "true", "false"}]
  /\ delivered \in [Record -> 0 .. 1]
  /\ restarts \in 0 .. MaxRestarts

\* The records up to the one in hand have their answer, the others have not.
InTurn ==
  \A r \in Record : returned[r] = "none" <=> r > record \/ (r = record /\ pc # "idle")

\* A record has one line at most, none after it was read, and none at all
\* unless send() has returned True.
OneLine ==
  \A r \in Record : \A c, d \in Connection : \A i, j \in Nat :
    HasLine(lines, c, i, r) /\ HasLine(lines, d, j, r) => c = d /\ i = j
ReadOnce ==
  \A r \in Record : \A c \in Connection : \A i \in Nat :
    delivered[r] = 1 => ~HasLine(lines, c, i, r)
OnlyAnswered ==
  \A r \in Record :
    /\ delivered[r] = 1 => returned[r] = "true"
    /\ \A c \in Connection : \A i \in Nat : HasLine(lines, c, i, r) => returned[r] = "true"

Room ==
  \A c \in Connection : /\ Len(lines[c]) <= Capacity + 1
                        /\ peer[c] # "closed" => Len(lines[c]) <= Capacity

\* Before the first restart nothing is lost.
NoneLost ==
  restarts = 0 =>
    /\ up
    /\ \A c \in Connection : peer[c] \in {"new", "live", "closed"}
    /\ \A r \in Record : returned[r] = "true" =>
         delivered[r] = 1 \/ \E c \in Connection : \E i \in Nat : HasLine(lines, c, i, r)

LineInv == OneLine /\ ReadOnce /\ OnlyAnswered /\ Room /\ FragmentsAreLast

ShipperInv == ShipperTypes /\ InTurn /\ LineInv /\ NoSocketLeaks /\ NoneLost

-----------------------------------------------------------------------------

LEMMA AppendLine ==
  ASSUME NEW s \in Seq(Line), NEW e \in Line
  PROVE  /\ Append(s, e) \in Seq(Line)
         /\ Len(Append(s, e)) = Len(s) + 1
         /\ \A i \in 1 .. Len(s) : Append(s, e)[i] = s[i]
         /\ Append(s, e)[Len(s) + 1] = e
         /\ Len(s) \in Nat
OBVIOUS

LEMMA TailLine ==
  ASSUME NEW s \in Seq(Line), s # <<>>
  PROVE  /\ Tail(s) \in Seq(Line)
         /\ Len(s) \in Nat \ {0}
         /\ Len(Tail(s)) = Len(s) - 1
         /\ \A i \in 1 .. Len(s) - 1 : Tail(s)[i] = s[i + 1]
         /\ Head(s) = s[1] /\ s[1] \in Line
OBVIOUS

LEMMA Fragments ==
  ASSUME NEW r \in Record, NEW q \in Record
  PROVE  /\ WholeLine(r) \in Line /\ Fragment(r) \in Line
         /\ WholeLine(r) # Fragment(q)
         /\ WholeLine(r) = WholeLine(q) => r = q
         /\ WholeLine(r).whole /\ ~Fragment(r).whole
         /\ WholeLine(r).of = r
BY DEF WholeLine, Fragment, Line

LEMMA ShipperInitInv == ShipperInit => ShipperInv
<1> SUFFICES ASSUME ShipperInit PROVE ShipperInv
  OBVIOUS
<1>1. ShipperTypes
  BY NumRecordsAssumption, MaxRestartsAssumption DEF ShipperInit, ShipperTypes, Peer
<1>2. \A c \in Connection : Len(lines[c]) = 0 /\ \A i \in Nat : i \notin 1 .. Len(lines[c])
  BY DEF ShipperInit
<1>3. LineInv
  BY <1>2, CapacityAssumption
     DEF ShipperInit, LineInv, OneLine, ReadOnce, OnlyAnswered, Room, FragmentsAreLast, HasLine
<1>4. InTurn
  BY NumRecordsAssumption DEF ShipperInit, InTurn, Record
<1> QED
  BY <1>1, <1>3, <1>4 DEF ShipperInv, ShipperInit, NoSocketLeaks, NoneLost

-----------------------------------------------------------------------------
(* Steps that leave the lines alone. *)

LEMMA CallInv == ShipperInv /\ Call => ShipperInv'
<1> SUFFICES ASSUME ShipperInv, Call PROVE ShipperInv'
  OBVIOUS
<1> USE DEF ShipperInv
<1>1. ShipperTypes'
  BY NumRecordsAssumption DEF ShipperTypes, Call, Record
<1>2. InTurn'
  BY NumRecordsAssumption DEF InTurn, ShipperTypes, Call, Record
<1>3. LineInv' /\ NoSocketLeaks' /\ NoneLost'
  BY DEF Call, LineInv, OneLine, ReadOnce, OnlyAnswered, Room, FragmentsAreLast, NoSocketLeaks, NoneLost
<1> QED
  BY <1>1, <1>2, <1>3

LEMMA ConnectInv == ShipperInv /\ Connect => ShipperInv'
<1> SUFFICES ASSUME ShipperInv, Connect PROVE ShipperInv'
  OBVIOUS
<1>1. PICK c \in Connection : peer[c] = "new" /\ sock' = c /\ peer' = [peer EXCEPT ![c] = "live"]
  BY DEF Connect
<1>2. UNCHANGED <<pc, record, attempt, returned, lines, up, delivered, restarts>> /\ sock = NoSocket
  BY DEF Connect
<1> USE <1>1, <1>2 DEF ShipperInv
<1>3. peer \in [Connection -> Peer]
  BY DEF ShipperTypes
<1>4. ShipperTypes' /\ InTurn'
  BY DEF ShipperTypes, InTurn, Peer
<1>5. OneLine' /\ ReadOnce' /\ OnlyAnswered'
  BY DEF LineInv, OneLine, ReadOnce, OnlyAnswered
<1>6. Room' /\ FragmentsAreLast'
  BY <1>3 DEF LineInv, Room, FragmentsAreLast
<1>7. NoSocketLeaks'
  BY <1>3 DEF NoSocketLeaks, NoSocket, Connection
<1>8. NoneLost'
  BY <1>3 DEF NoneLost
<1> QED
  BY <1>4, <1>5, <1>6, <1>7, <1>8 DEF LineInv

LEMMA RetryInv == ShipperInv /\ Retry => ShipperInv'
<1> SUFFICES ASSUME ShipperInv, Retry PROVE ShipperInv'
  OBVIOUS
<1> USE DEF ShipperInv
<1>1. ShipperTypes' /\ InTurn'
  BY DEF ShipperTypes, InTurn, Retry
<1>2. LineInv' /\ NoSocketLeaks' /\ NoneLost'
  BY DEF Retry, LineInv, OneLine, ReadOnce, OnlyAnswered, Room, FragmentsAreLast, NoSocketLeaks, NoneLost
<1> QED
  BY <1>1, <1>2

LEMMA StartsInv == ShipperInv /\ Starts => ShipperInv'
<1> SUFFICES ASSUME ShipperInv, Starts PROVE ShipperInv'
  OBVIOUS
<1> USE DEF ShipperInv
<1>1. ShipperTypes' /\ InTurn'
  BY DEF ShipperTypes, InTurn, Starts, sendVars
<1>2. LineInv' /\ NoSocketLeaks'
  BY DEF Starts, sendVars, LineInv, OneLine, ReadOnce, OnlyAnswered, Room, FragmentsAreLast,
         NoSocketLeaks
<1>3. NoneLost'
  BY DEF Starts, sendVars, NoneLost
<1> QED
  BY <1>1, <1>2, <1>3

-----------------------------------------------------------------------------
(* What the three assignments to lines do to the places of whole lines. *)

LEMMA LinesAppend ==
  ASSUME ShipperTypes, sock \in Connection, NEW e \in Line,
         lines' = [lines EXCEPT ![sock] = Append(@, e)]
  PROVE  /\ lines' \in [Connection -> Seq(Line)]
         /\ \A c \in Connection : Len(lines[c]) \in Nat
         /\ \A c \in Connection : Len(lines'[c]) = IF c = sock THEN Len(lines[c]) + 1 ELSE Len(lines[c])
         /\ \A c \in Connection : \A i \in 1 .. Len(lines'[c]) :
              lines'[c][i] = IF c = sock /\ i = Len(lines[c]) + 1 THEN e ELSE lines[c][i]
<1>1. lines \in [Connection -> Seq(Line)]
  BY DEF ShipperTypes
<1>2. /\ lines' \in [Connection -> Seq(Line)]
      /\ \A c \in Connection : lines'[c] = IF c = sock THEN Append(lines[c], e) ELSE lines[c]
  BY <1>1, AppendLine
<1>3. \A c \in Connection : lines[c] \in Seq(Line) /\ Len(lines[c]) \in Nat
  BY <1>1
<1>4. \A c \in Connection : Len(lines'[c]) = IF c = sock THEN Len(lines[c]) + 1 ELSE Len(lines[c])
  BY <1>2, <1>3, AppendLine
<1>5. ASSUME NEW c \in Connection, NEW i \in 1 .. Len(lines'[c])
      PROVE  lines'[c][i] = IF c = sock /\ i = Len(lines[c]) + 1 THEN e ELSE lines[c][i]
  <2>1. CASE c = sock
    <3>1. lines'[c] = Append(lines[c], e)
      BY <1>2, <2>1
    <3>2. i = Len(lines[c]) + 1 \/ i \in 1 .. Len(lines[c])
      BY <1>3, <1>4, <2>1
    <3> QED
      BY <1>3, <2>1, <3>1, <3>2, AppendLine
  <2>2. CASE c # sock
    BY <1>2, <2>2
  <2> QED
    BY <2>1, <2>2
<1> QED
  BY <1>2, <1>3, <1>4, <1>5

LEMMA LinesWhole ==
  ASSUME ShipperTypes, sock \in Connection, record \in Record,
         lines' = [lines EXCEPT ![sock] = Append(@, WholeLine(record))]
  PROVE  \A c \in Connection : \A i \in Nat : \A r \in Record :
           HasLine(lines', c, i, r)
             <=> HasLine(lines, c, i, r) \/ (c = sock /\ i = Len(lines[c]) + 1 /\ r = record)
<1>1. WholeLine(record) \in Line
  BY Fragments
<1>2. /\ \A c \in Connection : Len(lines[c]) \in Nat
      /\ \A c \in Connection : Len(lines'[c]) = IF c = sock THEN Len(lines[c]) + 1 ELSE Len(lines[c])
      /\ \A c \in Connection : \A i \in 1 .. Len(lines'[c]) :
           lines'[c][i] = IF c = sock /\ i = Len(lines[c]) + 1 THEN WholeLine(record) ELSE lines[c][i]
  BY <1>1, LinesAppend
<1> QED
  BY <1>2, Fragments DEF HasLine

LEMMA LinesFragment ==
  ASSUME ShipperTypes, sock \in Connection, record \in Record,
         lines' = [lines EXCEPT ![sock] = Append(@, Fragment(record))]
  PROVE  \A c \in Connection : \A i \in Nat : \A r \in Record :
           HasLine(lines', c, i, r) <=> HasLine(lines, c, i, r)
<1>1. Fragment(record) \in Line
  BY Fragments
<1>2. /\ \A c \in Connection : Len(lines[c]) \in Nat
      /\ \A c \in Connection : Len(lines'[c]) = IF c = sock THEN Len(lines[c]) + 1 ELSE Len(lines[c])
      /\ \A c \in Connection : \A i \in 1 .. Len(lines'[c]) :
           lines'[c][i] = IF c = sock /\ i = Len(lines[c]) + 1 THEN Fragment(record) ELSE lines[c][i]
  BY <1>1, LinesAppend
<1> QED
  BY <1>2, Fragments DEF HasLine

LEMMA LinesTail ==
  ASSUME ShipperTypes, NEW c \in Connection, lines[c] # <<>>,
         lines' = [lines EXCEPT ![c] = Tail(@)]
  PROVE  /\ lines' \in [Connection -> Seq(Line)]
         /\ Head(lines[c]) = lines[c][1] /\ Head(lines[c]) \in Line /\ Len(lines[c]) \in Nat \ {0}
         /\ \A d \in Connection : Len(lines'[d]) = IF d = c THEN Len(lines[d]) - 1 ELSE Len(lines[d])
         /\ \A d \in Connection : \A i \in 1 .. Len(lines'[d]) :
              lines'[d][i] = IF d = c THEN lines[d][i + 1] ELSE lines[d][i]
         /\ \A d \in Connection : \A i \in Nat : \A r \in Record :
              HasLine(lines', d, i, r)
                <=> IF d = c THEN i >= 1 /\ HasLine(lines, d, i + 1, r) ELSE HasLine(lines, d, i, r)
<1>1. lines \in [Connection -> Seq(Line)]
  BY DEF ShipperTypes
<1>2. /\ lines' \in [Connection -> Seq(Line)]
      /\ \A d \in Connection : lines'[d] = IF d = c THEN Tail(lines[d]) ELSE lines[d]
  BY <1>1, TailLine
<1>3. \A d \in Connection : lines[d] \in Seq(Line) /\ Len(lines[d]) \in Nat
  BY <1>1
<1>4. \A d \in Connection : Len(lines'[d]) = IF d = c THEN Len(lines[d]) - 1 ELSE Len(lines[d])
  BY <1>1, <1>2, <1>3, TailLine
<1>5. ASSUME NEW d \in Connection, NEW i \in 1 .. Len(lines'[d])
      PROVE  lines'[d][i] = IF d = c THEN lines[d][i + 1] ELSE lines[d][i]
  <2>1. CASE d = c
    <3>1. lines'[d] = Tail(lines[d]) /\ i \in 1 .. Len(lines[d]) - 1
      BY <1>2, <1>4, <2>1
    <3> QED
      BY <1>3, <2>1, <3>1, TailLine
  <2>2. CASE d # c
    BY <1>2, <2>2
  <2> QED
    BY <2>1, <2>2
<1>6. Head(lines[c]) = lines[c][1] /\ Head(lines[c]) \in Line /\ Len(lines[c]) \in Nat \ {0}
  BY <1>3, TailLine
<1>7. ASSUME NEW d \in Connection, NEW i \in Nat, NEW r \in Record
      PROVE  HasLine(lines', d, i, r)
               <=> IF d = c THEN i >= 1 /\ HasLine(lines, d, i + 1, r) ELSE HasLine(lines, d, i, r)
  <2>1. CASE d = c
    <3>1. i \in 1 .. Len(lines'[d]) <=> i >= 1 /\ i + 1 \in 1 .. Len(lines[d])
      BY <1>3, <1>4, <2>1
    <3> QED
      BY <1>5, <2>1, <3>1 DEF HasLine
  <2>2. CASE d # c
    BY <1>2, <2>2 DEF HasLine
  <2> QED
    BY <2>1, <2>2
<1> QED
  BY <1>2, <1>4, <1>5, <1>6, <1>7

-----------------------------------------------------------------------------

LEMMA SendsLineInv == ShipperInv /\ SendsLine => ShipperInv'
<1> SUFFICES ASSUME ShipperInv, SendsLine PROVE ShipperInv'
  OBVIOUS
<1>1. /\ ShipperTypes /\ InTurn /\ LineInv /\ NoSocketLeaks /\ NoneLost
      /\ sock \in Connection /\ record \in Record /\ pc = "attempt"
      /\ peer \in [Connection -> Peer]
  BY DEF ShipperInv, SendsLine, ShipperTypes
<1>2. /\ returned' = [returned EXCEPT ![record] = "true"] /\ pc' = "idle"
      /\ UNCHANGED <<record, attempt, sock, up, delivered, restarts>>
  BY DEF SendsLine, Return
<1>3. InTurn' /\ \A r \in Record : returned'[r] = "true" <=> returned[r] = "true" \/ r = record
  BY <1>1, <1>2 DEF InTurn, ShipperTypes, Record
<1>4. returned[record] = "none"
  BY <1>1 DEF InTurn
<1>5. CASE /\ peer[sock] = "live" /\ Len(lines[sock]) < Capacity
           /\ lines' = [lines EXCEPT ![sock] = Append(@, WholeLine(record))]
           /\ UNCHANGED peer
  <2>1. WholeLine(record) \in Line /\ WholeLine(record).whole
    BY <1>1, Fragments
  <2>2. /\ lines' \in [Connection -> Seq(Line)]
        /\ \A c \in Connection : Len(lines[c]) \in Nat
        /\ \A c \in Connection : Len(lines'[c]) = IF c = sock THEN Len(lines[c]) + 1 ELSE Len(lines[c])
        /\ \A c \in Connection : \A i \in 1 .. Len(lines'[c]) :
             lines'[c][i] = IF c = sock /\ i = Len(lines[c]) + 1 THEN WholeLine(record) ELSE lines[c][i]
    BY <1>1, <1>5, <2>1, LinesAppend
  <2>3. \A c \in Connection : \A i \in Nat : \A r \in Record :
          HasLine(lines', c, i, r)
            <=> HasLine(lines, c, i, r) \/ (c = sock /\ i = Len(lines[c]) + 1 /\ r = record)
    BY <1>1, <1>5, LinesWhole
  <2>4. \A c \in Connection : \A i \in Nat : ~HasLine(lines, c, i, record)
    BY <1>1, <1>4 DEF LineInv, OnlyAnswered
  <2>5. delivered[record] # 1
    BY <1>1, <1>4 DEF LineInv, OnlyAnswered
  <2>6. ShipperTypes'
    BY <1>1, <1>2, <1>5, <2>2 DEF ShipperTypes
  <2>7. OneLine'
    BY <1>1, <2>3, <2>4 DEF LineInv, OneLine
  <2>8. ReadOnce'
    BY <1>1, <1>2, <2>3, <2>5 DEF LineInv, ReadOnce
  <2>9. OnlyAnswered'
    BY <1>1, <1>2, <1>3, <2>3 DEF LineInv, OnlyAnswered
  <2>10. Room'
    BY <1>1, <1>5, <2>2, CapacityAssumption DEF LineInv, Room
  <2>11. FragmentsAreLast'
    BY <1>1, <1>5, <2>1, <2>2 DEF LineInv, FragmentsAreLast
  <2>12. NoSocketLeaks'
    BY <1>1, <1>2, <1>5 DEF NoSocketLeaks
  <2>13. NoneLost'
    <3>1. \E i \in Nat : HasLine(lines', sock, i, record)
      BY <1>1, <2>2, <2>3
    <3> QED
      BY <1>1, <1>2, <1>3, <1>5, <2>3, <3>1 DEF NoneLost
  <2> QED
    BY <1>3, <2>6, <2>7, <2>8, <2>9, <2>10, <2>11, <2>12, <2>13 DEF ShipperInv, LineInv
<1>6. CASE /\ peer[sock] \in {"fin", "silent"} /\ UNCHANGED lines
           /\ peer' = [peer EXCEPT ![sock] = "rst"] \/ UNCHANGED peer
  <2>1. /\ peer' \in [Connection -> Peer]
        /\ \A c \in Connection : (peer'[c] = "closed" <=> peer[c] = "closed")
        /\ \A c \in Connection : c # sock => peer'[c] = peer[c]
    BY <1>1, <1>6 DEF Peer
  <2>2. ShipperTypes'
    BY <1>1, <1>2, <1>6, <2>1 DEF ShipperTypes
  <2>3. OneLine' /\ ReadOnce' /\ OnlyAnswered'
    BY <1>1, <1>2, <1>3, <1>6 DEF LineInv, OneLine, ReadOnce, OnlyAnswered
  <2>4. Room' /\ FragmentsAreLast'
    BY <1>1, <1>6, <2>1 DEF LineInv, Room, FragmentsAreLast
  <2>5. NoSocketLeaks'
    BY <1>1, <1>2, <2>1 DEF NoSocketLeaks
  <2>6. NoneLost'
    BY <1>1, <1>2, <1>6 DEF NoneLost
  <2> QED
    BY <1>3, <2>2, <2>3, <2>4, <2>5, <2>6 DEF ShipperInv, LineInv
<1> QED
  BY <1>5, <1>6 DEF SendsLine

\* The except branch, whatever sendall() left on the connection.
LEMMA FailsKeeps ==
  ASSUME ShipperInv, Fails, pc = "attempt", UNCHANGED <<up, delivered, restarts>>,
         lines' \in [Connection -> Seq(Line)]
  PROVE  /\ ShipperTypes' /\ InTurn' /\ NoSocketLeaks'
         /\ sock' = NoSocket
         /\ \A c \in Connection : peer'[c] = IF c = sock THEN "closed" ELSE peer[c]
         /\ \A r \in Record : returned'[r] = "true" <=> returned[r] = "true"
<1>1. /\ ShipperTypes /\ InTurn /\ NoSocketLeaks /\ record \in Record
      /\ peer \in [Connection -> Peer] /\ sock \in Connection \cup {NoSocket}
  BY DEF ShipperInv, ShipperTypes
<1>2. /\ sock' = NoSocket
      /\ peer' \in [Connection -> Peer]
      /\ \A c \in Connection : peer'[c] = IF c = sock THEN "closed" ELSE peer[c]
  BY <1>1 DEF Fails, NoSocket, Connection, Peer
<1>3. /\ UNCHANGED <<record, attempt>>
      /\ \/ pc' = "idle" /\ returned' = [returned EXCEPT ![record] = "false"]
         \/ pc' = "retry" /\ attempt # 2 /\ UNCHANGED returned
  BY DEF Fails, Return
<1>4. returned[record] = "none"
  BY <1>1 DEF InTurn
<1>5. InTurn' /\ \A r \in Record : returned'[r] = "true" <=> returned[r] = "true"
  <2>1. CASE pc' = "idle" /\ returned' = [returned EXCEPT ![record] = "false"]
    BY <1>1, <1>3, <1>4, <2>1 DEF InTurn, ShipperTypes, Record
  <2>2. CASE pc' = "retry" /\ UNCHANGED returned
    BY <1>1, <1>3, <2>2 DEF InTurn, ShipperTypes
  <2> QED
    BY <1>3, <2>1, <2>2
<1>6. NoSocketLeaks'
  BY <1>1, <1>2 DEF NoSocketLeaks
<1>7. ShipperTypes'
  BY <1>1, <1>2, <1>3 DEF ShipperTypes
<1> QED
  BY <1>2, <1>5, <1>6, <1>7

\* It loses nothing if it leaves the lines alone.
LEMMA FailsQuietly ==
  ASSUME ShipperInv, Fails, pc = "attempt", UNCHANGED <<lines, up, delivered, restarts>>
  PROVE  ShipperInv'
<1>1. /\ ShipperTypes' /\ InTurn' /\ NoSocketLeaks'
      /\ \A c \in Connection : peer'[c] = IF c = sock THEN "closed" ELSE peer[c]
      /\ \A r \in Record : returned'[r] = "true" <=> returned[r] = "true"
  BY FailsKeeps DEF ShipperInv, ShipperTypes
<1>2. OneLine' /\ ReadOnce' /\ OnlyAnswered'
  BY <1>1 DEF ShipperInv, LineInv, OneLine, ReadOnce, OnlyAnswered
<1>3. Room' /\ FragmentsAreLast'
  BY <1>1 DEF ShipperInv, LineInv, Room, FragmentsAreLast
<1>4. NoneLost'
  BY <1>1 DEF ShipperInv, NoneLost
<1> QED
  BY <1>1, <1>2, <1>3, <1>4 DEF ShipperInv, LineInv

LEMMA ConnectFailsInv == ShipperInv /\ ConnectFails => ShipperInv'
BY FailsQuietly DEF ConnectFails, Fails, Return

LEMMA SendRaisesInv == ShipperInv /\ SendRaises => ShipperInv'
<1> SUFFICES ASSUME ShipperInv, SendRaises PROVE ShipperInv'
  OBVIOUS
<1>1. Fails /\ pc = "attempt" /\ UNCHANGED <<up, delivered, restarts>>
  BY DEF SendRaises
<1>2. CASE UNCHANGED lines
  BY <1>1, <1>2, FailsQuietly
<1>3. CASE peer[sock] = "live" /\ lines' = [lines EXCEPT ![sock] = Append(@, Fragment(record))]
  <2>1. ShipperTypes /\ LineInv /\ NoneLost /\ sock \in Connection /\ record \in Record
    BY DEF ShipperInv, SendRaises, ShipperTypes
  <2>2. Fragment(record) \in Line /\ ~Fragment(record).whole
    BY <2>1, Fragments
  <2>3. /\ lines' \in [Connection -> Seq(Line)]
        /\ \A c \in Connection : Len(lines[c]) \in Nat
        /\ \A c \in Connection : Len(lines'[c]) = IF c = sock THEN Len(lines[c]) + 1 ELSE Len(lines[c])
        /\ \A c \in Connection : \A i \in 1 .. Len(lines'[c]) :
             lines'[c][i] = IF c = sock /\ i = Len(lines[c]) + 1 THEN Fragment(record) ELSE lines[c][i]
    BY <1>3, <2>1, <2>2, LinesAppend
  <2>4. \A c \in Connection : \A i \in Nat : \A r \in Record :
          HasLine(lines', c, i, r) <=> HasLine(lines, c, i, r)
    BY <1>3, <2>1, LinesFragment
  <2>5. /\ ShipperTypes' /\ InTurn' /\ NoSocketLeaks'
        /\ \A c \in Connection : peer'[c] = IF c = sock THEN "closed" ELSE peer[c]
        /\ \A r \in Record : returned'[r] = "true" <=> returned[r] = "true"
    BY <1>1, <2>3, FailsKeeps
  <2>6. OneLine' /\ ReadOnce' /\ OnlyAnswered'
    <3>1. OneLine'
      BY <2>1, <2>4 DEF LineInv, OneLine
    <3>2. ReadOnce'
      BY <1>1, <2>1, <2>4 DEF LineInv, ReadOnce
    <3>3. OnlyAnswered'
      BY <1>1, <2>1, <2>4, <2>5 DEF LineInv, OnlyAnswered
    <3> QED
      BY <3>1, <3>2, <3>3
  <2>7. Room'
    BY <1>3, <2>1, <2>3, <2>5, CapacityAssumption DEF LineInv, Room
  <2>8. FragmentsAreLast'
    BY <1>3, <2>1, <2>3, <2>5 DEF LineInv, FragmentsAreLast
  <2>9. NoneLost'
    BY <1>1, <2>1, <2>4, <2>5 DEF NoneLost
  <2> QED
    BY <2>5, <2>6, <2>7, <2>8, <2>9 DEF ShipperInv, LineInv
<1> QED
  BY <1>2, <1>3 DEF SendRaises

LEMMA ReadsInv == ASSUME ShipperInv, NEW c \in Connection, Reads(c) PROVE ShipperInv'
<1>1. /\ ShipperTypes /\ InTurn /\ LineInv /\ NoSocketLeaks /\ NoneLost
      /\ delivered \in [Record -> 0 .. 1]
      /\ UNCHANGED <<pc, record, attempt, sock, returned, peer, up, restarts>>
      /\ lines[c] # <<>> /\ lines' = [lines EXCEPT ![c] = Tail(@)]
      /\ peer[c] \in {"live", "closed"}
  BY DEF ShipperInv, ShipperTypes, Reads, sendVars
<1>2. /\ lines' \in [Connection -> Seq(Line)]
      /\ Head(lines[c]) = lines[c][1] /\ Head(lines[c]) \in Line /\ Len(lines[c]) \in Nat \ {0}
      /\ \A d \in Connection : Len(lines'[d]) = IF d = c THEN Len(lines[d]) - 1 ELSE Len(lines[d])
      /\ \A d \in Connection : \A i \in 1 .. Len(lines'[d]) :
           lines'[d][i] = IF d = c THEN lines[d][i + 1] ELSE lines[d][i]
      /\ \A d \in Connection : \A i \in Nat : \A r \in Record :
           HasLine(lines', d, i, r)
             <=> IF d = c THEN i >= 1 /\ HasLine(lines, d, i + 1, r) ELSE HasLine(lines, d, i, r)
  BY <1>1, LinesTail
<1>3. \A r \in Record :
        delivered'[r] = IF HasLine(lines, c, 1, r) THEN delivered[r] + 1 ELSE delivered[r]
  <2>1. CASE Head(lines[c]).whole
    <3>1. PICK q \in Record : Head(lines[c]) = WholeLine(q)
      <4>1. Head(lines[c]).of \in Record /\ Head(lines[c]) = WholeLine(Head(lines[c]).of)
        BY <1>2, <2>1 DEF Line, WholeLine
      <4> QED
        BY <4>1
    <3>2. Head(lines[c]).of = q /\ \A r \in Record : HasLine(lines, c, 1, r) <=> r = q
      BY <1>2, <3>1, Fragments DEF HasLine
    <3>3. delivered' = [delivered EXCEPT ![q] = @ + 1]
      BY <2>1, <3>2 DEF Reads
    <3> QED
      BY <1>1, <3>2, <3>3
  <2>2. CASE ~Head(lines[c]).whole
    <3>1. \A r \in Record : ~HasLine(lines, c, 1, r)
      BY <1>2, <2>2, Fragments DEF HasLine
    <3> QED
      BY <2>2, <3>1 DEF Reads
  <2> QED
    BY <2>1, <2>2
<1>4. \A r \in Record : HasLine(lines, c, 1, r) => delivered[r] = 0
  BY <1>1 DEF LineInv, ReadOnce
<1>5. delivered' \in [Record -> 0 .. 1]
  <2>1. DOMAIN delivered' = Record /\ delivered' = [r \in Record |-> delivered'[r]]
    BY <1>1 DEF Reads
  <2>2. \A r \in Record : delivered'[r] \in 0 .. 1
    BY <1>1, <1>3, <1>4
  <2> QED
    BY <2>1, <2>2
<1>6. ShipperTypes' /\ InTurn' /\ NoSocketLeaks'
  BY <1>1, <1>2, <1>5 DEF ShipperTypes, InTurn, NoSocketLeaks
<1>7. OneLine'
  BY <1>1, <1>2 DEF LineInv, OneLine
<1>8. ReadOnce'
  <2> SUFFICES ASSUME NEW r \in Record, NEW d \in Connection, NEW i \in Nat,
                      delivered'[r] = 1, HasLine(lines', d, i, r)
               PROVE  FALSE
    BY DEF ReadOnce
  <2>1. PICK j \in Nat : HasLine(lines, d, j, r) /\ (d = c => j # 1)
    BY <1>2
  <2>2. delivered[r] # 1
    BY <1>1, <2>1 DEF LineInv, ReadOnce
  <2>3. HasLine(lines, c, 1, r)
    BY <1>3, <2>2
  <2> QED
    BY <1>1, <2>1, <2>3 DEF LineInv, OneLine
<1>9. OnlyAnswered'
  <2>1. \A r \in Record : delivered'[r] = 1 => returned[r] = "true"
    BY <1>1, <1>3 DEF LineInv, OnlyAnswered
  <2>2. \A r \in Record : \A d \in Connection : \A i \in Nat :
          HasLine(lines', d, i, r) => returned[r] = "true"
    BY <1>1, <1>2 DEF LineInv, OnlyAnswered
  <2> QED
    BY <1>1, <2>1, <2>2 DEF OnlyAnswered
<1>10. Room'
  <2>1. \A d \in Connection : Len(lines[d]) \in Nat
    BY <1>1 DEF ShipperTypes
  <2> QED
    BY <1>1, <1>2, <2>1, CapacityAssumption DEF LineInv, Room
<1>11. FragmentsAreLast'
  <2>1. \A d \in Connection : Len(lines[d]) \in Nat
    BY <1>1 DEF ShipperTypes
  <2> SUFFICES ASSUME NEW d \in Connection, NEW i \in 1 .. Len(lines'[d]), ~lines'[d][i].whole
               PROVE  i = Len(lines'[d]) /\ peer'[d] = "closed"
    BY DEF FragmentsAreLast
  <2>2. CASE d = c
    <3>1. i + 1 \in 1 .. Len(lines[c]) /\ ~lines[c][i + 1].whole
      BY <1>2, <2>1, <2>2
    <3>2. i + 1 = Len(lines[c]) /\ peer[c] = "closed"
      BY <1>1, <3>1 DEF LineInv, FragmentsAreLast
    <3> QED
      BY <1>1, <1>2, <2>2, <3>2
  <2>3. CASE d # c
    BY <1>1, <1>2, <2>3 DEF LineInv, FragmentsAreLast
  <2> QED
    BY <2>2, <2>3
<1>12. NoneLost'
  <2> SUFFICES ASSUME restarts = 0, NEW r \in Record, returned[r] = "true", delivered'[r] # 1
               PROVE  \E d \in Connection : \E i \in Nat : HasLine(lines', d, i, r)
    BY <1>1 DEF NoneLost
  <2>1. ~HasLine(lines, c, 1, r) /\ delivered[r] # 1
    BY <1>3, <1>4
  <2>2. PICK d \in Connection, j \in Nat : HasLine(lines, d, j, r)
    BY <1>1, <2>1 DEF NoneLost
  <2>3. CASE d = c
    <3>1. j - 1 \in Nat /\ j - 1 >= 1 /\ HasLine(lines, c, (j - 1) + 1, r)
      BY <2>1, <2>2, <2>3 DEF HasLine
    <3> QED
      BY <1>2, <3>1
  <2>4. CASE d # c
    BY <1>2, <2>2, <2>4
  <2> QED
    BY <2>3, <2>4
<1> QED
  BY <1>6, <1>7, <1>8, <1>9, <1>10, <1>11, <1>12 DEF ShipperInv, LineInv

LEMMA StopsInv == ShipperInv /\ Stops => ShipperInv'
<1> SUFFICES ASSUME ShipperInv, Stops PROVE ShipperInv'
  OBVIOUS
<1>1. /\ ShipperTypes /\ InTurn /\ LineInv /\ NoSocketLeaks
      /\ UNCHANGED <<pc, record, attempt, sock, returned, delivered>>
      /\ restarts' = restarts + 1 /\ restarts < MaxRestarts /\ up' = FALSE
      /\ lines' = [c \in Connection |-> <<>>]
  BY DEF ShipperInv, Stops, sendVars
<1>2. PICK silent \in BOOLEAN :
        peer' = [c \in Connection |->
                   IF peer[c] # "live" THEN peer[c]
                   ELSE IF silent THEN "silent"
                   ELSE IF lines[c] = <<>> THEN "fin" ELSE "rst"]
  BY DEF Stops
<1>3. /\ peer' \in [Connection -> Peer]
      /\ \A c \in Connection : peer'[c] \in {"new", "closed"} <=> peer[c] \in {"new", "closed"}
  BY <1>1, <1>2 DEF ShipperTypes, Peer
<1>4. /\ lines' \in [Connection -> Seq(Line)]
      /\ \A c \in Connection : Len(lines'[c]) = 0
      /\ \A c \in Connection : \A i \in Nat : i \notin 1 .. Len(lines'[c])
  BY <1>1
<1>5. ShipperTypes'
  <2>0. restarts' \in 0 .. MaxRestarts
    BY <1>1, MaxRestartsAssumption DEF ShipperTypes
  <2>1. up' \in BOOLEAN
    BY <1>1, Zenon
  <2>2. /\ pc' = pc /\ record' = record /\ attempt' = attempt
        /\ sock' = sock /\ returned' = returned /\ delivered' = delivered
    BY <1>1
  <2>3. /\ pc' \in {"idle", "attempt", "retry"}
        /\ record' \in 0 .. NumRecords
        /\ attempt' \in 0 .. 2
        /\ pc' # "idle" => record' \in Record
        /\ pc' = "attempt" => attempt' \in 1 .. 2
        /\ pc' = "retry" => attempt' = 1
    BY <1>1, <2>2 DEF ShipperTypes
  <2>4. /\ sock' \in Connection \cup {NoSocket}
        /\ returned' \in [Record -> {"none", "true", "false"}]
        /\ delivered' \in [Record -> 0 .. 1]
    BY <1>1, <2>2 DEF ShipperTypes
  <2> QED
    BY <1>3, <1>4, <2>0, <2>1, <2>3, <2>4 DEF ShipperTypes
<1>6. InTurn' /\ NoSocketLeaks'
  BY <1>1, <1>3 DEF InTurn, NoSocketLeaks
<1>7. OneLine' /\ ReadOnce' /\ OnlyAnswered'
  BY <1>1, <1>4 DEF LineInv, OneLine, ReadOnce, OnlyAnswered, HasLine
<1>8. Room' /\ FragmentsAreLast'
  BY <1>4, CapacityAssumption DEF Room, FragmentsAreLast
<1>9. NoneLost'
  BY <1>1 DEF NoneLost, ShipperTypes
<1> QED
  BY <1>5, <1>6, <1>7, <1>8, <1>9 DEF ShipperInv, LineInv

-----------------------------------------------------------------------------

LEMMA ShipperStep ==
  ShipperInv /\ (Call \/ Send \/ Logstash \/ UNCHANGED shipperVars) => ShipperInv'
<1>1. ShipperInv /\ UNCHANGED shipperVars => ShipperInv'
  <2> SUFFICES ASSUME ShipperInv, UNCHANGED shipperVars PROVE ShipperInv'
    OBVIOUS
  <2> USE DEF shipperVars, sendVars, netVars
  <2>1. ShipperTypes' /\ InTurn'
    BY DEF ShipperInv, ShipperTypes, InTurn
  <2>2. LineInv' /\ NoSocketLeaks' /\ NoneLost'
    BY DEF ShipperInv, LineInv, OneLine, ReadOnce, OnlyAnswered, Room, FragmentsAreLast,
           NoSocketLeaks, NoneLost
  <2> QED
    BY <2>1, <2>2 DEF ShipperInv
<1> QED
  BY <1>1, CallInv, ConnectInv, SendsLineInv, ConnectFailsInv, SendRaisesInv, RetryInv,
     ReadsInv, StopsInv, StartsInv DEF Send, Logstash

\* What Shipper counts follows from what it says of single places.
LEMMA WaitingAtMostOne ==
  ASSUME ShipperInv, NEW r \in Record
  PROVE  /\ Waiting(r) \in {0, 1}
         /\ Waiting(r) = 1 <=> \E c \in Connection : \E i \in Nat : HasLine(lines, c, i, r)
<1>1. \A p \in Places(r) : p = <<p[1], p[2]>> /\ p[1] \in Connection /\ p[2] \in Nat
                         /\ HasLine(lines, p[1], p[2], r)
  BY CapacityAssumption DEF Places, HasLine
<1>2. ASSUME NEW c \in Connection, NEW i \in Nat, HasLine(lines, c, i, r)
      PROVE  Places(r) = {<<c, i>>}
  <2>1. Len(lines[c]) \in Nat /\ Len(lines[c]) <= Capacity + 1
    BY DEF ShipperInv, ShipperTypes, LineInv, Room
  <2>2. <<c, i>> \in Places(r)
    BY <1>2, <2>1, CapacityAssumption DEF Places, HasLine
  <2>3. \A p \in Places(r) : p = <<c, i>>
    BY <1>1, <1>2 DEF ShipperInv, LineInv, OneLine
  <2> QED
    BY <2>2, <2>3
<1>3. CASE \E c \in Connection : \E i \in Nat : HasLine(lines, c, i, r)
  BY <1>2, <1>3, FS_Singleton DEF Waiting
<1>4. CASE ~\E c \in Connection : \E i \in Nat : HasLine(lines, c, i, r)
  <2>1. Places(r) = {}
    BY <1>1, <1>4
  <2> QED
    BY <1>4, <2>1, FS_EmptySet DEF Waiting
<1> QED
  BY <1>3, <1>4

LEMMA ShipperInvImplies ==
  ASSUME ShipperInv
  PROVE  /\ ShipperTypeOK /\ NeverTwice /\ FalseMeansLost /\ FragmentsAreLast
         /\ NoSocketLeaks /\ LossNeedsRestart
<1>1. ShipperTypeOK
  <2>1. \A r \in Record : delivered[r] \in 0 .. 2
    BY DEF ShipperInv, ShipperTypes
  <2> QED
    BY <2>1 DEF ShipperInv, ShipperTypes, ShipperTypeOK
<1>2. \A r \in Record : /\ delivered[r] \in {0, 1}
                        /\ delivered[r] = 1 => Waiting(r) = 0 /\ returned[r] = "true"
                        /\ Waiting(r) = 1 => returned[r] = "true"
                        /\ Waiting(r) \in {0, 1}
  <2>1. \A r \in Record : delivered[r] \in {0, 1}
    BY DEF ShipperInv, ShipperTypes
  <2> QED
    BY <2>1, WaitingAtMostOne DEF ShipperInv, LineInv, ReadOnce, OnlyAnswered
<1>3. NeverTwice /\ FalseMeansLost
  BY <1>2 DEF NeverTwice, FalseMeansLost
<1>4. LossNeedsRestart
  BY <1>2, WaitingAtMostOne DEF ShipperInv, NoneLost, LossNeedsRestart, Lost
<1> QED
  BY <1>1, <1>3, <1>4 DEF ShipperInv, LineInv

===============================================================================
