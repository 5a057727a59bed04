------------------------------- MODULE Backend -------------------------------
(***************************************************************************)
(* What the dashboard does with a line of the sensor (Backend.cpp): parse  *)
(* it (Parser), show the average of the new readings, and have the reading *)
(* saved to the file of its date (GraphDataProcessor).                     *)
(*                                                                         *)
(* Server keeps what was sent of a line without end, by a client that went *)
(* or by a print that timed out, and puts the next line behind it.  It     *)
(* never clears it, so several such pieces pile up: a line here is such a  *)
(* pile, often empty, and a line the sensor sent.                          *)
(***************************************************************************)
EXTENDS GraphDataProcessor, Parser

CONSTANTS
    Stamps,         \* time stamps of readings
    Ppms,           \* CO2 values of readings
    DayLength,      \* seconds in a day; the time zone is left out
    MaxValues,      \* readings in the average, 10 in the program
    MaxPieces       \* bound: unfinished lines in front of a line

ASSUME DayLengthAssumption == DayLength \in Nat \ {0}
ASSUME MaxValuesAssumption == MaxValues \in Nat \ {0}
ASSUME MaxPiecesAssumption == MaxPieces \in Nat
ASSUME ReadingsAssumption ==
    /\ Stamps \subseteq Nat /\ Ppms \subseteq Nat
    /\ \A stamp \in Stamps : stamp \div DayLength \in Dates

VARIABLES
    average,        \* m_Co2Avg: its m_Values and m_Sum
    current,        \* the CO2 value shown, 0 at first
    heard,          \* auxiliary: the last line that was accepted
    told            \* auxiliary: the last MaxValues of the new readings

backendVars == <<vars, average, current, heard, told>>

Readings == [stamp : Stamps, co2 : Ppms]
Messages == [tag : DOMAIN Tags, reading : Readings]
TextOf(message) == FormatDataString(message.tag, message.reading)

\* The beginnings of lines, with or without the end of the text, but without
\* the newline; and what m_StringBuffer may hold before a line comes.
Pieces == UNION {{SubSeq(TextOf(m), 1, n) : n \in 1 .. Len(TextOf(m))} : m \in Messages}
Leftovers == {FlattenSeq(pieces) : pieces \in BoundedSeq(Pieces, MaxPieces)}

\* What a line with this reading has in front of it.
InFront(left, reading) ==
    IF left = <<>> THEN "nothing"
    ELSE IF \E tag \in DOMAIN Tags : IsPrefix(Header(tag, reading), left) THEN "its header"
    ELSE "other"

Nothing == [front |-> "nothing", sent |-> "nothing"]

BackendTypeOK ==
    /\ TypeOK
    /\ average \in [values : Seq(Nat), sum : Nat]
    /\ Len(average.values) <= MaxValues
    /\ current \in Nat
    /\ told \in Seq(Ppms)

BackendInit ==
    /\ Init
    /\ average = [values |-> <<>>, sum |-> 0]
    /\ current = 0
    /\ heard = Nothing
    /\ told = <<>>

-----------------------------------------------------------------------------

\* The lines that Server may hand on: what is in front, what was sent, and what
\* the two are parsed to.  Of those that do not parse nothing comes.
Heard == {[front |-> InFront(left, m.reading), sent |-> m, got |-> Parse(left \o TextOf(m))] :
             left \in Leftovers, m \in Messages}
Sound == {line \in Heard : ~line.got.error}

LastOf(values, value) ==
    Append(IF Len(values) = MaxValues THEN Tail(values) ELSE values, value)

\* A mistake: the value that goes out stays in the sum.
PushKeepsSum(value) ==
    average' = [values |-> LastOf(average.values, value), sum |-> average.sum + value]

Push(value) ==
    IF Len(average.values) + 1 > MaxValues
    THEN average' = [values |-> Append(Tail(average.values), value),
                     sum |-> average.sum - Head(average.values) + value]
    ELSE average' = [values |-> Append(average.values, value), sum |-> average.sum + value]

GetAvg(avg) == IF avg.sum = 0 \/ avg.values = <<>> THEN 0 ELSE avg.sum \div Len(avg.values)

DateOf(stamp) == stamp \div DayLength

SaveReading(reading) ==
    LET d == DateOf(reading.stamp)
    IN  SaveCannotOpen(d) \/ SaveOpens(d) \/ SaveAppends(d) \/ SaveGoesNowhere(d)

\* On the server thread, for a line that parses.
OnNewMessageReceived(line) ==
    /\ IF line.got.tag = "new"
       THEN /\ Push(line.got.reading.co2)
            /\ current' = GetAvg(average')
            /\ told' = LastOf(told, line.sent.reading.co2)
       ELSE UNCHANGED <<average, current, told>>
    /\ heard' = line
    /\ SaveReading(line.got.reading)

\* The main thread and the file system do not touch the averages.
MainThread ==
    /\ Load \/ onSelectionRadioButtonClicked \/ MakeOrClearFolder
    /\ UNCHANGED <<average, current, heard, told>>

ProcessEnds ==
    /\ Exit \/ Kill
    /\ average' = [values |-> <<>>, sum |-> 0]
    /\ current' = 0
    /\ heard' = Nothing
    /\ told' = <<>>

BackendNext ==
    \/ \E line \in Sound : OnNewMessageReceived(line)
    \/ MainThread
    \/ ProcessEnds

BackendSpec == BackendInit /\ [][BackendNext]_backendVars

-----------------------------------------------------------------------------
(***************************************************************************)
(* Properties.                                                             *)
(***************************************************************************)

\* The length in the header keeps unfinished lines from getting into a reading:
\* a line behind any pile of them is rejected, or it is the sensor's reading
\* unharmed.  The latter only if the pile begins with a whole header, of the same
\* length; its tag is then taken for the line's.
SplicesRejected ==
    heard # Nothing =>
        /\ heard.got.reading = heard.sent.reading
        /\ heard.front = "nothing" => heard.got.tag = heard.sent.tag
        /\ heard.front # "other"

\* However many readings came, and whichever of their lines were damaged, the
\* value shown is the average of the last MaxValues that the sensor sent.
CurrentIsAverage ==
    told # <<>> => current = FoldLeft(+, 0, told) \div Len(told)
==============================================================================
