------------------------------- MODULE Parser -------------------------------
(***************************************************************************)
(* The lines the sensor sends and what the dashboard reads in them         *)
(* (Protocol.hpp, NetworkTask::FormatDataString, Parser, SplitString):     *)
(* "SRD26:10,21.50,40.00,451" is a tag, the length of the data, and the    *)
(* data.  A text is a sequence of characters, for what matters is where a  *)
(* damaged line can still be taken for a sound one.  A number is what its  *)
(* leading digits say; temperature and humidity are not told apart.        *)
(***************************************************************************)
EXTENDS Cuts, SequencesExt

Digits == <<"0", "1", "2", "3", "4", "5", "6", "7", "8", "9">>
Tags == [new |-> <<"S", "R", "D">>, old |-> <<"S", "R", "H">>]

-----------------------------------------------------------------------------
(***************************************************************************)
(* The sensor's side.                                                      *)
(***************************************************************************)

Decimal[n \in Nat] ==
    IF n < 10 THEN <<Digits[n + 1]>> ELSE Append(Decimal[n \div 10], Digits[(n % 10) + 1])

SomeFloat == <<"2", ".", "5", "0">>

DataText(reading) ==
    Decimal[reading.stamp] \o <<",">> \o SomeFloat \o <<",">> \o SomeFloat \o <<",">>
        \o Decimal[reading.co2]

Header(tag, reading) == Tags[tag] \o Decimal[Len(DataText(reading))]

FormatDataString(tag, reading) == Header(tag, reading) \o <<":">> \o DataText(reading)

-----------------------------------------------------------------------------
(***************************************************************************)
(* The dashboard's side.                                                   *)
(***************************************************************************)

\* The texts between the delimiters, empty ones too.
SplitString(text, delimiter) ==
    LET cuts == {i \in DOMAIN text : text[i] = delimiter}
        last == Cardinality(cuts) + 1
    IN  [k \in 1 .. last |->
            SubSeq(text, Nth(cuts, k - 1) + 1, IF k = last THEN Len(text) ELSE Nth(cuts, k) - 1)]

IsDigit(character) == \E i \in 1 .. 10 : Digits[i] = character

\* std::stoul reads the digits a text begins with, and throws if there are none.
StartsWithDigit(text) == text # <<>> /\ IsDigit(text[1])
Number(text) ==
    LET stops == {i \in 1 .. Len(text) : ~IsDigit(text[i])}
        end == CHOOSE e \in stops \cup {Len(text) + 1} : \A i \in stops : e <= i
        value(character) == CHOOSE n \in 0 .. 9 : Digits[n + 1] = character
    IN  FoldLeft(LAMBDA n, character : 10 * n + value(character), 0, SubSeq(text, 1, end - 1))

\* A mistake: data may be longer than the header says.
LengthSuffices(header, data) ==
    LET length == SubSeq(header, 4, Len(header))
    IN  StartsWithDigit(length) /\ Number(length) <= Len(data)

LengthMatches(header, data) ==
    LET length == SubSeq(header, 4, Len(header))
    IN  StartsWithDigit(length) /\ Number(length) = Len(data)

VerifyTag(header) == \E tag \in DOMAIN Tags : SubSeq(header, 1, 3) = Tags[tag]

ParsingError == [error |-> TRUE]

\* Parse: the checks in their order, each of which ends it with an error.
Parse(message) ==
    LET tokens == SplitString(message, ":")
        header == tokens[1]
        fields == SplitString(tokens[2], ",")
        sound == /\ Len(tokens) = 2
                 /\ VerifyTag(header)
                 /\ LengthMatches(header, tokens[2])
                 /\ Len(fields) = 4
                 /\ \A i \in 1 .. 4 : StartsWithDigit(fields[i])
    IN  IF sound
        THEN [error |-> FALSE,
              tag |-> CHOOSE tag \in DOMAIN Tags : SubSeq(header, 1, 3) = Tags[tag],
              reading |-> [stamp |-> Number(fields[1]), co2 |-> Number(fields[4])]]
        ELSE ParsingError
=============================================================================
