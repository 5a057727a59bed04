---------------------------- MODULE SensorConfig ----------------------------
(***************************************************************************)
(* How the sensor gets its WiFi and server settings (Firmware/src/Config   *)
(* and setup(), Dashboard/Source/Server/SerialHandler): the dashboard      *)
(* writes one line with three fields to the serial port, the sensor parses *)
(* it, uses it at once, and stores it in NVS, key by key.  Power may go    *)
(* between any two keys.                                                   *)
(*                                                                         *)
(* A line is what strtok makes of it, a sequence of tokens.  The user's    *)
(* popup lets separators into the SSID and the password: such a text is no *)
(* token, or several, none of which is the whole text.  Then a token may be *)
(* longer than the buffer it is copied to.                                 *)
(***************************************************************************)
EXTENDS Naturals, Sequences

CONSTANTS
    MaxLines,       \* bound: lines the dashboard sends
    MaxPending,     \* lines the serial port's receive buffer holds; 2 in the
                    \* program (256 bytes)
    FullFields      \* bound: fields that the user fills to the limit

ASSUME MaxLinesAssumption == MaxLines \in Nat
ASSUME MaxPendingAssumption == MaxPending \in Nat \ {0}
ASSUME FullFieldsAssumption == FullFields \subseteq 1 .. 3

VARIABLES
    nvs,            \* the namespace "config": the flag and the three fields
    config,         \* m_WiFiSSID, m_WiFiPassword, m_ServerIP
    required,       \* m_IsConfigurationRequired
    boot,           \* where setup() is
    stored,         \* keys stored so far by InitializeValues or Configure
    rx,             \* lines received on the serial port and not read
    sent,           \* lines sent by the dashboard
    accepted,       \* auxiliary: the last line that was parsed
    torn            \* auxiliary: that line was not stored to the end

configVars == <<nvs, config, required, boot, stored, rx, sent, accepted, torn>>

Fields == 1 .. 3    \* WiFiSSID, WiFiPassword, ServerIP
Keys == 4           \* and Configured

\* A value and the line it came with: "whole" is the text of a field, "full" one
\* that leaves no room in the field's buffer but for the terminating zero,
\* "piece" a part of a text that has separators, "long" one that does not leave
\* more in m_WiFiSSID, and "spilled" what such a one makes of it.
Tokens(n) == [line : {n}, kind : {"whole", "full", "piece", "long", "spilled"}]
Absent == [line |-> 0, kind |-> "absent"]
Empty == [line |-> 0, kind |-> "empty"]
Values == (UNION {Tokens(n) : n \in 1 .. MaxLines}) \cup {Empty}
NoValues == [f \in Fields |-> Empty]

ConfigTypeOK ==
    /\ nvs \in [configured : {"absent", "no", "yes"},
                fields : [Fields -> Values \cup {Absent}]]
    /\ config \in [Fields -> Values]
    /\ required \in BOOLEAN
    /\ boot \in {"off", "begin", "initialize", "button", "configure", "store",
                 "start", "run", "fatal"}
    /\ stored \in 0 .. Keys - 1
    /\ rx \in Seq(Seq(Values))
    /\ sent \in 0 .. MaxLines
    /\ accepted \in [Fields -> Values]
    /\ torn \in BOOLEAN

\* A new device.
ConfigInit ==
    /\ nvs = [configured |-> "absent", fields |-> [f \in Fields |-> Absent]]
    /\ config = NoValues
    /\ required = TRUE
    /\ boot = "off"
    /\ stored = 0
    /\ rx = <<>>
    /\ sent = 0
    /\ accepted = NoValues
    /\ torn = FALSE

-----------------------------------------------------------------------------
(***************************************************************************)
(* The dashboard and power.                                                *)
(***************************************************************************)

\* The tokens of field f of line n.
Whole(f, n) ==
    {<<[line |-> n, kind |-> k]>> : k \in IF f \in FullFields THEN {"whole", "full"} ELSE {"whole"}}
WithSeparators(n, kinds) ==
    {<<>>} \cup {<<[line |-> n, kind |-> k]>> : k \in kinds}
           \cup {<<[line |-> n, kind |-> pair[1]], [line |-> n, kind |-> pair[2]]>> :
                     pair \in {p \in kinds \X kinds : "piece" \in {p[1], p[2]}}}

\* The popup's texts: the server's address is validated, the others may have
\* separators, and the password (63 characters) a piece longer than m_WiFiSSID
\* (33), but not two.  fmt puts a separator between the fields.
Lines(n) ==
    {ssid \o password \o ip :
        ssid \in Whole(1, n) \cup WithSeparators(n, {"piece"}),
        password \in Whole(2, n) \cup WithSeparators(n, {"piece", "long"}),
        ip \in Whole(3, n)}

\* SendConfig finds the port, writes a line and reads no answer.  What a sensor
\* gets after Configure it never reads: that is left out.
SendConfig ==
    /\ boot \in {"begin", "initialize", "button", "configure"}
    /\ sent < MaxLines
    /\ Len(rx) < MaxPending
    /\ sent' = sent + 1
    /\ \E line \in Lines(sent') : rx' = Append(rx, line)
    /\ UNCHANGED <<nvs, config, required, boot, stored, accepted, torn>>

\* The auxiliary variables are about NVS, and survive with it.
ConfigPowerLoss ==
    /\ boot # "off"
    /\ boot' = "off"
    /\ config' = NoValues
    /\ required' = TRUE
    /\ stored' = 0
    /\ rx' = <<>>
    /\ torn' = (torn \/ boot = "store")
    /\ UNCHANGED <<nvs, sent, accepted>>

Boots(from, to) ==
    /\ boot = from
    /\ boot' = to

ConfigPowerOn ==
    /\ Boots("off", "begin")
    /\ UNCHANGED <<nvs, config, required, stored, rx, sent, accepted, torn>>

-----------------------------------------------------------------------------
(***************************************************************************)
(* Config, called by setup().                                              *)
(***************************************************************************)

HasConfiguredKey == nvs.configured # "absent"   \* a mistake: one key of four
HasAllKeys ==
    /\ nvs.configured # "absent"
    /\ \A f \in Fields : nvs.fields[f] # Absent

ConfigUnchanged == UNCHANGED <<sent, accepted, torn>>

\* NVS, the sensor or the data saver does not start: FatalError.
SetupFails ==
    /\ Boots("begin", "fatal") \/ Boots("start", "fatal")
    /\ UNCHANGED <<nvs, config, required, stored, rx>>
    /\ ConfigUnchanged

BeginInitializes ==
    /\ Boots("begin", "initialize")
    /\ ~HasAllKeys
    /\ UNCHANGED <<nvs, config, required, stored, rx>>
    /\ ConfigUnchanged

\* getString counts the terminating zero, and is given one byte less than the
\* buffer has: a value that fills its buffer, or more, is not loaded.
Fits(f, value) ==
    value.kind # "full" /\ (f = 1 => value.kind \notin {"long", "spilled"})
Loaded(f, value) == IF Fits(f, value) THEN value ELSE Empty

BeginLoads ==
    /\ Boots("begin", "button")
    /\ HasAllKeys
    /\ required' = (nvs.configured = "no")
    /\ config' = [f \in Fields |-> Loaded(f, nvs.fields[f])]
    /\ UNCHANGED <<nvs, stored, rx>>
    /\ ConfigUnchanged

\* A mistake: the address is not stored by Configure.
PutsAllButLast(from, to, flag, values) ==
    /\ boot = from
    /\ nvs' = IF stored = 0
              THEN [nvs EXCEPT !.configured = flag]
              ELSE [nvs EXCEPT !.fields[stored] = values[stored]]
    /\ stored' = IF from = "store" /\ stored = Keys - 2 THEN 0 ELSE (stored + 1) % Keys
    /\ boot' = IF stored' = 0 THEN to ELSE from

\* Put the next of the four keys, the flag first; with the last one, go on in
\* setup().
PutsKey(from, to, flag, values) ==
    /\ boot = from
    /\ nvs' = IF stored = 0
              THEN [nvs EXCEPT !.configured = flag]
              ELSE [nvs EXCEPT !.fields[stored] = values[stored]]
    /\ stored' = (stored + 1) % Keys
    /\ boot' = IF stored' = 0 THEN to ELSE from

InitializeValues ==
    /\ PutsKey("initialize", "button", "no", NoValues)
    /\ UNCHANGED <<config, required, rx>>
    /\ ConfigUnchanged

\* setup() asks for a configuration if it is required or the button is pressed.
EntersConfigure ==
    /\ Boots("button", "configure")
    /\ UNCHANGED <<nvs, config, required, stored, rx>>
    /\ ConfigUnchanged

SkipsConfigure ==
    /\ Boots("button", "start")
    /\ ~required
    /\ UNCHANGED <<nvs, config, required, stored, rx>>
    /\ ConfigUnchanged

TakesMore(line) == Len(line) >= 3           \* a mistake: "extra" is not looked at
Parses(line) == Len(line) = 3

\* A mistake: the next line is put after the rejected one.
RejectKeepsBuffer ==
    /\ boot = "configure" /\ rx # <<>>
    /\ ~Parses(Head(rx))
    /\ rx' = IF Len(rx) > 1 THEN <<Head(rx) \o rx[2]>> \o Tail(Tail(rx)) ELSE rx
    /\ UNCHANGED <<nvs, config, required, boot, stored>>
    /\ ConfigUnchanged

\* "expected exactly 3 fields": report it, and read the next line.
RejectLine ==
    /\ boot = "configure" /\ rx # <<>>
    /\ ~Parses(Head(rx))
    /\ rx' = Tail(rx)
    /\ UNCHANGED <<nvs, config, required, boot, stored>>
    /\ ConfigUnchanged

\* What strcpy makes of three tokens, one after the other.  Nothing checks their
\* lengths: a long one runs over the end of m_WiFiSSID, unless it just fits, and
\* what is there is then overwritten by the password.  From then on m_WiFiSSID
\* reads as its own characters and the password behind them.
Copied(line) ==
    {line} \cup (IF line[1].kind = "long" THEN {[line EXCEPT ![1].kind = "spilled"]} ELSE {})

AcceptLine ==
    /\ Boots("configure", "store")
    /\ rx # <<>>
    /\ Parses(Head(rx))
    /\ config' \in Copied(Head(rx))
    /\ accepted' = Head(rx)
    /\ torn' = FALSE
    /\ rx' = Tail(rx)
    /\ UNCHANGED <<nvs, required, stored, sent>>

StoreConfig ==
    /\ PutsKey("store", "start", "yes", config)
    /\ required' = (boot' = "store" /\ required)
    /\ UNCHANGED <<config, rx>>
    /\ ConfigUnchanged

\* Sensor and data saver start, then the tasks; nobody reads the port any more.
SetupEnds ==
    /\ Boots("start", "run")
    /\ rx' = <<>>
    /\ UNCHANGED <<nvs, config, required, stored>>
    /\ ConfigUnchanged

Setup ==
    \/ BeginInitializes
    \/ BeginLoads
    \/ InitializeValues
    \/ EntersConfigure
    \/ SkipsConfigure
    \/ RejectLine
    \/ AcceptLine
    \/ StoreConfig
    \/ SetupEnds

ConfigNext ==
    \/ SendConfig
    \/ ConfigPowerOn
    \/ ConfigPowerLoss
    \/ SetupFails
    \/ Setup

\* setup() runs on as long as the sensor has power and does not fail.
ConfigSpec == ConfigInit /\ [][ConfigNext]_configVars /\ WF_configVars(Setup)

-----------------------------------------------------------------------------
(***************************************************************************)
(* Properties.                                                             *)
(***************************************************************************)

\* Power may go between any two keys, in InitializeValues and in Configure: a
\* flag that says "configured" never stands for keys that are not there.
ConfiguredMeansPresent ==
    nvs.configured = "yes" => \A f \in Fields : nvs.fields[f] # Absent

\* After any number of restarts a running sensor uses, in each field, what the
\* last line it accepted has there, unless power was lost while that line was
\* stored; but for a field that fills its buffer, or spills over its end: the
\* next field is not harmed by it.
RestartKeepsConfig ==
    boot \in {"start", "run"} /\ ~torn =>
        \A f \in Fields :
            \/ config[f] = accepted[f]
            \/ /\ ~Fits(f, accepted[f])
               /\ config[f] \in {Empty, [accepted[f] EXCEPT !.kind = "spilled"]}

IsWhole(line) == Len(line) = 3 /\ \A i \in 1 .. 3 : line[i].kind \in {"whole", "full"}

\* A line that the parser can take is taken, whatever was rejected before it.
WholeLineTaken ==
    (boot = "configure" /\ \E i \in DOMAIN rx : IsWhole(rx[i])) ~> boot # "configure"

\* "Configuration from supporting app on PC via serial" (README): the sensor
\* goes on using what it was configured with, texts without separators, in a
\* store that was not cut short.
ConfigurationSurvives ==
    boot = "run" /\ ~torn /\ IsWhole(accepted) => config = accepted
=============================================================================
