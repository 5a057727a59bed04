------------------------- MODULE SensorConfigProofs -------------------------
(***************************************************************************)
(* Proofs about SensorConfig, for any number of lines and any losses of    *)
(* power: what NVS holds is complete once it is called configured, and it  *)
(* is what a restarted sensor uses, as far as it fits.                     *)
(***************************************************************************)
EXTENDS SensorConfig, TLAPS

\* Where setup() has all keys.
Past == {"button", "configure", "store", "start", "run"}

\* Keys are never taken away: all are there once Config::Begin is over, and
\* before that nothing but empty values was ever stored.
KeysInv ==
    /\ nvs.configured = "yes" => HasAllKeys
    /\ boot \in Past => HasAllKeys
    /\ boot = "initialize" =>
           /\ stored > 0 => nvs.configured = "no"
           /\ \A f \in Fields : f < stored => nvs.fields[f] # Absent
    /\ boot \notin {"initialize", "store"} => stored = 0
    /\ boot = "initialize" \/ ~HasAllKeys =>
           accepted = NoValues /\ \A f \in Fields : nvs.fields[f] \in {Absent, Empty}

Uses(values) ==
    \A f \in Fields :
        \/ config[f] = values[f]
        \/ ~Fits(f, values[f]) /\ config[f] \in {Empty, [values[f] EXCEPT !.kind = "spilled"]}

\* What strcpy makes of a value.
Copy(f, value) ==
    {value} \cup (IF f = 1 /\ value.kind = "long" THEN {[value EXCEPT !.kind = "spilled"]} ELSE {})

\* NVS has the last accepted line, if storing it was not cut short, and the
\* sensor uses what NVS has.
KeptInv ==
    /\ boot = "store" =>
           /\ ~torn /\ \A f \in Fields : config[f] \in Copy(f, accepted[f])
           /\ \A f \in Fields : f < stored => nvs.fields[f] = config[f]
    /\ boot \in {"off", "begin", "initialize"} => config = NoValues
    /\ ~torn /\ boot # "store" =>
           \A f \in Fields : nvs.fields[f] \in Copy(f, accepted[f]) \cup {Absent}
    /\ ~torn /\ boot \in {"button", "configure", "start", "run"} => Uses(accepted)

ConfigInv == ConfigTypeOK /\ KeysInv /\ KeptInv

NVS == [configured : {"absent", "no", "yes"}, fields : [Fields -> Values \cup {Absent}]]

\* A line has the tokens of three fields.
Tokenised(n, ssid, password, ip) ==
    /\ ssid \in Whole(1, n) \cup WithSeparators(n, {"piece"})
    /\ password \in Whole(2, n) \cup WithSeparators(n, {"piece", "long"})
    /\ ip \in Whole(3, n)

LEMMA LineParts ==
    ASSUME NEW n, NEW line \in Lines(n)
    PROVE  \E ssid, password, ip :
               Tokenised(n, ssid, password, ip) /\ line = ssid \o password \o ip
BY DEF Lines, Tokenised

USE MaxLinesAssumption, MaxPendingAssumption, FullFieldsAssumption DEF Fields, Keys

-----------------------------------------------------------------------------
(***************************************************************************)
(* Values, lines and keys.                                                 *)
(***************************************************************************)

LEMMA ValueFacts ==
    /\ Empty \in Values /\ Absent \notin Values /\ Absent # Empty
    /\ \A n \in 1 .. MaxLines : \A k \in {"whole", "full", "piece", "long"} :
           [line |-> n, kind |-> k] \in Values
    /\ \A v \in Values : v.kind = "long" => [v EXCEPT !.kind = "spilled"] \in Values
<1>1. \A n \in 1 .. MaxLines : Tokens(n) \subseteq Values
  BY DEF Values
<1>2. \A v \in Values : v = Empty \/ \E n \in 1 .. MaxLines : v \in Tokens(n)
  BY DEF Values
<1>3. \A n \in 1 .. MaxLines : \A v \in Tokens(n) :
          v.kind # "absent" /\ [v EXCEPT !.kind = "spilled"] \in Tokens(n)
  BY DEF Tokens
<1>4. \A n \in 1 .. MaxLines : \A k \in {"whole", "full", "piece", "long"} :
          [line |-> n, kind |-> k] \in Tokens(n)
  BY DEF Tokens
<1>5. Absent.kind = "absent" /\ Empty.kind = "empty"
  BY DEF Empty, Absent
<1>6. Empty \in Values
  BY DEF Values
<1>7. Absent \notin Values /\ Absent # Empty
  BY <1>2, <1>3, <1>5
<1>8. \A v \in Values : v.kind = "long" => [v EXCEPT !.kind = "spilled"] \in Values
  BY <1>1, <1>2, <1>3, <1>5
<1>9. QED
  BY <1>1, <1>4, <1>6, <1>7, <1>8

LEMMA LineFacts ==
    ASSUME NEW n \in 1 .. MaxLines, NEW line \in Lines(n)
    PROVE  line \in Seq(Values)
<1>1. \A k \in {"whole", "full", "piece", "long"} : [line |-> n, kind |-> k] \in Values
  BY ValueFacts
<1>2. \A f \in Fields : Whole(f, n) \subseteq Seq(Values)
  <2> SUFFICES ASSUME NEW f \in Fields, NEW tokens \in Whole(f, n) PROVE tokens \in Seq(Values)
    OBVIOUS
  <2>1. PICK k \in {"whole", "full"} : tokens = <<[line |-> n, kind |-> k]>>
    BY DEF Whole
  <2>2. QED
    BY <1>1, <2>1
<1>3. \A kinds \in SUBSET {"piece", "long"} : WithSeparators(n, kinds) \subseteq Seq(Values)
  <2> SUFFICES ASSUME NEW kinds \in SUBSET {"piece", "long"},
                      NEW tokens \in WithSeparators(n, kinds)
               PROVE  tokens \in Seq(Values)
    OBVIOUS
  <2>1. \A k \in kinds : [line |-> n, kind |-> k] \in Values
    BY <1>1
  <2>2. CASE tokens = <<>>
    BY <2>2
  <2>3. CASE \E k \in kinds : tokens = <<[line |-> n, kind |-> k]>>
    BY <2>1, <2>3
  <2>4. CASE \E p \in kinds \X kinds :
                 tokens = <<[line |-> n, kind |-> p[1]], [line |-> n, kind |-> p[2]]>>
    <3>1. PICK p \in kinds \X kinds :
                 tokens = <<[line |-> n, kind |-> p[1]], [line |-> n, kind |-> p[2]]>>
      BY <2>4
    <3>2. p[1] \in kinds /\ p[2] \in kinds
      OBVIOUS
    <3>3. \A a, b \in Values : <<a, b>> \in Seq(Values)
      OBVIOUS
    <3>4. QED
      BY <2>1, <3>1, <3>2, <3>3
  <2>5. QED
    BY <2>2, <2>3, <2>4 DEF WithSeparators
<1>4. PICK ssid \in Seq(Values), password \in Seq(Values), ip \in Seq(Values) :
          line = ssid \o password \o ip
  <2>1. PICK ssid, password, ip :
             Tokenised(n, ssid, password, ip) /\ line = ssid \o password \o ip
    BY LineParts
  <2>2. WithSeparators(n, {"piece"}) \subseteq Seq(Values)
        /\ WithSeparators(n, {"piece", "long"}) \subseteq Seq(Values)
    <3>1. {"piece"} \in SUBSET {"piece", "long"}
      OBVIOUS
    <3>2. WithSeparators(n, {"piece"}) \subseteq Seq(Values)
      BY ONLY <1>3, <3>1
    <3>3. QED
      BY <1>3, <3>2
  <2>3. Whole(1, n) \subseteq Seq(Values) /\ Whole(2, n) \subseteq Seq(Values)
        /\ Whole(3, n) \subseteq Seq(Values)
    BY <1>2
  <2>4. ssid \in Seq(Values) /\ password \in Seq(Values) /\ ip \in Seq(Values)
    BY <2>1, <2>2, <2>3, Zenon DEF Tokenised
  <2>5. QED
    BY <2>1, <2>4
<1>5. QED
  BY <1>4

\* PutsKey puts the key that is next, and no other.
LEMMA KeyIsPut ==
    ASSUME nvs \in NVS, stored \in 0 .. Keys - 1,
           NEW from, NEW to, NEW flag \in {"no", "yes"}, NEW values \in [Fields -> Values],
           PutsKey(from, to, flag, values)
    PROVE  /\ nvs' \in NVS /\ boot = from
           /\ nvs'.configured = IF stored = 0 THEN flag ELSE nvs.configured
           /\ \A f \in Fields :
                  nvs'.fields[f] = IF f = stored THEN values[f] ELSE nvs.fields[f]
           /\ stored = 3 => stored' = 0 /\ boot' = to
           /\ stored # 3 => stored' = stored + 1 /\ boot' = from
<1>1. stored' = IF stored = 3 THEN 0 ELSE stored + 1
  BY DEF PutsKey
<1>2. CASE stored = 0
  BY <1>1, <1>2 DEF PutsKey, NVS
<1>3. CASE stored # 0
  <2>1. stored \in Fields /\ nvs' = [nvs EXCEPT !.fields[stored] = values[stored]]
    BY <1>3 DEF PutsKey
  <2>2. nvs'.configured = nvs.configured
        /\ nvs'.fields = [nvs.fields EXCEPT ![stored] = values[stored]]
    BY <2>1 DEF NVS
  <2>3. nvs' \in NVS
    BY <2>1, ValueFacts DEF NVS
  <2>4. nvs.fields \in [Fields -> Values \cup {Absent}]
    BY DEF NVS
  <2>5. QED
    BY <1>1, <1>3, <2>1, <2>2, <2>3, <2>4 DEF PutsKey
<1>4. QED
  BY <1>2, <1>3

-----------------------------------------------------------------------------
(***************************************************************************)
(* The invariant, one step per action.                                     *)
(***************************************************************************)

LEMMA NvsStays ==
    ASSUME nvs' = nvs PROVE HasAllKeys' = HasAllKeys
BY DEF HasAllKeys

LEMMA ConfigInitInv == ConfigInit => ConfigInv
<1> SUFFICES ASSUME ConfigInit PROVE ConfigInv
  OBVIOUS
<1>1. NoValues \in [Fields -> Values] /\ \A f \in Fields : NoValues[f] = Empty
  BY ValueFacts DEF NoValues
<1>2. \A f \in Fields : nvs.fields[f] = Absent
  BY DEF ConfigInit
<1>3. ConfigTypeOK
  <2>1. nvs \in NVS
    BY DEF ConfigInit, NVS
  <2>2. rx \in Seq(Seq(Values)) /\ sent \in 0 .. MaxLines /\ stored \in 0 .. Keys - 1
    BY DEF ConfigInit
  <2>3. QED
    BY <1>1, <2>1, <2>2 DEF ConfigInit, ConfigTypeOK, NVS
<1>4. KeysInv
  BY <1>2 DEF ConfigInit, KeysInv, Past, HasAllKeys
<1>5. KeptInv
  BY <1>2 DEF ConfigInit, KeptInv
<1>6. QED
  BY <1>3, <1>4, <1>5 DEF ConfigInv

LEMMA ConfigNextInv == ConfigInv /\ [ConfigNext]_configVars => ConfigInv'
<1> SUFFICES ASSUME ConfigInv, [ConfigNext]_configVars PROVE ConfigInv'
  OBVIOUS
<1>0. /\ ConfigTypeOK /\ KeysInv /\ KeptInv
      /\ nvs \in NVS /\ config \in [Fields -> Values] /\ accepted \in [Fields -> Values]
      /\ stored \in 0 .. Keys - 1 /\ sent \in 0 .. MaxLines /\ torn \in BOOLEAN
      /\ rx \in Seq(Seq(Values)) /\ required \in BOOLEAN
      /\ \A f \in Fields : nvs.fields[f] \in Values \cup {Absent}
      /\ NoValues \in [Fields -> Values] /\ \A f \in Fields : NoValues[f] = Empty
  BY ValueFacts DEF ConfigInv, ConfigTypeOK, NVS, NoValues
<1>1. CASE SendConfig
  <2>1. nvs' = nvs
    BY <1>1 DEF SendConfig
  <2>2. HasAllKeys' = HasAllKeys
    BY <2>1, NvsStays
  <2>3. sent' = sent + 1 /\ sent' \in 1 .. MaxLines
    BY <1>0, <1>1 DEF SendConfig
  <2>4. PICK line \in Lines(sent') : rx' = Append(rx, line)
    BY <1>1 DEF SendConfig
  <2>5. line \in Seq(Values)
    BY <2>3, <2>4, LineFacts
  <2>6. ConfigTypeOK'
    BY <1>0, <1>1, <2>3, <2>4, <2>5 DEF ConfigTypeOK, SendConfig
  <2>7. KeysInv'
    BY <1>0, <1>1, <2>2 DEF KeysInv, SendConfig, Past
  <2>8. KeptInv'
    BY <1>0, <1>1, <2>2 DEF KeptInv, Uses, SendConfig
  <2>9. QED
    BY <2>6, <2>7, <2>8 DEF ConfigInv
<1>2. CASE ConfigPowerOn
  <2>1. nvs' = nvs
    BY <1>2 DEF ConfigPowerOn, Boots
  <2>2. HasAllKeys' = HasAllKeys
    BY <2>1, NvsStays
  <2>3. ConfigTypeOK'
    BY <1>0, <1>2 DEF ConfigTypeOK, ConfigPowerOn, Boots, ConfigUnchanged
  <2>4. KeysInv'
    BY <1>0, <1>2, <2>2 DEF KeysInv, ConfigPowerOn, Boots, ConfigUnchanged, Past
  <2>5. KeptInv'
    BY <1>0, <1>2, <2>2 DEF KeysInv, KeptInv, Uses, ConfigPowerOn, Boots, ConfigUnchanged, Past
  <2>6. QED
    BY <2>3, <2>4, <2>5 DEF ConfigInv
<1>3. CASE ConfigPowerLoss
  <2>1. nvs' = nvs
    BY <1>3 DEF ConfigPowerLoss
  <2>2. HasAllKeys' = HasAllKeys
    BY <2>1, NvsStays
  <2>3. ConfigTypeOK'
    BY <1>0, <1>3 DEF ConfigTypeOK, ConfigPowerLoss
  <2>4. KeysInv'
    BY <1>0, <1>3, <2>2 DEF KeysInv, ConfigPowerLoss, Past
  <2>5. KeptInv'
    BY <1>0, <1>3, <2>2 DEF KeptInv, ConfigPowerLoss
  <2>6. QED
    BY <2>3, <2>4, <2>5 DEF ConfigInv
<1>4. CASE SetupFails
  <2>1. nvs' = nvs
    BY <1>4 DEF SetupFails, Boots
  <2>2. HasAllKeys' = HasAllKeys
    BY <2>1, NvsStays
  <2>3. ConfigTypeOK'
    BY <1>0, <1>4 DEF ConfigTypeOK, SetupFails, Boots, ConfigUnchanged
  <2>4. KeysInv'
    BY <1>0, <1>4, <2>2 DEF KeysInv, SetupFails, Boots, ConfigUnchanged, Past
  <2>5. KeptInv'
    BY <1>0, <1>4, <2>2 DEF KeysInv, KeptInv, Uses, SetupFails, Boots, ConfigUnchanged, Past
  <2>6. QED
    BY <2>3, <2>4, <2>5 DEF ConfigInv
<1>5. CASE BeginInitializes
  <2>1. nvs' = nvs
    BY <1>5 DEF BeginInitializes, Boots
  <2>2. HasAllKeys' = HasAllKeys
    BY <2>1, NvsStays
  <2>3. ConfigTypeOK'
    BY <1>0, <1>5 DEF ConfigTypeOK, BeginInitializes, Boots, ConfigUnchanged
  <2>4. KeysInv'
    BY <1>0, <1>5, <2>2 DEF KeysInv, BeginInitializes, Boots, ConfigUnchanged, Past
  <2>5. KeptInv'
    BY <1>0, <1>5, <2>2 DEF KeysInv, KeptInv, Uses, BeginInitializes, Boots, ConfigUnchanged, Past
  <2>6. QED
    BY <2>3, <2>4, <2>5 DEF ConfigInv
<1>6. CASE BeginLoads
  <2>1. nvs' = nvs /\ HasAllKeys
    BY <1>6 DEF BeginLoads
  <2>2. HasAllKeys' = HasAllKeys
    BY <2>1, NvsStays
  <2>3. \A f \in Fields : nvs.fields[f] \in Values /\ nvs.fields[f] # Absent
    BY <1>0, <2>1 DEF HasAllKeys
  <2>4. config' = [f \in Fields |-> Loaded(f, nvs.fields[f])] /\ config' \in [Fields -> Values]
    BY <1>6, <2>3, ValueFacts DEF BeginLoads, Loaded
  <2>5. ConfigTypeOK'
    BY <1>0, <1>6, <2>4 DEF ConfigTypeOK, BeginLoads, Boots, ConfigUnchanged
  <2>6. KeysInv'
    BY <1>0, <1>6, <2>2 DEF KeysInv, BeginLoads, Boots, ConfigUnchanged, Past
  <2>7. ASSUME ~torn PROVE Uses(accepted)'
    <3>1. \A f \in Fields : nvs.fields[f] \in Copy(f, accepted[f])
      BY <1>0, <1>6, <2>3, <2>7 DEF KeptInv, BeginLoads, Boots
    <3>2. accepted' = accepted
      BY <1>6 DEF BeginLoads, ConfigUnchanged
    <3>3. \A f \in Fields : config'[f] = Loaded(f, nvs.fields[f])
      BY <2>4
    <3>4. ASSUME NEW f \in Fields
          PROVE  \/ config'[f] = accepted[f]
                 \/ ~Fits(f, accepted[f]) /\ config'[f] = Empty
      <4>1. CASE nvs.fields[f] = accepted[f]
        BY <3>3, <4>1 DEF Loaded
      <4>2. CASE nvs.fields[f] # accepted[f]
        <5>1. f = 1 /\ accepted[f].kind = "long"
              /\ nvs.fields[f] = [accepted[f] EXCEPT !.kind = "spilled"]
          BY <3>1, <4>2 DEF Copy
        <5>2. accepted[f] \in Values /\ nvs.fields[f] \in Values
          BY <1>0, <2>3
        <5>3. nvs.fields[f].kind = "spilled"
          BY <5>1, <5>2 DEF Values, Tokens, Empty
        <5>4. QED
          BY <3>3, <5>1, <5>3 DEF Loaded, Fits
      <4>3. QED
        BY <4>1, <4>2
    <3>5. QED
      BY <3>2, <3>4 DEF Uses
  <2>8. KeptInv'
    BY <1>0, <1>6, <2>2, <2>7 DEF KeptInv, BeginLoads, Boots, ConfigUnchanged
  <2>9. QED
    BY <2>5, <2>6, <2>8 DEF ConfigInv
<1>7. CASE InitializeValues
  <2>1. boot = "initialize" /\ PutsKey("initialize", "button", "no", NoValues)
        /\ UNCHANGED <<config, required, rx, sent, accepted, torn>>
    BY <1>7 DEF InitializeValues, PutsKey, ConfigUnchanged
  <2>2. /\ nvs' \in NVS
        /\ nvs'.configured = IF stored = 0 THEN "no" ELSE nvs.configured
        /\ \A f \in Fields : nvs'.fields[f] = IF f = stored THEN Empty ELSE nvs.fields[f]
        /\ stored = 3 => stored' = 0 /\ boot' = "button"
        /\ stored # 3 => stored' = stored + 1 /\ boot' = "initialize"
    BY <1>0, <2>1, KeyIsPut
  <2>3. accepted = NoValues /\ \A f \in Fields : nvs'.fields[f] \in {Absent, Empty}
    BY <1>0, <2>1, <2>2 DEF KeysInv
  <2>5. ConfigTypeOK'
    BY <1>0, <2>1, <2>2 DEF ConfigTypeOK, NVS
  <2>6. \A f \in Fields : f <= stored => nvs'.fields[f] # Absent
    BY <1>0, <2>1, <2>2, ValueFacts DEF KeysInv
  <2>7. nvs'.configured = "no"
    BY <1>0, <2>1, <2>2 DEF KeysInv
  <2>8. stored = 3 => HasAllKeys'
    BY <2>6, <2>7 DEF HasAllKeys
  <2>9. KeysInv'
    BY <1>0, <2>1, <2>2, <2>3, <2>6, <2>7, <2>8 DEF KeysInv, Past
  <2>10. KeptInv'
    BY <1>0, <2>1, <2>2, <2>3 DEF KeptInv, Uses, Copy
  <2>11. QED
    BY <2>5, <2>9, <2>10 DEF ConfigInv
<1>8. CASE EntersConfigure
  <2>1. nvs' = nvs
    BY <1>8 DEF EntersConfigure, Boots
  <2>2. HasAllKeys' = HasAllKeys
    BY <2>1, NvsStays
  <2>3. ConfigTypeOK'
    BY <1>0, <1>8 DEF ConfigTypeOK, EntersConfigure, Boots, ConfigUnchanged
  <2>4. KeysInv'
    BY <1>0, <1>8, <2>2 DEF KeysInv, EntersConfigure, Boots, ConfigUnchanged, Past
  <2>5. KeptInv'
    BY <1>0, <1>8, <2>2 DEF KeysInv, KeptInv, Uses, EntersConfigure, Boots, ConfigUnchanged, Past
  <2>6. QED
    BY <2>3, <2>4, <2>5 DEF ConfigInv
<1>9. CASE SkipsConfigure
  <2>1. nvs' = nvs
    BY <1>9 DEF SkipsConfigure, Boots
  <2>2. HasAllKeys' = HasAllKeys
    BY <2>1, NvsStays
  <2>3. ConfigTypeOK'
    BY <1>0, <1>9 DEF ConfigTypeOK, SkipsConfigure, Boots, ConfigUnchanged
  <2>4. KeysInv'
    BY <1>0, <1>9, <2>2 DEF KeysInv, SkipsConfigure, Boots, ConfigUnchanged, Past
  <2>5. KeptInv'
    BY <1>0, <1>9, <2>2 DEF KeysInv, KeptInv, Uses, SkipsConfigure, Boots, ConfigUnchanged, Past
  <2>6. QED
    BY <2>3, <2>4, <2>5 DEF ConfigInv
<1>10. CASE RejectLine
  <2>1. nvs' = nvs
    BY <1>10 DEF RejectLine, Boots
  <2>2. HasAllKeys' = HasAllKeys
    BY <2>1, NvsStays
  <2>3. ConfigTypeOK'
    BY <1>0, <1>10 DEF ConfigTypeOK, RejectLine, Boots, ConfigUnchanged
  <2>4. KeysInv'
    BY <1>0, <1>10, <2>2 DEF KeysInv, RejectLine, Boots, ConfigUnchanged, Past
  <2>5. KeptInv'
    BY <1>0, <1>10, <2>2 DEF KeysInv, KeptInv, Uses, RejectLine, Boots, ConfigUnchanged, Past
  <2>6. QED
    BY <2>3, <2>4, <2>5 DEF ConfigInv
<1>11. CASE AcceptLine
  <2>1. nvs' = nvs /\ boot = "configure" /\ boot' = "store" /\ rx # <<>>
        /\ config' \in Copied(Head(rx)) /\ accepted' = Head(rx) /\ torn' = FALSE /\ rx' = Tail(rx)
        /\ UNCHANGED <<required, stored, sent>> /\ Len(Head(rx)) = 3
    BY <1>11 DEF AcceptLine, Boots, Parses
  <2>2. HasAllKeys' = HasAllKeys
    BY <2>1, NvsStays
  <2>3. Head(rx) = rx[1] /\ 1 \in DOMAIN rx /\ Head(rx) \in Seq(Values)
        /\ Tail(rx) \in Seq(Seq(Values))
    BY <1>0, <2>1
  <2>4. Head(rx) \in [Fields -> Values]
    <3> DEFINE line == Head(rx)
    <3>1. line \in Seq(Values) /\ Len(line) = 3
      BY <2>1, <2>3
    <3> HIDE DEF line
    <3>2. line \in [1 .. Len(line) -> Values]
      BY <3>1
    <3>3. QED
      BY <3>1, <3>2 DEF line
  <2>5. config' \in [Fields -> Values] /\ \A f \in Fields : config'[f] \in Copy(f, Head(rx)[f])
    <3> DEFINE line == Head(rx)
    <3>1. line \in [Fields -> Values] /\ config' \in Copied(line)
      BY <2>1, <2>4
    <3> HIDE DEF line
    <3>2. CASE config' = line
      BY <3>1, <3>2 DEF Copy, line
    <3>3. CASE line[1].kind = "long" /\ config' = [line EXCEPT ![1].kind = "spilled"]
      <4>1. [line[1] EXCEPT !.kind = "spilled"] \in Values
        BY <3>1, <3>3, ValueFacts
      <4>2. config' = [line EXCEPT ![1] = [line[1] EXCEPT !.kind = "spilled"]]
        BY <3>3
      <4>3. QED
        BY <3>1, <3>3, <4>1, <4>2 DEF Copy, line
    <3>4. QED
      BY <3>1, <3>2, <3>3 DEF Copied
  <2>6. ConfigTypeOK'
    BY <1>0, <2>1, <2>3, <2>4, <2>5 DEF ConfigTypeOK
  <2>7. HasAllKeys /\ stored = 0
    BY <1>0, <2>1 DEF KeysInv, Past
  <2>8. KeysInv'
    BY <1>0, <2>1, <2>2, <2>7 DEF KeysInv, Past
  <2>9. KeptInv'
    BY <2>1, <2>5, <2>7 DEF KeptInv
  <2>10. QED
    BY <2>6, <2>8, <2>9 DEF ConfigInv
<1>12. CASE StoreConfig
  <2>1. boot = "store" /\ PutsKey("store", "start", "yes", config)
        /\ UNCHANGED <<config, rx, sent, accepted, torn>>
        /\ required' \in BOOLEAN
    BY <1>0, <1>12 DEF StoreConfig, PutsKey, ConfigUnchanged
  <2>2. /\ nvs' \in NVS
        /\ \A f \in Fields : nvs'.fields[f] = IF f = stored THEN config[f] ELSE nvs.fields[f]
        /\ nvs'.configured = IF stored = 0 THEN "yes" ELSE nvs.configured
        /\ stored = 3 => stored' = 0 /\ boot' = "start"
        /\ stored # 3 => stored' = stored + 1 /\ boot' = "store"
    BY <1>0, <2>1, KeyIsPut
  <2>3. HasAllKeys
    BY <1>0, <2>1 DEF KeysInv, Past
  <2>4. HasAllKeys'
    BY <1>0, <2>2, <2>3, ValueFacts DEF HasAllKeys
  <2>5. ConfigTypeOK'
    BY <1>0, <2>1, <2>2 DEF ConfigTypeOK, NVS
  <2>6. KeysInv'
    BY <2>2, <2>4, <1>0 DEF KeysInv, Past
  <2>7. /\ ~torn
        /\ \A f \in Fields : config[f] \in Copy(f, accepted[f])
        /\ \A f \in Fields : f <= stored => nvs'.fields[f] = config[f]
    BY <1>0, <2>1, <2>2 DEF KeptInv
  <2>8. Uses(accepted)
    BY <2>7 DEF Uses, Copy, Fits
  <2>9. Uses(accepted)'
    BY <2>1, <2>8 DEF Uses
  <2>10. KeptInv'
    BY <1>0, <2>1, <2>2, <2>7, <2>9 DEF KeptInv
  <2>11. QED
    BY <2>5, <2>6, <2>10 DEF ConfigInv
<1>13. CASE SetupEnds
  <2>1. nvs' = nvs
    BY <1>13 DEF SetupEnds, Boots
  <2>2. HasAllKeys' = HasAllKeys
    BY <2>1, NvsStays
  <2>3. ConfigTypeOK'
    BY <1>0, <1>13 DEF ConfigTypeOK, SetupEnds, Boots, ConfigUnchanged
  <2>4. KeysInv'
    BY <1>0, <1>13, <2>2 DEF KeysInv, SetupEnds, Boots, ConfigUnchanged, Past
  <2>5. KeptInv'
    BY <1>0, <1>13, <2>2 DEF KeysInv, KeptInv, Uses, SetupEnds, Boots, ConfigUnchanged, Past
  <2>6. QED
    BY <2>3, <2>4, <2>5 DEF ConfigInv
<1>14. CASE UNCHANGED configVars
  <2>1. HasAllKeys' = HasAllKeys
    BY <1>14, NvsStays DEF configVars
  <2>2. QED
    BY <1>0, <1>14, <2>1 DEF configVars, ConfigInv, ConfigTypeOK, KeysInv, KeptInv, Uses
<1>15. QED
  BY <1>1, <1>2, <1>3, <1>4, <1>5, <1>6, <1>7, <1>8, <1>9, <1>10, <1>11, <1>12, <1>13, <1>14
     DEF ConfigNext, Setup

LEMMA ConfigInvariant == ConfigSpec => []ConfigInv
BY ConfigInitInv, ConfigNextInv, PTL DEF ConfigSpec

\* The state of setup(), NVS and the port keeps its types: in particular every
\* accepted line gives each of the three fields a value.
THEOREM ConfigTypeCorrect == ConfigSpec => []ConfigTypeOK
<1>1. ConfigInv => ConfigTypeOK
  BY DEF ConfigInv
<1>2. QED
  BY <1>1, ConfigInvariant, PTL

LEMMA ConfigInvImplies ==
    ConfigInv => ConfiguredMeansPresent /\ RestartKeepsConfig
<1> SUFFICES ASSUME ConfigInv PROVE ConfiguredMeansPresent /\ RestartKeepsConfig
  OBVIOUS
<1>1. ConfiguredMeansPresent
  BY DEF ConfigInv, KeysInv, ConfiguredMeansPresent, HasAllKeys
<1>2. RestartKeepsConfig
  BY DEF ConfigInv, KeptInv, Uses, RestartKeepsConfig
<1>3. QED
  BY <1>1, <1>2

\* Power may go anywhere in Config::Begin and Configure: "configured" never
\* stands for keys that are not there.
THEOREM ConfiguredAlwaysPresent == ConfigSpec => []ConfiguredMeansPresent
BY ConfigInvImplies, ConfigInvariant, PTL

\* A restarted sensor uses the last line it accepted, but for fields that do not
\* fit their buffers, which it loses alone, and for a store that was cut short.
THEOREM RestartAlwaysKeepsConfig == ConfigSpec => []RestartKeepsConfig
BY ConfigInvImplies, ConfigInvariant, PTL
=============================================================================
