-------------------------------- MODULE Main --------------------------------
(***************************************************************************)
(* main.cpp: setup() configures the sensor (SensorConfig), starts its      *)
(* tasks and is over; loop() then shows the averages the sensor task       *)
(* pushes (RunningAverage).  A power loss leaves only what is in NVS.      *)
(***************************************************************************)
EXTENDS SensorConfig, RunningAverage

mainVars == <<configVars, avgVars>>

MainTypeOK ==
    /\ ConfigTypeOK
    /\ AvgTypeOK

MainInit ==
    /\ ConfigInit
    /\ AvgInit

SetupStep ==
    /\ SendConfig \/ ConfigPowerOn \/ SetupFails \/ Setup
    /\ UNCHANGED avgVars

\* The averages are objects in RAM.
PowerLoss ==
    /\ ConfigPowerLoss
    /\ ring' = [buffer |-> [s \in Slots |-> 0], head |-> 0, tail |-> 0, count |-> 0]
    /\ sum' = 0
    /\ count' = 0
    /\ push' = [todo |-> {}, in |-> 0, out |-> 0]
    /\ reader' = Idle
    /\ terms' = 0
    /\ window' = <<>>

SensorTask ==
    /\ boot = "run"
    /\ \/ \E value \in AvgValues : PushBegins(value)
       \/ StoreSumOut \/ StoreSumIn \/ StoreCountOut \/ StoreCountIn \/ StoreRing
    /\ UNCHANGED configVars

loop ==
    /\ boot = "run"
    /\ GetAvg \/ LoadSum \/ LoadCount \/ GetAvgIsZero \/ TestPasses \/ Divide
    /\ UNCHANGED configVars

MainNext ==
    \/ SetupStep
    \/ PowerLoss
    \/ SensorTask
    \/ loop

\* setup() runs on as long as the sensor has power and does not fail.
MainSpec == MainInit /\ [][MainNext]_mainVars /\ WF_mainVars(Setup /\ UNCHANGED avgVars)
=============================================================================
