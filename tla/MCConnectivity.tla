----------------------------- MODULE MCConnectivity -----------------------------
(***************************************************************************)
(* Model checking of the parts that connect the board.  They share no      *)
(* variable, so that their product would show nothing that each of them    *)
(* does not show alone: a behaviour of this module is one of one unit,     *)
(* chosen at the start, while the others rest in their initial state.      *)
(***************************************************************************)
EXTENDS WifiManager, BleProvisioningButton, MqttBridge, NtpManager, RtcSync

VARIABLE unit

Units == {"wifi", "button", "mqtt", "ntp", "rtc"}

connectivityVars == <<unit, wifiVars, buttonVars, mqttVars, ntpManagerVars, rtcVars>>

\* The units that rest start in one fixed initial state.
Rests ==
  /\ unit # "button" => ~rawPressed /\ now = 0
  /\ unit # "ntp" => ntpServer = CHOOSE s \in Servers : TRUE

ConnectivityInit ==
  /\ unit \in Units
  /\ WifiInit /\ ButtonInit /\ MqttInit /\ NtpInit /\ RtcInit
  /\ Rests

WifiStep ==
  /\ unit = "wifi" /\ WifiNext
  /\ UNCHANGED <<unit, buttonVars, mqttVars, ntpManagerVars, rtcVars>>
ButtonStep ==
  /\ unit = "button" /\ ButtonNext
  /\ UNCHANGED <<unit, wifiVars, mqttVars, ntpManagerVars, rtcVars>>
MqttStep ==
  /\ unit = "mqtt" /\ MqttNext
  /\ UNCHANGED <<unit, wifiVars, buttonVars, ntpManagerVars, rtcVars>>
NtpStep ==
  /\ unit = "ntp" /\ NtpNext
  /\ UNCHANGED <<unit, wifiVars, buttonVars, mqttVars, rtcVars>>
RtcStep ==
  /\ unit = "rtc" /\ RtcNext
  /\ UNCHANGED <<unit, wifiVars, buttonVars, mqttVars, ntpManagerVars>>

ConnectivityNext == WifiStep \/ ButtonStep \/ MqttStep \/ NtpStep \/ RtcStep

\* The fairness of the specification of each unit, when it is the one that runs.
ConnectivityFairness ==
  /\ WF_wifiVars(unit = "wifi" /\ StepTick)
  /\ WF_wifiVars(unit = "wifi" /\ WaitTick(TRUE))
  /\ WF_wifiVars(unit = "wifi" /\ ApplyWrites)
  /\ WF_wifiVars(unit = "wifi" /\ (trySavePendingSubmittedCredentials \/ WebWrites))
  /\ SF_mqttVars(unit = "mqtt" /\ MqttTick)
  /\ WF_mqttVars(unit = "mqtt" /\ EventStep)
  /\ WF_mqttVars(unit = "mqtt" /\ WebPushed)
  /\ WF_ntpManagerVars(unit = "ntp" /\ NtpTick)
  /\ WF_rtcVars(unit = "rtc" /\ Coordinate)
  /\ WF_rtcVars(unit = "rtc" /\ UnitPasses)

ConnectivitySpec == ConnectivityInit /\ [][ConnectivityNext]_connectivityVars /\ ConnectivityFairness

\* Every variable of every unit holds a value of its type.
ConnectivityTypeOK ==
  WifiTypeOK /\ ButtonTypeOK /\ MqttTypeOK /\ NtpTypeOK /\ RtcTypeOK
=================================================================================
