------------------------------ MODULE MqttBridge ------------------------------
(***************************************************************************)
(* How Home Assistant follows the registry.  MqttManager keeps a session   *)
(* with the broker, HaDiscoveryBridge publishes what the event queue       *)
(* brings it and everything at each connect.  Both run in the main loop;   *)
(* the web server's task changes devices and settings, also while          *)
(* connect() blocks the loop.                                              *)
(***************************************************************************)
EXTENDS DeviceEventQueue

CONSTANTS
  MaxPuts,       \* bound: changes of the settings
  MaxLosses      \* bound: refused connects, lost sessions, failed publishes and losses of the network

ASSUME MqttAssumption == {MaxPuts, MaxLosses} \subseteq Nat

MqttSettings == {"plain", "tls", "noCert"}    \* noCert: TLS without a stored CA certificate
NoSession == "none"
ExistingStates == {"hidden", "off", "on"}       \* hidden: the device, or its entity, is disabled
DeviceStates == ExistingStates \cup {"unborn", "gone"}

VARIABLES
  registry,           \* what each device is
  broker,             \* external: what the broker retains of each device
  mqttState,          \* current_ of MqttManager
  ready,              \* mqttReady(): the station is up, MQTT is enabled
  mqttSettings, settingsRevision, appliedRevision,
  connected,          \* connected_
  everAttempted,
  dialing,            \* the settings connect() was called with, while it blocks the loop
  session,            \* external: the settings of the live session with the broker
  losses,             \* bound: faults so far
  overlapped          \* observer: the settings changed while connect() ran

mqttVars == <<queueVars, registry, broker, mqttState, ready, mqttSettings, settingsRevision,
              appliedRevision, connected, everAttempted, dialing, session, losses, overlapped>>

sessionVars == <<mqttState, ready, mqttSettings, settingsRevision, appliedRevision, connected,
          everAttempted, dialing, session, overlapped>>

MqttInit ==
  /\ QueueInit
  /\ registry = [d \in Devices |-> "unborn"]
  /\ broker = [d \in Devices |-> [found |-> FALSE, value |-> "none"]]
  /\ mqttState = "WaitingForStation" /\ ready = FALSE
  /\ mqttSettings = "plain" /\ settingsRevision = 1 /\ appliedRevision = 0
  /\ connected = FALSE /\ everAttempted = FALSE /\ dialing = NoSession
  /\ session = NoSession
  /\ losses = 0 /\ overlapped = FALSE

LoopFree == dialing = NoSession /\ popping = {}
Live == connected /\ session # NoSession

Loses == losses < MaxLosses /\ losses' = losses + 1
-------------------------------------------------------------------------------
(* HaDiscoveryBridge *)

\* What the broker retains of d once everything published about it arrived.
Refreshed(d) ==
  CASE registry[d] \in {"off", "on"} -> [found |-> TRUE, value |-> registry[d]]
    [] registry[d] = "hidden" -> [broker[d] EXCEPT !.found = FALSE]
    [] OTHER -> broker[d]

\* Mutant: a device that is hidden or shown again changes nothing.
HandledWithoutUpdate(e) ==
  CASE e.kind = "created" -> Refreshed(e.device)
    [] e.kind = "deleted" -> [broker[e.device] EXCEPT !.found = FALSE]
    [] e.kind = "state" /\ registry[e.device] \in {"off", "on"} ->
         [broker[e.device] EXCEPT !.value = registry[e.device]]
    [] OTHER -> broker[e.device]

\* onDeviceEvent: the state published is the device's at that time, not the event's.
Handled(e) ==
  CASE e.kind \in {"created", "updated"} -> Refreshed(e.device)
    [] e.kind = "deleted" -> [broker[e.device] EXCEPT !.found = FALSE]
    [] e.kind = "state" /\ registry[e.device] \in {"off", "on"} ->
         [broker[e.device] EXCEPT !.value = registry[e.device]]
    [] OTHER -> broker[e.device]

\* onMqttConnected: every device that exists; one that is gone is not retracted,
\* and nobody looks at what a publish returns.
Existing == {d \in Devices : registry[d] \in ExistingStates}
Announced(failed) == [d \in Devices |-> IF d \in failed THEN broker[d] ELSE Refreshed(d)]
Heals(failed) == missed' = IF raced THEN missed ELSE (missed \ Existing) \cup failed

Misses(d) == missed' = missed \cup ({d} \cap Devices)

HandleEvent ==
  /\ PopEnd
  /\ LET e == Popped.event IN
     \/ Live /\ broker' = [d \in Devices |-> IF d = e.device THEN Handled(e) ELSE broker[d]]
        /\ UNCHANGED <<missed, losses>>
     \/ Live /\ Loses /\ Misses(e.device) /\ UNCHANGED broker
     \/ ~Live /\ Misses(e.device) /\ UNCHANGED <<broker, losses>>
  /\ UNCHANGED <<registry, sessionVars>>

TakeEvent == LoopFree /\ PopBegin /\ UNCHANGED <<registry, broker, sessionVars, losses>>
-------------------------------------------------------------------------------
(* The registry, changed by a request or by the loop itself. *)

KindOf(old, new) ==
  IF old = "unborn" THEN "created"
  ELSE IF new = "gone" THEN "deleted"
  ELSE IF "hidden" \in {old, new} THEN "updated"
  ELSE "state"

Changes(d, new) ==
  /\ \/ registry[d] = "unborn" /\ new \in ExistingStates
     \/ registry[d] \in ExistingStates /\ new \in (ExistingStates \cup {"gone"}) \ {registry[d]}
  /\ registry' = [registry EXCEPT ![d] = new]

WebChanges(d, new) ==
  /\ Changes(d, new)
  /\ PushBegin([kind |-> KindOf(registry[d], new), device |-> d])
  /\ UNCHANGED <<broker, sessionVars, losses>>

WebPushed == PushEnd /\ UNCHANGED <<registry, broker, sessionVars, losses>>

\* A sensor, an automatic device or a command of Home Assistant.
LoopChanges(d, new) ==
  /\ LoopFree
  /\ {registry[d], new} \subseteq {"off", "on"}
  /\ Changes(d, new)
  /\ PushWhole([kind |-> "state", device |-> d])
  /\ UNCHANGED <<broker, sessionVars, losses>>
-------------------------------------------------------------------------------
(* MqttManager *)

feedVars == <<slots, tail, count, pushing, popping, raced, registry>>
settingsVars == <<mqttSettings, settingsRevision>>

MqttWaitingForStation ==
  /\ mqttState = "WaitingForStation" /\ LoopFree /\ ready
  /\ everAttempted' = FALSE
  /\ mqttState' = "Connecting"
  /\ UNCHANGED <<feedVars, missed, broker, ready, settingsVars, appliedRevision, connected, dialing, session,
                 losses, overlapped>>

\* Everything Connecting decides before it calls connect().
Dial(retryDelayPassed) ==
  /\ mqttState = "Connecting" /\ LoopFree
  /\ IF ~ready THEN mqttState' = "WaitingForStation" /\ UNCHANGED <<everAttempted, dialing>>
     ELSE IF mqttSettings = "noCert" THEN mqttState' = "Faulted" /\ UNCHANGED <<everAttempted, dialing>>
     ELSE /\ ~everAttempted \/ retryDelayPassed
          /\ everAttempted' = TRUE /\ dialing' = mqttSettings
          /\ UNCHANGED mqttState
  /\ overlapped' = FALSE
  /\ UNCHANGED <<feedVars, missed, broker, ready, settingsVars, appliedRevision, connected, session,
                 losses>>

\* connect() returns, which may take seconds.  The revision it applies is the
\* one of that moment, not the one it dialled with.  failed: the devices that are
\* not announced, as a publish fails.
DialSucceeds(failed) ==
  /\ dialing # NoSession
  /\ IF failed = {} THEN UNCHANGED losses ELSE Loses
  /\ session' = dialing /\ connected' = TRUE
  /\ appliedRevision' = settingsRevision
  /\ broker' = Announced(failed) /\ Heals(failed)
  /\ dialing' = NoSession /\ mqttState' = "Connected"
  /\ UNCHANGED <<feedVars, ready, settingsVars, everAttempted, overlapped>>

DialFails ==
  /\ dialing # NoSession
  /\ Loses
  /\ dialing' = NoSession
  /\ UNCHANGED <<feedVars, missed, broker, mqttState, ready, settingsVars, appliedRevision, connected,
                 everAttempted, session, overlapped>>

\* Mutant: the revisions are compared the wrong way round.
outdatedBackwards == appliedRevision > settingsRevision

outdated == appliedRevision # settingsRevision

\* The first condition that holds decides, in the order of the code.
MqttConnected ==
  /\ mqttState = "Connected" /\ LoopFree
  /\ \/ ~ready /\ mqttState' = "WaitingForStation" /\ UNCHANGED everAttempted
     \/ /\ ready /\ outdated
        /\ mqttState' = "Connecting" /\ everAttempted' = FALSE
     \/ /\ ready /\ ~outdated /\ session = NoSession
        /\ mqttState' = "WaitingForStation" /\ UNCHANGED everAttempted
  /\ connected' = FALSE /\ session' = NoSession
  /\ UNCHANGED <<feedVars, missed, broker, ready, settingsVars, appliedRevision, dialing, losses, overlapped>>

MqttFaulted ==
  /\ mqttState = "Faulted" /\ LoopFree
  /\ ~ready \/ mqttSettings # "noCert"
  /\ mqttState' = "WaitingForStation"
  /\ UNCHANGED <<feedVars, missed, broker, ready, settingsVars, appliedRevision, connected, everAttempted,
                 dialing, session, losses, overlapped>>

-------------------------------------------------------------------------------
(* The portal's settings, the network and the broker. *)

applySettings(s) ==
  /\ settingsRevision <= MaxPuts
  /\ mqttSettings' = s /\ settingsRevision' = settingsRevision + 1
  /\ overlapped' = (dialing # NoSession)
  /\ UNCHANGED <<feedVars, missed, broker, mqttState, ready, appliedRevision, connected, everAttempted,
                 dialing, session, losses>>

StationComes ==
  /\ ~ready /\ ready' = TRUE
  /\ UNCHANGED <<feedVars, missed, broker, mqttState, settingsVars, appliedRevision, connected,
                 everAttempted, dialing, session, losses, overlapped>>

StationGoes ==
  /\ ready /\ ready' = FALSE /\ Loses
  /\ UNCHANGED <<feedVars, missed, broker, mqttState, settingsVars, appliedRevision, connected,
                 everAttempted, dialing, session, overlapped>>

SessionLost ==
  /\ session # NoSession /\ session' = NoSession /\ Loses
  /\ UNCHANGED <<feedVars, missed, broker, mqttState, ready, settingsVars, appliedRevision, connected,
                 everAttempted, dialing, overlapped>>

MqttTick ==
  \/ MqttWaitingForStation \/ Dial(TRUE) \/ DialFails
  \/ \E failed \in SUBSET Existing : DialSucceeds(failed)
  \/ MqttConnected \/ MqttFaulted

EventStep == TakeEvent \/ HandleEvent

Environment ==
  \/ \E d \in Devices, new \in DeviceStates : WebChanges(d, new) \/ LoopChanges(d, new)
  \/ \E s \in MqttSettings : applySettings(s)
  \/ StationComes \/ StationGoes \/ SessionLost

MqttNext ==
  \/ MqttTick \/ Dial(FALSE)
  \/ EventStep \/ WebPushed
  \/ Environment

\* Every pass of the main loop ticks the manager, also when the events keep it
\* busy; connect() returns, and a push that began is finished.
MqttSpec ==
  /\ MqttInit /\ [][MqttNext]_mqttVars
  /\ SF_mqttVars(MqttTick) /\ WF_mqttVars(EventStep) /\ WF_mqttVars(WebPushed)
-------------------------------------------------------------------------------
\* Every variable holds a value of its type; neither the count nor the indices leave
\* the ring, whatever pushes and pops have met before.
MqttTypeOK ==
  /\ slots \in [Places -> Event \cup {NoEvent}]
  /\ tail \in Places /\ count \in 0..MaxEvents
  /\ registry \in [Devices -> DeviceStates] /\ missed \subseteq Devices /\ raced \in BOOLEAN
  /\ broker \in [Devices -> [found : BOOLEAN, value : {"none", "off", "on"}]]
  /\ mqttState \in {"WaitingForStation", "Connecting", "Connected", "Faulted"}
  /\ mqttSettings \in MqttSettings /\ {session, dialing} \subseteq MqttSettings \cup {NoSession}
  /\ {ready, connected, everAttempted, overlapped} \subseteq BOOLEAN

\* With a live session, an empty queue and no event dropped on the way, Home
\* Assistant shows each device exactly as the registry has it; no push has met a pop
\* by then, or every device counts as missed.
Settled == Live /\ count = 0 /\ pushing = {} /\ popping = {}
Mirrors(d) ==
  /\ broker[d].found <=> registry[d] \in {"off", "on"}
  /\ broker[d].found => broker[d].value = registry[d]

BrokerMirrorsRegistry == Settled => \A d \in Devices \ missed : Mirrors(d)

\* New settings reach the broker's session, unless they came while connect()
\* was running, or cannot be used, or the network is away.
SettingsTakeEffect ==
  ready /\ session # mqttSettings ~>
    session = mqttSettings \/ ~ready \/ overlapped \/ mqttSettings = "noCert"
================================================================================
