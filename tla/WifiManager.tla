------------------------------ MODULE WifiManager ------------------------------
(***************************************************************************)
(* How the board gets onto a network.  The main loop runs a state machine: *)
(* it joins the stored network, retries, and falls back to a setup access  *)
(* point; a Bluetooth session can replace the credentials from any resting *)
(* state.  The web server's task submits or clears credentials and asks    *)
(* for a Bluetooth session, each in several steps of its own, and the      *)
(* radio's event task reports what Bluetooth received.                     *)
(*                                                                         *)
(* Time is abstract: a state that waits may find its timeout passed at any *)
(* tick, and fairness says that it does in the end.                        *)
(***************************************************************************)
EXTENDS ConfigStore

CONSTANT MaxConnectRetries    \* config_.wifiRuntime.maxConnectRetries

ASSUME WifiAssumption == MaxConnectRetries \in Nat \ {0}

VARIABLES
  state,         \* current_
  credentials,   \* credentials_, in use by the state machine
  retryCount,
  pending,       \* the submitted network, None when pendingCredentialsSubmit_ is false
  bleRequested,
  received,      \* bleCredentialsReceived_ and the network it came with
  bleStopped,    \* bleProvisioningStopped_
  bleActive,     \* external: the provisioning service runs, or has an end event to deliver
  applying,      \* credentials that applyCredentialsNow is saving
  web,           \* what the web server's task is doing
  webNetwork,    \* the network it is submitting
  link           \* external: the driver reports the station connected

control == <<pending, bleRequested>>
ble == <<received, bleStopped, bleActive>>
webVars == <<web, webNetwork>>
machine == <<state, credentials, retryCount, applying>>
wifiVars == <<configVars, machine, control, ble, webVars, link>>

BleStates == {"StartBleConfig", "BleConfigRunning", "StopBleConfig", "WaitBleConfigStopped",
              "DeinitBleConfig", "ApplyBleCredentials", "ReturnFromBleConfig"}
States == BleStates \cup {"Idle", "Connecting", "CheckConnection", "RetryDelay", "Connected",
                          "SetupAp", "ApplySubmittedCredentials"}

WifiInit ==
  /\ ConfigInit
  /\ state = "Idle"
  /\ credentials = None /\ retryCount = 0 /\ applying = None
  /\ pending = None /\ bleRequested = FALSE
  /\ received = None /\ bleStopped = FALSE /\ bleActive = FALSE
  /\ web = "idle" /\ webNetwork = None
  /\ link = FALSE

hasCredentials == credentials # None
isBleConfigState == state \in BleStates

Goto(s) == state' = s
Stay == state' = state
-------------------------------------------------------------------------------
(* One tick of the state machine, by state. *)

Idle ==
  /\ state = "Idle"
  /\ Goto(IF hasCredentials THEN "Connecting" ELSE "SetupAp")
  /\ UNCHANGED <<configVars, credentials, retryCount, applying, control, ble, webVars, link>>

\* beginStation() leaves the access point and drops any earlier connection.
Connecting ==
  /\ state = "Connecting"
  /\ Goto("CheckConnection")
  /\ link' = FALSE
  /\ UNCHANGED <<configVars, credentials, retryCount, applying, control, ble, webVars>>

retriesExhausted == retryCount >= MaxConnectRetries

\* Mutant: the limit is compared with a counter that stops before it.
afterFailureLate == IF retryCount > MaxConnectRetries THEN "SetupAp" ELSE "RetryDelay"

\* Where an attempt that timed out leads.
afterFailure == IF retryCount + 1 >= MaxConnectRetries THEN "SetupAp" ELSE "RetryDelay"

\* The first condition that holds decides, in the order of the code.
CheckConnection(expired) ==
  /\ state = "CheckConnection"
  /\ \/ ~hasCredentials /\ Goto("Idle") /\ UNCHANGED retryCount
     \/ hasCredentials /\ bleRequested /\ Goto("StartBleConfig") /\ UNCHANGED retryCount
     \/ /\ hasCredentials /\ ~bleRequested /\ pending # None
        /\ Goto("ApplySubmittedCredentials") /\ UNCHANGED retryCount
     \/ /\ hasCredentials /\ ~bleRequested /\ pending = None /\ link
        /\ Goto("Connected") /\ UNCHANGED retryCount
     \/ /\ hasCredentials /\ ~bleRequested /\ pending = None /\ ~link
        /\ IF ~expired
           THEN Stay /\ UNCHANGED retryCount
           ELSE /\ retryCount' = IF retriesExhausted THEN retryCount ELSE retryCount + 1
                /\ Goto(afterFailure)
  /\ UNCHANGED <<configVars, credentials, applying, control, ble, webVars, link>>

RetryDelay(expired) ==
  /\ state = "RetryDelay"
  /\ IF bleRequested THEN Goto("StartBleConfig")
     ELSE IF expired THEN Goto("Idle") ELSE Stay
  /\ UNCHANGED <<configVars, credentials, retryCount, applying, control, ble, webVars, link>>

\* A submitted network is not looked at here: it waits until the link drops.
Connected ==
  /\ state = "Connected"
  /\ \/ ~hasCredentials /\ Goto("Idle") /\ retryCount' = 0
     \/ hasCredentials /\ bleRequested /\ Goto("StartBleConfig") /\ UNCHANGED retryCount
     \/ hasCredentials /\ ~bleRequested /\ ~link /\ Goto("Idle") /\ retryCount' = 0
     \/ hasCredentials /\ ~bleRequested /\ link /\ Stay /\ UNCHANGED retryCount
  /\ UNCHANGED <<configVars, credentials, applying, control, ble, webVars, link>>

\* Mutant: the setup portal does not look at what was submitted.
SetupApDeaf ==
  /\ state = "SetupAp"
  /\ IF bleRequested THEN Goto("StartBleConfig") ELSE Stay
  /\ UNCHANGED <<configVars, credentials, retryCount, applying, control, ble, webVars, link>>

\* The access point may fail to start, which changes nothing here; the state
\* is left only for Bluetooth or for submitted credentials.
SetupAp ==
  /\ state = "SetupAp"
  /\ IF bleRequested THEN Goto("StartBleConfig")
     ELSE IF pending # None THEN Goto("ApplySubmittedCredentials") ELSE Stay
  /\ UNCHANGED <<configVars, credentials, retryCount, applying, control, ble, webVars, link>>

StartBleConfig(started) ==
  /\ state = "StartBleConfig"
  /\ bleRequested' = FALSE
  /\ received' = None /\ bleStopped' = FALSE
  /\ bleActive' = (bleActive \/ started)
  /\ Goto(IF started THEN "BleConfigRunning" ELSE "ReturnFromBleConfig")
  /\ UNCHANGED <<configVars, credentials, retryCount, applying, pending, webVars, link>>

BleConfigRunning(expired) ==
  /\ state = "BleConfigRunning"
  /\ IF received # None THEN Goto("ApplyBleCredentials")
     ELSE IF expired THEN Goto("StopBleConfig") ELSE Stay
  /\ UNCHANGED <<configVars, credentials, retryCount, applying, control, ble, webVars, link>>

StopBleConfig ==
  /\ state = "StopBleConfig"
  /\ Goto("WaitBleConfigStopped")
  /\ UNCHANGED <<configVars, credentials, retryCount, applying, control, ble, webVars, link>>

WaitBleConfigStopped(expired) ==
  /\ state = "WaitBleConfigStopped"
  /\ IF bleStopped \/ expired THEN Goto("DeinitBleConfig") ELSE Stay
  /\ UNCHANGED <<configVars, credentials, retryCount, applying, control, ble, webVars, link>>

DeinitBleConfig ==
  /\ state = "DeinitBleConfig"
  /\ Goto("Idle")
  /\ UNCHANGED <<configVars, credentials, retryCount, applying, control, ble, webVars, link>>

ReturnFromBleConfig ==
  /\ state = "ReturnFromBleConfig"
  /\ bleRequested' = FALSE /\ bleStopped' = FALSE /\ received' = None
  /\ Goto("Idle")
  /\ UNCHANGED <<configVars, credentials, retryCount, applying, pending, bleActive, webVars, link>>
-------------------------------------------------------------------------------
(* applyCredentialsNow: save, and use the credentials if all was written. *)

\* The credentials are taken, under the lock, and the save begins.
ApplyBleCredentials ==
  /\ state = "ApplyBleCredentials" /\ applying = None
  /\ received' = None
  /\ IF received = None
     THEN /\ Goto("StopBleConfig") /\ UNCHANGED <<applying, configVars>>
     ELSE /\ saveWifiCredentials("loop", received)
          /\ applying' = received /\ UNCHANGED state
  /\ UNCHANGED <<credentials, retryCount, control, bleStopped, bleActive, webVars, link>>

ApplySubmittedCredentials ==
  /\ state = "ApplySubmittedCredentials" /\ applying = None
  /\ pending' = None
  /\ IF pending = None
     THEN Goto("Idle") /\ UNCHANGED <<applying, configVars>>
     ELSE /\ saveWifiCredentials("loop", pending)
          /\ applying' = pending /\ UNCHANGED state
  /\ UNCHANGED <<credentials, retryCount, bleRequested, ble, webVars, link>>

AfterApply == IF state = "ApplyBleCredentials" THEN "StopBleConfig" ELSE "Idle"

ApplyWrites ==
  /\ applying # None
  /\ WriteKey("loop")
  /\ IF Done("loop")
     THEN /\ credentials' = applying /\ retryCount' = 0
          /\ applying' = None
          /\ Goto(AfterApply)
     ELSE UNCHANGED <<credentials, retryCount, applying, state>>
  /\ UNCHANGED <<control, ble, webVars, link>>

ApplyFails ==
  /\ applying # None
  /\ WriteFails("loop")
  /\ applying' = None
  /\ Goto(AfterApply)
  /\ UNCHANGED <<credentials, retryCount, control, ble, webVars, link>>
-------------------------------------------------------------------------------
(* Requests of the web server's task. *)

\* submitCredentials() looks at the state of the main loop, and only then
\* takes the lock: a Bluetooth session may have started in between.
CheckSubmit(n) ==
  /\ web = "idle"
  /\ ~isBleConfigState
  /\ web' = "submitting" /\ webNetwork' = n
  /\ UNCHANGED <<configVars, machine, control, ble, link>>

trySavePendingSubmittedCredentials ==
  /\ web = "submitting"
  /\ pending' = IF pending = None /\ ~bleRequested THEN webNetwork ELSE pending
  /\ web' = "idle" /\ webNetwork' = None
  /\ UNCHANGED <<configVars, machine, bleRequested, ble, link>>

\* requestBleConfig(), from the portal or from the button.
requestBleConfig ==
  /\ web = "idle"
  /\ ~isBleConfigState
  /\ ~bleRequested /\ pending = None
  /\ bleRequested' = TRUE
  /\ UNCHANGED <<configVars, machine, pending, ble, webVars, link>>

clearCredentials ==
  /\ web = "idle"
  /\ clearWifiCredentials("web")
  /\ web' = "clearing"
  /\ UNCHANGED <<machine, control, ble, webNetwork, link>>

saveSettings ==
  /\ web = "idle"
  /\ saveSetting
  /\ web' = "saving"
  /\ UNCHANGED <<machine, control, ble, webNetwork, link>>

\* Mutant: clearing leaves the credentials in use.
WebWritesKeepsUsing ==
  /\ web \in {"clearing", "saving"}
  /\ WriteKey("web")
  /\ web' = IF Done("web") THEN "idle" ELSE web
  /\ pending' = IF Done("web") /\ web = "clearing" THEN None ELSE pending
  /\ UNCHANGED <<credentials, retryCount>>
  /\ UNCHANGED <<state, applying, bleRequested, ble, webNetwork, link>>

\* Once everything is cleared in flash, the pending submission and the
\* credentials in use go too.
WebWrites ==
  /\ web \in {"clearing", "saving"}
  /\ WriteKey("web")
  /\ web' = IF Done("web") THEN "idle" ELSE web
  /\ IF Done("web") /\ web = "clearing"
     THEN pending' = None /\ credentials' = config'.wifi /\ retryCount' = 0
     ELSE UNCHANGED <<pending, credentials, retryCount>>
  /\ UNCHANGED <<state, applying, bleRequested, ble, webNetwork, link>>

WebFails ==
  /\ web \in {"clearing", "saving"}
  /\ WriteFails("web")
  /\ web' = "idle"
  /\ UNCHANGED <<machine, control, ble, webNetwork, link>>
-------------------------------------------------------------------------------
(* The radio, and power. *)

LinkChanges ==
  /\ link' = ~link
  /\ link' => state \in {"CheckConnection", "Connected"}
  /\ UNCHANGED <<configVars, machine, control, ble, webVars>>

\* The phone sends a network while the service runs, perhaps after the
\* session has already timed out.
CredentialsReceived(n) ==
  /\ bleActive
  /\ received' = n
  /\ UNCHANGED <<configVars, machine, control, bleStopped, bleActive, webVars, link>>

\* The service reports its end, at once or long after the manager has stopped
\* waiting for it.
ProvisioningEnded ==
  /\ bleActive
  /\ bleStopped' = TRUE /\ bleActive' = FALSE
  /\ UNCHANGED <<configVars, machine, control, received, webVars, link>>

WifiReboot ==
  /\ ConfigReboot
  /\ state' = "Idle"
  /\ credentials' = config'.wifi /\ retryCount' = 0 /\ applying' = None
  /\ pending' = None /\ bleRequested' = FALSE
  /\ received' = None /\ bleStopped' = FALSE /\ bleActive' = FALSE
  /\ web' = "idle" /\ webNetwork' = None
  /\ link' = FALSE

\* Ticks that move on at once, and ticks that wait.
StepTick ==
  \/ Idle \/ Connecting \/ StopBleConfig \/ DeinitBleConfig \/ ReturnFromBleConfig
  \/ ApplyBleCredentials \/ ApplySubmittedCredentials
  \/ SetupAp
  \/ \E started \in BOOLEAN : StartBleConfig(started)

WaitTick(expired) ==
  \/ CheckConnection(expired) \/ RetryDelay(expired)
  \/ BleConfigRunning(expired) \/ WaitBleConfigStopped(expired)
  \/ Connected

WebStep == trySavePendingSubmittedCredentials \/ WebWrites \/ WebFails

WebRequest ==
  \/ \E n \in Networks : CheckSubmit(n)
  \/ requestBleConfig \/ clearCredentials \/ saveSettings

Radio ==
  \/ LinkChanges \/ ProvisioningEnded
  \/ \E n \in Networks : CredentialsReceived(n)

WifiNext ==
  \/ StepTick
  \/ \E expired \in BOOLEAN : WaitTick(expired)
  \/ ApplyWrites \/ ApplyFails
  \/ WebStep \/ WebRequest
  \/ Radio
  \/ WifiReboot

\* The main loop ticks forever and time passes; a handler that has begun goes
\* on.  Nobody has to submit anything, and the radio owes nothing.
WifiFairness ==
  /\ WF_wifiVars(StepTick)
  /\ WF_wifiVars(WaitTick(TRUE))
  /\ WF_wifiVars(ApplyWrites)
  /\ WF_wifiVars(trySavePendingSubmittedCredentials \/ WebWrites)

WifiSpec == WifiInit /\ [][WifiNext]_wifiVars /\ WifiFairness
-------------------------------------------------------------------------------
\* Every variable holds a value of its type.
WifiTypeOK ==
  /\ config \in Config /\ flash \in Config
  /\ next \in [Writers -> {{}} \cup {{c} : c \in Config}] /\ at \in [Writers -> 0..Len(Keys)]
  /\ state \in States /\ {bleRequested, bleStopped, bleActive, link, ordered} \subseteq BOOLEAN
  /\ {credentials, pending, received, applying, webNetwork} \subseteq Networks \cup {None}
  /\ retryCount \in 0..MaxConnectRetries
  /\ web \in {"idle", "submitting", "clearing", "saving"}

\* The credentials the board uses are those its next boot will find, unless a
\* save failed or was cut by another one: the state machine, config_ and the
\* flash are written by two tasks and in different steps.
CredentialsSurviveReboot ==
  ordered /\ (\A w \in Writers : ~Saving(w)) => credentials = config.wifi /\ config = flash

\* Credentials that were accepted are applied or cleared in the end, except
\* that a board that is connected keeps them waiting.
SubmissionSettles == pending # None ~> pending = None \/ state = "Connected"

\* Whatever the radio does, a board that tries to join a network comes back to
\* a state in which somebody can reach it: connected, in setup, in a Bluetooth
\* session; or somebody reaches it already, through the portal.
BoardReachable ==
  state = "CheckConnection" ~>
    \/ state \in {"Connected", "SetupAp"} \cup BleStates
    \/ web # "idle" \/ pending # None
================================================================================
