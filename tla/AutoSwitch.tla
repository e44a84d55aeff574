------------------------------- MODULE AutoSwitch -------------------------------
(***************************************************************************)
(* An auto switch with the switch it drives and the schedule it follows,   *)
(* under the registry that ticks them and passes the trouble of one on to  *)
(* those that depend on it.  The switch and the schedule are ticked in     *)
(* every pass of the main loop, the auto switch once a second; after each  *)
(* round the registry refreshes the dependents.  Configuration changes and *)
(* commands come from the web server's task, under the registry's lock.    *)
(***************************************************************************)
EXTENDS OutputDevice

CONSTANTS
  MaxTroubles,    \* bound: failures of the expander board and of writes to it
  MaxRequests     \* bound: configuration changes and commands, and those failures

ASSUME AutoAssumption == {MaxTroubles, MaxRequests} \subseteq Nat

VARIABLES
  board,        \* status of the expander the switch is a channel of
  lamp,         \* AbstractOutputDevice
  plan,         \* ScheduleDevice
  auto,         \* AutoSwitchDevice
  mode, forceOff,   \* mode_, forceOffPending_
  troubles,     \* bound: faults so far
  requests,     \* bound: how many so far
  replanned     \* observer: has the schedule been switched off and on?

autoVars == <<board, lamp, plan, auto, mode, forceOff, troubles, requests, replanned>>

Modes == {"Off", "On", "Auto", "Paused"}
BoardStatuses == {"Ready", "Reconfiguring", "Faulted", "Disabled"}
BoardUp == board = "Ready"
LampReady == ~lamp.channel \/ BoardUp     \* dependenciesReady() of the switch
-------------------------------------------------------------------------------
(* ScheduleDevice: no dependency, nothing that may fail. *)
ScheduleTick(d) ==
  CASE d.state = "Idle" -> IdleTick(d)
    [] d.state = "Starting" -> StartingTick(d, "Ready")
    [] d.state = "Ready" -> ReadyTick(d, "Ready")
    [] d.state = "Reconfiguring" -> ReconfiguringTick(d, "Ready")
    [] d.state = "Disabled" -> DisabledTick(d)
-------------------------------------------------------------------------------
(* AutoSwitchDevice.  Only the switch can block it; the schedule cannot.     *)
AutoMachine(d) ==
  CASE d.state = "Idle" -> IdleTick(d)
    [] d.state = "Starting" -> StartingTick(d, lamp.status)
    [] d.state = "Ready" -> ReadyTick(d, lamp.status)
    [] d.state = "Reconfiguring" -> ReconfiguringTick(d, lamp.status)
    [] d.state = "DependencyBlocked" -> DependencyBlockedTick(d, lamp.status)
    [] d.state = "Disabled" -> DisabledTick(d)

\* setMode(m)
setMode(m) ==
  /\ mode' = m
  /\ forceOff' = (forceOff \/ (m # mode /\ m \in {"Auto", "Paused"}))

\* The registry's refresh of the switch, if it has a dependency.
RefreshedLamp(d) == IF d.channel THEN Refreshed(d, {board'}) ELSE d

(* Mutant: paused holds whatever was driven before. *)
desiredWhilePaused(m, active) == m = "On" \/ (m = "Paused" /\ lamp.on) \/ (m = "Auto" /\ active)

desiredOutputState(m, active) == m = "On" \/ (m = "Auto" /\ active)

\* applyDesiredOutput(), when the pause may be over and the conditions hold or
\* do not: isActive() of a schedule does not ask whether it is switched on.
applyDesiredOutput(pauseOver, active, hw) ==
  LET resumes == mode = "Paused" /\ pauseOver
      m == IF resumes THEN "Auto" ELSE mode
      wanted == ~(forceOff \/ resumes) /\ desiredOutputState(m, active)
  IN /\ mode' = m /\ forceOff' = FALSE
     /\ lamp' = RefreshedLamp(requestOutputState(lamp, wanted, hw))
-------------------------------------------------------------------------------
(* The registry *)
RefreshAuto(d) == auto' = Refreshed(d, {lamp'.status, plan'.status})

Trouble(hw) == IF hw = "works" THEN UNCHANGED troubles
               ELSE lamp.channel /\ troubles < MaxTroubles /\ troubles' = troubles + 1

Asks == requests + troubles < MaxRequests /\ requests' = requests + 1

tickFastLoop(hw) ==
  /\ Trouble(hw)
  /\ plan' = ScheduleTick(plan)
  /\ UNCHANGED <<board, mode, forceOff, requests, replanned>>
  /\ lamp' = RefreshedLamp(OutputTick(lamp, LampReady, hw))
  /\ RefreshAuto(auto)

AutoDrives == auto.state = "Ready" /\ Stopped(auto, lamp.status) = {} /\ ~auto.reconf

tick1s(pauseOver, active, hw) ==
  /\ Trouble(hw)
  /\ UNCHANGED <<board, plan, requests, replanned>>
  /\ IF AutoDrives THEN applyDesiredOutput(pauseOver, active, hw)
     ELSE lamp' = RefreshedLamp(lamp) /\ UNCHANGED <<mode, forceOff>>
  /\ RefreshAuto(AutoMachine(auto))

\* A new configuration of the switch; some changes start it over.
EditLamp(enabled, reset, hw) ==
  LET q == IF reset THEN resetStateMachine(Released(lamp)) ELSE lamp
      new == IF enabled = lamp.enabled THEN q
             ELSE IF enabled THEN OutputTick(Asked(q, TRUE), LampReady, hw)
             ELSE Asked(q, FALSE)
  IN /\ Asks /\ Trouble(hw)
     /\ UNCHANGED <<board, plan, mode, forceOff, replanned>>
     /\ lamp' = RefreshedLamp(new)
     /\ RefreshAuto(requestReconfigure(auto))

EditPlan(enabled) ==
  /\ Asks
  /\ plan' = (IF enabled = plan.enabled THEN plan
              ELSE IF enabled THEN ScheduleTick(Asked(plan, TRUE))
              ELSE Asked(plan, FALSE))
  /\ replanned' = (replanned \/ enabled # plan.enabled)
  /\ UNCHANGED <<board, mode, forceOff, troubles>>
  /\ lamp' = RefreshedLamp(lamp)
  /\ RefreshAuto(requestReconfigure(auto))

EditAuto(enabled) ==
  /\ Asks
  /\ enabled # auto.enabled
  /\ UNCHANGED <<board, plan, mode, forceOff, troubles, replanned>>
  /\ lamp' = RefreshedLamp(lamp)
  /\ RefreshAuto(IF enabled THEN AutoMachine(Asked(auto, TRUE)) ELSE Asked(auto, FALSE))

\* A command of the portal or of Home Assistant to the auto switch or past it.
Command(m, hw) ==
  /\ m \in {"Off", "On"} => auto.status = "Ready"
  /\ m = "Paused" => mode = "Auto"
  /\ Asks /\ Trouble(hw)
  /\ setMode(m)
  /\ lamp' = IF m \in {"Off", "On"} THEN requestOutputState(lamp, m = "On", hw) ELSE lamp
  /\ UNCHANGED <<board, plan, auto, replanned>>

CommandLamp(v, hw) ==
  /\ Accepts(lamp)
  /\ Asks /\ Trouble(hw)
  /\ lamp' = requestOutputState(lamp, v, hw)
  /\ UNCHANGED <<board, plan, auto, mode, forceOff, replanned>>

\* The expander board, seen from its switch: an edit or a fault of its bus.  Its
\* own machine tells that it is Reconfiguring on the way back from Disabled.
BoardChanges(status) ==
  /\ lamp.channel
  /\ status # board
  /\ board = "Disabled" => status = "Reconfiguring"
  /\ IF status \in {"Ready", "Reconfiguring"} THEN UNCHANGED troubles
     ELSE troubles < MaxTroubles /\ troubles' = troubles + 1
  /\ board' = status
  /\ UNCHANGED <<plan, mode, forceOff, requests, replanned>>
  /\ lamp' = RefreshedLamp(IF board = "Disabled" THEN requestReconfigure(lamp) ELSE lamp)
  /\ RefreshAuto(auto)
-------------------------------------------------------------------------------
AutoInit ==
  /\ board = "Ready"
  /\ \E channel \in BOOLEAN : lamp = OutputTick(FreshOutput(TRUE, channel, TRUE), TRUE, "works")
  /\ plan = IdleTick(Fresh(TRUE)) /\ \E enabled \in BOOLEAN : auto = IdleTick(Fresh(enabled))
  /\ mode \in {"Off", "Auto"} /\ forceOff = FALSE
  /\ troubles = 0 /\ requests = 0 /\ replanned = FALSE

AutoNext ==
  \/ \E hw \in Hardware : tickFastLoop(hw) \/ \E over, active \in BOOLEAN : tick1s(over, active, hw)
  \/ \E enabled, reset \in BOOLEAN, hw \in Hardware : EditLamp(enabled, reset, hw)
  \/ \E enabled \in BOOLEAN : EditPlan(enabled) \/ EditAuto(enabled)
  \/ \E m \in Modes, hw \in Hardware : Command(m, hw)
  \/ \E v \in BOOLEAN, hw \in Hardware : CommandLamp(v, hw)
  \/ \E s \in BoardStatuses : BoardChanges(s)

AutoSpec == AutoInit /\ [][AutoNext]_autoVars
  /\ WF_autoVars(\E hw \in Hardware : tickFastLoop(hw))
  /\ WF_autoVars(\E hw \in Hardware, active \in BOOLEAN : tick1s(FALSE, active, hw))
-------------------------------------------------------------------------------
AutoTypeOK ==
  /\ lamp \in Outputs /\ {plan.state, auto.state} \subseteq States \ {"Faulted"}
  /\ {plan.status, auto.status, board} \subseteq Statuses /\ mode \in Modes

\* As long as the hardware works, the level at the pin is the state that the
\* portal shows, and the safe state once the switch is disabled.
SwitchHonest ==
  troubles = 0 =>
    /\ lamp.pin \subseteq {lamp.on}
    /\ lamp.state = "Disabled" => lamp.pin \subseteq {lamp.safe}

\* Off and Paused hold the switch off, whoever else has switched it on.
OffObeyed ==
  (auto.status = "Ready" /\ mode \in {"Off", "Paused"}) ~>
    (~lamp.on \/ mode \in {"On", "Auto"} \/ auto.status # "Ready")

AllWanted == lamp.enabled /\ plan.enabled /\ auto.enabled
Fixed == AllWanted /\ (lamp.channel => BoardUp) /\ lamp.status # "Faulted"

\* Once its dependencies are enabled and work again, an auto switch recovers on
\* its own.  It does after a trouble of its switch or of the switch's board.
RecoversWithSwitch == Fixed /\ ~replanned ~> auto.status = "Ready" \/ ~Fixed \/ replanned
================================================================================
