----------------------------- MODULE DeviceLifecycle -----------------------------
(***************************************************************************)
(* What every device runtime has in common (DeviceRuntimeBase): the state  *)
(* of its machine, the status the registry shows, the flags that a request *)
(* leaves for the next tick, and what the registry requests of a device    *)
(* whose dependencies change.                                              *)
(*                                                                         *)
(* A device is a record with at least the fields state, status, start,     *)
(* reconf, disable, fault and enabled.  requestDelete() has no caller in   *)
(* the firmware: the Deleting states and the flag are left out.            *)
(***************************************************************************)
EXTENDS Naturals, Sequences

Statuses == {"Creating", "Starting", "Ready", "Reconfiguring", "DependencyBlocked", "Disabled", "Faulted"}
States == {"Idle", "Starting", "Ready", "Reconfiguring", "DependencyBlocked", "Disabled", "Faulted"}

\* A runtime as its constructor leaves it, with begin() called.
Fresh(enabled) ==
  [state |-> "Idle", status |-> "Creating", start |-> TRUE, reconf |-> FALSE, disable |-> FALSE,
   fault |-> FALSE, enabled |-> enabled]

\* SM_GOTO after an assignment of the status; SM_GOTO alone keeps the status
\* that the state assigns when it is entered.
Goto(d, state, status) == [d EXCEPT !.state = state, !.status = status]

Unwanted(d) == d.disable \/ ~d.enabled

requestReconfigure(d) == [d EXCEPT !.reconf = TRUE, !.disable = FALSE, !.status = "Reconfiguring"]
requestDisable(d) == [d EXCEPT !.disable = TRUE, !.status = "Disabled"]
clearLifecycleRequests(d) == [d EXCEPT !.reconf = FALSE, !.disable = FALSE, !.fault = FALSE]
resetStateMachine(d) == [d EXCEPT !.state = "Idle", !.start = TRUE, !.reconf = FALSE, !.fault = FALSE]

\* The end of updateConfigAndDeps for a changed enabled: clearLifecycleRequests,
\* then requestReconfigure and begin, or requestDisable.
Asked(d, enabled) ==
  LET q == clearLifecycleRequests([d EXCEPT !.enabled = enabled])
  IN IF enabled THEN [requestReconfigure(q) EXCEPT !.start = TRUE] ELSE requestDisable(q)

\* refreshDependentRuntimeStates, for a device whose dependencies have these statuses.
Refreshed(d, statuses) ==
  IF "Disabled" \in statuses /\ d.status # "Disabled" THEN requestDisable(d)
  ELSE IF statuses \ {"Ready", "Disabled"} # {} /\ d.status # "Reconfiguring"
       THEN requestReconfigure(d)
       ELSE d
-------------------------------------------------------------------------------
(* The machine that the devices that control one switch share: what stops  *)
(* it are its own requests and the status sw of that switch, nothing else. *)
SwitchedOff(d) == Goto(d, "Disabled", "Disabled")

\* Idle only knows of its own requests.
IdleTick(d) ==
  IF Unwanted(d) THEN SwitchedOff(d)
  ELSE [d EXCEPT !.state = IF d.start THEN "Starting" ELSE "Idle", !.status = "Creating"]

\* Where a state that looks at the switch first must go; {} when it may go on.
Stopped(d, sw) ==
  IF Unwanted(d) \/ sw = "Disabled" THEN {"Disabled"}
  ELSE IF sw # "Ready" THEN {"DependencyBlocked"}
  ELSE {}

StopOr(d, sw, up) ==
  IF Stopped(d, sw) = {} THEN up ELSE LET s == CHOOSE x \in Stopped(d, sw) : TRUE IN Goto(d, s, s)

StartingTick(d, sw) == StopOr(d, sw, Goto([d EXCEPT !.start = FALSE], "Ready", "Ready"))

ReconfiguringTick(d, sw) ==
  LET q == [d EXCEPT !.reconf = FALSE] IN StopOr(q, sw, Goto(q, "Ready", "Ready"))

ReadyTick(d, sw) == StopOr(d, sw, Goto(d, IF d.reconf THEN "Reconfiguring" ELSE "Ready", "Ready"))

(* Mutant: only a start, not a request, leads out of it. *)
DependencyBlockedUnasked(d, sw) ==
  IF d.disable \/ sw = "Disabled" THEN SwitchedOff(d)
  ELSE IF d.start /\ sw = "Ready" THEN Goto(d, "Reconfiguring", "Reconfiguring")
  ELSE Goto(d, "DependencyBlocked", "DependencyBlocked")

\* enabled is not looked at here.
DependencyBlockedTick(d, sw) ==
  IF d.disable \/ sw = "Disabled" THEN SwitchedOff(d)
  ELSE IF (d.reconf \/ d.start) /\ sw = "Ready" THEN Goto(d, "Reconfiguring", "Reconfiguring")
  ELSE Goto(d, "DependencyBlocked", "DependencyBlocked")

\* Leaves the status at Disabled for one more tick.
DisabledTick(d) == Goto(d, IF Unwanted(d) THEN "Disabled" ELSE "Reconfiguring", "Disabled")
=================================================================================
