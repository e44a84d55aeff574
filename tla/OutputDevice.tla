------------------------------ MODULE OutputDevice ------------------------------
(***************************************************************************)
(* AbstractOutputDevice, as the switches on a GPIO pin and on a channel of *)
(* an expander use it.  An output is a Lifecycle record with the fields    *)
(*   on       currentState_                                                *)
(*   pin      the level the pin is driven to, or none; of a channel, the   *)
(*            level that the expander's driver holds and writes again and  *)
(*            again, even when the write that was asked for has failed     *)
(*   channel  is it a channel of an expander, which no release switches?   *)
(*   safe     the configured safeState                                     *)
(* It starts off: startupState, or the state retained, is not varied.  A   *)
(* GPIO pin always obeys, and a channel exists on its board.               *)
(***************************************************************************)
EXTENDS DeviceLifecycle

FreshOutput(enabled, channel, safe) ==
  [state |-> "Idle", status |-> "Creating", start |-> TRUE, reconf |-> FALSE, disable |-> FALSE,
   fault |-> FALSE, enabled |-> enabled, on |-> FALSE, pin |-> {}, channel |-> channel, safe |-> safe]

Hardware == {"works", "noWrite"}   \* what the driver answers

\* releaseHardware(): a pin becomes an input, a channel keeps its level.
Released(d) == IF d.channel THEN d ELSE [d EXCEPT !.pin = {}]

\* applyOutputState(v), outside of the status Ready or with another value.
Applied(d, v, hw) ==
  LET driven == [d EXCEPT !.pin = {v}]
  IN IF hw = "works" THEN [driven EXCEPT !.on = v] ELSE [driven EXCEPT !.fault = TRUE]

\* configureHardware() and applyOutputState(v), ending Ready or Faulted.
Powered(d, v, hw) ==
  LET end == IF hw = "works" THEN "Ready" ELSE "Faulted" IN Goto(Applied(d, v, hw), end, end)

(* Mutant: the safe state is only reported. *)
enterDisabledUndriven(d) == Goto(Released([d EXCEPT !.on = d.safe]), "Disabled", "Disabled")

\* The safe state is driven and reported, whatever the hardware answers.
enterDisabled(d) == Goto(Released([d EXCEPT !.on = d.safe, !.pin = {d.safe}]), "Disabled", "Disabled")

OutputStarting(d, depsReady, hw) ==
  IF ~depsReady THEN Goto(d, "DependencyBlocked", "DependencyBlocked")
  ELSE IF Unwanted(d) THEN enterDisabled(d)
  ELSE LET up == Powered(d, FALSE, hw)
       IN IF up.state = "Ready" THEN [up EXCEPT !.start = FALSE] ELSE up

OutputReady(d, depsReady, hw) ==
  IF ~depsReady THEN Goto(Released(d), "DependencyBlocked", "DependencyBlocked")
  ELSE IF Unwanted(d) THEN enterDisabled(d)
  ELSE IF d.reconf THEN Goto(d, "Reconfiguring", "Reconfiguring")
  ELSE IF d.fault THEN Goto(d, "Faulted", "Faulted")
  ELSE [d EXCEPT !.status = "Ready"]

OutputReconfiguring(d, depsReady, hw) ==
  LET q == Released([d EXCEPT !.reconf = FALSE])
  IN IF Unwanted(q) THEN enterDisabled(q)
     ELSE IF ~depsReady THEN Goto(q, "DependencyBlocked", "DependencyBlocked")
     ELSE Powered(q, q.on, hw)

OutputDependencyBlocked(d, depsReady) ==
  IF Unwanted(d) THEN enterDisabled(d)
  ELSE IF (d.reconf \/ d.start) /\ depsReady THEN Goto(d, "Reconfiguring", "Reconfiguring")
  ELSE [d EXCEPT !.status = "DependencyBlocked"]

OutputDisabled(d) ==
  IF d.reconf /\ d.enabled THEN Goto(d, "Reconfiguring", "Reconfiguring")
  ELSE [d EXCEPT !.status = "Disabled"]

OutputFaulted(d) ==
  IF d.reconf THEN Goto(Released([d EXCEPT !.fault = FALSE]), "Reconfiguring", "Reconfiguring")
  ELSE [Released(d) EXCEPT !.status = "Faulted"]

\* One tick of the machine, while the driver answers hw.
OutputTick(d, depsReady, hw) ==
  CASE d.state = "Idle" -> [d EXCEPT !.state = IF d.start THEN "Starting" ELSE "Idle", !.status = "Creating"]
    [] d.state = "Starting" -> OutputStarting(d, depsReady, hw)
    [] d.state = "Ready" -> OutputReady(d, depsReady, hw)
    [] d.state = "Reconfiguring" -> OutputReconfiguring(d, depsReady, hw)
    [] d.state = "DependencyBlocked" -> OutputDependencyBlocked(d, depsReady)
    [] d.state = "Disabled" -> OutputDisabled(d)
    [] d.state = "Faulted" -> OutputFaulted(d)

\* requestOutputState(v), by the portal or by the device that controls this one.
Accepts(d) == d.status = "Ready"
requestOutputState(d, v, hw) == IF Accepts(d) /\ v # d.on THEN Applied(d, v, hw) ELSE d

Outputs ==
  [state : States, status : Statuses, start : BOOLEAN, reconf : BOOLEAN, disable : BOOLEAN,
   fault : BOOLEAN, enabled : BOOLEAN, on : BOOLEAN, pin : {{}, {TRUE}, {FALSE}}, channel : BOOLEAN,
   safe : BOOLEAN]
=================================================================================
