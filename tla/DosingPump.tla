------------------------------- MODULE DosingPump -------------------------------
(***************************************************************************)
(* A dosing pump with the switch of its motor, its schedule of daily doses *)
(* and the retained state in which it keeps what it has given today.  The  *)
(* switch is ticked in every pass of the main loop and the pump every      *)
(* 100 ms; commands and edits come from the web server's task, under the   *)
(* registry's lock.  A power loss goes back to the retained state that was *)
(* written last.  The switch is a GPIO pin, which always obeys, or a       *)
(* channel of an expander, whose board and bus may fail.                   *)
(*                                                                         *)
(* Every day is a dosing day, and the wall clock moves on by minutes at no *)
(* fixed rate to the ticks.  An edit of the pump keeps its doses, and the  *)
(* switch it depends on is never replaced by another one.                  *)
(***************************************************************************)
EXTENDS OutputDevice, FiniteSets

CONSTANTS
  DoseMinutes,      \* minutes of the day of the doses: the slots
  GraceMinutes,     \* kDosingPumpGraceMinutes
  DayMinutes,       \* length of a day
  RunTicks,         \* longest run, in ticks of 100 ms
  LastDay,          \* bound: the days are 0..LastDay
  MaxDoserRequests, \* bound: commands and edits
  MaxUpsets         \* bound: power losses, corrections of the clock, failures of the expander
                    \* and of writes to it, together

ASSUME DosingAssumption ==
  /\ {GraceMinutes, DayMinutes, RunTicks} \subseteq Nat \ {0}
  /\ DoseMinutes \subseteq 0..(DayMinutes - 1)
  /\ {LastDay, MaxDoserRequests, MaxUpsets} \subseteq Nat

VARIABLES
  motorBoard,   \* status of the expander the switch is a channel of
  motor,        \* AbstractOutputDevice
  motorTicked,  \* has a pass ticked the switch since the last 100 ms tick?
  doser,        \* DosingPumpDevice
  run,          \* runActive_ and runEndMs_: {} or the ticks left
  kept,         \* state_: the day, the doses fired, the ones to skip, the mode
  stored,       \* the same in flash
  wall,         \* the local time; trusted once the clock has been set
  doserRequests, upsets, boardTroubles,   \* bounds
  meddled,      \* observer: "switch" once a command went to the switch itself, or an edit that
                \* enabled it gave it another pin too or came before it had gone through Disabled;
                \* "dose" once a dose was started while the pump was on its way to reconfigure
  forgotten,    \* observer: edits, power losses and corrections of the clock
  given         \* observer: how often a dose was started on a day

dosingVars == <<motorBoard, motor, motorTicked, doser, run, kept, stored, wall, doserRequests, upsets, boardTroubles,
                meddled, forgotten, given>>

Days == 0..LastDay
-------------------------------------------------------------------------------
(* DosingPumpSchedule *)
missedDoses(minute) == {s \in DoseMinutes : minute >= s + GraceMinutes}
dueDoses(minute, fired) == {s \in DoseMinutes \ fired : minute >= s /\ minute < s + GraceMinutes}
firstOf(due) == CHOOSE s \in due : \A other \in due : s <= other

-------------------------------------------------------------------------------
(* DosingPumpDevice: an effect on the motor, the run and the retained state *)
Now == [motor |-> motor, run |-> run, kept |-> kept, starts |-> {}]

(* Mutant: the end of a run is booked and the motor forgotten. *)
finishRunOnPaper(e, hw) == [e EXCEPT !.run = {}]

\* finishRun, and abortRunIfActive too: the motor is off after both, if it obeys.
finishRun(e, hw) == [e EXCEPT !.run = {}, !.motor = requestOutputState(@, FALSE, hw)]

\* startRun
startRun(e, ticks, hw) ==
  LET on == requestOutputState(e.motor, TRUE, hw)
  IN IF e.run = {} /\ doser.status = "Ready" /\ Accepts(e.motor) /\ on.on
     THEN [e EXCEPT !.run = {ticks}, !.motor = on]
     ELSE [e EXCEPT !.motor = IF e.run = {} /\ doser.status = "Ready" THEN on ELSE @]

\* The day may have changed, and doses may be past their grace period.
OnThisDay(k) == IF k.day = wall.day THEN k ELSE [k EXCEPT !.day = wall.day, !.fired = {}]
WithMissed(k) == [k EXCEPT !.fired = @ \cup missedDoses(wall.minute)]

(* Mutant: a dose counts as fired only when the motor did not take it. *)
evaluateScheduleUnfired(e, ticks, blocked, hw) ==
  LET k == WithMissed(OnThisDay(e.kept))
      due == dueDoses(wall.minute, k.fired)
      s == firstOf(due)
  IN IF ~wall.trusted THEN e
     ELSE IF ~k.auto \/ e.run # {} \/ due = {} THEN [e EXCEPT !.kept = k]
     ELSE IF s \in k.skip THEN [e EXCEPT !.kept = [k EXCEPT !.fired = @ \cup {s}, !.skip = @ \ {s}]]
     ELSE IF blocked THEN [e EXCEPT !.kept = [k EXCEPT !.fired = @ \cup {s}]]
     ELSE LET started == startRun([e EXCEPT !.kept = k], ticks, hw)
          IN [started EXCEPT !.starts = IF started.run # {} THEN {s} ELSE {}]

\* evaluateSchedule, once the status is Ready; blocked: the container is empty
\* and the configuration blocks automatic doses then.
evaluateSchedule(e, ticks, blocked, hw) ==
  LET k == WithMissed(OnThisDay(e.kept))
      due == dueDoses(wall.minute, k.fired)
      s == firstOf(due)
      fires == [k EXCEPT !.fired = @ \cup {s}]
  IN IF ~wall.trusted THEN e
     ELSE IF ~k.auto \/ e.run # {} \/ due = {} THEN [e EXCEPT !.kept = k]
     ELSE IF s \in k.skip THEN [e EXCEPT !.kept = [fires EXCEPT !.skip = @ \ {s}]]
     ELSE IF blocked THEN [e EXCEPT !.kept = fires]
     ELSE LET started == startRun([e EXCEPT !.kept = fires], ticks, hw)
          IN [started EXCEPT !.starts = IF started.run # {} THEN {s} ELSE {}]

\* tickReady: the schedule is looked at once a second.
tickReady(evaluates, ticks, blocked, hw) ==
  LET e == IF run = {0} THEN finishRun(Now, hw) ELSE Now
  IN IF evaluates THEN evaluateSchedule(e, ticks, blocked, hw) ELSE e

(* Mutant: a faulted switch faults the pump, which knows no way out of it. *)
DoserMachineFaulting(d) == IF motor.status = "Faulted" THEN Goto(d, "Faulted", "Faulted") ELSE IdleTick(d)

DoserMachine(d) ==
  CASE d.state = "Idle" -> IdleTick(d)
    [] d.state = "Starting" -> StartingTick(d, motor.status)
    [] d.state = "Ready" -> ReadyTick(d, motor.status)
    [] d.state = "Reconfiguring" -> ReconfiguringTick(d, motor.status)
    [] d.state = "DependencyBlocked" -> DependencyBlockedTick(d, motor.status)
    [] d.state = "Disabled" -> DisabledTick(d)

Leaves(d) == Stopped(d, motor.status) # {} \/ d.reconf

(* Mutant: a reconfiguration goes on with the run. *)
DoserEffectUnaborted(evaluates, ticks, blocked, hw) ==
  IF doser.state # "Ready" THEN Now
  ELSE IF Stopped(doser, motor.status) # {} THEN Now
  ELSE IF doser.reconf THEN finishRun(Now, hw)
  ELSE tickReady(evaluates, ticks, blocked, hw)

\* What a tick does besides its own machine: Ready guards its exits with an abort.
DoserEffect(evaluates, ticks, blocked, hw) ==
  IF doser.state # "Ready" THEN Now
  ELSE IF Leaves(doser) THEN finishRun(Now, hw)
  ELSE tickReady(evaluates, ticks, blocked, hw)
-------------------------------------------------------------------------------
(* The registry, the clock and the flash *)
BoardFails == upsets + boardTroubles < MaxUpsets /\ boardTroubles' = boardTroubles + 1

MotorTrouble(hw) ==
  IF hw = "works" THEN UNCHANGED boardTroubles
  ELSE motor.channel /\ BoardFails

MotorReady == ~motor.channel \/ motorBoard = "Ready"     \* dependenciesReady() of the switch
RefreshedMotor(d) == IF d.channel THEN Refreshed(d, {motorBoard'}) ELSE d

AsksDoser == doserRequests < MaxDoserRequests /\ doserRequests' = doserRequests + 1
Upset == upsets + boardTroubles < MaxUpsets /\ upsets' = upsets + 1 /\ forgotten' = forgotten + 1

RefreshDoser(d) == doser' = Refreshed(d, {motor'.status})

MotorTick(hw) ==
  /\ MotorTrouble(hw)
  /\ UNCHANGED motorBoard /\ motorTicked' = TRUE
  /\ motor' = RefreshedMotor(OutputTick(motor, MotorReady, hw))
  /\ RefreshDoser(doser)
  /\ UNCHANGED <<run, kept, stored, wall, doserRequests, upsets, meddled, forgotten, given>>

DoserTick(evaluates, ticks, blocked, hw) ==
  LET e == DoserEffect(evaluates, ticks, blocked, hw)
  IN /\ motorTicked /\ motorTicked' = FALSE
     /\ MotorTrouble(hw)
     /\ UNCHANGED motorBoard /\ motor' = RefreshedMotor(e.motor)
     /\ run' = {IF n = 0 THEN 0 ELSE n - 1 : n \in e.run}
     /\ kept' = e.kept
     /\ given' = [given EXCEPT ![wall.day] = [s \in DoseMinutes |-> @[s] + IF s \in e.starts THEN 1 ELSE 0]]
     /\ RefreshDoser(DoserMachine(doser))
     /\ UNCHANGED <<stored, wall, doserRequests, upsets, meddled, forgotten>>

\* startDose of the portal, by hand or to calibrate, and stopDose.
CommandDose(ticks, hw) ==
  /\ doser.status = "Ready" /\ run = {}
  /\ AsksDoser /\ MotorTrouble(hw) /\ UNCHANGED motorBoard
  /\ LET e == startRun(Now, ticks, hw) IN motor' = RefreshedMotor(e.motor) /\ run' = e.run
  /\ meddled' = meddled \cup IF doser.state = "Ready" THEN {} ELSE {"dose"}
  /\ RefreshDoser(doser)
  /\ UNCHANGED <<motorTicked, kept, stored, wall, upsets, forgotten, given>>

CommandStop(hw) ==
  /\ run # {}
  /\ AsksDoser /\ MotorTrouble(hw) /\ UNCHANGED motorBoard
  /\ LET e == finishRun(Now, hw) IN motor' = RefreshedMotor(e.motor) /\ run' = e.run
  /\ RefreshDoser(doser)
  /\ UNCHANGED <<motorTicked, kept, stored, wall, upsets, meddled, forgotten, given>>

\* setAutoMode and skipNext
CommandKept(k) ==
  /\ k # kept
  /\ AsksDoser
  /\ kept' = k
  /\ UNCHANGED <<motorBoard, motor>> /\ RefreshDoser(doser)
  /\ UNCHANGED <<motorTicked, run, stored, wall, upsets, boardTroubles, meddled, forgotten, given>>

\* A new configuration: the doses may be others, so the masks are cleared.  One that
\* enables the pump ticks it at once, and the request leads out of Ready.
EditDoser(enabled, hw) ==
  LET begins == enabled /\ ~doser.enabled
      e == IF begins /\ doser.state = "Ready" THEN finishRun(Now, hw) ELSE Now
  IN /\ AsksDoser /\ MotorTrouble(hw)
     /\ forgotten' = forgotten + 1
     /\ kept' = [kept EXCEPT !.fired = {}, !.skip = {}]
     /\ UNCHANGED motorBoard /\ motor' = RefreshedMotor(e.motor) /\ run' = e.run
     /\ RefreshDoser(IF begins THEN DoserMachine(Asked(doser, TRUE))
                     ELSE IF enabled = doser.enabled THEN doser
                     ELSE Asked(doser, FALSE))
     /\ UNCHANGED <<motorTicked, stored, wall, upsets, meddled, given>>

EditMotor(enabled, reset, hw) ==
  LET d == IF reset THEN resetStateMachine(Released(motor)) ELSE motor
  IN /\ AsksDoser /\ MotorTrouble(hw) /\ UNCHANGED motorBoard
     /\ motor' = RefreshedMotor(
          IF enabled = motor.enabled THEN d
          ELSE IF enabled THEN OutputTick(Asked(d, TRUE), MotorReady, hw)
          ELSE Asked(d, FALSE))
     /\ meddled' = meddled \cup
          IF enabled /\ ~motor.enabled /\ (reset \/ motor.state # "Disabled") THEN {"switch"} ELSE {}
     /\ RefreshDoser(requestReconfigure(doser))
     /\ UNCHANGED <<motorTicked, run, kept, stored, wall, upsets, forgotten, given>>

CommandMotor(v, hw) ==
  /\ Accepts(motor)
  /\ AsksDoser /\ MotorTrouble(hw) /\ UNCHANGED motorBoard
  /\ motor' = RefreshedMotor(requestOutputState(motor, v, hw))
  /\ meddled' = meddled \cup {"switch"}
  /\ RefreshDoser(doser)
  /\ UNCHANGED <<motorTicked, run, kept, stored, wall, upsets, forgotten, given>>

\* The board of the switch fails or comes back.
MotorBoardChanges(status) ==
  /\ motor.channel /\ status # motorBoard
  /\ IF motorBoard = "Ready" THEN BoardFails
     ELSE UNCHANGED boardTroubles
  /\ motorBoard' = status
  /\ motor' = RefreshedMotor(motor)
  /\ RefreshDoser(doser)
  /\ UNCHANGED <<motorTicked, run, kept, stored, wall, doserRequests, upsets, meddled, forgotten, given>>

\* The delayed write of the retained state.
StoreKept ==
  /\ stored # kept
  /\ stored' = kept
  /\ UNCHANGED <<motorBoard, motor, motorTicked, doser, run, kept, wall, doserRequests, upsets, boardTroubles, meddled, forgotten, given>>

\* The clock moves on by a minute, or is set after a boot without a valid time.
ClockAdvances ==
  /\ \/ wall.minute < DayMinutes - 1 /\ wall' = [wall EXCEPT !.minute = @ + 1]
     \/ wall.minute = DayMinutes - 1 /\ wall.day < LastDay
        /\ wall' = [wall EXCEPT !.minute = 0, !.day = @ + 1]
     \/ ~wall.trusted /\ wall' = [wall EXCEPT !.trusted = TRUE]
  /\ UNCHANGED <<motorBoard, motor, motorTicked, doser, run, kept, stored, doserRequests, upsets, boardTroubles, meddled, forgotten, given>>

\* A correction sets the clock back by a minute.
ClockSetBack ==
  /\ Upset
  /\ wall' = (IF wall.minute > 0 THEN [wall EXCEPT !.minute = @ - 1]
              ELSE [wall EXCEPT !.minute = DayMinutes - 1, !.day = @ - 1])
  /\ wall'.day >= 0
  /\ UNCHANGED <<motorBoard, motor, motorTicked, doser, run, kept, stored, doserRequests, boardTroubles, meddled, given>>

FreshMotor(enabled, channel) == OutputTick(FreshOutput(enabled, channel, FALSE), TRUE, "works")

PowerLoss ==
  /\ Upset
  /\ motorBoard' = "Ready" /\ motor' = FreshMotor(motor.enabled, motor.channel)
  /\ doser' = IdleTick(Fresh(doser.enabled))
  /\ motorTicked' = FALSE /\ run' = {} /\ kept' = stored
  /\ \E trusted \in BOOLEAN : wall' = [wall EXCEPT !.trusted = trusted]
  /\ UNCHANGED <<stored, doserRequests, boardTroubles, meddled, given>>
-------------------------------------------------------------------------------
Keeps == [day : Days, fired : SUBSET DoseMinutes, skip : SUBSET DoseMinutes, auto : BOOLEAN]

DosingInit ==
  /\ motorBoard = "Ready" /\ motor \in {FreshMotor(TRUE, channel) : channel \in BOOLEAN}
  /\ doser = IdleTick(Fresh(TRUE)) /\ run = {} /\ motorTicked = FALSE
  /\ kept = [day |-> 0, fired |-> {}, skip |-> {}, auto |-> TRUE] /\ stored = kept
  /\ wall = [day |-> 0, minute |-> 0, trusted |-> TRUE]
  /\ doserRequests = 0 /\ upsets = 0 /\ boardTroubles = 0
  /\ meddled = {} /\ forgotten = 0
  /\ given = [d \in Days |-> [s \in DoseMinutes |-> 0]]

DosingNext ==
  \/ \E hw \in Hardware :
       \/ MotorTick(hw) \/ CommandStop(hw)
       \/ \E evaluates, blocked \in BOOLEAN, ticks \in 1..RunTicks : DoserTick(evaluates, ticks, blocked, hw)
       \/ \E ticks \in 1..RunTicks : CommandDose(ticks, hw)
       \/ \E enabled, reset \in BOOLEAN : EditMotor(enabled, reset, hw)
       \/ \E v \in BOOLEAN : CommandMotor(v, hw)
       \/ \E enabled \in BOOLEAN : EditDoser(enabled, hw)
  \/ \E s \in {"Ready", "Reconfiguring", "Faulted"} : MotorBoardChanges(s)
  \/ CommandKept([kept EXCEPT !.auto = ~@])
  \/ \E s \in DoseMinutes : CommandKept([kept EXCEPT !.skip = @ \cup {s}]) \/ CommandKept([kept EXCEPT !.skip = @ \ {s}])
  \/ StoreKept \/ ClockAdvances \/ ClockSetBack \/ PowerLoss

TicksDoser ==
  \E evaluates, blocked \in BOOLEAN, ticks \in 1..RunTicks, hw \in Hardware :
    DoserTick(evaluates, ticks, blocked, hw)

DosingSpec == DosingInit /\ [][DosingNext]_dosingVars
  /\ WF_dosingVars(\E hw \in Hardware : MotorTick(hw))
  /\ WF_dosingVars(TicksDoser)
-------------------------------------------------------------------------------
DosingTypeOK ==
  /\ motor \in Outputs /\ doser.state \in States \ {"Faulted"} /\ doser.status \in Statuses
  /\ run \subseteq 0..RunTicks /\ Cardinality(run) <= 1
  /\ {kept, stored} \subseteq Keeps
  /\ wall \in [day : Days, minute : 0..(DayMinutes - 1), trusted : BOOLEAN]

Turns == TRUE \in motor.pin

Undisturbed == "switch" \notin meddled /\ boardTroubles = 0

\* As long as the board of the switch works, the motor turns only during a run,
\* unless somebody has switched it on past the pump or its switch is not ready.  An
\* edit that enables the switch on another way than through Disabled is left out: it
\* leaves a request that reconfigures the switch as soon as it is Ready, the OFF at the
\* end of a run that falls into that pass is refused, and ON is applied again.
MotorOnlyInRun ==
  Turns /\ Undisturbed => run # {} \/ motor.status # "Ready"

\* Once the motor turns it stops again, whatever happens to the pump, the switch or
\* the power in the meantime, as long as the board works.  A pump that is taken out of
\* service ends its run in Ready alone: left out is a dose started in the tick for which
\* it is still shown Ready on its way to reconfigure.
Rushed == "dose" \in meddled
MotorStops == Turns /\ Undisturbed /\ ~Rushed ~> ~Turns \/ ~Undisturbed \/ Rushed

\* A dose is given at most once on its day, and once more for each edit, power loss
\* or correction of the clock that made the pump forget it.
DoseOncePerDay == \A d \in Days, s \in DoseMinutes : given[d][s] <= 1 + forgotten
=================================================================================
