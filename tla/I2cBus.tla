--------------------------------- MODULE I2cBus ---------------------------------
(***************************************************************************)
(* An I2C bus (I2cBusDevice) with a device that uses it, of one of two     *)
(* kinds: a probe, which measures in phases over several ticks (AHT10,     *)
(* HTU21), or a chip, a port expander (PCF8574, PCF8575) of which one      *)
(* channel is looked at.  Two users of a bus meet nowhere else.  The bus   *)
(* and a probe are ticked every 100 ms, a chip once a second.  Deadlines   *)
(* are not counted: each tick finds them reached or not.                   *)
(***************************************************************************)
EXTENDS BusLifecycle

CONSTANT MaxBusEvents    \* bound: configuration changes, and initializations of the bus that fail

ASSUME BusAssumption == MaxBusEvents \in Nat

VARIABLES
  bus,          \* I2cBusDevice; driver: does it run? gen: generation_; scanning: scan_.inProgress
  user,         \* a device on the bus, of a kind; last: lastDependencyGeneration_, errors: consecutiveErrors_;
                \* of a probe, shown: does it show a reading? asked: observer, the generation of the
                \* last trigger; of a chip, level: what its driver holds, pin: what it drives
  busFirst,     \* is the bus ticked before the user? (the order of the ids)
  mute,         \* does the user not answer?
  busRequests, busFaults   \* bounds

busVars == <<bus, user, busFirst, mute, busRequests, busFaults>>
-------------------------------------------------------------------------------
(* I2cAsyncTemperatureHumiditySensorDeviceBase *)
InitDelay(d, b, due) == Steady(d, b, Goto(d, IF due THEN "TriggerPhase" ELSE "InitDelay", "Starting"))

ProbeStarting(d, b, answers) ==
  HaltOr(d, b, Transacts(d, Lends(b), "Starting", answers,
                         Goto([d EXCEPT !.last = b.gen, !.start = FALSE], "InitDelay", "Starting")))

TriggerPhase(d, b, answers) ==
  Steady(d, b, Transacts(d, Lends(b), "Ready", answers, Goto([d EXCEPT !.asked = b.gen], "ReadPhase", "Ready")))

\* busy: the conversion takes longer; more: there is another phase.
ReadPhase(d, b, due, answers, busy, more) ==
  Steady(d, b,
    IF ~due THEN Goto(d, "ReadPhase", "Ready")
    ELSE IF Lends(b) /\ answers /\ busy THEN Goto([d EXCEPT !.shown = FALSE], "RetryBackoff", "Ready")
    ELSE Transacts(d, Lends(b), "Ready", answers,
           IF more THEN Goto(d, "TriggerPhase", "Ready")
           ELSE Goto([d EXCEPT !.shown = TRUE, !.errors = 0], "Ready", "Ready")))

\* The observer is of no interest once the result is read.
Asking(d) == [d EXCEPT !.asked = IF d.state = "ReadPhase" THEN @ ELSE 0]

\* Readings are withdrawn with the device, its bus or an answer.
Withdrawn(d, q) ==
  IF q.state \in {"Disabled", "DependencyBlocked"} \/ q.errors > d.errors \/ (d.state = "Idle" /\ d.start)
     \/ q.state = "Faulted"
  THEN [Asking(q) EXCEPT !.shown = FALSE] ELSE Asking(q)

ProbeTick(d, b, due, answers, busy, more) ==
  Withdrawn(d,
    CASE d.state = "Starting" -> ProbeStarting(d, b, answers)
      [] d.state = "InitDelay" -> InitDelay(d, b, due)
      [] d.state = "TriggerPhase" -> TriggerPhase(d, b, answers)
      [] d.state = "ReadPhase" -> ReadPhase(d, b, due, answers, busy, more)
      [] d.state = "Ready" -> Steady(d, b, Goto(d, IF due THEN "TriggerPhase" ELSE "Ready", "Ready"))
      [] OTHER -> QuietTick(d, b, due))
-------------------------------------------------------------------------------
(* Pcf857xExpanderDeviceBase *)
Written(d) == [d EXCEPT !.pin = d.level, !.errors = 0]

Syncing(d, b, answers) ==
  Steady(d, b, Transacts(d, Lends(b), "Ready", answers, Goto([Written(d) EXCEPT !.last = b.gen], "Ready", "Ready")))

ChipTick(d, b, due, answers) ==
  CASE d.state = "Starting" -> HaltOr(d, b, Goto([d EXCEPT !.start = FALSE], "Syncing", "Starting"))
    [] d.state = "Syncing" -> Syncing(d, b, answers)
    [] d.state = "Ready" -> Steady(d, b, Goto(d, IF due THEN "Syncing" ELSE "Ready", "Ready"))
    [] OTHER -> QuietTick(d, b, due)

\* requestChannelState: the driver takes the level, whether it can be written or not.
requestChannelState(d, b, v, answers) ==
  LET q == [d EXCEPT !.level = v]
  IN IF d.status # "Ready" \/ b.status # "Ready" \/ ~Lends(b) THEN q
     ELSE IF answers THEN Written(q)
     ELSE [Failed(q, q.status) EXCEPT !.state = q.state]
-------------------------------------------------------------------------------
(* The registry *)
UserTick(d, b, due, answers, busy, more) ==
  IF d.kind = "probe" THEN ProbeTick(d, b, due, answers, busy, more) ELSE ChipTick(d, b, due, answers)

Answers(b) == b.driver /\ ~mute

BusWorks(works) ==
  IF works THEN UNCHANGED busFaults
  ELSE bus.state # "Ready" /\ busRequests + busFaults < MaxBusEvents /\ busFaults' = busFaults + 1

RefreshUser(d) == user' = Refreshed(d, {bus'.status})

\* tick100ms
BusRound(works, last, due, busy, more) ==
  LET seen == IF busFirst THEN bus' ELSE bus
  IN /\ last => bus.state = "Scanning"
     /\ busy \/ more => user.state = "ReadPhase"
     /\ BusWorks(works)
     /\ bus' = BusTick(bus, works, last)
     /\ RefreshUser(IF user.kind = "chip" THEN user
                    ELSE ProbeTick(user, seen, due, Answers(seen), busy, more))
     /\ UNCHANGED <<busFirst, mute, busRequests>>

\* tick1s
ChipRound(due) ==
  /\ user.kind = "chip"
  /\ UNCHANGED <<bus, busFirst, mute, busRequests, busFaults>>
  /\ RefreshUser(ChipTick(user, bus, due, Answers(bus)))

AsksBus == busRequests + busFaults < MaxBusEvents /\ busRequests' = busRequests + 1

\* Another pin or frequency ends the driver and starts the machine over.
EditBus(enabled, rewired, works) ==
  LET b == IF rewired THEN resetStateMachine(releaseHardware(bus)) ELSE bus
  IN /\ AsksBus /\ BusWorks(works)
     /\ bus' = (IF enabled = bus.enabled THEN b
                ELSE IF enabled THEN BusTick(Asked(b, TRUE), works, FALSE)
                ELSE Asked(b, FALSE))
     /\ RefreshUser(requestReconfigure(user))
     /\ UNCHANGED <<busFirst, mute>>

\* Another address starts the machine of the user over.
EditUser(enabled, readdressed) ==
  LET d == IF readdressed THEN resetStateMachine(user) ELSE user
  IN /\ enabled # user.enabled \/ readdressed
     /\ AsksBus /\ UNCHANGED <<bus, busFirst, mute, busFaults>>
     /\ RefreshUser(IF enabled = user.enabled THEN d
                    ELSE IF enabled THEN UserTick(Asked(d, TRUE), bus, TRUE, Answers(bus), FALSE, FALSE)
                    ELSE Asked(d, FALSE))

\* The scan command of the portal.
startScan ==
  /\ bus.status = "Ready" /\ ~bus.scanning /\ Lends(bus)
  /\ bus' = [bus EXCEPT !.scanning = TRUE, !.state = "Scanning"]
  /\ RefreshUser(user)
  /\ UNCHANGED <<busFirst, mute, busRequests, busFaults>>

\* The device on the channel drives it.
DriveChannel(v) ==
  /\ user.kind = "chip"
  /\ user' = requestChannelState(user, bus, v, Answers(bus))
  /\ UNCHANGED <<bus, busFirst, mute, busRequests, busFaults>>

\* The user falls silent or answers again; a chip that has lost its supply comes
\* back with another level.
WireChanges ==
  /\ mute' = ~mute
  /\ \E v \in BOOLEAN : user' = IF user.kind = "chip" THEN [user EXCEPT !.pin = v] ELSE user
  /\ UNCHANGED <<bus, busFirst, busRequests, busFaults>>
-------------------------------------------------------------------------------
FreshProbe(enabled) ==
  IdleTick([state |-> "Idle", status |-> "Creating", start |-> TRUE, reconf |-> FALSE, disable |-> FALSE,
            fault |-> FALSE, enabled |-> enabled, kind |-> "probe", last |-> 0, errors |-> 0,
            shown |-> FALSE, asked |-> 0])

FreshChip(enabled) ==
  IdleTick([state |-> "Idle", status |-> "Creating", start |-> TRUE, reconf |-> FALSE, disable |-> FALSE,
            fault |-> FALSE, enabled |-> enabled, kind |-> "chip", last |-> 0, errors |-> 0,
            level |-> FALSE, pin |-> TRUE])

BusInit ==
  /\ bus = FreshBus
  /\ \E enabled \in BOOLEAN : user \in {FreshProbe(enabled), FreshChip(enabled)}
  /\ busFirst \in BOOLEAN
  /\ mute = FALSE /\ busRequests = 0 /\ busFaults = 0

BusNext ==
  \/ \E works, last, due, busy, more \in BOOLEAN : BusRound(works, last, due, busy, more)
  \/ \E due \in BOOLEAN : ChipRound(due)
  \/ \E enabled, changed \in BOOLEAN :
       \/ EditUser(enabled, changed)
       \/ \E works \in BOOLEAN : EditBus(enabled, changed, works)
  \/ startScan \/ WireChanges
  \/ \E v \in BOOLEAN : DriveChannel(v)

\* A tick that finds every deadline reached, and nothing that hinders.
PlainRound == BusRound(TRUE, FALSE, TRUE, FALSE, FALSE)

\* A measurement ends, and the conversion is not always too slow for it.
EndsMeasurement == user.state = "ReadPhase" /\ PlainRound

\* A scan comes to its last address.
EndsScan == bus.state = "Scanning" /\ BusRound(TRUE, TRUE, TRUE, FALSE, FALSE)

BusSpec == BusInit /\ [][BusNext]_busVars
  /\ WF_busVars(PlainRound)
  /\ SF_busVars(EndsMeasurement)
  /\ WF_busVars(EndsScan)
  /\ WF_busVars(ChipRound(TRUE))
-------------------------------------------------------------------------------
BusStates == States \cup {"Scanning"}
UserStates == States \cup {"InitDelay", "TriggerPhase", "ReadPhase", "Syncing", "RetryBackoff"}

BusTypeOK ==
  /\ bus.state \in BusStates /\ user.state \in UserStates
  /\ {bus.status, user.status} \subseteq Statuses
  /\ user.errors \in 0..FaultThreshold /\ user.last \in 0..bus.gen

\* A result is read from the sensor only under the initialization of the bus under
\* which it was asked for, and only as long as the driver runs.
ReadsWhatItAsked ==
  [][user.state = "ReadPhase" /\ user'.state \in {"Ready", "TriggerPhase"} =>
       user.asked = bus'.gen /\ bus'.driver]_busVars

\* A scan asked for after an edit and before the next tick skips the initialization:
\* the bus says that it is Ready and its driver has ended, until the next edit.
DeafBus == bus.state \in {"Scanning", "Ready"} /\ ~bus.driver

Well == bus.enabled /\ user.enabled /\ bus.status # "Faulted" /\ ~DeafBus /\ ~mute

InOrder == IF user.kind = "probe" THEN user.shown ELSE user.pin = user.level

\* A device that answers, on a bus that works, is not what it should be: a sensor has no
\* reading, or what was asked of a channel has not reached the pin, because it could not
\* be written at first or because the chip has lost its level since.
UserWaits == Well /\ ~InOrder
=================================================================================
