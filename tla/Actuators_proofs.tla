-------------------------- MODULE Actuators_proofs ---------------------------
(***************************************************************************)
(* Switches, thermostats and pumps, for any number of requests and         *)
(* troubles, any intervals and timeouts of the thermostat, any doses,      *)
(* grace period, length of the day and number of days.                     *)
(***************************************************************************)
EXTENDS MCActuators, FiniteSetTheorems, WellFoundedInduction, TLAPS

------------------------------------------------------------------------------
(* The machines of the switch, of its schedule and of the auto switch stay   *)
(* within their states, and while the hardware works the level at the pin is *)
(* the one that is shown, and the safe state once the switch is disabled.    *)

(* One output.                                                               *)

(* The pin follows what is shown, and a disabled output takes no command     *)
(* that would take it out of its safe state.                                 *)
Honest(d) ==
  /\ d.pin \subseteq {d.on}
  /\ d.state = "Disabled" => d.pin \subseteq {d.safe} /\ d.status # "Ready"

(* Honest as long as the hardware works.                                     *)
Good(d, works) == d \in Outputs /\ (works => Honest(d))

LEMMA GotoGood ==
  ASSUME NEW d \in Outputs, NEW works \in BOOLEAN, works => d.pin \subseteq {d.on},
         NEW s \in States \ {"Disabled"}, NEW t \in Statuses
  PROVE  Good(Goto(d, s, t), works)
  BY DEF Good, Honest, Goto, Outputs

LEMMA ReleasedGood ==
  ASSUME NEW d \in Outputs
  PROVE  /\ Released(d) \in Outputs /\ (d.pin \subseteq {d.on} => Released(d).pin \subseteq {Released(d).on})
         /\ Released(d).on = d.on /\ Released(d).state = d.state
  <1>1. CASE d.channel
    BY <1>1 DEF Released
  <1>2. CASE ~d.channel
    BY <1>2 DEF Released, Outputs
  <1> QED
    BY <1>1, <1>2

LEMMA AppliedGood ==
  ASSUME NEW d \in Outputs, NEW v \in BOOLEAN, NEW hw \in Hardware
  PROVE  /\ Applied(d, v, hw) \in Outputs /\ Applied(d, v, hw).state = d.state
         /\ hw = "works" => Applied(d, v, hw).pin = {v} /\ Applied(d, v, hw).on = v
  <1>1. [d EXCEPT !.pin = {v}] \in Outputs
    BY DEF Outputs
  <1> QED
    BY <1>1 DEF Applied, Outputs

LEMMA PoweredGood ==
  ASSUME NEW d \in Outputs, NEW v \in BOOLEAN, NEW hw \in Hardware, NEW works \in BOOLEAN,
         works => hw = "works"
  PROVE  Good(Powered(d, v, hw), works)
  <1> DEFINE a == Applied(d, v, hw)
  <1>1. a \in Outputs /\ (works => a.pin \subseteq {a.on})
    BY AppliedGood
  <1>2. {"Ready", "Faulted"} \subseteq (States \ {"Disabled"}) \cap Statuses
    BY DEF States, Statuses
  <1> HIDE DEF a
  <1>3. Good(Goto(a, "Ready", "Ready"), works) /\ Good(Goto(a, "Faulted", "Faulted"), works)
    BY <1>1, <1>2, GotoGood
  <1> QED
    BY <1>3 DEF Powered, a

LEMMA DisabledGood ==
  ASSUME NEW d \in Outputs
  PROVE  Good(enterDisabled(d), TRUE)
  <1> DEFINE q == [d EXCEPT !.on = d.safe, !.pin = {d.safe}]
  <1>1. q \in Outputs /\ q.pin = {q.on} /\ q.on = q.safe
    BY DEF Outputs
  <1> HIDE DEF q
  <1>2. CASE q.channel
    BY <1>1, <1>2 DEF enterDisabled, q, Released, Goto, Good, Honest, Outputs, States, Statuses
  <1>3. CASE ~q.channel
    BY <1>1, <1>3 DEF enterDisabled, q, Released, Goto, Good, Honest, Outputs, States, Statuses
  <1> QED
    BY <1>2, <1>3

LEMMA TickGood ==
  ASSUME NEW works \in BOOLEAN, NEW d, Good(d, works), NEW depsReady \in BOOLEAN, NEW hw \in Hardware,
         works => hw = "works"
  PROVE  Good(OutputTick(d, depsReady, hw), works)
  <1>t. d \in Outputs /\ d.state \in States /\ d.on \in BOOLEAN /\ (works => d.pin \subseteq {d.on})
    BY DEF Good, Honest, Outputs
  <1>s. States \ {"Disabled"} = {"Idle", "Starting", "Ready", "Reconfiguring", "DependencyBlocked", "Faulted"}
    BY DEF States
  <1>g. ASSUME NEW q \in Outputs, works => q.pin \subseteq {q.on},
               NEW s \in {"Starting", "Ready", "Reconfiguring", "DependencyBlocked", "Faulted"}
        PROVE  Good(Goto(q, s, s), works)
    BY <1>g, GotoGood DEF States, Statuses
  <1>k. ASSUME NEW q \in Outputs, works => q.pin \subseteq {q.on}, q.state # "Disabled", NEW s \in Statuses
        PROVE  Good([q EXCEPT !.status = s], works)
    BY <1>k DEF Good, Honest, Outputs
  <1>r. Released(d) \in Outputs /\ (works => Released(d).pin \subseteq {Released(d).on})
        /\ Released(d).state = d.state
    BY <1>t, ReleasedGood
  <1>1. CASE d.state = "Idle"
    <2>1. OutputTick(d, depsReady, hw) =
            [d EXCEPT !.state = IF d.start THEN "Starting" ELSE "Idle", !.status = "Creating"]
      BY <1>1 DEF OutputTick
    <2> QED
      BY <1>t, <2>1 DEF Good, Honest, Outputs, States, Statuses
  <1>2. CASE d.state = "Starting"
    <2>1. OutputTick(d, depsReady, hw) = OutputStarting(d, depsReady, hw)
      BY <1>2 DEF OutputTick
    <2>2. Good(Powered(d, FALSE, hw), works)
      BY <1>t, PoweredGood
    <2>3. Good([Powered(d, FALSE, hw) EXCEPT !.start = FALSE], works)
      BY <2>2 DEF Good, Honest, Outputs
    <2> QED
      BY <1>t, <1>g, <2>1, <2>2, <2>3, DisabledGood DEF OutputStarting, Good
  <1>3. CASE d.state = "Ready"
    <2>1. OutputTick(d, depsReady, hw) = OutputReady(d, depsReady, hw)
      BY <1>3 DEF OutputTick
    <2>2. Good([d EXCEPT !.status = "Ready"], works)
      BY <1>t, <1>k, <1>3 DEF Statuses
    <2> QED
      BY <1>t, <1>g, <1>r, <2>1, <2>2, DisabledGood DEF OutputReady, Good
  <1>4. CASE d.state = "Reconfiguring"
    <2> DEFINE q == Released([d EXCEPT !.reconf = FALSE])
    <2>1. OutputTick(d, depsReady, hw) = OutputReconfiguring(d, depsReady, hw)
      BY <1>4 DEF OutputTick
    <2>2. [d EXCEPT !.reconf = FALSE] \in Outputs
          /\ (works => [d EXCEPT !.reconf = FALSE].pin \subseteq {[d EXCEPT !.reconf = FALSE].on})
      BY <1>t DEF Outputs
    <2>3. q \in Outputs /\ (works => q.pin \subseteq {q.on})
      BY <2>2, ReleasedGood
    <2> HIDE DEF q
    <2>4. q.on \in BOOLEAN
      BY <2>3 DEF Outputs
    <2>5. Good(Powered(q, q.on, hw), works)
      BY <2>3, <2>4, PoweredGood
    <2>6. Good(enterDisabled(q), works) /\ Good(Goto(q, "DependencyBlocked", "DependencyBlocked"), works)
      BY <2>3, <1>g, DisabledGood DEF Good
    <2> QED
      BY <2>1, <2>5, <2>6 DEF OutputReconfiguring, q
  <1>5. CASE d.state = "DependencyBlocked"
    <2>1. OutputTick(d, depsReady, hw) = OutputDependencyBlocked(d, depsReady)
      BY <1>5 DEF OutputTick
    <2>2. Good([d EXCEPT !.status = "DependencyBlocked"], works)
      BY <1>t, <1>k, <1>5 DEF Statuses
    <2> QED
      BY <1>t, <1>g, <2>1, <2>2, DisabledGood DEF OutputDependencyBlocked, Good
  <1>6. CASE d.state = "Disabled"
    <2>1. OutputTick(d, depsReady, hw) = OutputDisabled(d)
      BY <1>6 DEF OutputTick
    <2>2. Good([d EXCEPT !.status = "Disabled"], works)
      BY DEF Good, Honest, Outputs, Statuses
    <2> QED
      BY <1>t, <1>g, <2>1, <2>2 DEF OutputDisabled
  <1>7. CASE d.state = "Faulted"
    <2>1. OutputTick(d, depsReady, hw) = OutputFaulted(d)
      BY <1>7 DEF OutputTick
    <2>2. Good([Released(d) EXCEPT !.status = "Faulted"], works)
      BY <1>r, <1>k, <1>7 DEF Statuses
    <2>3. [d EXCEPT !.fault = FALSE] \in Outputs
          /\ (works => [d EXCEPT !.fault = FALSE].pin \subseteq {[d EXCEPT !.fault = FALSE].on})
      BY <1>t DEF Outputs
    <2>4. Good(Goto(Released([d EXCEPT !.fault = FALSE]), "Reconfiguring", "Reconfiguring"), works)
      BY <2>3, <1>g, ReleasedGood
    <2> QED
      BY <2>1, <2>2, <2>4 DEF OutputFaulted
  <1> QED
    BY <1>t, <1>1, <1>2, <1>3, <1>4, <1>5, <1>6, <1>7 DEF States

LEMMA RequestGood ==
  ASSUME NEW works \in BOOLEAN, NEW d, Good(d, works), NEW v \in BOOLEAN, NEW hw \in Hardware,
         works => hw = "works"
  PROVE  Good(requestOutputState(d, v, hw), works)
  <1>1. CASE Accepts(d) /\ v # d.on
    <2>1. works => d.state # "Disabled"
      BY <1>1 DEF Good, Honest, Accepts
    <2>2. d \in Outputs
      BY DEF Good
    <2> DEFINE a == Applied(d, v, hw)
    <2>3. a \in Outputs /\ a.state = d.state /\ (hw = "works" => a.pin = {v} /\ a.on = v)
      BY <2>2, AppliedGood
    <2> HIDE DEF a
    <2>4. Good(a, works)
      BY <2>1, <2>3 DEF Good, Honest
    <2> QED
      BY <1>1, <2>4 DEF requestOutputState, a
  <1>2. CASE ~(Accepts(d) /\ v # d.on)
    BY <1>2 DEF requestOutputState
  <1> QED
    BY <1>1, <1>2

(* The requests of the registry touch neither the pin nor the state, and     *)
(* leave a status that takes no command.                                     *)
LEMMA AskedGood ==
  ASSUME NEW works \in BOOLEAN, NEW d, Good(d, works), NEW enabled \in BOOLEAN
  PROVE  /\ Good(requestDisable(d), works) /\ Good(requestReconfigure(d), works)
         /\ Good(Asked(d, enabled), works)
         /\ Good(resetStateMachine(Released(d)), works)
  <1>t. d \in Outputs
    BY DEF Good
  <1>1. Good(requestDisable(d), works) /\ Good(requestReconfigure(d), works)
    BY DEF Good, Honest, requestDisable, requestReconfigure, Outputs, Statuses
  <1>2. Good(Asked(d, enabled), works)
    <2> DEFINE e == [d EXCEPT !.enabled = enabled]
               q == clearLifecycleRequests(e)
               r == requestReconfigure(q)
    <2>1. e \in Outputs /\ Good(e, works)
      BY DEF Good, Honest, Outputs
    <2> HIDE DEF e
    <2>2. Good(q, works)
      BY <2>1 DEF Good, Honest, clearLifecycleRequests, Outputs
    <2> HIDE DEF q
    <2>3. Good(requestDisable(q), works) /\ Good(r, works)
      BY <2>2 DEF Good, Honest, requestDisable, requestReconfigure, Outputs, Statuses
    <2> HIDE DEF r
    <2>4. Good([r EXCEPT !.start = TRUE], works)
      BY <2>3 DEF Good, Honest, Outputs
    <2> QED
      BY <2>3, <2>4 DEF Asked, e, q, r
  <1>3. Good(resetStateMachine(Released(d)), works)
    <2> DEFINE q == Released(d)
    <2>1. q \in Outputs /\ (works => q.pin \subseteq {q.on})
      BY <1>t, ReleasedGood DEF Good, Honest
    <2> HIDE DEF q
    <2>2. Good(resetStateMachine(q), works)
      BY <2>1 DEF Good, Honest, resetStateMachine, Outputs, States
    <2> QED
      BY <2>2 DEF q
  <1> QED
    BY <1>1, <1>2, <1>3

LEMMA RefreshedGood ==
  ASSUME NEW works \in BOOLEAN, NEW d, Good(d, works)
  PROVE  Good(RefreshedLamp(d), works)
  <1>1. \A statuses : Good(Refreshed(d, statuses), works)
    BY AskedGood DEF Refreshed
  <1> QED
    BY <1>1 DEF RefreshedLamp

-----------------------------------------------------------------------------
(* The schedule and the auto switch.                                         *)

Runtimes ==
  [state : States \ {"Faulted"}, status : Statuses, start : BOOLEAN, reconf : BOOLEAN, disable : BOOLEAN,
   fault : BOOLEAN, enabled : BOOLEAN]

LEMMA RuntimeGoto ==
  ASSUME NEW d \in Runtimes, NEW s \in States \ {"Faulted"}, NEW t \in Statuses
  PROVE  /\ Goto(d, s, t) \in Runtimes /\ Goto(d, s, t).state = s
         /\ [d EXCEPT !.start = FALSE] \in Runtimes /\ [d EXCEPT !.reconf = FALSE] \in Runtimes
         /\ \A b \in BOOLEAN : [d EXCEPT !.enabled = b] \in Runtimes
  BY DEF Runtimes, Goto

(* A schedule depends on no switch, so nothing blocks it.                    *)
LEMMA StopOrGood ==
  ASSUME NEW d \in Runtimes, NEW sw, NEW up \in Runtimes
  PROVE  /\ StopOr(d, sw, up) \in Runtimes
         /\ sw = "Ready" /\ up.state # "DependencyBlocked" => StopOr(d, sw, up).state # "DependencyBlocked"
  <1>1. {"Disabled", "DependencyBlocked"} \subseteq (States \ {"Faulted"}) \cap Statuses
    BY DEF States, Statuses
  <1>2. CASE Stopped(d, sw) = {}
    BY <1>2 DEF StopOr
  <1>3. CASE Stopped(d, sw) = {"Disabled"}
    <2>1. StopOr(d, sw, up) = Goto(d, "Disabled", "Disabled")
      BY <1>3 DEF StopOr
    <2> QED
      BY <1>1, <2>1, RuntimeGoto
  <1>4. CASE Stopped(d, sw) = {"DependencyBlocked"}
    <2>1. StopOr(d, sw, up) = Goto(d, "DependencyBlocked", "DependencyBlocked")
      BY <1>4 DEF StopOr
    <2>2. sw # "Ready"
      BY <1>4 DEF Stopped
    <2>3. Goto(d, "DependencyBlocked", "DependencyBlocked") \in Runtimes
      BY <1>1, RuntimeGoto
    <2> QED
      BY <2>1, <2>2, <2>3
  <1> QED
    BY <1>2, <1>3, <1>4 DEF Stopped

LEMMA MachineGood ==
  ASSUME NEW d \in Runtimes, NEW sw
  PROVE  /\ {IdleTick(d), StartingTick(d, sw), ReadyTick(d, sw), ReconfiguringTick(d, sw),
             DependencyBlockedTick(d, sw), DisabledTick(d)} \subseteq Runtimes
         /\ sw = "Ready" => \A e \in {IdleTick(d), StartingTick(d, sw), ReadyTick(d, sw), ReconfiguringTick(d, sw),
                                      DisabledTick(d)} : e.state # "DependencyBlocked"
  <1>1. {"Disabled", "DependencyBlocked", "Ready", "Reconfiguring", "Starting"} \subseteq
          (States \ {"Faulted"}) \cap Statuses
    BY DEF States, Statuses
  <1>2. IdleTick(d) \in Runtimes /\ IdleTick(d).state # "DependencyBlocked"
    <2>1. SwitchedOff(d) \in Runtimes /\ SwitchedOff(d).state = "Disabled"
      BY <1>1, RuntimeGoto DEF SwitchedOff
    <2>2. [d EXCEPT !.state = IF d.start THEN "Starting" ELSE "Idle", !.status = "Creating"] \in Runtimes
      BY DEF Runtimes, States, Statuses
    <2>3. [d EXCEPT !.state = IF d.start THEN "Starting" ELSE "Idle", !.status = "Creating"].state \in {"Starting", "Idle"}
      BY DEF Runtimes
    <2> QED
      BY <2>1, <2>2, <2>3 DEF IdleTick
  <1>3. /\ StartingTick(d, sw) \in Runtimes
        /\ sw = "Ready" => StartingTick(d, sw).state # "DependencyBlocked"
    <2> DEFINE up == Goto([d EXCEPT !.start = FALSE], "Ready", "Ready")
    <2>1. up \in Runtimes /\ up.state = "Ready"
      BY <1>1, RuntimeGoto
    <2> HIDE DEF up
    <2>2. StartingTick(d, sw) = StopOr(d, sw, up)
      BY DEF StartingTick, up
    <2> QED
      BY <2>1, <2>2, StopOrGood
  <1>4. /\ ReadyTick(d, sw) \in Runtimes
        /\ sw = "Ready" => ReadyTick(d, sw).state # "DependencyBlocked"
    <2> DEFINE next == IF d.reconf THEN "Reconfiguring" ELSE "Ready"
               up == Goto(d, next, "Ready")
    <2>1. next \in {"Ready", "Reconfiguring"}
      OBVIOUS
    <2>2. ReadyTick(d, sw) = StopOr(d, sw, up)
      BY DEF ReadyTick
    <2> HIDE DEF next
    <2>3. next \in States \ {"Faulted"} /\ "Ready" \in Statuses
      BY <1>1, <2>1
    <2>4. up \in Runtimes /\ up.state = next
      BY <2>3, RuntimeGoto, Zenon
    <2> HIDE DEF up
    <2>5. up.state # "DependencyBlocked"
      BY <2>1, <2>4
    <2> QED
      BY <2>4, <2>2, <2>5, StopOrGood
  <1>5. /\ ReconfiguringTick(d, sw) \in Runtimes
        /\ sw = "Ready" => ReconfiguringTick(d, sw).state # "DependencyBlocked"
    <2> DEFINE q == [d EXCEPT !.reconf = FALSE]
               up == Goto(q, "Ready", "Ready")
    <2>1. q \in Runtimes /\ up \in Runtimes /\ up.state = "Ready"
      BY <1>1, RuntimeGoto
    <2> HIDE DEF q, up
    <2>2. ReconfiguringTick(d, sw) = StopOr(q, sw, up)
      BY DEF ReconfiguringTick, q, up
    <2> QED
      BY <2>1, <2>2, StopOrGood
  <1>6. DependencyBlockedTick(d, sw) \in Runtimes
    BY <1>1, RuntimeGoto DEF DependencyBlockedTick, SwitchedOff
  <1>7. DisabledTick(d) \in Runtimes /\ DisabledTick(d).state # "DependencyBlocked"
    BY <1>1, RuntimeGoto DEF DisabledTick
  <1> QED
    BY <1>2, <1>3, <1>4, <1>5, <1>6, <1>7

LEMMA SchedulePlays ==
  ASSUME NEW d \in Runtimes, d.state # "DependencyBlocked"
  PROVE  ScheduleTick(d) \in Runtimes /\ ScheduleTick(d).state # "DependencyBlocked"
  <1>1. d.state \in {"Idle", "Starting", "Ready", "Reconfiguring", "Disabled"}
    BY DEF Runtimes, States
  <1> QED
    BY <1>1, MachineGood DEF ScheduleTick

LEMMA AutoPlays == ASSUME NEW d \in Runtimes PROVE AutoMachine(d) \in Runtimes
  <1>1. d.state \in {"Idle", "Starting", "Ready", "Reconfiguring", "DependencyBlocked", "Disabled"}
    BY DEF Runtimes, States
  <1> QED
    BY <1>1, MachineGood DEF AutoMachine

LEMMA RequestsKept ==
  ASSUME NEW d \in Runtimes, NEW enabled \in BOOLEAN
  PROVE  /\ requestReconfigure(d) \in Runtimes /\ requestReconfigure(d).state = d.state
         /\ requestDisable(d) \in Runtimes /\ requestDisable(d).state = d.state
         /\ Asked(d, enabled) \in Runtimes /\ Asked(d, enabled).state = d.state
         /\ \A statuses : Refreshed(d, statuses) \in Runtimes
  <1>1. \A e \in Runtimes : /\ requestReconfigure(e) \in Runtimes /\ requestReconfigure(e).state = e.state
                            /\ requestDisable(e) \in Runtimes /\ requestDisable(e).state = e.state
    BY DEF Runtimes, requestReconfigure, requestDisable, Statuses
  <1>2. Asked(d, enabled) \in Runtimes /\ Asked(d, enabled).state = d.state
    <2> DEFINE e == [d EXCEPT !.enabled = enabled]
               q == clearLifecycleRequests(e)
               r == requestReconfigure(q)
    <2>1. e \in Runtimes /\ e.state = d.state
      BY DEF Runtimes
    <2> HIDE DEF e
    <2>2. q \in Runtimes /\ q.state = d.state
      BY <2>1 DEF clearLifecycleRequests, Runtimes
    <2> HIDE DEF q
    <2>3. r \in Runtimes /\ r.state = d.state /\ requestDisable(q) \in Runtimes /\ requestDisable(q).state = d.state
      BY <1>1, <2>2
    <2> HIDE DEF r
    <2>4. [r EXCEPT !.start = TRUE] \in Runtimes /\ [r EXCEPT !.start = TRUE].state = d.state
      BY <2>3 DEF Runtimes
    <2> QED
      BY <2>3, <2>4 DEF Asked, e, q, r
  <1> QED
    BY <1>1, <1>2 DEF Refreshed

-----------------------------------------------------------------------------
(* The three of them.                                                        *)

AutoRuntimes ==
  /\ plan \in Runtimes /\ plan.state # "DependencyBlocked"
  /\ auto \in Runtimes
  /\ board \in BoardStatuses /\ mode \in Modes /\ troubles \in Nat

AutoInv == AutoRuntimes /\ Good(lamp, troubles = 0)

(* A step without a trouble of the hardware keeps the output honest.         *)
LEMMA Untroubled ==
  ASSUME troubles \in Nat, troubles' = troubles \/ troubles' = troubles + 1, Good(lamp, troubles = 0)
  PROVE  troubles' \in Nat /\ (troubles' = 0) \in BOOLEAN /\ Good(lamp, troubles' = 0)
  BY DEF Good

LEMMA TroubleIs ==
  ASSUME troubles \in Nat, NEW hw, Trouble(hw)
  PROVE  (troubles' = troubles \/ troubles' = troubles + 1) /\ (troubles' = 0 => hw = "works")
  BY DEF Trouble

LEMMA AutoInitially == AutoInit => AutoInv
  <1> SUFFICES ASSUME AutoInit PROVE AutoInv
    OBVIOUS
  <1>1. \A enabled \in BOOLEAN : Fresh(enabled) \in Runtimes
    BY DEF Fresh, Runtimes, States, Statuses
  <1>2. \A enabled \in BOOLEAN : /\ IdleTick(Fresh(enabled)) \in Runtimes
                                 /\ IdleTick(Fresh(enabled)).state # "DependencyBlocked"
    <2>1. ASSUME NEW enabled \in BOOLEAN
          PROVE  IdleTick(Fresh(enabled)) \in Runtimes /\ IdleTick(Fresh(enabled)).state # "DependencyBlocked"
      <3> DEFINE sw == "Ready"
      <3>1. Fresh(enabled) \in Runtimes
        BY <1>1
      <3> QED
        BY <3>1, MachineGood
    <2> QED
      BY <2>1
  <1>3. PICK channel \in BOOLEAN : lamp = OutputTick(FreshOutput(TRUE, channel, TRUE), TRUE, "works")
    BY DEF AutoInit
  <1>4. Good(FreshOutput(TRUE, channel, TRUE), TRUE)
    BY DEF FreshOutput, Good, Honest, Outputs, States, Statuses
  <1>5. Good(lamp, TRUE)
    BY <1>3, <1>4, TickGood DEF Hardware
  <1> QED
    BY <1>2, <1>5 DEF AutoInit, AutoInv, AutoRuntimes, BoardStatuses, Modes, Good

LEMMA FastLooping == ASSUME AutoInv, NEW hw \in Hardware, tickFastLoop(hw) PROVE AutoInv'
  <1> DEFINE works == troubles' = 0
  <1>1. works \in BOOLEAN /\ troubles' \in Nat /\ Good(lamp, works) /\ (works => hw = "works")
    BY TroubleIs, Untroubled DEF AutoInv, AutoRuntimes, tickFastLoop
  <1> HIDE DEF works
  <1>2. Good(OutputTick(lamp, LampReady, hw), works)
    BY <1>1, TickGood DEF LampReady
  <1>3. Good(lamp', works)
    BY <1>1, <1>2, RefreshedGood DEF tickFastLoop
  <1>4. plan' \in Runtimes /\ plan'.state # "DependencyBlocked"
    BY SchedulePlays DEF AutoInv, AutoRuntimes, tickFastLoop
  <1>5. auto' \in Runtimes
    BY RequestsKept DEF AutoInv, AutoRuntimes, tickFastLoop, RefreshAuto
  <1> QED
    BY <1>1, <1>3, <1>4, <1>5 DEF AutoInv, AutoRuntimes, tickFastLoop, works

LEMMA Driving ==
  ASSUME AutoInv, NEW over \in BOOLEAN, NEW active \in BOOLEAN, NEW hw \in Hardware, tick1s(over, active, hw)
  PROVE  AutoInv'
  <1> DEFINE works == troubles' = 0
             resumes == mode = "Paused" /\ over
             m == IF resumes THEN "Auto" ELSE mode
             wanted == ~(forceOff \/ resumes) /\ desiredOutputState(m, active)
  <1>1. works \in BOOLEAN /\ troubles' \in Nat /\ Good(lamp, works) /\ (works => hw = "works")
    BY TroubleIs, Untroubled DEF AutoInv, AutoRuntimes, tick1s
  <1>2. lamp' = RefreshedLamp(requestOutputState(lamp, wanted, hw)) \/ lamp' = RefreshedLamp(lamp)
    BY DEF tick1s, applyDesiredOutput
  <1>3. mode' \in Modes
    BY DEF tick1s, applyDesiredOutput, AutoInv, AutoRuntimes, Modes
  <1> HIDE DEF works
  <1>4. wanted \in BOOLEAN
    OBVIOUS
  <1> HIDE DEF wanted
  <1>5. Good(requestOutputState(lamp, wanted, hw), works)
    BY <1>1, <1>4, RequestGood
  <1>6. Good(lamp', works)
    BY <1>1, <1>2, <1>5, RefreshedGood
  <1>7. auto' \in Runtimes
    BY AutoPlays, RequestsKept DEF AutoInv, AutoRuntimes, tick1s, RefreshAuto
  <1> QED
    BY <1>1, <1>3, <1>6, <1>7 DEF AutoInv, AutoRuntimes, tick1s, works

LEMMA LampEdited ==
  ASSUME AutoInv, NEW enabled \in BOOLEAN, NEW reset \in BOOLEAN, NEW hw \in Hardware, EditLamp(enabled, reset, hw)
  PROVE  AutoInv'
  <1> DEFINE works == troubles' = 0
             q == IF reset THEN resetStateMachine(Released(lamp)) ELSE lamp
             new == IF enabled = lamp.enabled THEN q
                    ELSE IF enabled THEN OutputTick(Asked(q, TRUE), LampReady, hw)
                    ELSE Asked(q, FALSE)
  <1>1. works \in BOOLEAN /\ troubles' \in Nat /\ Good(lamp, works) /\ (works => hw = "works")
    BY TroubleIs, Untroubled DEF AutoInv, AutoRuntimes, EditLamp
  <1>2. lamp' = RefreshedLamp(new)
    BY DEF EditLamp
  <1> HIDE DEF works
  <1>3. Good(q, works)
    BY <1>1, AskedGood
  <1> HIDE DEF q
  <1>4. Good(Asked(q, TRUE), works) /\ Good(Asked(q, FALSE), works)
    BY <1>1, <1>3, AskedGood
  <1>5. Good(OutputTick(Asked(q, TRUE), LampReady, hw), works)
    BY <1>1, <1>4, TickGood DEF LampReady
  <1>6. Good(new, works)
    BY <1>3, <1>4, <1>5
  <1> HIDE DEF new
  <1>7. Good(lamp', works)
    BY <1>1, <1>2, <1>6, RefreshedGood
  <1>8. auto' \in Runtimes
    BY RequestsKept DEF AutoInv, AutoRuntimes, EditLamp, RefreshAuto
  <1> QED
    BY <1>1, <1>7, <1>8 DEF AutoInv, AutoRuntimes, EditLamp, works

LEMMA PlanEdited == ASSUME AutoInv, NEW enabled \in BOOLEAN, EditPlan(enabled) PROVE AutoInv'
  <1>1. Good(lamp', troubles' = 0)
    <2>1. (troubles = 0) \in BOOLEAN /\ troubles' = troubles /\ lamp' = RefreshedLamp(lamp)
      BY DEF EditPlan
    <2> QED
      BY <2>1, RefreshedGood DEF AutoInv
  <1>2. Asked(plan, TRUE) \in Runtimes /\ Asked(plan, TRUE).state # "DependencyBlocked"
        /\ Asked(plan, FALSE) \in Runtimes /\ Asked(plan, FALSE).state # "DependencyBlocked"
    BY RequestsKept DEF AutoInv, AutoRuntimes
  <1>3. plan' \in Runtimes /\ plan'.state # "DependencyBlocked"
    BY <1>2, SchedulePlays DEF AutoInv, AutoRuntimes, EditPlan
  <1>4. auto' \in Runtimes
    BY RequestsKept DEF AutoInv, AutoRuntimes, EditPlan, RefreshAuto
  <1> QED
    BY <1>1, <1>3, <1>4 DEF AutoInv, AutoRuntimes, EditPlan

LEMMA AutoEdited == ASSUME AutoInv, NEW enabled \in BOOLEAN, EditAuto(enabled) PROVE AutoInv'
  <1>1. Good(lamp', troubles' = 0)
    <2>1. (troubles = 0) \in BOOLEAN /\ troubles' = troubles /\ lamp' = RefreshedLamp(lamp)
      BY DEF EditAuto
    <2> QED
      BY <2>1, RefreshedGood DEF AutoInv
  <1>2. Asked(auto, TRUE) \in Runtimes /\ Asked(auto, FALSE) \in Runtimes
    BY RequestsKept DEF AutoInv, AutoRuntimes
  <1>3. auto' \in Runtimes
    BY <1>2, AutoPlays, RequestsKept DEF EditAuto, RefreshAuto
  <1> QED
    BY <1>1, <1>3 DEF AutoInv, AutoRuntimes, EditAuto

LEMMA Commanded ==
  ASSUME AutoInv, NEW hw \in Hardware,
         (\E m \in Modes : Command(m, hw)) \/ (\E v \in BOOLEAN : CommandLamp(v, hw))
  PROVE  AutoInv'
  <1> DEFINE works == troubles' = 0
  <1>1. works \in BOOLEAN /\ troubles' \in Nat /\ Good(lamp, works) /\ (works => hw = "works")
    BY TroubleIs, Untroubled DEF AutoInv, AutoRuntimes, Command, CommandLamp
  <1> HIDE DEF works
  <1>2. \A v \in BOOLEAN : Good(requestOutputState(lamp, v, hw), works)
    BY <1>1, RequestGood
  <1>3. ASSUME NEW m \in Modes, Command(m, hw) PROVE Good(lamp', works) /\ mode' \in Modes
    <2>1. (m = "On") \in BOOLEAN
      OBVIOUS
    <2> QED
      BY <1>1, <1>2, <1>3, <2>1 DEF Command, setMode
  <1>4. ASSUME NEW v \in BOOLEAN, CommandLamp(v, hw) PROVE Good(lamp', works) /\ mode' \in Modes
    BY <1>2, <1>4 DEF CommandLamp, AutoInv, AutoRuntimes
  <1>5. UNCHANGED <<board, plan, auto>>
    BY DEF Command, CommandLamp
  <1>6. Good(lamp', works) /\ mode' \in Modes
    BY <1>3, <1>4
  <1> QED
    BY <1>1, <1>5, <1>6 DEF AutoInv, AutoRuntimes, works

LEMMA BoardChanging == ASSUME AutoInv, NEW s \in BoardStatuses, BoardChanges(s) PROVE AutoInv'
  <1> DEFINE works == troubles' = 0
  <1>1. works \in BOOLEAN /\ troubles' \in Nat /\ Good(lamp, works)
    BY Untroubled DEF AutoInv, AutoRuntimes, BoardChanges
  <1> HIDE DEF works
  <1>2. Good(requestReconfigure(lamp), works)
    BY <1>1, AskedGood
  <1>3. Good(lamp', works)
    BY <1>1, <1>2, RefreshedGood DEF BoardChanges
  <1>4. auto' \in Runtimes
    BY RequestsKept DEF AutoInv, AutoRuntimes, BoardChanges, RefreshAuto
  <1> QED
    BY <1>1, <1>3, <1>4 DEF AutoInv, AutoRuntimes, BoardChanges, works

LEMMA AutoSteps == AutoInv /\ [AutoNext]_autoVars => AutoInv'
  <1> SUFFICES ASSUME AutoInv, [AutoNext]_autoVars PROVE AutoInv'
    OBVIOUS
  <1>1. ASSUME NEW hw \in Hardware, tickFastLoop(hw) PROVE AutoInv'
    BY <1>1, FastLooping
  <1>2. ASSUME NEW hw \in Hardware, NEW over \in BOOLEAN, NEW active \in BOOLEAN, tick1s(over, active, hw)
        PROVE  AutoInv'
    BY <1>2, Driving
  <1>3. ASSUME NEW enabled \in BOOLEAN, NEW reset \in BOOLEAN, NEW hw \in Hardware, EditLamp(enabled, reset, hw)
        PROVE  AutoInv'
    BY <1>3, LampEdited
  <1>4. ASSUME NEW enabled \in BOOLEAN, EditPlan(enabled) \/ EditAuto(enabled) PROVE AutoInv'
    BY <1>4, PlanEdited, AutoEdited
  <1>5. ASSUME NEW hw \in Hardware,
               (\E m \in Modes : Command(m, hw)) \/ (\E v \in BOOLEAN : CommandLamp(v, hw))
        PROVE  AutoInv'
    BY <1>5, Commanded
  <1>6. ASSUME NEW s \in BoardStatuses, BoardChanges(s) PROVE AutoInv'
    BY <1>6, BoardChanging
  <1>7. CASE UNCHANGED autoVars
    BY <1>7 DEF autoVars, AutoInv, AutoRuntimes
  <1> QED
    BY <1>1, <1>2, <1>3, <1>4, <1>5, <1>6, <1>7 DEF AutoNext

LEMMA AutoAlways == AutoSpec => []AutoInv
  BY AutoInitially, AutoSteps, PTL DEF AutoSpec

LEMMA AutoTyped == AutoInv => AutoTypeOK
  BY DEF AutoInv, AutoRuntimes, AutoTypeOK, Good, Runtimes, BoardStatuses, Statuses

(* No request and no trouble takes a machine out of its states.              *)
THEOREM AutoTypeCorrect == AutoSpec => []AutoTypeOK
  BY AutoTyped, AutoAlways, PTL

(* As long as the hardware works, the pin is what the portal shows, through  *)
(* every edit, reset, command and trouble of the board.                      *)
THEOREM PinIsShown == AutoSpec => []SwitchHonest
  <1>1. AutoInv => SwitchHonest
    BY DEF AutoInv, Good, Honest, SwitchHonest
  <1> QED
    BY <1>1, AutoAlways, PTL

------------------------------------------------------------------------------
(* A dose is given once on its day, and once more for each edit, power loss  *)
(* or correction of the clock, however the ticks of the pump and the switch, *)
(* the commands, the writes of the retained state and the failures of the    *)
(* board follow each other.                                                  *)

(* The first of the doses that are due exists.                               *)
LEMMA Least ==
  ASSUME NEW T \in SUBSET Nat, T # {}
  PROVE  \E x \in T : \A y \in T : x <= y
  <1> DEFINE R == OpToRel(<, Nat)
  <1>1. IsWellFoundedOn(R, Nat)
    BY NatLessThanWellFounded, Zenon
  <1>2. PICK x \in T : \A y \in T : ~(<<y, x>> \in R)
    <2> HIDE DEF R
    <2> QED
      BY <1>1, WFMin
  <1>3. ASSUME NEW y \in T PROVE x <= y
    <2>1. ~(y < x)
      BY <1>2 DEF OpToRel
    <2> QED
      BY <2>1
  <1> QED
    BY <1>3

LEMMA FirstDue ==
  ASSUME NEW minute, NEW fired, dueDoses(minute, fired) # {}
  PROVE  firstOf(dueDoses(minute, fired)) \in DoseMinutes \ fired
  <1> DEFINE due == dueDoses(minute, fired)
  <1>1. DoseMinutes \subseteq Nat
    BY DosingAssumption
  <1>2. due \subseteq DoseMinutes \ fired
    BY DEF dueDoses
  <1>3. \E s \in due : \A other \in due : s <= other
    BY <1>1, <1>2, Least
  <1> HIDE DEF due
  <1>4. firstOf(due) \in due
    BY <1>3 DEF firstOf
  <1> QED
    BY <1>2, <1>4 DEF due

-----------------------------------------------------------------------------
(* The part of the type that the doses are about.                            *)
DosesType ==
  /\ wall \in [day : Days, minute : 0..(DayMinutes - 1), trusted : BOOLEAN]
  /\ kept \in Keeps /\ stored \in Keeps
  /\ given \in [Days -> [DoseMinutes -> Nat]]
  /\ forgotten \in Nat

(* The doses that the pump remembers to have dealt with on day d.            *)
Fired(k, d) == IF k.day = d THEN k.fired ELSE {}

(* A dose that is still to come has been given only before the pump forgot   *)
(* about it.                                                                 *)
ToCome(d, s) == d > wall.day \/ (d = wall.day /\ s \notin Fired(kept, d))

DosesCounted ==
  \A d \in Days, s \in DoseMinutes :
    /\ given[d][s] <= 1 + forgotten
    /\ ToCome(d, s) => given[d][s] <= forgotten

DoseInv == DosesType /\ DosesCounted

LEMMA DosingInitially == DosingInit => DoseInv
  <1> SUFFICES ASSUME DosingInit PROVE DoseInv
    OBVIOUS
  <1>1. 0 \in Days /\ 0 \in 0..(DayMinutes - 1)
    BY DosingAssumption DEF Days
  <1>2. DosesType
    BY <1>1 DEF DosingInit, DosesType, Keeps
  <1>3. \A d \in Days, s \in DoseMinutes : given[d][s] = 0
    BY DEF DosingInit
  <1> QED
    BY <1>2, <1>3 DEF DosingInit, DoseInv, DosesCounted

(* An edit, a power loss, a correction of the clock: one more dose may come. *)
LEMMA Forgetting ==
  ASSUME DoseInv, DosesType', given' = given, forgotten' = forgotten + 1
  PROVE  DoseInv'
  <1>1. ASSUME NEW d \in Days, NEW s \in DoseMinutes
        PROVE  given[d][s] <= forgotten' /\ given[d][s] <= 1 + forgotten'
    <2>1. given[d][s] \in Nat /\ forgotten \in Nat /\ given[d][s] <= 1 + forgotten
      BY DEF DoseInv, DosesType, DosesCounted
    <2> QED
      BY <2>1
  <1> QED
    BY <1>1 DEF DoseInv, DosesCounted

(* Nothing that the doses are about changes.                                 *)
LEMMA Ignoring ==
  ASSUME DoseInv, UNCHANGED <<wall, given, forgotten>>, stored' \in Keeps, kept' \in Keeps,
         kept'.day = kept.day, kept'.fired = kept.fired
  PROVE  DoseInv'
  BY DEF DoseInv, DosesType, DosesCounted, ToCome, Fired

-----------------------------------------------------------------------------
(* A tick of the pump.                                                       *)

(* What a tick may do: remember doses of the day, and start one at most that *)
(* was not remembered and is from now on.                                    *)
Remembers(e) ==
  /\ e.kept \in Keeps
  /\ \/ e.kept = kept /\ e.starts = {}
     \/ /\ e.kept.day = wall.day /\ Fired(kept, wall.day) \subseteq e.kept.fired
        /\ \/ e.starts = {}
           \/ \E s \in e.kept.fired \ Fired(kept, wall.day) : e.starts = {s}

LEMMA NowRemembers ==
  ASSUME DosesType, NEW hw
  PROVE  /\ Now.kept = kept /\ Now.starts = {}
         /\ finishRun(Now, hw).kept = kept /\ finishRun(Now, hw).starts = {}
         /\ Remembers(Now) /\ Remembers(finishRun(Now, hw))
  <1>1. Now.kept = kept /\ Now.starts = {} /\ finishRun(Now, hw).kept = kept /\ finishRun(Now, hw).starts = {}
    BY DEF Now, finishRun
  <1> QED
    BY <1>1 DEF Remembers, DosesType

(* The record that evaluateSchedule works on.                                *)
Effects(e) == e = [motor |-> e.motor, run |-> e.run, kept |-> e.kept, starts |-> e.starts]

LEMMA FinishRunKeeps ==
  ASSUME NEW e, Effects(e), NEW hw
  PROVE  Effects(finishRun(e, hw))
  <1> DEFINE off == requestOutputState(e.motor, FALSE, hw)
             ended == [e EXCEPT !.run = {}]
  <1>1. [motor |-> e.motor, run |-> e.run, kept |-> e.kept, starts |-> e.starts] = e
    BY DEF Effects
  <1>2. finishRun(e, hw) = [ended EXCEPT !.motor = off]
    BY <1>1 DEF finishRun
  <1> HIDE DEF off
  <1>3. ended = [motor |-> e.motor, run |-> {}, kept |-> e.kept, starts |-> e.starts]
    BY <1>1
  <1> HIDE DEF ended
  <1>4. [ended EXCEPT !.motor = off] = [motor |-> off, run |-> {}, kept |-> e.kept, starts |-> e.starts]
    BY <1>3
  <1> QED
    BY <1>2, <1>4 DEF Effects

LEMMA StartRunKeeps ==
  ASSUME NEW e, Effects(e), NEW ticks, NEW hw
  PROVE  /\ Effects(startRun(e, ticks, hw))
         /\ startRun(e, ticks, hw).kept = e.kept /\ startRun(e, ticks, hw).starts = e.starts
  <1> DEFINE on == requestOutputState(e.motor, TRUE, hw)
  <1>1. [motor |-> e.motor, run |-> e.run, kept |-> e.kept, starts |-> e.starts] = e
    BY DEF Effects
  <1> QED
    BY <1>1 DEF startRun, Effects

LEMMA Evaluating ==
  ASSUME DosesType, NEW e, Effects(e), e.kept = kept, e.starts = {}, NEW ticks, NEW blocked, NEW hw
  PROVE  Remembers(evaluateSchedule(e, ticks, blocked, hw))
  <1> DEFINE k == WithMissed(OnThisDay(e.kept))
             due == dueDoses(wall.minute, k.fired)
             s == firstOf(due)
             fires == [k EXCEPT !.fired = @ \cup {s}]
             result == evaluateSchedule(e, ticks, blocked, hw)
  <1>1. /\ k \in Keeps /\ k.day = wall.day /\ Fired(kept, wall.day) \subseteq k.fired
    BY DEF DosesType, Keeps, WithMissed, OnThisDay, missedDoses, Fired
  <1>2. due # {} => s \in DoseMinutes /\ s \notin k.fired
    BY FirstDue
  <1>3. due # {} => /\ fires \in Keeps /\ fires.day = wall.day /\ fires.fired = k.fired \cup {s}
                    /\ [fires EXCEPT !.skip = @ \ {s}] \in Keeps
                    /\ [fires EXCEPT !.skip = @ \ {s}].day = wall.day
                    /\ [fires EXCEPT !.skip = @ \ {s}].fired = k.fired \cup {s}
    BY <1>1, <1>2 DEF Keeps
  <1> HIDE DEF k, due, s, fires
  <1>4. CASE ~wall.trusted
    BY <1>4 DEF evaluateSchedule, Remembers, DosesType
  <1>5. CASE wall.trusted /\ (~k.auto \/ e.run # {} \/ due = {})
    BY <1>1, <1>5 DEF evaluateSchedule, Remembers, Effects, k, due
  <1>6. CASE wall.trusted /\ ~(~k.auto \/ e.run # {} \/ due = {}) /\ (s \in k.skip \/ blocked)
    BY <1>1, <1>3, <1>6 DEF evaluateSchedule, Remembers, Effects, k, due, s, fires
  <1>7. CASE wall.trusted /\ ~(~k.auto \/ e.run # {} \/ due = {}) /\ ~(s \in k.skip \/ blocked)
    <2> DEFINE with == [e EXCEPT !.kept = fires]
               started == startRun(with, ticks, hw)
    <2>1. Effects(with) /\ with.kept = fires /\ with.starts = {}
      BY DEF Effects
    <2>2. Effects(started) /\ started.kept = fires /\ started.starts = {}
      <3> HIDE DEF with
      <3> QED
        BY <2>1, StartRunKeeps
    <2>3. result = [started EXCEPT !.starts = IF started.run # {} THEN {s} ELSE {}]
      BY <1>7 DEF evaluateSchedule, k, due, s, fires
    <2>4. result.kept = fires /\ result.starts \in {{}, {s}}
      <3> HIDE DEF started
      <3> QED
        BY <2>2, <2>3 DEF Effects
    <2>5. s \in fires.fired \ Fired(kept, wall.day)
      BY <1>1, <1>2, <1>3, <1>7
    <2> QED
      BY <1>1, <1>3, <1>7, <2>4, <2>5 DEF Remembers
  <1> QED
    BY <1>4, <1>5, <1>6, <1>7

LEMMA EffectRemembers ==
  ASSUME DosesType, NEW evaluates, NEW ticks, NEW blocked, NEW hw
  PROVE  Remembers(DoserEffect(evaluates, ticks, blocked, hw))
  <1>1. Effects(Now) /\ Effects(finishRun(Now, hw))
    <2>1. Now = [motor |-> motor, run |-> run, kept |-> kept, starts |-> {}]
      BY DEF Now
    <2>2. Effects(Now)
      BY <2>1 DEF Effects
    <2> QED
      BY <2>2, FinishRunKeeps
  <1>2. \A e \in {Now, finishRun(Now, hw)} :
          Remembers(e) /\ Remembers(evaluateSchedule(e, ticks, blocked, hw))
    BY <1>1, NowRemembers, Evaluating
  <1>3. Remembers(tickReady(evaluates, ticks, blocked, hw))
    BY <1>2 DEF tickReady
  <1> QED
    BY <1>2, <1>3 DEF DoserEffect

LEMMA DoserTicks ==
  ASSUME DoseInv, NEW evaluates, NEW ticks, NEW blocked, NEW hw, DoserTick(evaluates, ticks, blocked, hw)
  PROVE  DoseInv'
  <1> DEFINE e == DoserEffect(evaluates, ticks, blocked, hw)
  <1>1. Remembers(e)
    BY EffectRemembers DEF DoseInv
  <1> HIDE DEF e
  <1>2. /\ kept' = e.kept /\ UNCHANGED <<wall, stored, forgotten>>
        /\ given' = [given EXCEPT ![wall.day] =
                       [s \in DoseMinutes |-> @[s] + IF s \in e.starts THEN 1 ELSE 0]]
    BY DEF DoserTick, e
  <1>t. given \in [Days -> [DoseMinutes -> Nat]] /\ wall.day \in Days /\ forgotten \in Nat
    BY DEF DoseInv, DosesType
  <1>3. \A d \in Days, s \in DoseMinutes :
          given'[d][s] = given[d][s] + IF d = wall.day /\ s \in e.starts THEN 1 ELSE 0
    BY <1>2, <1>t
  <1>4. given' \in [Days -> [DoseMinutes -> Nat]]
    BY <1>2, <1>t
  <1>5. DosesType'
    BY <1>1, <1>2, <1>4 DEF DoseInv, DosesType, Remembers
  <1>6. ASSUME NEW d \in Days, NEW s \in DoseMinutes
        PROVE  given'[d][s] <= 1 + forgotten /\ (ToCome(d, s)' => given'[d][s] <= forgotten)
    <2>1. /\ given[d][s] \in Nat /\ given[d][s] <= 1 + forgotten
          /\ ToCome(d, s) => given[d][s] <= forgotten
      BY <1>t DEF DoseInv, DosesCounted
    <2>2. CASE d = wall.day /\ s \in e.starts
      <3>1. s \in e.kept.fired \ Fired(kept, wall.day) /\ e.kept.day = wall.day
        BY <1>1, <2>2 DEF Remembers
      <3>2. ToCome(d, s) /\ ~ToCome(d, s)'
        BY <1>2, <1>t, <2>2, <3>1, DosingAssumption DEF ToCome, Fired, Days
      <3> QED
        BY <1>t, <1>3, <2>1, <2>2, <3>2
    <2>3. CASE ~(d = wall.day /\ s \in e.starts)
      <3>1. given'[d][s] = given[d][s]
        BY <1>3, <2>1, <2>3
      <3>2. ToCome(d, s)' => ToCome(d, s)
        BY <1>1, <1>2 DEF ToCome, Fired, Remembers
      <3> QED
        BY <2>1, <3>1, <3>2
    <2> QED
      BY <2>2, <2>3
  <1> QED
    BY <1>2, <1>5, <1>6 DEF DoseInv, DosesCounted

-----------------------------------------------------------------------------
(* The clock.                                                                *)

LEMMA Advancing == ASSUME DoseInv, ClockAdvances PROVE DoseInv'
  <1>1. /\ wall \in [day : Days, minute : 0..(DayMinutes - 1), trusted : BOOLEAN]
        /\ LastDay \in Nat /\ DayMinutes \in Nat \ {0}
        /\ wall.day \in Int /\ wall.day >= wall.day
    BY DosingAssumption DEF DoseInv, DosesType, Days
  <1>2. wall' \in [day : Days, minute : 0..(DayMinutes - 1), trusted : BOOLEAN] /\ wall'.day >= wall.day
    <2>1. CASE wall.minute < DayMinutes - 1 /\ wall' = [wall EXCEPT !.minute = @ + 1]
      <3>1. wall.minute + 1 \in 0..(DayMinutes - 1)
        BY <1>1, <2>1
      <3> QED
        BY <1>1, <2>1, <3>1
    <2>2. CASE wall.minute = DayMinutes - 1 /\ wall.day < LastDay
               /\ wall' = [wall EXCEPT !.minute = 0, !.day = @ + 1]
      <3>1. wall.day + 1 \in Days /\ wall.day + 1 >= wall.day /\ 0 \in 0..(DayMinutes - 1)
        BY <1>1, <2>2 DEF Days
      <3> QED
        BY <1>1, <2>2, <3>1
    <2>3. CASE ~wall.trusted /\ wall' = [wall EXCEPT !.trusted = TRUE]
      BY <1>1, <2>3
    <2> QED
      BY <2>1, <2>2, <2>3 DEF ClockAdvances
  <1>3. UNCHANGED <<kept, stored, given, forgotten>>
    BY DEF ClockAdvances
  <1>4. DosesType'
    BY <1>2, <1>3 DEF DoseInv, DosesType
  <1>5. \A d \in Days, s \in DoseMinutes : ToCome(d, s)' => ToCome(d, s)
    BY <1>1, <1>2, <1>3 DEF ToCome, Days
  <1> QED
    BY <1>3, <1>4, <1>5 DEF DoseInv, DosesCounted

LEMMA SettingBack == ASSUME DoseInv, ClockSetBack PROVE DoseInv'
  <1>1. /\ wall \in [day : Days, minute : 0..(DayMinutes - 1), trusted : BOOLEAN]
        /\ LastDay \in Nat /\ DayMinutes \in Nat \ {0}
    BY DosingAssumption DEF DoseInv, DosesType
  <1>2. wall' \in [day : Days, minute : 0..(DayMinutes - 1), trusted : BOOLEAN]
    <2>1. CASE wall.minute > 0
      <3>1. wall.minute - 1 \in 0..(DayMinutes - 1) /\ wall' = [wall EXCEPT !.minute = @ - 1]
        BY <1>1, <2>1 DEF ClockSetBack
      <3> QED
        BY <1>1, <3>1
    <2>2. CASE ~(wall.minute > 0)
      <3>1. wall' = [wall EXCEPT !.minute = DayMinutes - 1, !.day = @ - 1] /\ wall'.day >= 0
        BY <2>2 DEF ClockSetBack
      <3>2. wall'.day = wall.day - 1
        BY <1>1, <3>1
      <3>3. wall.day - 1 \in Days /\ DayMinutes - 1 \in 0..(DayMinutes - 1)
        BY <1>1, <3>1, <3>2 DEF Days
      <3> QED
        BY <1>1, <3>1, <3>3
    <2> QED
      BY <2>1, <2>2
  <1>3. DosesType' /\ given' = given /\ forgotten' = forgotten + 1
    BY <1>2 DEF ClockSetBack, Upset, DoseInv, DosesType
  <1> QED
    BY <1>3, Forgetting

-----------------------------------------------------------------------------
(* Every other step.                                                         *)

DosesUntouched == UNCHANGED <<kept, wall, given, forgotten>> /\ (stored' = stored \/ stored' = kept)

LEMMA Untouched == ASSUME DoseInv, DosesUntouched PROVE DoseInv'
  BY Ignoring DEF DosesUntouched, DoseInv, DosesType

LEMMA DosingSteps == DoseInv /\ [DosingNext]_dosingVars => DoseInv'
  <1> SUFFICES ASSUME DoseInv, [DosingNext]_dosingVars PROVE DoseInv'
    OBVIOUS
  <1>1. ASSUME NEW hw \in Hardware,
               \/ MotorTick(hw) \/ CommandStop(hw)
               \/ \E ticks \in 1..RunTicks : CommandDose(ticks, hw)
               \/ \E enabled, reset \in BOOLEAN : EditMotor(enabled, reset, hw)
               \/ \E v \in BOOLEAN : CommandMotor(v, hw)
        PROVE  DoseInv'
    <2>1. DosesUntouched
      BY <1>1 DEF DosesUntouched, MotorTick, CommandStop, CommandDose, EditMotor, CommandMotor
    <2> QED
      BY <2>1, Untouched
  <1>2. ASSUME NEW hw \in Hardware, NEW evaluates \in BOOLEAN, NEW blocked \in BOOLEAN,
               NEW ticks \in 1..RunTicks, DoserTick(evaluates, ticks, blocked, hw)
        PROVE  DoseInv'
    BY <1>2, DoserTicks
  <1>3. ASSUME NEW s \in {"Ready", "Reconfiguring", "Faulted"}, MotorBoardChanges(s) PROVE DoseInv'
    BY <1>3, Untouched DEF DosesUntouched, MotorBoardChanges
  <1>4. ASSUME NEW k, CommandKept(k), k \in Keeps, k.day = kept.day, k.fired = kept.fired PROVE DoseInv'
    BY <1>4, Ignoring DEF CommandKept, DoseInv, DosesType
  <1>5. CASE CommandKept([kept EXCEPT !.auto = ~@])
    <2>1. /\ [kept EXCEPT !.auto = ~@] \in Keeps /\ [kept EXCEPT !.auto = ~@].day = kept.day
          /\ [kept EXCEPT !.auto = ~@].fired = kept.fired
      BY DEF DoseInv, DosesType, Keeps
    <2> QED
      BY <1>4, <1>5, <2>1
  <1>6. ASSUME NEW s \in DoseMinutes, NEW k,
               k \in {[kept EXCEPT !.skip = @ \cup {s}], [kept EXCEPT !.skip = @ \ {s}]}, CommandKept(k)
        PROVE  DoseInv'
    <2>1. k \in Keeps /\ k.day = kept.day /\ k.fired = kept.fired
      BY <1>6 DEF DoseInv, DosesType, Keeps
    <2> QED
      BY <1>4, <1>6, <2>1
  <1>7. ASSUME NEW enabled \in BOOLEAN, NEW hw \in Hardware, EditDoser(enabled, hw) PROVE DoseInv'
    <2>1. kept' \in Keeps /\ UNCHANGED <<wall, stored, given>> /\ forgotten' = forgotten + 1
      BY <1>7 DEF EditDoser, DoseInv, DosesType, Keeps
    <2>2. DosesType'
      BY <2>1 DEF DoseInv, DosesType
    <2> QED
      BY <2>1, <2>2, Forgetting
  <1>8. CASE StoreKept \/ UNCHANGED dosingVars
    BY <1>8, Untouched DEF DosesUntouched, StoreKept, dosingVars
  <1>9. CASE ClockAdvances
    BY <1>9, Advancing
  <1>10. CASE ClockSetBack
    BY <1>10, SettingBack
  <1>11. CASE PowerLoss
    <2>1. PICK trusted \in BOOLEAN : wall' = [wall EXCEPT !.trusted = trusted]
      BY <1>11 DEF PowerLoss
    <2>2. wall' \in [day : Days, minute : 0..(DayMinutes - 1), trusted : BOOLEAN]
      BY <2>1 DEF DoseInv, DosesType
    <2>3. DosesType' /\ given' = given /\ forgotten' = forgotten + 1
      BY <1>11, <2>2 DEF PowerLoss, Upset, DoseInv, DosesType
    <2> QED
      BY <2>3, Forgetting
  <1> QED
    BY <1>1, <1>2, <1>3, <1>5, <1>6, <1>7, <1>8, <1>9, <1>10, <1>11 DEF DosingNext

LEMMA DosesAlways == DosingSpec => []DoseInv
  BY DosingInitially, DosingSteps, PTL DEF DosingSpec

(* No dose is given twice on its day, but for the times the pump was made to *)
(* forget it by an edit, a power loss or a correction of the clock.          *)
THEOREM NoDoseTwice == DosingSpec => []DoseOncePerDay
  <1>1. DoseInv => DoseOncePerDay
    BY DEF DoseInv, DosesCounted, DoseOncePerDay
  <1> QED
    BY <1>1, DosesAlways, PTL

-----------------------------------------------------------------------------
(* The motor of the pump, as long as its switch obeys and nobody meddles.    *)

(* A switch that is on without a run takes no command then, and its way on   *)
(* leads through Disabled or Starting, which end off: it is reconfigured,    *)
(* with what it shows applied again, only after it was Disabled.             *)
Calm(d, running) ==
  /\ ~d.fault /\ ~d.safe /\ d.state \notin {"DependencyBlocked", "Faulted"}
  /\ d.pin \subseteq {d.on}
  /\ d.state \in {"Reconfiguring", "Disabled"} => ~d.on /\ d.status # "Ready"
  /\ d.state = "Ready" => d.status = "Ready" \/ d.disable
  /\ d.reconf => d.state = "Reconfiguring"
  /\ d.on /\ ~running => d.status # "Ready"

LEMMA CalmRequest ==
  ASSUME NEW d \in Outputs, NEW running \in BOOLEAN, Calm(d, running)
  PROVE  /\ Calm(requestOutputState(d, FALSE, "works"), FALSE)
         /\ Calm(requestOutputState(d, TRUE, "works"), TRUE)
         /\ Accepts(d) => requestOutputState(d, TRUE, "works").on
         /\ ~Accepts(d) => Calm(requestOutputState(d, TRUE, "works"), FALSE)
  <1>1. ASSUME NEW v \in BOOLEAN, Accepts(d), v # d.on
        PROVE  /\ Calm(requestOutputState(d, v, "works"), v)
               /\ requestOutputState(d, v, "works").on = v
    <2>1. requestOutputState(d, v, "works") = [[d EXCEPT !.pin = {v}] EXCEPT !.on = v]
      BY <1>1 DEF requestOutputState, Applied
    <2> DEFINE r == [[d EXCEPT !.pin = {v}] EXCEPT !.on = v]
    <2>2. /\ r.state = d.state /\ r.status = "Ready" /\ r.fault = d.fault /\ r.safe = d.safe
          /\ r.disable = d.disable /\ r.reconf = d.reconf /\ r.pin = {v} /\ r.on = v
      BY <1>1 DEF Accepts, Outputs
    <2>3. d.status = "Ready"
      BY <1>1 DEF Accepts
    <2> HIDE DEF r
    <2>4. Calm(r, v)
      BY <2>2, <2>3 DEF Calm
    <2> QED
      BY <2>1, <2>2, <2>4 DEF r
  <1>2. ASSUME NEW v \in BOOLEAN, ~(Accepts(d) /\ v # d.on)
        PROVE  requestOutputState(d, v, "works") = d
    BY <1>2 DEF requestOutputState
  <1>3. Calm(d, TRUE) /\ (~Accepts(d) \/ ~d.on => Calm(d, FALSE)) /\ d.on \in BOOLEAN
    BY DEF Calm, Accepts, Outputs
  <1> QED
    BY <1>1, <1>2, <1>3

(* A disabled switch is off, whatever it was before.                         *)
LEMMA CalmDisabled ==
  ASSUME NEW d \in Outputs, ~d.fault, ~d.safe, ~d.reconf
  PROVE  Calm(enterDisabled(d), FALSE)
  <1> DEFINE q == [d EXCEPT !.on = d.safe, !.pin = {d.safe}]
  <1>1. q \in Outputs /\ q.pin = {q.on} /\ ~q.on /\ ~q.fault /\ ~q.safe /\ ~q.reconf
    BY DEF Outputs
  <1> HIDE DEF q
  <1>2. CASE q.channel
    BY <1>1, <1>2 DEF enterDisabled, q, Released, Goto, Calm, Outputs
  <1>3. CASE ~q.channel
    BY <1>1, <1>3 DEF enterDisabled, q, Released, Goto, Calm, Outputs
  <1> QED
    BY <1>2, <1>3

(* Driven off, it starts or is reconfigured.                                 *)
LEMMA CalmPowered ==
  ASSUME NEW d \in Outputs, ~d.fault, ~d.safe, ~d.reconf
  PROVE  /\ Calm(Powered(d, FALSE, "works"), FALSE)
         /\ Calm([Powered(d, FALSE, "works") EXCEPT !.start = FALSE], FALSE)
  <1> DEFINE q == [[d EXCEPT !.pin = {FALSE}] EXCEPT !.on = FALSE]
  <1>1. q \in Outputs /\ q.pin = {FALSE} /\ q.on = FALSE /\ ~q.fault /\ ~q.safe /\ ~q.reconf
    BY DEF Outputs
  <1>2. Powered(d, FALSE, "works") = Goto(q, "Ready", "Ready")
    BY DEF Powered, Applied
  <1> HIDE DEF q
  <1> QED
    BY <1>1, <1>2 DEF Goto, Calm, Outputs

LEMMA CalmWeaker ==
  ASSUME NEW d, NEW running \in BOOLEAN, Calm(d, FALSE) PROVE Calm(d, running)
  BY DEF Calm

LEMMA CalmTick ==
  ASSUME NEW d \in Outputs, NEW running \in BOOLEAN, Calm(d, running)
  PROVE  Calm(OutputTick(d, TRUE, "works"), running)
  <1>1. d.state \in {"Idle", "Starting", "Ready", "Reconfiguring", "Disabled"}
    BY DEF Calm, Outputs, States
  <1>2. CASE d.state = "Idle"
    <2>1. OutputTick(d, TRUE, "works") =
            [d EXCEPT !.state = IF d.start THEN "Starting" ELSE "Idle", !.status = "Creating"]
      BY <1>2 DEF OutputTick
    <2> QED
      BY <1>2, <2>1 DEF Calm, Outputs
  <1>3. CASE d.state = "Starting"
    <2>1. OutputTick(d, TRUE, "works") = OutputStarting(d, TRUE, "works")
      BY <1>3 DEF OutputTick
    <2>2. ~d.fault /\ ~d.safe /\ ~d.reconf
      BY <1>3 DEF Calm
    <2>3. Calm(OutputStarting(d, TRUE, "works"), FALSE)
      BY <2>2, CalmDisabled, CalmPowered DEF OutputStarting
    <2> QED
      BY <2>1, <2>3, CalmWeaker
  <1>4. CASE d.state = "Ready"
    <2>1. OutputTick(d, TRUE, "works") = OutputReady(d, TRUE, "works")
      BY <1>4 DEF OutputTick
    <2>2. ~d.fault /\ ~d.safe /\ ~d.reconf /\ (d.status = "Ready" \/ d.disable)
      BY <1>4 DEF Calm
    <2>3. CASE Unwanted(d)
      BY <2>1, <2>2, <2>3, CalmDisabled, CalmWeaker DEF OutputReady
    <2>4. CASE ~Unwanted(d)
      <3>1. OutputReady(d, TRUE, "works") = [d EXCEPT !.status = "Ready"] /\ d.status = "Ready"
        BY <2>2, <2>4 DEF OutputReady, Unwanted
      <3>2. [d EXCEPT !.status = "Ready"] = d
        BY <3>1 DEF Outputs
      <3> QED
        BY <2>1, <3>1, <3>2
    <2> QED
      BY <2>3, <2>4
  <1>5. CASE d.state = "Reconfiguring"
    <2> DEFINE p == [d EXCEPT !.reconf = FALSE]
               q == Released(p)
    <2>1. OutputTick(d, TRUE, "works") = OutputReconfiguring(d, TRUE, "works")
      BY <1>5 DEF OutputTick
    <2>2. p \in Outputs /\ ~p.on /\ ~p.fault /\ ~p.safe /\ ~p.reconf
      BY <1>5 DEF Calm, Outputs
    <2> HIDE DEF p
    <2>3. q \in Outputs /\ ~q.on /\ ~q.fault /\ ~q.safe /\ ~q.reconf /\ q.on = FALSE
      BY <2>2 DEF Released, Outputs
    <2> HIDE DEF q
    <2>4. Calm(enterDisabled(q), FALSE) /\ Calm(Powered(q, FALSE, "works"), FALSE)
      BY <2>3, CalmDisabled, CalmPowered
    <2>5. OutputReconfiguring(d, TRUE, "works") = IF Unwanted(q) THEN enterDisabled(q) ELSE Powered(q, q.on, "works")
      BY DEF OutputReconfiguring, q, p
    <2> QED
      BY <2>1, <2>3, <2>4, <2>5, CalmWeaker
  <1>6. CASE d.state = "Disabled"
    <2>1. OutputTick(d, TRUE, "works") = [d EXCEPT !.status = "Disabled"]
      BY <1>6 DEF OutputTick, OutputDisabled, Calm
    <2> QED
      BY <1>6, <2>1 DEF Calm, Outputs
  <1> QED
    BY <1>1, <1>2, <1>3, <1>4, <1>5, <1>6

(* Edits: another pin, and switching off; it is switched on from Disabled.   *)
LEMMA CalmEdits ==
  ASSUME NEW d \in Outputs, NEW running \in BOOLEAN, Calm(d, running)
  PROVE  /\ Calm(resetStateMachine(Released(d)), running)
         /\ Calm(Asked(d, FALSE), running)
         /\ d.state = "Disabled" => Calm(OutputTick(Asked(d, TRUE), TRUE, "works"), running)
  <1>1. Calm(resetStateMachine(Released(d)), running)
    <2> DEFINE q == Released(d)
    <2>1. q \in Outputs /\ q.pin \subseteq {q.on} /\ ~q.safe /\ (q.on /\ ~running => q.status # "Ready")
      BY DEF Released, Calm, Outputs
    <2> HIDE DEF q
    <2>2. Calm(resetStateMachine(q), running)
      BY <2>1 DEF Calm, resetStateMachine, Outputs
    <2> QED
      BY <2>2 DEF q
  <1> DEFINE e(b) == [d EXCEPT !.enabled = b]
             q(b) == clearLifecycleRequests(e(b))
  <1>2. \A b \in BOOLEAN :
          /\ q(b) \in Outputs /\ ~q(b).fault /\ ~q(b).reconf /\ q(b).enabled = b
          /\ q(b).state = d.state /\ q(b).on = d.on /\ q(b).pin = d.pin /\ q(b).safe = d.safe
    BY DEF clearLifecycleRequests, Outputs
  <1>3. Asked(d, FALSE) = requestDisable(q(FALSE))
        /\ Asked(d, TRUE) = [requestReconfigure(q(TRUE)) EXCEPT !.start = TRUE]
    BY DEF Asked
  <1> HIDE DEF q
  <1>4. Calm(Asked(d, FALSE), running)
    <2>1. \A x \in Outputs : ~x.fault /\ ~x.reconf /\ x.state = d.state /\ x.on = d.on /\ x.pin = d.pin /\ x.safe = d.safe
                             => Calm(requestDisable(x), running)
      BY DEF Calm, requestDisable, Outputs
    <2> QED
      BY <1>2, <1>3, <2>1
  <1>5. ASSUME d.state = "Disabled" PROVE Calm(OutputTick(Asked(d, TRUE), TRUE, "works"), running)
    <2> DEFINE a == Asked(d, TRUE)
    <2>1. \A x \in Outputs :
            /\ requestReconfigure(x) \in Outputs
            /\ [requestReconfigure(x) EXCEPT !.start = TRUE] \in Outputs
      BY DEF requestReconfigure, Outputs, Statuses
    <2>2. \A x \in Outputs : \A y :
            y = [requestReconfigure(x) EXCEPT !.start = TRUE] =>
              /\ y.reconf /\ y.state = x.state /\ y.on = x.on /\ y.pin = x.pin /\ y.safe = x.safe
              /\ y.fault = x.fault /\ y.enabled = x.enabled
      BY DEF requestReconfigure, Outputs
    <2>3. a \in Outputs
      BY <1>2, <1>3, <2>1
    <2>4. /\ a.reconf /\ a.state = d.state /\ a.on = d.on /\ a.pin = d.pin /\ a.safe = d.safe
          /\ ~a.fault /\ a.enabled
      <3>1. q(TRUE) \in Outputs /\ a = [requestReconfigure(q(TRUE)) EXCEPT !.start = TRUE]
        BY <1>2, <1>3
      <3> HIDE DEF a
      <3>2. /\ a.reconf /\ a.state = q(TRUE).state /\ a.on = q(TRUE).on /\ a.pin = q(TRUE).pin
            /\ a.safe = q(TRUE).safe /\ a.fault = q(TRUE).fault /\ a.enabled = q(TRUE).enabled
        BY <2>2, <3>1
      <3> QED
        BY <1>2, <3>2
    <2> HIDE DEF a
    <2>5. OutputTick(a, TRUE, "works") = Goto(a, "Reconfiguring", "Reconfiguring")
      BY <1>5, <2>4 DEF OutputTick, OutputDisabled
    <2>6. Calm(Goto(a, "Reconfiguring", "Reconfiguring"), running)
      BY <1>5, <2>3, <2>4 DEF Goto, Calm, Outputs
    <2> QED
      BY <2>5, <2>6 DEF a
  <1> QED
    BY <1>1, <1>4, <1>5

-----------------------------------------------------------------------------
Runs == {{}} \cup {{n} : n \in 0..RunTicks}

MotorInv ==
  /\ motor \in Outputs /\ doser \in Runtimes /\ run \in Runs /\ boardTroubles \in Nat
  /\ Undisturbed => motorBoard = "Ready" /\ Calm(motor, run # {})

(* What an effect on the motor and the run keeps.                            *)
RunsOrRests(e, hw) ==
  /\ e.motor \in Outputs /\ e.run \in Runs
  /\ Undisturbed /\ hw = "works" => Calm(e.motor, e.run # {})

LEMMA RequestType ==
  ASSUME NEW d \in Outputs, NEW v \in BOOLEAN, NEW hw \in Hardware
  PROVE  requestOutputState(d, v, hw) \in Outputs
  BY AppliedGood DEF requestOutputState

LEMMA FinishRunRests ==
  ASSUME NEW e, Effects(e), NEW hw \in Hardware, RunsOrRests(e, hw)
  PROVE  RunsOrRests(finishRun(e, hw), hw) /\ finishRun(e, hw).run = {}
  <1> DEFINE off == requestOutputState(e.motor, FALSE, hw)
  <1>1. off \in Outputs
    BY RequestType DEF RunsOrRests
  <1>2. Undisturbed /\ hw = "works" => Calm(off, FALSE)
    BY CalmRequest DEF RunsOrRests
  <1>3. [motor |-> e.motor, run |-> e.run, kept |-> e.kept, starts |-> e.starts] = e
    BY DEF Effects
  <1>4. finishRun(e, hw) = [[e EXCEPT !.run = {}] EXCEPT !.motor = off]
    BY <1>3 DEF finishRun
  <1> HIDE DEF off
  <1>5. finishRun(e, hw).motor = off /\ finishRun(e, hw).run = {}
    BY <1>3, <1>4
  <1> QED
    BY <1>1, <1>2, <1>5 DEF RunsOrRests, Runs

LEMMA StartRunRuns ==
  ASSUME NEW e, Effects(e), NEW ticks \in 1..RunTicks, NEW hw \in Hardware, RunsOrRests(e, hw)
  PROVE  RunsOrRests(startRun(e, ticks, hw), hw)
  <1> DEFINE on == requestOutputState(e.motor, TRUE, hw)
             s == startRun(e, ticks, hw)
  <1>1. on \in Outputs
    BY RequestType DEF RunsOrRests
  <1>2. Undisturbed /\ hw = "works" =>
          /\ Calm(on, TRUE)
          /\ Accepts(e.motor) => on.on
          /\ ~Accepts(e.motor) => Calm(on, FALSE)
    BY CalmRequest DEF RunsOrRests
  <1>3. [motor |-> e.motor, run |-> e.run, kept |-> e.kept, starts |-> e.starts] = e
    BY DEF Effects
  <1>4. {ticks} \in Runs
    BY DosingAssumption DEF Runs
  <1>5. CASE e.run = {} /\ doser.status = "Ready" /\ Accepts(e.motor) /\ on.on
    <2>1. s = [[e EXCEPT !.run = {ticks}] EXCEPT !.motor = on]
      BY <1>3, <1>5 DEF startRun
    <2> HIDE DEF on, s
    <2>2. s.motor = on /\ s.run = {ticks}
      BY <1>3, <2>1
    <2> QED
      BY <1>1, <1>2, <1>4, <2>2 DEF RunsOrRests, s
  <1>6. CASE e.run = {} /\ doser.status = "Ready" /\ ~(Accepts(e.motor) /\ on.on)
    <2>1. s = [e EXCEPT !.motor = on]
      BY <1>6 DEF startRun
    <2> HIDE DEF on, s
    <2>2. s.motor = on /\ s.run = {}
      BY <1>3, <1>6, <2>1
    <2> QED
      BY <1>1, <1>2, <1>6, <2>2 DEF RunsOrRests, Runs, s
  <1>7. CASE ~(e.run = {} /\ doser.status = "Ready")
    <2>1. s.motor = e.motor /\ s.run = e.run
      BY <1>3, <1>7 DEF startRun
    <2> QED
      BY <2>1 DEF RunsOrRests
  <1> QED
    BY <1>5, <1>6, <1>7

LEMMA ScheduleRuns ==
  ASSUME NEW e, Effects(e), NEW ticks \in 1..RunTicks, NEW blocked, NEW hw \in Hardware, RunsOrRests(e, hw)
  PROVE  RunsOrRests(evaluateSchedule(e, ticks, blocked, hw), hw)
  <1> DEFINE k == WithMissed(OnThisDay(e.kept))
             due == dueDoses(wall.minute, k.fired)
             s == firstOf(due)
             fires == [k EXCEPT !.fired = @ \cup {s}]
             skips == [fires EXCEPT !.skip = @ \ {s}]
             Keeping(x) == [e EXCEPT !.kept = x]
             started == startRun(Keeping(fires), ticks, hw)
  <1>1. \A x : Effects(Keeping(x)) /\ RunsOrRests(Keeping(x), hw)
    BY DEF Effects, RunsOrRests
  <1>2. Effects(started) /\ RunsOrRests(started, hw)
    BY <1>1, StartRunKeeps, StartRunRuns
  <1>3. \A x : RunsOrRests([started EXCEPT !.starts = x], hw)
    <2> HIDE DEF started
    <2> QED
      BY <1>2 DEF Effects, RunsOrRests
  <1>4. evaluateSchedule(e, ticks, blocked, hw) \in
          {e, Keeping(k), Keeping(skips), Keeping(fires),
           [started EXCEPT !.starts = IF started.run # {} THEN {s} ELSE {}]}
    BY DEF evaluateSchedule
  <1> HIDE DEF k, due, s, fires, skips, started, Keeping
  <1> QED
    BY <1>1, <1>3, <1>4

LEMMA EffectRuns ==
  ASSUME MotorInv, NEW evaluates, NEW ticks \in 1..RunTicks, NEW blocked, NEW hw \in Hardware
  PROVE  RunsOrRests(DoserEffect(evaluates, ticks, blocked, hw), hw)
  <1>1. Effects(Now) /\ Now.motor = motor /\ Now.run = run
    <2>1. Now = [motor |-> motor, run |-> run, kept |-> kept, starts |-> {}]
      BY DEF Now
    <2> QED
      BY <2>1 DEF Effects
  <1>2. RunsOrRests(Now, hw)
    BY <1>1 DEF RunsOrRests, MotorInv
  <1>3. Effects(finishRun(Now, hw)) /\ RunsOrRests(finishRun(Now, hw), hw)
    BY <1>1, <1>2, FinishRunKeeps, FinishRunRests
  <1>4. RunsOrRests(tickReady(evaluates, ticks, blocked, hw), hw)
    BY <1>1, <1>2, <1>3, ScheduleRuns DEF tickReady
  <1> QED
    BY <1>2, <1>3, <1>4 DEF DoserEffect

(* The registry's refresh leaves a switch alone whose board is Ready.        *)
LEMMA RefreshedMotorGood ==
  ASSUME NEW d \in Outputs
  PROVE  RefreshedMotor(d) \in Outputs /\ (motorBoard' = "Ready" => RefreshedMotor(d) = d)
  <1>1. Good(d, FALSE)
    BY DEF Good
  <1>2. requestDisable(d) \in Outputs /\ requestReconfigure(d) \in Outputs
    BY <1>1, AskedGood DEF Good
  <1> QED
    BY <1>2 DEF RefreshedMotor, Refreshed

LEMMA DoserMachineGood == ASSUME NEW d \in Runtimes PROVE DoserMachine(d) \in Runtimes
  <1>1. d.state \in {"Idle", "Starting", "Ready", "Reconfiguring", "DependencyBlocked", "Disabled"}
    BY DEF Runtimes, States
  <1>2. DoserMachine(d) \in {IdleTick(d), StartingTick(d, motor.status), ReadyTick(d, motor.status),
          ReconfiguringTick(d, motor.status), DependencyBlockedTick(d, motor.status), DisabledTick(d)}
    BY <1>1 DEF DoserMachine
  <1> QED
    BY <1>2, MachineGood

(* After a boot the switch starts off, and so do the pump's requests.        *)
LEMMA FreshCalm ==
  ASSUME NEW enabled \in BOOLEAN, NEW channel \in BOOLEAN
  PROVE  FreshMotor(enabled, channel) \in Outputs /\ Calm(FreshMotor(enabled, channel), FALSE)
  <1> DEFINE f == FreshOutput(enabled, channel, FALSE)
  <1>1. f \in Outputs /\ Calm(f, FALSE)
    BY DEF FreshOutput, Outputs, Calm, States, Statuses
  <1>2. Good(f, FALSE) /\ "works" \in Hardware
    BY <1>1 DEF Good, Hardware
  <1> HIDE DEF f
  <1>3. Good(OutputTick(f, TRUE, "works"), FALSE)
    BY <1>2, TickGood
  <1> QED
    BY <1>1, <1>3, CalmTick DEF FreshMotor, Good, f

LEMMA FreshRuntime == ASSUME NEW enabled \in BOOLEAN PROVE IdleTick(Fresh(enabled)) \in Runtimes
  <1>1. Fresh(enabled) \in Runtimes
    BY DEF Fresh, Runtimes, States, Statuses
  <1>2. \A sw : {IdleTick(Fresh(enabled))} \subseteq Runtimes
    BY <1>1, MachineGood
  <1> QED
    BY <1>2

-----------------------------------------------------------------------------
(* The steps: one in which the hardware fails, or somebody meddles, ends the *)
(* undisturbed ones; in the others the board of the switch stays Ready.      *)

LEMMA Hardly ==
  ASSUME MotorInv, NEW hw \in Hardware, MotorTrouble(hw)
  PROVE  boardTroubles' \in Nat /\ (boardTroubles' = 0 => boardTroubles = 0 /\ hw = "works")
  <1>1. CASE hw = "works"
    BY <1>1 DEF MotorTrouble, MotorInv
  <1>2. CASE hw # "works"
    <2>1. boardTroubles' = boardTroubles + 1 /\ boardTroubles \in Nat
      BY <1>2 DEF MotorTrouble, BoardFails, MotorInv
    <2> QED
      BY <2>1
  <1> QED
    BY <1>1, <1>2

LEMMA DoserRefreshed ==
  ASSUME NEW d \in Runtimes, RefreshDoser(d) PROVE doser' \in Runtimes
  <1>1. {d.enabled, TRUE} \subseteq BOOLEAN
    BY DEF Runtimes
  <1> QED
    BY <1>1, RequestsKept DEF RefreshDoser

(* What is common to all steps that drive the switch to d and the run to r.  *)
LEMMA MotorDriven ==
  ASSUME MotorInv, NEW d \in Outputs, NEW r \in Runs, NEW p \in Runtimes,
         motorBoard' = motorBoard, motor' = RefreshedMotor(d), (run' = {}) = (r = {}), run' \in Runs,
         boardTroubles' \in Nat, RefreshDoser(p),
         Undisturbed' => Undisturbed /\ Calm(d, r # {})
  PROVE  MotorInv'
  <1>1. motor' \in Outputs /\ (motorBoard' = "Ready" => motor' = d)
    BY RefreshedMotorGood
  <1>2. doser' \in Runtimes
    BY DoserRefreshed
  <1>3. Undisturbed' => motorBoard' = "Ready" /\ Calm(motor', r # {})
    BY <1>1 DEF MotorInv
  <1> QED
    BY <1>1, <1>2, <1>3 DEF MotorInv

LEMMA MotorInitially == DosingInit => MotorInv
  <1> SUFFICES ASSUME DosingInit PROVE MotorInv
    OBVIOUS
  <1>1. PICK channel \in BOOLEAN : motor = FreshMotor(TRUE, channel)
    BY DEF DosingInit
  <1>2. motor \in Outputs /\ Calm(motor, FALSE)
    BY <1>1, FreshCalm
  <1>3. doser \in Runtimes
    BY FreshRuntime DEF DosingInit
  <1> QED
    BY <1>2, <1>3 DEF DosingInit, MotorInv, Runs

LEMMA MotorTicks == ASSUME MotorInv, NEW hw \in Hardware, MotorTick(hw) PROVE MotorInv'
  <1> DEFINE d == OutputTick(motor, MotorReady, hw)
  <1>1. motor \in Outputs /\ doser \in Runtimes /\ run \in Runs /\ run' = run
    BY DEF MotorInv, MotorTick
  <1>2. d \in Outputs
    <2>1. MotorReady \in BOOLEAN /\ Good(motor, FALSE)
      BY <1>1 DEF MotorReady, Good, Outputs
    <2> QED
      BY <2>1, TickGood DEF Good
  <1>3. boardTroubles' \in Nat /\ (boardTroubles' = 0 => boardTroubles = 0 /\ hw = "works") /\ meddled' = meddled
    BY Hardly DEF MotorTick
  <1>4. Undisturbed' => Undisturbed /\ Calm(d, run # {})
    <2> SUFFICES ASSUME Undisturbed' PROVE Undisturbed /\ Calm(d, run # {})
      OBVIOUS
    <2>1. Undisturbed /\ hw = "works"
      BY <1>3 DEF Undisturbed
    <2>2. MotorReady = TRUE /\ Calm(motor, run # {})
      BY <2>1 DEF MotorReady, MotorInv
    <2> QED
      BY <1>1, <2>1, <2>2, CalmTick
  <1>5. motorBoard' = motorBoard /\ motor' = RefreshedMotor(d) /\ RefreshDoser(doser)
    BY DEF MotorTick
  <1> HIDE DEF d
  <1> QED
    BY <1>1, <1>2, <1>3, <1>4, <1>5, MotorDriven

(* A step whose effect on the motor and the run is e.                        *)
LEMMA EffectStep ==
  ASSUME MotorInv, NEW hw \in Hardware, NEW e, RunsOrRests(e, hw), NEW p \in Runtimes,
         MotorTrouble(hw), motorBoard' = motorBoard, motor' = RefreshedMotor(e.motor), run' = e.run,
         meddled \subseteq meddled', RefreshDoser(p)
  PROVE  MotorInv'
  <1>1. e.motor \in Outputs /\ e.run \in Runs
    BY DEF RunsOrRests
  <1>2. boardTroubles' \in Nat /\ (boardTroubles' = 0 => boardTroubles = 0 /\ hw = "works")
    BY Hardly
  <1>3. Undisturbed' => Undisturbed /\ Calm(e.motor, e.run # {})
    BY <1>2 DEF Undisturbed, RunsOrRests
  <1> QED
    BY <1>1, <1>2, <1>3, MotorDriven

LEMMA DoserDrives ==
  ASSUME MotorInv, NEW evaluates \in BOOLEAN, NEW ticks \in 1..RunTicks, NEW blocked \in BOOLEAN,
         NEW hw \in Hardware, DoserTick(evaluates, ticks, blocked, hw)
  PROVE  MotorInv'
  <1> DEFINE e == DoserEffect(evaluates, ticks, blocked, hw)
  <1>1. RunsOrRests(e, hw)
    BY EffectRuns
  <1>2. /\ MotorTrouble(hw) /\ motorBoard' = motorBoard /\ motor' = RefreshedMotor(e.motor)
        /\ run' = {IF n = 0 THEN 0 ELSE n - 1 : n \in e.run}
        /\ meddled' = meddled /\ RefreshDoser(DoserMachine(doser))
    BY DEF DoserTick
  <1> HIDE DEF e
  <1>3. e.motor \in Outputs /\ e.run \in Runs
    BY <1>1 DEF RunsOrRests
  <1>4. run' \in Runs /\ (run' = {}) = (e.run = {})
    <2>1. CASE e.run = {}
      BY <1>2, <2>1 DEF Runs
    <2>2. ASSUME NEW n \in 0..RunTicks, e.run = {n}
          PROVE  run' \in Runs /\ (run' = {}) = (e.run = {})
      <3> DEFINE m == IF n = 0 THEN 0 ELSE n - 1
      <3>1. m \in 0..RunTicks
        BY DosingAssumption
      <3>2. run' = {m}
        BY <1>2, <2>2
      <3> QED
        BY <2>2, <3>1, <3>2 DEF Runs
    <2> QED
      BY <1>3, <2>1, <2>2 DEF Runs
  <1>5. boardTroubles' \in Nat /\ (boardTroubles' = 0 => boardTroubles = 0 /\ hw = "works")
    BY <1>2, Hardly
  <1>6. Undisturbed' => Undisturbed /\ Calm(e.motor, e.run # {})
    BY <1>1, <1>2, <1>5 DEF Undisturbed, RunsOrRests
  <1>7. DoserMachine(doser) \in Runtimes
    BY DoserMachineGood DEF MotorInv
  <1> QED
    BY <1>2, <1>3, <1>4, <1>5, <1>6, <1>7, MotorDriven

LEMMA DosesCommanded ==
  ASSUME MotorInv, NEW hw \in Hardware,
         CommandStop(hw) \/ \E ticks \in 1..RunTicks : CommandDose(ticks, hw)
  PROVE  MotorInv'
  <1>1. Effects(Now) /\ RunsOrRests(Now, hw)
    <2>1. Now = [motor |-> motor, run |-> run, kept |-> kept, starts |-> {}]
      BY DEF Now
    <2> QED
      BY <2>1 DEF Effects, RunsOrRests, MotorInv
  <1>2. doser \in Runtimes
    BY DEF MotorInv
  <1>3. CASE CommandStop(hw)
    <2>1. RunsOrRests(finishRun(Now, hw), hw)
      BY <1>1, FinishRunRests
    <2> QED
      BY <1>2, <1>3, <2>1, EffectStep DEF CommandStop
  <1>4. ASSUME NEW ticks \in 1..RunTicks, CommandDose(ticks, hw) PROVE MotorInv'
    <2>1. RunsOrRests(startRun(Now, ticks, hw), hw)
      BY <1>1, StartRunRuns
    <2> QED
      BY <1>2, <1>4, <2>1, EffectStep DEF CommandDose
  <1> QED
    BY <1>3, <1>4

LEMMA DoserEdited ==
  ASSUME MotorInv, NEW enabled \in BOOLEAN, NEW hw \in Hardware, EditDoser(enabled, hw) PROVE MotorInv'
  <1> DEFINE begins == enabled /\ ~doser.enabled
             e == IF begins /\ doser.state = "Ready" THEN finishRun(Now, hw) ELSE Now
             p == IF begins THEN DoserMachine(Asked(doser, TRUE))
                  ELSE IF enabled = doser.enabled THEN doser
                  ELSE Asked(doser, FALSE)
  <1>1. Effects(Now) /\ RunsOrRests(Now, hw)
    <2>1. Now = [motor |-> motor, run |-> run, kept |-> kept, starts |-> {}]
      BY DEF Now
    <2> QED
      BY <2>1 DEF Effects, RunsOrRests, MotorInv
  <1>2. RunsOrRests(e, hw)
    BY <1>1, FinishRunRests
  <1>3. p \in Runtimes
    <2>1. \A b \in BOOLEAN : Asked(doser, b) \in Runtimes
      BY RequestsKept DEF MotorInv
    <2> QED
      BY <2>1, DoserMachineGood DEF MotorInv
  <1>4. /\ MotorTrouble(hw) /\ motorBoard' = motorBoard /\ motor' = RefreshedMotor(e.motor) /\ run' = e.run
        /\ meddled' = meddled /\ RefreshDoser(p)
    BY DEF EditDoser
  <1> HIDE DEF e, p
  <1> QED
    BY <1>2, <1>3, <1>4, EffectStep

LEMMA MotorEdited ==
  ASSUME MotorInv, NEW enabled \in BOOLEAN, NEW reset \in BOOLEAN, NEW hw \in Hardware,
         EditMotor(enabled, reset, hw)
  PROVE  MotorInv'
  <1> DEFINE d == IF reset THEN resetStateMachine(Released(motor)) ELSE motor
             new == IF enabled = motor.enabled THEN d
                    ELSE IF enabled THEN OutputTick(Asked(d, TRUE), MotorReady, hw)
                    ELSE Asked(d, FALSE)
  <1>1. motor \in Outputs /\ doser \in Runtimes /\ run \in Runs /\ run' = run
    BY DEF MotorInv, EditMotor
  <1>2. new \in Outputs
    <2>1. MotorReady \in BOOLEAN /\ Good(motor, FALSE)
      BY <1>1 DEF MotorReady, Good, Outputs
    <2>2. Good(d, FALSE)
      BY <2>1, AskedGood
    <2> HIDE DEF d
    <2>3. Good(Asked(d, TRUE), FALSE) /\ Good(Asked(d, FALSE), FALSE)
      BY <2>2, AskedGood
    <2>4. Good(OutputTick(Asked(d, TRUE), MotorReady, hw), FALSE)
      BY <2>1, <2>3, TickGood
    <2> QED
      BY <2>2, <2>3, <2>4 DEF Good
  <1>3. /\ MotorTrouble(hw) /\ motorBoard' = motorBoard /\ motor' = RefreshedMotor(new)
        /\ meddled' = meddled \cup
             IF enabled /\ ~motor.enabled /\ (reset \/ motor.state # "Disabled") THEN {"switch"} ELSE {}
        /\ RefreshDoser(requestReconfigure(doser))
    BY DEF EditMotor
  <1>4. boardTroubles' \in Nat /\ (boardTroubles' = 0 => boardTroubles = 0 /\ hw = "works")
    BY <1>3, Hardly
  <1>5. Undisturbed' => Undisturbed /\ Calm(new, run # {})
    <2> SUFFICES ASSUME Undisturbed' PROVE Undisturbed /\ Calm(new, run # {})
      OBVIOUS
    <2>1. Undisturbed /\ hw = "works" /\ ~(enabled /\ ~motor.enabled /\ (reset \/ motor.state # "Disabled"))
      BY <1>3, <1>4 DEF Undisturbed
    <2>2. MotorReady = TRUE /\ Calm(motor, run # {})
      BY <2>1 DEF MotorReady, MotorInv
    <2> DEFINE running == run # {}
    <2>3. running \in BOOLEAN /\ Calm(motor, running)
      BY <2>2
    <2> HIDE DEF running
    <2>4. Calm(d, running) /\ d \in Outputs
      <3>1. Good(motor, FALSE)
        BY <1>1 DEF Good
      <3> QED
        BY <1>1, <2>3, <3>1, CalmEdits, AskedGood DEF Good
    <2>5. CASE enabled = motor.enabled
      BY <2>1, <2>4, <2>5 DEF running
    <2>6. CASE enabled # motor.enabled /\ enabled
      <3>1. d = motor /\ motor.state = "Disabled"
        BY <1>1, <2>1, <2>6 DEF Outputs
      <3>2. new = OutputTick(Asked(motor, TRUE), TRUE, "works")
        BY <2>1, <2>2, <2>6, <3>1
      <3> QED
        BY <1>1, <2>1, <2>3, <3>1, <3>2, CalmEdits DEF running
    <2>7. CASE enabled # motor.enabled /\ ~enabled
      <3>1. new = Asked(d, FALSE)
        BY <2>7
      <3> HIDE DEF d, new
      <3> QED
        BY <2>1, <2>3, <2>4, <3>1, CalmEdits DEF running
    <2> QED
      BY <2>5, <2>6, <2>7
  <1>6. requestReconfigure(doser) \in Runtimes
    <2>1. TRUE \in BOOLEAN
      OBVIOUS
    <2> QED
      BY <1>1, <2>1, RequestsKept
  <1> HIDE DEF new
  <1> QED
    BY <1>1, <1>2, <1>3, <1>4, <1>5, <1>6, MotorDriven

LEMMA MotorCommanded ==
  ASSUME MotorInv, NEW v \in BOOLEAN, NEW hw \in Hardware, CommandMotor(v, hw) PROVE MotorInv'
  <1> DEFINE d == requestOutputState(motor, v, hw)
  <1>1. motor \in Outputs /\ doser \in Runtimes /\ run \in Runs /\ run' = run
    BY DEF MotorInv, CommandMotor
  <1>2. d \in Outputs
    BY <1>1, RequestType
  <1>3. /\ boardTroubles' \in Nat /\ ~Undisturbed'
        /\ motorBoard' = motorBoard /\ motor' = RefreshedMotor(d) /\ RefreshDoser(doser)
    BY Hardly DEF CommandMotor, Undisturbed
  <1> HIDE DEF d
  <1> QED
    BY <1>1, <1>2, <1>3, MotorDriven

LEMMA MotorBoardChanging ==
  ASSUME MotorInv, NEW s, MotorBoardChanges(s) PROVE MotorInv'
  <1>1. motor \in Outputs /\ doser \in Runtimes /\ run' = run /\ meddled' = meddled
    BY DEF MotorInv, MotorBoardChanges
  <1>2. boardTroubles' \in Nat /\ ~Undisturbed'
    <2>1. boardTroubles \in Nat /\ (boardTroubles = 0 => ~Undisturbed \/ motorBoard = "Ready")
      BY DEF MotorInv, Undisturbed
    <2>2. CASE motorBoard = "Ready"
      <3>1. boardTroubles' = boardTroubles + 1
        BY <2>2 DEF MotorBoardChanges, BoardFails
      <3> QED
        BY <2>1, <3>1 DEF Undisturbed
    <2>3. CASE motorBoard # "Ready"
      <3>1. boardTroubles' = boardTroubles
        BY <2>3 DEF MotorBoardChanges
      <3> QED
        BY <1>1, <2>1, <2>3, <3>1 DEF Undisturbed
    <2> QED
      BY <2>2, <2>3
  <1>3. motor' \in Outputs
    BY <1>1, RefreshedMotorGood DEF MotorBoardChanges
  <1>4. doser' \in Runtimes
    BY <1>1, DoserRefreshed DEF MotorBoardChanges
  <1> QED
    BY <1>1, <1>2, <1>3, <1>4 DEF MotorInv

LEMMA PowerLost == ASSUME MotorInv, PowerLoss PROVE MotorInv'
  <1>1. motor.enabled \in BOOLEAN /\ motor.channel \in BOOLEAN /\ doser.enabled \in BOOLEAN
    BY DEF MotorInv, Outputs, Runtimes
  <1>2. motor' \in Outputs /\ Calm(motor', FALSE)
    BY <1>1, FreshCalm DEF PowerLoss
  <1>3. doser' \in Runtimes
    BY <1>1, FreshRuntime DEF PowerLoss
  <1> QED
    BY <1>2, <1>3 DEF PowerLoss, MotorInv, Runs

LEMMA MotorSteps == MotorInv /\ [DosingNext]_dosingVars => MotorInv'
  <1> SUFFICES ASSUME MotorInv, [DosingNext]_dosingVars PROVE MotorInv'
    OBVIOUS
  <1>1. ASSUME NEW hw \in Hardware,
               \/ MotorTick(hw) \/ CommandStop(hw)
               \/ \E ticks \in 1..RunTicks : CommandDose(ticks, hw)
        PROVE  MotorInv'
    BY <1>1, MotorTicks, DosesCommanded
  <1>2. ASSUME NEW hw \in Hardware,
               \/ \E evaluates, blocked \in BOOLEAN, ticks \in 1..RunTicks : DoserTick(evaluates, ticks, blocked, hw)
               \/ \E enabled, reset \in BOOLEAN : EditMotor(enabled, reset, hw)
               \/ \E v \in BOOLEAN : CommandMotor(v, hw)
               \/ \E enabled \in BOOLEAN : EditDoser(enabled, hw)
        PROVE  MotorInv'
    BY <1>2, DoserDrives, MotorEdited, MotorCommanded, DoserEdited
  <1>3. ASSUME NEW s, MotorBoardChanges(s) PROVE MotorInv'
    BY <1>3, MotorBoardChanging
  <1>4. ASSUME NEW k, CommandKept(k) PROVE MotorInv'
    <2>1. doser' \in Runtimes
      BY <1>4, DoserRefreshed DEF CommandKept, MotorInv
    <2> QED
      BY <1>4, <2>1 DEF CommandKept, MotorInv, Undisturbed
  <1>5. CASE StoreKept \/ ClockAdvances \/ ClockSetBack \/ UNCHANGED dosingVars
    <2>1. UNCHANGED <<motorBoard, motor, doser, run, boardTroubles, meddled>>
      BY <1>5 DEF StoreKept, ClockAdvances, ClockSetBack, dosingVars
    <2> QED
      BY <2>1 DEF MotorInv, Undisturbed
  <1>6. CASE PowerLoss
    BY <1>6, PowerLost
  <1> QED
    BY <1>1, <1>2, <1>3, <1>4, <1>5, <1>6 DEF DosingNext

LEMMA MotorAlways == DosingSpec => []MotorInv
  BY MotorInitially, MotorSteps, PTL DEF DosingSpec

(* As long as the board of its switch works and nobody meddles with it, the  *)
(* motor turns only during a run, however edits, commands, doses and power   *)
(* losses fall between the ticks, unless its switch is not ready.            *)
THEOREM MotorObeys == DosingSpec => []MotorOnlyInRun
  <1>1. MotorInv => MotorOnlyInRun
    <2> SUFFICES ASSUME MotorInv, Turns, Undisturbed PROVE run # {} \/ motor.status # "Ready"
      BY DEF MotorOnlyInRun
    <2>1. Calm(motor, run # {})
      BY DEF MotorInv
    <2>2. motor.on
      BY <2>1 DEF Calm, Turns
    <2> QED
      BY <2>1, <2>2 DEF Calm
  <1> QED
    BY <1>1, MotorAlways, PTL

LEMMA DosingTyped == DoseInv /\ MotorInv => DosingTypeOK
  <1> SUFFICES ASSUME DoseInv, MotorInv PROVE DosingTypeOK
    OBVIOUS
  <1>1. run \subseteq 0..RunTicks /\ Cardinality(run) <= 1
    <2>1. CASE run = {}
      BY <2>1, FS_EmptySet
    <2>2. ASSUME NEW n \in 0..RunTicks, run = {n} PROVE run \subseteq 0..RunTicks /\ Cardinality(run) <= 1
      <3>1. Cardinality({n}) = 1
        BY FS_Singleton
      <3>2. run \subseteq 0..RunTicks
        BY <2>2
      <3> QED
        BY <2>2, <3>1, <3>2
    <2> QED
      BY <2>1, <2>2 DEF MotorInv, Runs
  <1> QED
    BY <1>1 DEF DoseInv, DosesType, MotorInv, Runtimes, DosingTypeOK

(* Every reachable state of the pump and its switch is well typed.           *)
THEOREM DosingTypeCorrect == DosingSpec => []DosingTypeOK
  BY DosingTyped, MotorAlways, DosesAlways, PTL

-----------------------------------------------------------------------------
(* The thermostat: its machine stays within its states and its deadlines     *)
(* within their intervals.                                                   *)

Thermos ==
  [state : ThermoStates, status : Statuses, start : BOOLEAN, reconf : BOOLEAN, disable : BOOLEAN,
   fault : BOOLEAN, enabled : BOOLEAN, next : 0..(CheckInterval + MinSwitchInterval),
   retry : 0..RetryAfterError, sinceSwitch : 0..MinSwitchInterval, invalidFor : SUBSET (0..SensorTimeout),
   desired : BOOLEAN, actual : BOOLEAN, pending : BOOLEAN, safety : BOOLEAN, mode : ThermoModes]

(* A thermostat and its heater, as a tick leaves them.                       *)
Pairs == [thermo : Thermos, heater : Outputs]

Sensors == [status : SensorStatuses, reading : Readings]

LEMMA Intervals ==
  /\ CheckInterval \in Nat \ {0} /\ MinSwitchInterval \in Nat \ {0}
  /\ SensorTimeout \in Nat \ {0} /\ RetryAfterError \in Nat \ {0}
  /\ 0 \in 0..(CheckInterval + MinSwitchInterval) /\ CheckInterval \in 0..(CheckInterval + MinSwitchInterval)
  /\ 0 \in 0..RetryAfterError /\ RetryAfterError \in 0..RetryAfterError
  /\ 0 \in 0..MinSwitchInterval /\ 0 \in 0..SensorTimeout
  /\ \A n \in 0..MinSwitchInterval : MinSwitchInterval - n \in 0..(CheckInterval + MinSwitchInterval)
  BY ThermostatAssumption

(* Every field is assigned a value of its type.                              *)
LEMMA ThermoAssigned ==
  ASSUME NEW t \in Thermos, NEW b \in BOOLEAN
  PROVE  /\ [t EXCEPT !.start = b] \in Thermos /\ [t EXCEPT !.reconf = b] \in Thermos
         /\ [t EXCEPT !.disable = b] \in Thermos /\ [t EXCEPT !.fault = b] \in Thermos
         /\ [t EXCEPT !.enabled = b] \in Thermos /\ [t EXCEPT !.desired = b] \in Thermos
         /\ [t EXCEPT !.actual = b] \in Thermos /\ [t EXCEPT !.pending = b] \in Thermos
         /\ [t EXCEPT !.safety = b] \in Thermos
         /\ \A s \in ThermoStates : [t EXCEPT !.state = s] \in Thermos
         /\ \A s \in Statuses : [t EXCEPT !.status = s] \in Thermos
         /\ \A m \in ThermoModes : [t EXCEPT !.mode = m] \in Thermos
         /\ \A n \in 0..(CheckInterval + MinSwitchInterval) : [t EXCEPT !.next = n] \in Thermos
         /\ \A n \in 0..RetryAfterError : [t EXCEPT !.retry = n] \in Thermos
         /\ \A n \in 0..MinSwitchInterval : [t EXCEPT !.sinceSwitch = n] \in Thermos
         /\ \A s \in SUBSET (0..SensorTimeout) : [t EXCEPT !.invalidFor = s] \in Thermos
  BY DEF Thermos

LEMMA Paired == ASSUME NEW t \in Thermos, NEW d \in Outputs PROVE [thermo |-> t, heater |-> d] \in Pairs
  BY DEF Pairs

LEMMA ThermoGoto ==
  ASSUME NEW t \in Thermos, NEW s \in ThermoStates, NEW u \in Statuses
  PROVE  Goto(t, s, u) \in Thermos
  BY DEF Thermos, Goto

(* The requests of the registry.                                             *)
LEMMA ThermoRequested ==
  ASSUME NEW t \in Thermos, NEW enabled \in BOOLEAN
  PROVE  /\ requestReconfigure(t) \in Thermos /\ requestDisable(t) \in Thermos
         /\ Asked(t, enabled) \in Thermos
         /\ \A statuses : Refreshed(t, statuses) \in Thermos
  <1>1. \A u \in Thermos : requestReconfigure(u) \in Thermos /\ requestDisable(u) \in Thermos
    BY DEF Thermos, requestReconfigure, requestDisable, Statuses
  <1>2. Asked(t, enabled) \in Thermos
    <2> DEFINE e == [t EXCEPT !.enabled = enabled]
               q == clearLifecycleRequests(e)
               r == requestReconfigure(q)
    <2>1. e \in Thermos
      BY ThermoAssigned
    <2> HIDE DEF e
    <2>2. q \in Thermos
      BY <2>1 DEF clearLifecycleRequests, Thermos
    <2> HIDE DEF q
    <2>3. r \in Thermos /\ requestDisable(q) \in Thermos
      BY <1>1, <2>2
    <2> HIDE DEF r
    <2>4. [r EXCEPT !.start = TRUE] \in Thermos
      BY <2>3, ThermoAssigned
    <2> QED
      BY <2>3, <2>4 DEF Asked, e, q, r
  <1> QED
    BY <1>1, <1>2 DEF Refreshed

LEMMA ThermoAges == ASSUME NEW t \in Thermos PROVE Aged(t) \in Thermos
  <1>1. \A n \in 0..(CheckInterval + MinSwitchInterval) : Less(n) \in 0..(CheckInterval + MinSwitchInterval)
    BY Intervals DEF Less
  <1>2. \A n \in 0..RetryAfterError : Less(n) \in 0..RetryAfterError
    BY Intervals DEF Less
  <1>3. \A n \in 0..MinSwitchInterval : More(n, MinSwitchInterval) \in 0..MinSwitchInterval
    BY Intervals DEF More
  <1>4. \A n \in 0..SensorTimeout : More(n, SensorTimeout) \in 0..SensorTimeout
    BY Intervals DEF More
  <1>5. {More(n, SensorTimeout) : n \in t.invalidFor} \subseteq 0..SensorTimeout
    BY <1>4 DEF Thermos
  <1> QED
    BY <1>1, <1>2, <1>3, <1>5 DEF Aged, Thermos

(* What asks for the safe state, and what does not touch the heater.         *)
LEMMA SafeOff ==
  ASSUME NEW t \in Thermos, NEW hw \in Hardware, heater \in Outputs
  PROVE  /\ requestSafeOff(t, hw) \in Pairs /\ Quiet(t) \in Pairs
         /\ \A s \in ThermoStates \cap Statuses : SafeOffTo(t, s, hw) \in Pairs
  <1>1. requestOutputState(heater, FALSE, hw) \in Outputs
    BY RequestType
  <1>2. \A u \in Thermos : requestSafeOff(u, hw) \in Pairs
    <2> SUFFICES ASSUME NEW u \in Thermos PROVE requestSafeOff(u, hw) \in Pairs
      OBVIOUS
    <2> DEFINE off == [u EXCEPT !.safety = TRUE, !.pending = FALSE]
    <2>1. off \in Thermos /\ [off EXCEPT !.desired = FALSE, !.actual = FALSE] \in Thermos
      BY DEF Thermos
    <2> HIDE DEF off
    <2>2. requestSafeOff(u, hw) =
            [thermo |-> IF Takes(FALSE, hw) THEN [off EXCEPT !.desired = FALSE, !.actual = FALSE] ELSE off,
             heater |-> requestOutputState(heater, FALSE, hw)]
      BY DEF requestSafeOff, off
    <2>3. (IF Takes(FALSE, hw) THEN [off EXCEPT !.desired = FALSE, !.actual = FALSE] ELSE off) \in Thermos
      BY <2>1
    <2> QED
      BY <1>1, <2>2, <2>3, Paired
  <1>3. Quiet(t) \in Pairs
    BY DEF Quiet, Pairs
  <1> QED
    BY <1>2, <1>3, ThermoGoto DEF SafeOffTo

LEMMA NameTypes ==
  /\ {"Idle", "Starting", "Ready", "Reconfiguring", "DependencyBlocked", "Disabled", "Faulted",
      "CheckTemperature", "ApplyOutput", "RetryBackoff"} = ThermoStates
  /\ {"Ready", "Disabled", "DependencyBlocked", "Faulted"} \subseteq ThermoStates \cap Statuses
  /\ {"Creating", "Reconfiguring"} \subseteq Statuses
  BY DEF ThermoStates, States, Statuses

LEMMA Stopping ==
  ASSUME NEW t \in Thermos, NEW hw \in Hardware, heater \in Outputs, Stops(t) # {}
  PROVE  Stop(t, hw) \in Pairs
  <1>1. Stops(t) = {"Disabled"} \/ Stops(t) = {"DependencyBlocked"}
    BY DEF Stops
  <1>2. (CHOOSE s \in Stops(t) : TRUE) \in {"Disabled", "DependencyBlocked"}
    BY <1>1
  <1> QED
    BY <1>2, SafeOff, NameTypes DEF Stop

LEMMA Chosen ==
  ASSUME NEW t \in Thermos, heater \in Outputs
  PROVE  /\ ThermoFails(t) \in Pairs
         /\ \A n \in 0..(CheckInterval + MinSwitchInterval) : CheckLater(t, n) \in Pairs
         /\ CheckLater(t, UntilSwitchable(t)) \in Pairs
         /\ \A s \in ThermoStates, u \in Statuses : Quiet(Goto(t, s, u)) \in Pairs
  <1>1. \A s \in ThermoStates, u \in Statuses : \A q \in Thermos : Quiet(Goto(q, s, u)) \in Pairs
    BY ThermoGoto DEF Quiet, Pairs
  <1>2. \A n \in 0..(CheckInterval + MinSwitchInterval) : CheckLater(t, n) \in Pairs
    BY <1>1, ThermoAssigned, NameTypes DEF CheckLater
  <1>3. [t EXCEPT !.retry = RetryAfterError] \in Thermos
    BY ThermoAssigned, Intervals
  <1>4. ThermoFails(t) \in Pairs
    BY <1>1, <1>3, NameTypes DEF ThermoFails
  <1>5. UntilSwitchable(t) \in 0..(CheckInterval + MinSwitchInterval)
    BY Intervals DEF UntilSwitchable, Thermos
  <1> QED
    BY <1>1, <1>2, <1>4, <1>5

(* One lemma for each state of the machine.                                  *)
LEMMA ThermoTicks ==
  ASSUME NEW t \in Thermos, NEW hw \in Hardware, heater \in Outputs, sensor \in Sensors
  PROVE  ThermoTick(t, hw) \in Pairs
  <1>q. \A q \in Thermos, s \in ThermoStates, u \in Statuses : Quiet(Goto(q, s, u)) \in Pairs
    BY Chosen
  <1>s. \A q \in Thermos : \A s \in {"Ready", "Disabled", "DependencyBlocked", "Faulted"} :
          SafeOffTo(q, s, hw) \in Pairs
    BY SafeOff, NameTypes
  <1>o. \A q \in Thermos : requestSafeOff(q, hw) \in Pairs /\ Quiet(q) \in Pairs
    BY SafeOff
  <1>p. \A q \in Thermos : Stops(q) # {} => Stop(q, hw) \in Pairs
    BY Stopping
  <1>n. heater.on \in BOOLEAN
    BY DEF Outputs
  <1>1. ThermoIdle(t, hw) \in Pairs
    <2>1. [t EXCEPT !.state = IF t.start THEN "Starting" ELSE "Idle", !.status = "Creating"] \in Thermos
      BY NameTypes DEF Thermos
    <2> QED
      BY <1>s, <1>o, <2>1 DEF ThermoIdle
  <1>2. ThermoStarting(t, hw) \in Pairs
    <2>1. [t EXCEPT !.start = FALSE, !.reconf = FALSE, !.fault = FALSE, !.next = 0, !.retry = 0,
                    !.safety = FALSE, !.pending = FALSE, !.desired = heater.on,
                    !.actual = heater.on] \in Thermos
      BY <1>n, Intervals DEF Thermos
    <2> QED
      BY <1>p, <1>q, <2>1, NameTypes DEF ThermoStarting
  <1>3. ThermoReady(t, hw) \in Pairs
    <2>1. {IF t.next > 0 THEN "Ready" ELSE "CheckTemperature", "Reconfiguring", "Faulted"} \subseteq ThermoStates
      BY NameTypes
    <2> QED
      BY <1>p, <1>q, <2>1, NameTypes DEF ThermoReady
  <1>4. ThermoReconfiguring(t, hw) \in Pairs
    <2> DEFINE q == [t EXCEPT !.reconf = FALSE, !.fault = FALSE]
    <2>1. q \in Thermos /\ [q EXCEPT !.next = 0, !.retry = 0] \in Thermos
      BY Intervals DEF Thermos
    <2> HIDE DEF q
    <2>2. ThermoReconfiguring(t, hw) =
            IF Stops(q) # {} THEN Stop(q, hw) ELSE Quiet(Goto([q EXCEPT !.next = 0, !.retry = 0], "Ready", "Ready"))
      BY DEF ThermoReconfiguring, q
    <2> QED
      BY <1>p, <1>q, <2>1, <2>2, NameTypes
  <1>5. CheckTemperature(t) \in Pairs
    <2> DEFINE wanted == desiredStateForTemperature(t)
               q == [t EXCEPT !.invalidFor = {}]
               p == [q EXCEPT !.pending = wanted, !.safety = FALSE]
               i == [t EXCEPT !.invalidFor = IF @ = {} THEN {0} ELSE @]
    <2>1. wanted \in BOOLEAN
      BY DEF desiredStateForTemperature, Thermos, ThermoModes
    <2>2. q \in Thermos /\ i \in Thermos
      BY Intervals DEF Thermos
    <2>3. p \in Thermos
      <3> DEFINE r == [q EXCEPT !.pending = wanted]
      <3> HIDE DEF q, wanted
      <3>1. r \in Thermos
        BY <2>1, <2>2, ThermoAssigned
      <3>2. p = [r EXCEPT !.safety = FALSE]
        OBVIOUS
      <3> HIDE DEF r
      <3> QED
        BY <3>1, <3>2, ThermoAssigned
    <2>4. CheckTemperature(t) \in {InvalidReading(t), ThermoFails(q), Quiet(Goto(p, "ApplyOutput", "Ready")),
                                   CheckLater(p, CheckInterval), CheckLater(p, UntilSwitchable(p))}
      BY DEF CheckTemperature
    <2>5. InvalidReading(t) \in {ThermoFails(i), CheckLater(i, CheckInterval)}
      BY DEF InvalidReading
    <2> HIDE DEF p, q, i
    <2> QED
      BY <1>q, <2>2, <2>3, <2>4, <2>5, Chosen, Intervals, NameTypes
  <1>6. ApplyOutput(t, hw) \in Pairs
    <2>1. requestOutputState(heater, t.pending, hw) \in Outputs
      BY RequestType DEF Thermos
    <2>2. Switched(t, hw) \in Pairs
      <3> DEFINE s == [t EXCEPT !.desired = t.pending, !.actual = t.pending, !.safety = FALSE,
                                !.next = CheckInterval, !.sinceSwitch = IF t.safety THEN @ ELSE 0]
      <3>1. s \in Thermos
        BY Intervals DEF Thermos
      <3>2. Switched(t, hw) = [thermo |-> Goto(s, "Ready", "Ready"), heater |-> requestOutputState(heater, t.pending, hw)]
        BY DEF Switched
      <3> HIDE DEF s
      <3>3. Goto(s, "Ready", "Ready") \in Thermos
        BY <3>1, ThermoGoto, NameTypes
      <3> QED
        BY <2>1, <3>2, <3>3, Paired
    <2>3. [ThermoFails(t) EXCEPT !.heater = requestOutputState(heater, t.pending, hw)] \in Pairs
      BY <2>1, Chosen DEF Pairs
    <2> QED
      BY <1>p, <2>2, <2>3, Chosen DEF ApplyOutput
  <1>7. ThermoRetryBackoff(t, hw) \in Pairs
    <2>1. Goto(t, IF t.retry > 0 THEN "RetryBackoff" ELSE "Reconfiguring", "Faulted") \in Thermos
      BY ThermoGoto, NameTypes
    <2> QED
      BY <1>o, <1>p, <2>1 DEF ThermoRetryBackoff
  <1>8. ThermoDependencyBlocked(t, hw) \in Pairs
    <2>1. Goto(t, "Reconfiguring", "Reconfiguring") \in Thermos
      BY ThermoGoto, NameTypes
    <2> QED
      BY <1>o, <1>p, <2>1 DEF ThermoDependencyBlocked, SafeOffTo
  <1>9. ThermoDisabled(t, hw) \in Pairs
    <2>1. Goto(t, IF Unwanted(t) \/ ThermoDeps # {"Ready"} THEN "Disabled" ELSE "Reconfiguring", "Disabled") \in Thermos
      BY ThermoGoto, NameTypes
    <2> QED
      BY <1>o, <2>1 DEF ThermoDisabled
  <1>10. ThermoFaulted(t, hw) \in Pairs
    <2>1. Goto(t, "RetryBackoff", "Faulted") \in Thermos
      BY ThermoGoto, NameTypes
    <2> QED
      BY <1>o, <1>s, <2>1 DEF ThermoFaulted
  <1>11. t.state \in ThermoStates
    BY DEF Thermos
  <1> QED
    BY <1>1, <1>2, <1>3, <1>4, <1>5, <1>6, <1>7, <1>8, <1>9, <1>10, <1>11, NameTypes DEF ThermoTick

ThermoInv == heater \in Outputs /\ thermo \in Thermos /\ sensor \in Sensors

LEMMA ThermoRefreshed == ASSUME NEW t \in Thermos, thermo' = RefreshedThermo(t) PROVE thermo' \in Thermos
  <1>1. TRUE \in BOOLEAN
    OBVIOUS
  <1> QED
    BY <1>1, ThermoRequested DEF RefreshedThermo

LEMMA FreshThermoTyped == ASSUME NEW enabled \in BOOLEAN PROVE FreshThermo(enabled) \in Thermos
  <1> DEFINE f == IdleTick(Fresh(enabled))
  <1>1. f \in [state : ThermoStates, status : Statuses, start : BOOLEAN, reconf : BOOLEAN, disable : BOOLEAN,
                fault : BOOLEAN, enabled : BOOLEAN]
    <2>1. f \in Runtimes
      BY FreshRuntime
    <2> QED
      BY <2>1, NameTypes DEF Runtimes, States
  <1> HIDE DEF f
  <1>2. FreshThermo(enabled) =
          [state |-> f.state, status |-> f.status, start |-> f.start, reconf |-> f.reconf,
           disable |-> f.disable, fault |-> f.fault, enabled |-> f.enabled,
           next |-> 0, retry |-> 0, sinceSwitch |-> MinSwitchInterval, invalidFor |-> {},
           desired |-> FALSE, actual |-> FALSE, pending |-> FALSE, safety |-> FALSE, mode |-> "Heat"]
    <2>1. DOMAIN Fresh(enabled) = {"state", "status", "start", "reconf", "disable", "fault", "enabled"}
      BY DEF Fresh
    <2>2. DOMAIN Unset = {"next", "retry", "sinceSwitch", "invalidFor", "desired", "actual", "pending", "safety", "mode"}
      BY DEF Unset
    <2>3. FreshThermo(enabled) = [x \in DOMAIN Fresh(enabled) \cup DOMAIN Unset |-> IF x \in DOMAIN Unset THEN Unset[x] ELSE f[x]]
      BY DEF FreshThermo, f
    <2> QED
      BY <2>1, <2>2, <2>3 DEF Unset
  <1>3. MinSwitchInterval \in 0..MinSwitchInterval
    BY Intervals
  <1> QED
    BY <1>1, <1>2, <1>3, Intervals DEF Thermos, ThermoModes

LEMMA ThermoInitially == ThermoInit => ThermoInv
  <1> SUFFICES ASSUME ThermoInit PROVE ThermoInv
    OBVIOUS
  <1>1. PICK channel \in BOOLEAN : heater = FreshMotor(TRUE, channel)
    BY DEF ThermoInit, FreshMotor
  <1>2. heater \in Outputs
    BY <1>1, FreshCalm
  <1>3. thermo \in Thermos
    BY FreshThermoTyped DEF ThermoInit
  <1>4. sensor \in Sensors
    BY DEF ThermoInit, Sensors, SensorStatuses, Readings
  <1> QED
    BY <1>2, <1>3, <1>4 DEF ThermoInv

LEMMA ThermoSteps == ThermoInv /\ [ThermoNext]_thermoVars => ThermoInv'
  <1> SUFFICES ASSUME ThermoInv, [ThermoNext]_thermoVars PROVE ThermoInv'
    OBVIOUS
  <1>t. heater \in Outputs /\ thermo \in Thermos /\ sensor \in Sensors /\ "works" \in Hardware
    BY DEF ThermoInv, Hardware
  <1>1. ASSUME NEW hw \in Hardware, ThermoFastLoop(hw) PROVE ThermoInv'
    <2>1. OutputTick(heater, TRUE, hw) \in Outputs
      BY <1>t, TickGood DEF Good
    <2>2. thermo' \in Thermos
      BY <1>1, <1>t, ThermoRefreshed DEF ThermoFastLoop
    <2> QED
      BY <1>1, <1>t, <2>1, <2>2 DEF ThermoFastLoop, ThermoInv
  <1>2. ASSUME NEW hw \in Hardware, Thermo100ms(hw) PROVE ThermoInv'
    <2> DEFINE ticked == ThermoTick(Aged(thermo), hw)
    <2>1. ticked \in Pairs
      BY <1>t, ThermoAges, ThermoTicks
    <2>2. heater' = ticked.heater /\ thermo' = RefreshedThermo(ticked.thermo) /\ sensor' = sensor
      BY <1>2 DEF Thermo100ms
    <2> HIDE DEF ticked
    <2>3. thermo' \in Thermos
      BY <2>1, <2>2, ThermoRefreshed DEF Pairs
    <2> QED
      BY <1>t, <2>1, <2>2, <2>3 DEF Pairs, ThermoInv
  <1>3. ASSUME NEW enabled \in BOOLEAN, NEW m \in ThermoModes, EditThermo(enabled, m) PROVE ThermoInv'
    <2> DEFINE t == [thermo EXCEPT !.mode = m, !.enabled = enabled]
               begun == ThermoTick(Asked(t, TRUE), "works")
               changed == enabled # thermo.enabled
    <2>1. t \in Thermos
      BY <1>t DEF Thermos
    <2> HIDE DEF t
    <2>2. Asked(t, TRUE) \in Thermos /\ Asked(t, FALSE) \in Thermos
      BY <2>1, ThermoRequested
    <2>3. begun \in Pairs
      BY <1>t, <2>2, ThermoTicks
    <2>4. /\ heater' = IF changed /\ enabled THEN begun.heater ELSE heater
          /\ thermo' = RefreshedThermo(IF ~changed THEN t ELSE IF enabled THEN begun.thermo ELSE Asked(t, FALSE))
          /\ sensor' = sensor
      BY <1>3 DEF EditThermo, t
    <2> HIDE DEF begun, changed
    <2>5. (IF ~changed THEN t ELSE IF enabled THEN begun.thermo ELSE Asked(t, FALSE)) \in Thermos
      BY <2>1, <2>2, <2>3 DEF Pairs
    <2>6. thermo' \in Thermos
      BY <2>4, <2>5, ThermoRefreshed
    <2> QED
      BY <1>t, <2>3, <2>4, <2>6 DEF Pairs, ThermoInv
  <1>4. ASSUME NEW enabled \in BOOLEAN, NEW reset \in BOOLEAN, NEW hw \in Hardware, EditHeater(enabled, reset, hw)
        PROVE  ThermoInv'
    <2> DEFINE d == IF reset THEN resetStateMachine(Released(heater)) ELSE heater
    <2>1. Good(heater, FALSE)
      BY <1>t DEF Good
    <2>2. Good(d, FALSE)
      BY <2>1, AskedGood
    <2> HIDE DEF d
    <2>3. Good(Asked(d, TRUE), FALSE) /\ Good(Asked(d, FALSE), FALSE)
      BY <2>2, AskedGood
    <2>4. Good(OutputTick(Asked(d, TRUE), TRUE, hw), FALSE)
      BY <2>3, TickGood
    <2>5. heater' \in Outputs
      BY <1>4, <2>2, <2>3, <2>4 DEF EditHeater, d, Good
    <2>6. requestReconfigure(thermo) \in Thermos
      BY <1>t, ThermoRequested
    <2>7. thermo' \in Thermos
      BY <1>4, <2>6, ThermoRefreshed DEF EditHeater
    <2> QED
      BY <1>4, <1>t, <2>5, <2>7 DEF EditHeater, ThermoInv
  <1>5. ASSUME NEW v \in BOOLEAN, NEW hw \in Hardware, CommandHeater(v, hw) PROVE ThermoInv'
    BY <1>5, <1>t, RequestType DEF CommandHeater, ThermoInv
  <1>6. ASSUME NEW r \in Readings, SensorMeasures(r) PROVE ThermoInv'
    BY <1>6, <1>t DEF SensorMeasures, Sensors, ThermoInv
  <1>7. ASSUME NEW s \in SensorStatuses, SensorChanges(s) PROVE ThermoInv'
    <2>1. sensor' \in Sensors
      BY <1>7 DEF SensorChanges, Sensors, Readings
    <2>2. requestReconfigure(thermo) \in Thermos
      BY <1>t, ThermoRequested
    <2>3. thermo' \in Thermos
      BY <1>7, <1>t, <2>2, ThermoRefreshed DEF SensorChanges
    <2> QED
      BY <1>7, <1>t, <2>1, <2>3 DEF SensorChanges, ThermoInv
  <1>8. CASE UNCHANGED thermoVars
    BY <1>8 DEF thermoVars, ThermoInv
  <1> QED
    BY <1>1, <1>2, <1>3, <1>4, <1>5, <1>6, <1>7, <1>8 DEF ThermoNext

LEMMA ThermoAlways == ThermoSpec => []ThermoInv
  BY ThermoInitially, ThermoSteps, PTL DEF ThermoSpec

LEMMA ThermoTyped == ThermoInv => ThermoTypeOK
  BY DEF ThermoInv, Thermos, Sensors, SensorStatuses, Statuses, ThermoTypeOK

(* Every reachable state of the thermostat, its heater and its sensor is     *)
(* well typed: no deadline is further off than the longest interval.         *)
THEOREM ThermoTypeCorrect == ThermoSpec => []ThermoTypeOK
  BY ThermoAlways, ThermoTyped, PTL

-----------------------------------------------------------------------------
(* How long a heater can stay on without a reading that justifies it.  While *)
(* the switch takes every write, Left bounds the ticks of the thermostat at  *)
(* which that can still be so; each of them uses up one, and only requests   *)
(* add some.                                                                 *)

IsHot(d) == TRUE \in d.pin

(* A heater whose switch has taken every write.                              *)
HeaterCalm(d) ==
  /\ ~d.fault /\ ~d.safe
  /\ d.state \in {"Idle", "Starting", "Ready", "Reconfiguring", "Disabled"}
  /\ d.pin \subseteq {d.on}
  /\ d.state \in {"Ready", "Reconfiguring"} /\ d.on => IsHot(d)
  /\ d.state = "Idle" => d.start
  /\ d.state = "Disabled" => ~d.on /\ d.status # "Ready"
  /\ d.state = "Reconfiguring" => d.status # "Ready"
  /\ d.state = "Ready" /\ ~Unwanted(d) /\ ~d.reconf => d.status = "Ready"

LEMMA CommandCalm ==
  ASSUME NEW d \in Outputs, HeaterCalm(d), NEW v \in BOOLEAN
  PROVE  HeaterCalm(requestOutputState(d, v, "works"))
  BY DEF HeaterCalm, IsHot, requestOutputState, Applied, Accepts, Unwanted, Outputs

(* An off that does not switch off was not taken.                            *)
LEMMA OffRefused ==
  ASSUME NEW d \in Outputs, HeaterCalm(d), IsHot(requestOutputState(d, FALSE, "works"))
  PROVE  requestOutputState(d, FALSE, "works") = d /\ d.status # "Ready"
  BY DEF HeaterCalm, IsHot, requestOutputState, Applied, Accepts, Outputs

LEMMA HeaterAsked ==
  ASSUME NEW d \in Outputs, HeaterCalm(d), NEW enabled \in BOOLEAN
  PROVE  HeaterCalm(resetStateMachine(Released(d))) /\ HeaterCalm(Asked(d, enabled))
  <1>1. HeaterCalm(resetStateMachine(Released(d)))
    BY DEF HeaterCalm, IsHot, resetStateMachine, Released, Unwanted, Outputs
  <1> DEFINE e == [d EXCEPT !.enabled = enabled]
             q == clearLifecycleRequests(e)
             r == requestReconfigure(q)
             s == [r EXCEPT !.start = TRUE]
             o == requestDisable(q)
  <1>2. q \in Outputs /\ q.pin = d.pin /\ q.on = d.on /\ q.state = d.state /\ q.safe = d.safe
        /\ ~q.fault /\ q.start = d.start
    BY DEF clearLifecycleRequests, Outputs
  <1> HIDE DEF q
  <1>3. s.pin = d.pin /\ s.on = d.on /\ s.state = d.state /\ s.safe = d.safe /\ ~s.fault
        /\ s.start /\ s.reconf /\ s.status = "Reconfiguring"
    BY <1>2 DEF requestReconfigure, Outputs
  <1>4. o.pin = d.pin /\ o.on = d.on /\ o.state = d.state /\ o.safe = d.safe /\ ~o.fault
        /\ o.start = d.start /\ o.disable /\ o.status = "Disabled"
    BY <1>2 DEF requestDisable, Outputs
  <1>5. Asked(d, enabled) = IF enabled THEN s ELSE o
    BY DEF Asked, q
  <1> HIDE DEF s, o
  <1>6. HeaterCalm(s) /\ HeaterCalm(o)
    BY <1>3, <1>4 DEF HeaterCalm, IsHot, Unwanted
  <1> QED
    BY <1>1, <1>5, <1>6

LEMMA HeaterDisabled ==
  ASSUME NEW d \in Outputs, ~d.fault, ~d.safe
  PROVE  HeaterCalm(enterDisabled(d)) /\ ~IsHot(enterDisabled(d))
  <1> DEFINE q == [d EXCEPT !.on = d.safe, !.pin = {d.safe}]
             r == Released(q)
  <1>1. q \in Outputs /\ ~q.on /\ q.pin = {FALSE} /\ ~q.fault /\ ~q.safe
    BY DEF Outputs
  <1> HIDE DEF q
  <1>2. r \in Outputs /\ ~r.on /\ r.pin \subseteq {FALSE} /\ ~r.fault /\ ~r.safe
    BY <1>1 DEF Released, Outputs
  <1> HIDE DEF r
  <1>3. enterDisabled(d) = Goto(r, "Disabled", "Disabled")
    BY DEF enterDisabled, r, q
  <1> QED
    BY <1>2, <1>3 DEF HeaterCalm, IsHot, Goto, Outputs

(* What a tick makes of it: it never goes on, and a heater that stays on was *)
(* Idle, Ready or Reconfiguring.                                             *)
HeaterGoesOn(d, e) ==
  /\ IsHot(d)
  /\ \/ d.state = "Idle" /\ e.state = "Starting"
     \/ /\ d.state = "Reconfiguring" /\ ~Unwanted(d)
        /\ e.state = "Ready" /\ ~e.reconf /\ ~Unwanted(e) /\ e.status = "Ready"
     \/ /\ d.state = "Ready" /\ ~Unwanted(d) /\ d.reconf
        /\ e.state = "Reconfiguring" /\ e.reconf /\ ~Unwanted(e)
     \/ /\ d.state = "Ready" /\ ~Unwanted(d) /\ ~d.reconf
        /\ e.state = "Ready" /\ ~e.reconf /\ ~Unwanted(e) /\ e.status = "Ready" /\ d.status = "Ready"

LEMMA HeaterTicks ==
  ASSUME NEW d \in Outputs, HeaterCalm(d), NEW e, e = OutputTick(d, TRUE, "works")
  PROVE  HeaterCalm(e) /\ (IsHot(e) => HeaterGoesOn(d, e))
  <1> USE DEF HeaterCalm, IsHot, HeaterGoesOn, Unwanted, Outputs, Goto
  <1>1. CASE d.state = "Idle"
    BY <1>1 DEF OutputTick
  <1>2. CASE d.state = "Starting"
    <2>1. e = OutputStarting(d, TRUE, "works")
      BY <1>2 DEF OutputTick
    <2> DEFINE up == Powered(d, FALSE, "works")
    <2>2. /\ up.state = "Ready" /\ up.status = "Ready" /\ up.pin = {FALSE} /\ ~up.on /\ up \in Outputs
          /\ ~up.fault /\ ~up.safe
      BY DEF Powered, Applied, Statuses, States
    <2> HIDE DEF up
    <2>3. HeaterCalm([up EXCEPT !.start = FALSE]) /\ ~IsHot([up EXCEPT !.start = FALSE])
      BY <2>2
    <2>4. e = IF Unwanted(d) THEN enterDisabled(d) ELSE [up EXCEPT !.start = FALSE]
      BY <2>1, <2>2 DEF OutputStarting, up
    <2> HIDE DEF HeaterCalm, IsHot
    <2>5. ~d.fault /\ ~d.safe
      BY DEF HeaterCalm
    <2> QED
      BY <2>3, <2>4, <2>5, HeaterDisabled
  <1>3. CASE d.state = "Ready"
    <2>1. e = OutputReady(d, TRUE, "works")
      BY <1>3 DEF OutputTick
    <2>2. CASE Unwanted(d)
      <3>1. e = enterDisabled(d) /\ ~d.fault /\ ~d.safe
        BY <2>1, <2>2 DEF OutputReady
      <3> HIDE DEF HeaterCalm, IsHot, HeaterGoesOn
      <3> QED
        BY <3>1, HeaterDisabled
    <2>3. CASE ~Unwanted(d)
      <3>1. e = IF d.reconf THEN Goto(d, "Reconfiguring", "Reconfiguring") ELSE [d EXCEPT !.status = "Ready"]
        BY <2>1, <2>3 DEF OutputReady
      <3>2. /\ e.pin = d.pin /\ e.on = d.on /\ e.reconf = d.reconf /\ ~e.fault /\ ~e.safe
            /\ e.enabled = d.enabled /\ e.disable = d.disable
            /\ d.reconf => e.state = "Reconfiguring" /\ e.status = "Reconfiguring"
            /\ ~d.reconf => e.state = "Ready" /\ e.status = "Ready"
        <4>1. CASE d.reconf
          BY <3>1, <4>1
        <4>2. CASE ~d.reconf
          BY <1>3, <3>1, <4>2
        <4> QED
          BY <4>1, <4>2
      <3> HIDE DEF Goto
      <3> QED
        BY <1>3, <2>3, <3>2
    <2> QED
      BY <2>2, <2>3
  <1>4. CASE d.state = "Reconfiguring"
    <2> DEFINE q == Released([d EXCEPT !.reconf = FALSE])
    <2>1. e = IF Unwanted(q) THEN enterDisabled(q) ELSE Powered(q, q.on, "works")
      BY <1>4 DEF OutputTick, OutputReconfiguring
    <2>2. q \in Outputs /\ ~q.reconf /\ q.on = d.on /\ q.enabled = d.enabled /\ q.disable = d.disable
          /\ ~q.fault /\ ~q.safe
      BY DEF Released
    <2> HIDE DEF q
    <2>3. CASE Unwanted(q)
      <3>1. e = enterDisabled(q)
        BY <2>1, <2>3
      <3> HIDE DEF HeaterCalm, IsHot, HeaterGoesOn
      <3> QED
        BY <2>2, <3>1, HeaterDisabled
    <2>4. CASE ~Unwanted(q)
      <3>1. e = Goto([[q EXCEPT !.pin = {q.on}] EXCEPT !.on = q.on], "Ready", "Ready")
        BY <2>1, <2>4 DEF Powered, Applied
      <3>2. e.pin = {d.on} /\ e.on = d.on /\ e.state = "Ready" /\ e.status = "Ready" /\ ~e.reconf
            /\ ~Unwanted(e) /\ ~e.fault /\ ~e.safe
        BY <2>2, <2>4, <3>1
      <3>3. ~Unwanted(d)
        BY <2>2, <2>4
      <3> HIDE DEF Goto
      <3> QED
        BY <1>4, <3>2, <3>3
    <2> QED
      BY <2>3, <2>4
  <1>5. CASE d.state = "Disabled"
    BY <1>5 DEF OutputTick, OutputDisabled
  <1> QED
    BY <1>1, <1>2, <1>3, <1>4, <1>5

-----------------------------------------------------------------------------
(* The ticks until a check that fails for good ends the wait, when l of them *)
(* are left until the next check.                                            *)
LastWait == SensorTimeout + CheckInterval

RestOf(n, l) ==
  IF n < SensorTimeout /\ SensorTimeout - n + CheckInterval > l THEN SensorTimeout - n + CheckInterval ELSE l

Rest(inv, l) == IF inv = {} THEN l + LastWait ELSE RestOf(CHOOSE n \in inv : TRUE, l)

Single(inv) == inv = {} \/ \E n \in 0..SensorTimeout : inv = {n}
Older(inv) == {More(n, SensorTimeout) : n \in inv}

LEMMA RestIs == \A n, l : Rest({n}, l) = RestOf(n, l) /\ Rest({}, l) = l + LastWait
  <1>1. \A n : (CHOOSE x \in {n} : TRUE) = n
    OBVIOUS
  <1> QED
    BY <1>1 DEF Rest

LEMMA OlderIs ==
  /\ Older({}) = {}
  /\ \A n \in 0..SensorTimeout : /\ Older({n}) = {More(n, SensorTimeout)}
                                 /\ More(n, SensorTimeout) \in 0..SensorTimeout
  BY Intervals DEF Older, More

LEMMA OlderSingle == ASSUME NEW inv, Single(inv) PROVE Single(Older(inv))
  BY OlderIs DEF Single

LEMMA RestBounds ==
  ASSUME NEW inv, Single(inv), NEW l \in Nat
  PROVE  Rest(inv, l) \in Nat /\ l <= Rest(inv, l) /\ Rest(inv, l) <= l + LastWait
  <1>1. \A n \in 0..SensorTimeout : RestOf(n, l) \in Nat /\ l <= RestOf(n, l) /\ RestOf(n, l) <= l + LastWait
    BY Intervals DEF RestOf, LastWait
  <1> QED
    BY <1>1, RestIs, Intervals DEF Single, LastWait

(* A check that is put off puts the end off by no more.                      *)
LEMMA RestLater ==
  ASSUME NEW inv, Single(inv), NEW l \in Nat, NEW m \in Nat, NEW k \in Nat, m <= l + k
  PROVE  Rest(inv, m) <= Rest(inv, l) + k
  <1>1. \A n \in 0..SensorTimeout : RestOf(n, m) <= RestOf(n, l) + k
    BY Intervals DEF RestOf
  <1> QED
    BY <1>1, RestIs, Intervals DEF Single, LastWait

(* A tick that goes by.                                                      *)
LEMMA RestDrops ==
  ASSUME NEW inv, Single(inv), NEW l \in Nat \ {0}
  PROVE  Rest(Older(inv), l) + 1 <= Rest(inv, l + 1)
  <1>1. \A n \in 0..SensorTimeout : RestOf(More(n, SensorTimeout), l) + 1 <= RestOf(n, l + 1)
    BY Intervals DEF RestOf, More
  <1> QED
    BY <1>1, RestIs, OlderIs, Intervals DEF Single, LastWait

(* A check that fails, but not for good.                                     *)
LEMMA RestAgain ==
  ASSUME NEW inv, Single(inv), NEW new, new = IF Older(inv) = {} THEN {0} ELSE Older(inv), new # {SensorTimeout}
  PROVE  Rest(new, CheckInterval + 1) + 1 <= Rest(inv, 1) /\ Single(new)
  <1>1. CASE inv = {}
    <2>1. new = {0}
      BY <1>1, OlderIs
    <2>2. RestOf(0, CheckInterval + 1) + 1 <= 1 + LastWait
      BY Intervals DEF RestOf, LastWait
    <2> QED
      BY <1>1, <2>1, <2>2, RestIs, Intervals DEF Single
  <1>2. ASSUME NEW n \in 0..SensorTimeout, inv = {n} PROVE Rest(new, CheckInterval + 1) + 1 <= Rest(inv, 1) /\ Single(new)
    <2>1. new = {More(n, SensorTimeout)} /\ More(n, SensorTimeout) \in 0..SensorTimeout
      BY <1>2, OlderIs
    <2>2. More(n, SensorTimeout) # SensorTimeout
      BY <2>1
    <2>3. RestOf(More(n, SensorTimeout), CheckInterval + 1) + 1 <= RestOf(n, 1)
      BY <2>2, Intervals DEF RestOf, More
    <2> QED
      BY <1>2, <2>1, <2>3, RestIs DEF Single
  <1> QED
    BY <1>1, <1>2 DEF Single
-----------------------------------------------------------------------------
(* What a tick makes of the thermostat.                                      *)

ThermoCalm(t) == ~t.fault /\ t.state # "Idle" /\ t.next <= LongestWait /\ Single(t.invalidFor)

Halting == {"DependencyBlocked", "Disabled", "Faulted", "RetryBackoff"}
Measured == sensor.reading \notin {"invalid", "unsafe"}
BothReady == sensor.status = "Ready" /\ heater.status = "Ready"

(* What keeps the waits of a thermostat.                                     *)
WaitsAlike(u, v) == v.next = u.next /\ v.invalidFor = u.invalidFor /\ v.fault = u.fault

(* How a thermostat goes from u to v while its heater stays as it is, and on.*)
ThermoGoesOn(u, v) ==
  \/ u.state # "CheckTemperature" /\ heater.status # "Ready" /\ v.state \in Halting
  \/ u.state = "Ready" /\ u.reconf /\ v.state = "Reconfiguring" /\ WaitsAlike(u, v)
  \/ /\ u.state = "Ready" /\ BothReady /\ WaitsAlike(u, v) /\ ~v.reconf /\ ~u.reconf
     /\ u.next > 0 => v.state = "Ready"
     /\ u.next = 0 => v.state = "CheckTemperature"
  \/ /\ u.state \in {"Reconfiguring", "Starting"} /\ BothReady /\ v.state = "Ready" /\ ~v.reconf
     /\ v.next = 0 /\ v.invalidFor = u.invalidFor
  \/ u.state = "CheckTemperature" /\ v.state = "Faulted"
  \/ /\ u.state = "CheckTemperature" /\ v.state = "Ready" /\ v.next = CheckInterval /\ v.reconf = u.reconf
     /\ v.invalidFor = (IF u.invalidFor = {} THEN {0} ELSE u.invalidFor) /\ v.invalidFor # {SensorTimeout}
  \/ u.state = "CheckTemperature" /\ Measured

(* What the tick of u may lead to, the result r of it.                       *)
ThermoLeads(u, r) ==
  /\ HeaterCalm(r.heater) /\ ThermoCalm(r.thermo)
  /\ IsHot(r.heater) /\ u.state # "ApplyOutput" => r.heater = heater /\ ThermoGoesOn(u, r.thermo)
  /\ r.thermo.state = "ApplyOutput" => u.state = "CheckTemperature" /\ Measured

LEMMA LongestWaits ==
  /\ LongestWait \in Nat \ {0} /\ CheckInterval <= LongestWait /\ MinSwitchInterval <= LongestWait
  BY Intervals DEF LongestWait

LEMMA CalmAlike ==
  ASSUME NEW u, ThermoCalm(u), NEW v, WaitsAlike(u, v), v.state # "Idle"
  PROVE  ThermoCalm(v)
  BY DEF ThermoCalm, WaitsAlike

LEMMA GotoAlike ==
  ASSUME NEW u \in Thermos, NEW s, NEW st
  PROVE  WaitsAlike(u, Goto(u, s, st)) /\ Goto(u, s, st).state = s /\ Goto(u, s, st).reconf = u.reconf
  BY DEF Goto, WaitsAlike, Thermos

LEMMA SafeOffAlike ==
  ASSUME NEW u \in Thermos, HeaterCalm(heater), heater \in Outputs
  PROVE  LET r == requestSafeOff(u, "works")
         IN /\ WaitsAlike(u, r.thermo) /\ r.thermo.state = u.state
            /\ HeaterCalm(r.heater) /\ (IsHot(r.heater) => r.heater = heater /\ heater.status # "Ready")
  <1> DEFINE off == [u EXCEPT !.safety = TRUE, !.pending = FALSE]
             th == IF Takes(FALSE, "works") THEN [off EXCEPT !.desired = FALSE, !.actual = FALSE] ELSE off
             h == requestOutputState(heater, FALSE, "works")
  <1>1. WaitsAlike(u, off) /\ off.state = u.state
    BY DEF WaitsAlike, Thermos
  <1>2. WaitsAlike(u, th) /\ th.state = u.state
    BY DEF WaitsAlike, Thermos
  <1>3. requestSafeOff(u, "works") = [thermo |-> th, heater |-> h]
    BY DEF requestSafeOff
  <1> HIDE DEF th
  <1>4. FALSE \in BOOLEAN
    OBVIOUS
  <1>5. HeaterCalm(h) /\ (IsHot(h) => h = heater /\ heater.status # "Ready")
    BY <1>4, CommandCalm, OffRefused
  <1> HIDE DEF h
  <1>6. requestSafeOff(u, "works").thermo = th /\ requestSafeOff(u, "works").heater = h
    BY <1>3
  <1> QED
    BY <1>2, <1>5, <1>6

(* A state that asks for the safe state, on the way to s.                    *)
LEMMA SafeOffLeads ==
  ASSUME NEW u \in Thermos, ThermoCalm(u), HeaterCalm(heater), heater \in Outputs,
         NEW s \in ThermoStates \ {"Idle", "ApplyOutput"}, NEW st, NEW r,
         r = requestSafeOff(Goto(u, s, st), "works"), Goto(u, s, st) \in Thermos,
         u.state # "CheckTemperature", s \in Halting \/ heater.status = "Ready"
  PROVE  ThermoLeads(u, r)
  <1> DEFINE g == Goto(u, s, st)
  <1>1. WaitsAlike(u, g) /\ g.state = s
    BY GotoAlike
  <1> HIDE DEF g
  <1>2. /\ WaitsAlike(g, r.thermo) /\ r.thermo.state = s /\ HeaterCalm(r.heater)
        /\ (IsHot(r.heater) => r.heater = heater /\ heater.status # "Ready")
    BY <1>1, SafeOffAlike DEF g
  <1>3. ThermoCalm(r.thermo)
    <2>1. WaitsAlike(u, r.thermo)
      BY <1>1, <1>2 DEF WaitsAlike
    <2> QED
      BY <1>2, <2>1, CalmAlike
  <1> QED
    BY <1>2, <1>3 DEF ThermoLeads, ThermoGoesOn

LEMMA StopLeads ==
  ASSUME NEW u \in Thermos, ThermoCalm(u), HeaterCalm(heater), heater \in Outputs, Stops(u) # {},
         u.state # "CheckTemperature"
  PROVE  ThermoLeads(u, Stop(u, "works")) /\ Stop(u, "works").thermo.state \in Halting
  <1>1. Stops(u) = {"Disabled"} \/ Stops(u) = {"DependencyBlocked"}
    BY DEF Stops
  <1>2. PICK s \in {"Disabled", "DependencyBlocked"} : s = CHOOSE x \in Stops(u) : TRUE
    BY <1>1
  <1>3. Stop(u, "works") = requestSafeOff(Goto(u, s, s), "works")
    BY <1>2 DEF Stop, SafeOffTo
  <1>4. s \in ThermoStates \ {"Idle", "ApplyOutput"} /\ s \in Statuses /\ s \in Halting
    BY NameTypes DEF Halting
  <1>5. Goto(u, s, s) \in Thermos
    BY <1>4, ThermoGoto
  <1>6. Stop(u, "works").thermo.state = s
    BY <1>3, <1>5, SafeOffAlike, GotoAlike
  <1> QED
    BY <1>3, <1>4, <1>5, <1>6, SafeOffLeads

LEMMA NothingStops == ASSUME NEW u, Stops(u) = {} PROVE BothReady
  BY DEF Stops, ThermoDeps, BothReady

(* A state that leaves the heater alone.                                     *)
LEMMA QuietLeads ==
  ASSUME NEW u, HeaterCalm(heater), NEW v, ThermoCalm(v), ThermoGoesOn(u, v),
         v.state = "ApplyOutput" => u.state = "CheckTemperature" /\ Measured
  PROVE  ThermoLeads(u, Quiet(v))
  BY DEF ThermoLeads, Quiet

LEMMA ReadyLeads ==
  ASSUME NEW u \in Thermos, ThermoCalm(u), HeaterCalm(heater), heater \in Outputs, u.state = "Ready"
  PROVE  ThermoLeads(u, ThermoReady(u, "works"))
  <1>1. CASE Stops(u) # {}
    BY <1>1, StopLeads DEF ThermoReady
  <1>2. CASE Stops(u) = {} /\ u.reconf
    <2> DEFINE v == Goto(u, "Reconfiguring", "Ready")
    <2>1. WaitsAlike(u, v) /\ v.state = "Reconfiguring"
      BY GotoAlike
    <2>2. ThermoReady(u, "works") = Quiet(v)
      BY <1>2 DEF ThermoReady
    <2> HIDE DEF v
    <2>3. ThermoCalm(v) /\ ThermoGoesOn(u, v)
      BY <1>2, <2>1, CalmAlike DEF ThermoGoesOn
    <2> QED
      BY <2>1, <2>2, <2>3, QuietLeads
  <1>3. CASE Stops(u) = {} /\ ~u.reconf
    <2> DEFINE s == IF u.next > 0 THEN "Ready" ELSE "CheckTemperature"
               v == Goto(u, s, "Ready")
    <2>1. WaitsAlike(u, v) /\ v.state = s /\ v.reconf = u.reconf
      BY GotoAlike
    <2>2. ThermoReady(u, "works") = Quiet(v)
      BY <1>3 DEF ThermoReady, ThermoCalm
    <2> HIDE DEF v
    <2>3. (u.next > 0 => v.state = "Ready") /\ (u.next = 0 => v.state = "CheckTemperature")
          /\ v.state \in {"Ready", "CheckTemperature"}
      BY <2>1
    <2> HIDE DEF s
    <2>4. ThermoCalm(v) /\ ThermoGoesOn(u, v)
      BY <1>3, <2>1, <2>3, CalmAlike, NothingStops DEF ThermoGoesOn
    <2> QED
      BY <2>2, <2>3, <2>4, QuietLeads
  <1> QED
    BY <1>1, <1>2, <1>3

(* What has cleared requests stops for what stopped it before, or has nothing*)
(* to stop for.                                                              *)
LEMMA ReconfiguringLeads ==
  ASSUME NEW u \in Thermos, ThermoCalm(u), HeaterCalm(heater), heater \in Outputs, u.state = "Reconfiguring"
  PROVE  ThermoLeads(u, ThermoReconfiguring(u, "works"))
  <1> DEFINE q == [u EXCEPT !.reconf = FALSE, !.fault = FALSE]
             p == [q EXCEPT !.next = 0, !.retry = 0]
             v == Goto(p, "Ready", "Ready")
  <1>1. q \in Thermos /\ ThermoCalm(q) /\ q.state = "Reconfiguring" /\ ~q.reconf
        /\ q.invalidFor = u.invalidFor
    BY DEF Thermos, ThermoCalm
  <1>2. ThermoReconfiguring(u, "works") = IF Stops(q) # {} THEN Stop(q, "works") ELSE Quiet(v)
    BY DEF ThermoReconfiguring
  <1> HIDE DEF q
  <1>3. p \in Thermos /\ p.next = 0 /\ p.invalidFor = u.invalidFor /\ p.reconf = q.reconf /\ ~p.fault
    BY <1>1, Intervals DEF Thermos, ThermoCalm
  <1> HIDE DEF p
  <1>4. WaitsAlike(p, v) /\ v.state = "Ready" /\ v.reconf = p.reconf
    BY <1>3, GotoAlike
  <1> HIDE DEF v
  <1>5. CASE Stops(q) # {}
    <2>1. ThermoLeads(q, Stop(q, "works"))
      BY <1>1, <1>5, StopLeads
    <2>2. Stop(q, "works").thermo.state \in Halting
      BY <1>1, <1>5, StopLeads
    <2> DEFINE r == Stop(q, "works")
    <2>3. ThermoReconfiguring(u, "works") = r
      BY <1>2, <1>5
    <2> HIDE DEF r
    <2>4. ThermoGoesOn(q, r.thermo) => ThermoGoesOn(u, r.thermo)
      BY <1>1, <2>2 DEF ThermoGoesOn, Halting, r
    <2> QED
      BY <1>1, <2>1, <2>2, <2>3, <2>4 DEF ThermoLeads, Halting, r
  <1>6. CASE Stops(q) = {}
    <2>1. ThermoCalm(v)
      BY <1>1, <1>3, <1>4, LongestWaits DEF ThermoCalm, WaitsAlike
    <2>2. ThermoGoesOn(u, v)
      BY <1>1, <1>3, <1>4, <1>6, NothingStops DEF ThermoGoesOn, WaitsAlike
    <2> QED
      BY <1>2, <1>4, <1>6, <2>1, <2>2, QuietLeads
  <1> QED
    BY <1>5, <1>6

LEMMA StartingLeads ==
  ASSUME NEW u \in Thermos, ThermoCalm(u), HeaterCalm(heater), heater \in Outputs, u.state = "Starting"
  PROVE  ThermoLeads(u, ThermoStarting(u, "works"))
  <1> DEFINE p == [u EXCEPT !.start = FALSE, !.reconf = FALSE, !.fault = FALSE, !.next = 0, !.retry = 0,
                            !.safety = FALSE, !.pending = FALSE, !.desired = heater.on, !.actual = heater.on]
             v == Goto(p, "Ready", "Ready")
  <1>1. p \in Thermos /\ p.next = 0 /\ p.invalidFor = u.invalidFor /\ ~p.reconf /\ ~p.fault
    BY Intervals DEF Thermos, ThermoCalm, Outputs
  <1>2. ThermoStarting(u, "works") = IF Stops(u) # {} THEN Stop(u, "works") ELSE Quiet(v)
    BY DEF ThermoStarting
  <1> HIDE DEF p
  <1>3. WaitsAlike(p, v) /\ v.state = "Ready" /\ v.reconf = p.reconf
    BY <1>1, GotoAlike
  <1> HIDE DEF v
  <1>4. CASE Stops(u) # {}
    BY <1>2, <1>4, StopLeads
  <1>5. CASE Stops(u) = {}
    <2>1. ThermoCalm(v)
      BY <1>1, <1>3, LongestWaits DEF ThermoCalm, WaitsAlike
    <2>2. ThermoGoesOn(u, v)
      BY <1>1, <1>3, <1>5, NothingStops DEF ThermoGoesOn, WaitsAlike
    <2> QED
      BY <1>2, <1>3, <1>5, <2>1, <2>2, QuietLeads
  <1> QED
    BY <1>4, <1>5

LEMMA CheckLeads ==
  ASSUME NEW u \in Thermos, ThermoCalm(u), HeaterCalm(heater), heater \in Outputs, u.state = "CheckTemperature",
         sensor \in Sensors
  PROVE  ThermoLeads(u, CheckTemperature(u))
  <1> DEFINE wanted == desiredStateForTemperature(u)
             q == [u EXCEPT !.invalidFor = {}]
             p == [q EXCEPT !.pending = wanted, !.safety = FALSE]
             i == [u EXCEPT !.invalidFor = IF @ = {} THEN {0} ELSE @]
  <1>0. 0 \in 0..SensorTimeout
    BY Intervals
  <1>1. WaitsAlike(q, [u EXCEPT !.invalidFor = {}]) /\ q \in Thermos /\ q.invalidFor = {} /\ q.next = u.next
        /\ ~q.fault /\ ThermoCalm(q)
    BY DEF WaitsAlike, Thermos, ThermoCalm, Single
  <1>2. i \in Thermos /\ i.invalidFor = (IF u.invalidFor = {} THEN {0} ELSE u.invalidFor) /\ i.next = u.next
        /\ ~i.fault /\ i.reconf = u.reconf /\ ThermoCalm(i)
    BY <1>0 DEF Thermos, ThermoCalm, Single
  <1>3. p \in Thermos /\ ThermoCalm(p)
    <2>1. wanted \in BOOLEAN
      BY DEF desiredStateForTemperature, Thermos, ThermoModes
    <2> DEFINE r == [q EXCEPT !.pending = wanted]
    <2> HIDE DEF q, wanted
    <2>2. r \in Thermos
      BY <1>1, <2>1, ThermoAssigned
    <2>3. p = [r EXCEPT !.safety = FALSE]
      OBVIOUS
    <2> HIDE DEF r
    <2>4. p \in Thermos
      BY <2>2, <2>3, ThermoAssigned
    <2>5. p.next = q.next /\ p.invalidFor = q.invalidFor /\ p.fault = q.fault /\ p.state = q.state
      BY <1>1 DEF Thermos
    <2> QED
      BY <1>1, <2>4, <2>5 DEF ThermoCalm
  <1>4. \/ sensor.reading = "invalid" /\ CheckTemperature(u) = InvalidReading(u)
        \/ sensor.reading = "unsafe" /\ CheckTemperature(u) = ThermoFails(q)
        \/ Measured /\ CheckTemperature(u) \in {Quiet(Goto(p, "ApplyOutput", "Ready")),
                                                CheckLater(p, CheckInterval), CheckLater(p, UntilSwitchable(p))}
    BY DEF CheckTemperature, Measured
  <1>5. \/ InvalidReading(u) = ThermoFails(i)
        \/ InvalidReading(u) = CheckLater(i, CheckInterval) /\ i.invalidFor # {SensorTimeout}
    BY DEF InvalidReading
  <1> HIDE DEF p, q, i
  <1>6. ASSUME NEW x \in Thermos, ThermoCalm(x) PROVE ThermoLeads(u, ThermoFails(x))
    <2> DEFINE y == [x EXCEPT !.retry = RetryAfterError]
               v == Goto(y, "Faulted", "Faulted")
    <2>1. y \in Thermos /\ WaitsAlike(x, y)
      BY Intervals DEF Thermos, WaitsAlike
    <2>2. ThermoFails(x) = Quiet(v)
      BY DEF ThermoFails
    <2> HIDE DEF y
    <2>3. WaitsAlike(y, v) /\ v.state = "Faulted"
      BY <2>1, GotoAlike
    <2> HIDE DEF v
    <2>4. ThermoCalm(v) /\ ThermoGoesOn(u, v)
      BY <1>6, <2>1, <2>3 DEF ThermoGoesOn, ThermoCalm, WaitsAlike
    <2> QED
      BY <2>2, <2>3, <2>4, QuietLeads
  <1>7. ASSUME NEW x \in Thermos, ThermoCalm(x), NEW n \in 0..(CheckInterval + MinSwitchInterval), n <= LongestWait,
               Measured \/ (n = CheckInterval /\ x.reconf = u.reconf /\ x.invalidFor # {SensorTimeout}
                            /\ x.invalidFor = (IF u.invalidFor = {} THEN {0} ELSE u.invalidFor))
        PROVE  ThermoLeads(u, CheckLater(x, n))
    <2> DEFINE y == [x EXCEPT !.next = n]
               v == Goto(y, "Ready", "Ready")
    <2>1. y \in Thermos /\ y.next = n /\ y.invalidFor = x.invalidFor /\ y.fault = x.fault /\ y.reconf = x.reconf
      BY DEF Thermos
    <2>2. CheckLater(x, n) = Quiet(v)
      BY DEF CheckLater
    <2> HIDE DEF y
    <2>3. WaitsAlike(y, v) /\ v.state = "Ready" /\ v.reconf = y.reconf
      BY <2>1, GotoAlike
    <2> HIDE DEF v
    <2>4. v.next = n /\ v.invalidFor = x.invalidFor /\ ~v.fault /\ v.reconf = x.reconf
      BY <1>7, <2>1, <2>3 DEF WaitsAlike, ThermoCalm
    <2>5. ThermoCalm(v)
      BY <1>7, <2>3, <2>4 DEF ThermoCalm
    <2>6. ThermoGoesOn(u, v)
      BY <1>7, <2>3, <2>4 DEF ThermoGoesOn
    <2> QED
      BY <2>2, <2>3, <2>5, <2>6, QuietLeads
  <1>8. ASSUME Measured PROVE ThermoLeads(u, Quiet(Goto(p, "ApplyOutput", "Ready")))
    <2> DEFINE v == Goto(p, "ApplyOutput", "Ready")
    <2>1. WaitsAlike(p, v) /\ v.state = "ApplyOutput"
      BY <1>3, GotoAlike
    <2> HIDE DEF v
    <2>2. ThermoCalm(v) /\ ThermoGoesOn(u, v)
      BY <1>3, <1>8, <2>1, CalmAlike DEF ThermoGoesOn
    <2> QED
      BY <1>8, <2>1, <2>2, QuietLeads DEF v
  <1>9. UntilSwitchable(p) \in 0..(CheckInterval + MinSwitchInterval) /\ UntilSwitchable(p) <= LongestWait
    BY <1>3, Intervals, LongestWaits DEF UntilSwitchable, Thermos
  <1>10. CheckInterval \in 0..(CheckInterval + MinSwitchInterval) /\ CheckInterval <= LongestWait
    BY Intervals, LongestWaits
  <1> QED
    BY <1>1, <1>2, <1>3, <1>4, <1>5, <1>6, <1>7, <1>8, <1>9, <1>10

(* Nothing stops it here, so that the switch takes what is asked for.        *)
LEMMA ApplyLeads ==
  ASSUME NEW u \in Thermos, ThermoCalm(u), HeaterCalm(heater), heater \in Outputs, u.state = "ApplyOutput"
  PROVE  ThermoLeads(u, ApplyOutput(u, "works"))
  <1>1. ASSUME NEW v, NEW d, ThermoCalm(v), HeaterCalm(d), v.state = "Ready"
        PROVE  ThermoLeads(u, [thermo |-> v, heater |-> d])
    BY <1>1 DEF ThermoLeads
  <1>2. CASE Stops(u) # {}
    BY <1>2, StopLeads DEF ApplyOutput
  <1>3. CASE Stops(u) = {}
    <2>1. Takes(u.pending, "works")
      BY <1>3, NothingStops DEF Takes, Accepts, BothReady
    <2>2. ApplyOutput(u, "works") = CheckLater(u, UntilSwitchable(u)) \/ ApplyOutput(u, "works") = Switched(u, "works")
      BY <1>3, <2>1 DEF ApplyOutput
    <2>3. ThermoLeads(u, CheckLater(u, UntilSwitchable(u)))
      <3> DEFINE n == UntilSwitchable(u)
                 y == [u EXCEPT !.next = n]
                 v == Goto(y, "Ready", "Ready")
      <3>1. n \in 0..(CheckInterval + MinSwitchInterval) /\ n <= LongestWait
        BY Intervals, LongestWaits DEF UntilSwitchable, Thermos
      <3>2. CheckLater(u, n) = Quiet(v)
        BY DEF CheckLater
      <3> HIDE DEF n
      <3>3. y \in Thermos /\ y.next = n /\ y.invalidFor = u.invalidFor /\ y.fault = u.fault
        BY <3>1 DEF Thermos
      <3> HIDE DEF y
      <3>4. WaitsAlike(y, v) /\ v.state = "Ready"
        BY <3>3, GotoAlike
      <3> HIDE DEF v
      <3>5. ThermoCalm(v)
        BY <3>1, <3>3, <3>4 DEF ThermoCalm, WaitsAlike
      <3> QED
        BY <1>1, <3>2, <3>4, <3>5 DEF Quiet, n
    <2>4. ThermoLeads(u, Switched(u, "works"))
      <3> DEFINE y == [u EXCEPT !.desired = u.pending, !.actual = u.pending, !.safety = FALSE,
                                !.next = CheckInterval, !.sinceSwitch = IF u.safety THEN @ ELSE 0]
                 v == Goto(y, "Ready", "Ready")
                 d == requestOutputState(heater, u.pending, "works")
      <3>1. Switched(u, "works") = [thermo |-> v, heater |-> d]
        BY DEF Switched
      <3>2. y \in Thermos /\ y.next = CheckInterval /\ y.invalidFor = u.invalidFor /\ y.fault = u.fault
        BY Intervals DEF Thermos
      <3> HIDE DEF y
      <3>3. WaitsAlike(y, v) /\ v.state = "Ready"
        BY <3>2, GotoAlike
      <3> HIDE DEF v
      <3>4. ThermoCalm(v)
        BY <3>2, <3>3, LongestWaits DEF ThermoCalm, WaitsAlike
      <3>5. u.pending \in BOOLEAN
        BY DEF Thermos
      <3>6. HeaterCalm(d)
        BY <3>5, CommandCalm
      <3> HIDE DEF d
      <3> QED
        BY <1>1, <3>1, <3>3, <3>4, <3>6
    <2> QED
      BY <2>2, <2>3, <2>4
  <1> QED
    BY <1>2, <1>3

(* The states that ask for the safe state leave each other only for a heater *)
(* that is ready to take it.                                                 *)
LEMMA HaltingLeads ==
  ASSUME NEW u \in Thermos, ThermoCalm(u), HeaterCalm(heater), heater \in Outputs, u.state \in Halting
  PROVE  ThermoLeads(u, ThermoTick(u, "works"))
  <1>0. {"RetryBackoff", "DependencyBlocked", "Disabled", "Reconfiguring"} \subseteq ThermoStates \ {"Idle", "ApplyOutput"}
        /\ {"Faulted", "Disabled", "Reconfiguring"} \subseteq Statuses /\ u.state # "CheckTemperature"
    BY NameTypes DEF Halting, Statuses
  <1>1. ASSUME NEW s \in {"RetryBackoff", "DependencyBlocked", "Disabled", "Reconfiguring"}, NEW st \in Statuses,
               s # "Reconfiguring" \/ heater.status = "Ready"
        PROVE  ThermoLeads(u, requestSafeOff(Goto(u, s, st), "works"))
    <2>1. s \in ThermoStates \ {"Idle", "ApplyOutput"} /\ (s \in Halting \/ heater.status = "Ready")
      BY <1>0, <1>1 DEF Halting
    <2>2. Goto(u, s, st) \in Thermos
      BY <2>1, ThermoGoto
    <2> QED
      BY <1>0, <2>1, <2>2, SafeOffLeads
  <1>2. CASE u.state = "RetryBackoff"
    <2>1. ThermoTick(u, "works") = ThermoRetryBackoff(u, "works")
      BY <1>2 DEF ThermoTick
    <2>2. CASE Stops(u) # {}
      BY <1>0, <2>1, <2>2, StopLeads DEF ThermoRetryBackoff
    <2>3. CASE Stops(u) = {}
      <3> DEFINE s == IF u.retry > 0 THEN "RetryBackoff" ELSE "Reconfiguring"
      <3>1. ThermoTick(u, "works") = requestSafeOff(Goto(u, s, "Faulted"), "works")
        BY <2>1, <2>3 DEF ThermoRetryBackoff
      <3>2. s \in {"RetryBackoff", "DependencyBlocked", "Disabled", "Reconfiguring"} /\ "Faulted" \in Statuses
        BY <1>0
      <3> HIDE DEF s
      <3> QED
        BY <1>1, <2>3, <3>1, <3>2, NothingStops DEF BothReady
    <2> QED
      BY <2>2, <2>3
  <1>3. CASE u.state = "DependencyBlocked"
    <2>1. ThermoTick(u, "works") = ThermoDependencyBlocked(u, "works")
      BY <1>3 DEF ThermoTick
    <2>2. CASE Stops(u) # {}
      BY <1>0, <2>1, <2>2, StopLeads DEF ThermoDependencyBlocked
    <2>3. CASE Stops(u) = {}
      BY <1>0, <1>1, <2>1, <2>3, NothingStops DEF BothReady, ThermoDependencyBlocked, SafeOffTo
    <2> QED
      BY <2>2, <2>3
  <1>4. CASE u.state = "Disabled"
    <2> DEFINE s == IF Unwanted(u) \/ ThermoDeps # {"Ready"} THEN "Disabled" ELSE "Reconfiguring"
    <2>1. ThermoTick(u, "works") = requestSafeOff(Goto(u, s, "Disabled"), "works")
      BY <1>4 DEF ThermoTick, ThermoDisabled
    <2>2. s \in {"RetryBackoff", "DependencyBlocked", "Disabled", "Reconfiguring"} /\ "Disabled" \in Statuses
      BY <1>0
    <2>3. s # "Reconfiguring" \/ heater.status = "Ready"
      BY DEF ThermoDeps
    <2> HIDE DEF s
    <2> QED
      BY <1>1, <2>1, <2>2, <2>3
  <1>5. CASE u.state = "Faulted"
    <2>1. ThermoTick(u, "works") = ThermoFaulted(u, "works")
      BY <1>5 DEF ThermoTick
    <2> QED
      BY <1>0, <1>1, <2>1 DEF ThermoFaulted, SafeOffTo
  <1> QED
    BY <1>2, <1>3, <1>4, <1>5 DEF Halting

LEMMA ThermoTickLeads ==
  ASSUME NEW u \in Thermos, ThermoCalm(u), HeaterCalm(heater), heater \in Outputs, sensor \in Sensors
  PROVE  ThermoLeads(u, ThermoTick(u, "works"))
  <1>1. CASE u.state = "Starting"
    <2>1. ThermoTick(u, "works") = ThermoStarting(u, "works")
      BY <1>1 DEF ThermoTick
    <2> QED
      BY <1>1, <2>1, StartingLeads
  <1>2. CASE u.state = "Ready"
    <2>1. ThermoTick(u, "works") = ThermoReady(u, "works")
      BY <1>2 DEF ThermoTick
    <2> QED
      BY <1>2, <2>1, ReadyLeads
  <1>3. CASE u.state = "Reconfiguring"
    <2>1. ThermoTick(u, "works") = ThermoReconfiguring(u, "works")
      BY <1>3 DEF ThermoTick
    <2> QED
      BY <1>3, <2>1, ReconfiguringLeads
  <1>4. CASE u.state = "CheckTemperature"
    <2>1. ThermoTick(u, "works") = CheckTemperature(u)
      BY <1>4 DEF ThermoTick
    <2> QED
      BY <1>4, <2>1, CheckLeads
  <1>5. CASE u.state = "ApplyOutput"
    <2>1. ThermoTick(u, "works") = ApplyOutput(u, "works")
      BY <1>5 DEF ThermoTick
    <2> QED
      BY <1>5, <2>1, ApplyLeads
  <1>6. CASE u.state \in Halting
    BY <1>6, HaltingLeads
  <1> QED
    BY <1>1, <1>2, <1>3, <1>4, <1>5, <1>6, NameTypes DEF Thermos, ThermoCalm, Halting
-----------------------------------------------------------------------------
(* Left: the ticks of the thermostat t, beyond the coming one, at which the  *)
(* heater d, on now, can still be on while the status of the sensor is s and *)
(* it has no reading; now is 1 in the pass that ticks the thermostat next.   *)

UntilCheck(t) ==
  CASE t.state = "CheckTemperature" -> 1
    [] t.state = "Ready" -> (IF t.next = 0 THEN 1 ELSE t.next) + 1
    [] t.state = "ApplyOutput" -> LongestWait + 2
    [] OTHER -> 3

(* Will a pass through Reconfiguring put the check off once more?            *)
Turning(d) == d.reconf \/ d.state = "Reconfiguring"
Pressed(t, d, s, now) ==
  IF t.state \in {"Reconfiguring", "Starting"} THEN d.state = "Ready" /\ d.reconf /\ now = 1
  ELSE t.reconf \/ s # "Ready" \/ Turning(d)

Left(t, d, s, now) ==
  IF d.state = "Idle" THEN now + 1
  ELSE IF d.state = "Starting" \/ Unwanted(d) THEN now
  ELSE IF t.state \in Halting
       THEN IF d.state = "Reconfiguring" THEN now
            ELSE IF d.state = "Ready" /\ d.reconf THEN now + 1 ELSE 0
  ELSE Rest(t.invalidFor, UntilCheck(t)) + (IF Pressed(t, d, s, now) THEN 2 ELSE 0)

LEMMA UntilCheckIs ==
  ASSUME NEW t \in Thermos, ThermoCalm(t)
  PROVE  /\ UntilCheck(t) \in Nat \ {0} /\ UntilCheck(t) <= LongestWait + 2
         /\ t.state # "ApplyOutput" => UntilCheck(t) <= LongestWait + 1 \/ UntilCheck(t) = 3
         /\ t.state = "CheckTemperature" => UntilCheck(t) = 1
         /\ t.state = "Ready" => UntilCheck(t) = (IF t.next = 0 THEN 1 ELSE t.next) + 1
         /\ t.state \in {"Reconfiguring", "Starting"} => UntilCheck(t) = 3
  <1>1. t.next \in Nat /\ t.next <= LongestWait
    BY Intervals DEF Thermos, ThermoCalm
  <1>2. CASE t.state = "CheckTemperature"
    <2>1. UntilCheck(t) = 1
      BY <1>2 DEF UntilCheck
    <2> QED
      BY <1>2, <2>1, LongestWaits
  <1>3. CASE t.state = "Ready"
    <2>1. UntilCheck(t) = (IF t.next = 0 THEN 1 ELSE t.next) + 1
      BY <1>3 DEF UntilCheck
    <2> QED
      BY <1>1, <1>3, <2>1, LongestWaits
  <1>4. CASE t.state = "ApplyOutput"
    <2>1. UntilCheck(t) = LongestWait + 2
      BY <1>4 DEF UntilCheck
    <2> QED
      BY <1>4, <2>1, LongestWaits
  <1>5. CASE t.state \notin {"CheckTemperature", "Ready", "ApplyOutput"}
    <2>1. UntilCheck(t) = 3
      BY <1>5 DEF UntilCheck
    <2> QED
      BY <1>5, <2>1, LongestWaits
  <1> QED
    BY <1>2, <1>3, <1>4, <1>5

LEMMA LeftBound ==
  ASSUME NEW t \in Thermos, ThermoCalm(t), NEW d, NEW s, NEW now \in {0, 1}
  PROVE  /\ Left(t, d, s, now) \in Nat
         /\ Left(t, d, s, now) <= LongestWait + LastWait + 4
         /\ t.state # "ApplyOutput" /\ now = 0 => Left(t, d, s, now) <= LongestWait + LastWait + 3
  <1> DEFINE l == UntilCheck(t)
             r == Rest(t.invalidFor, l)
             p == IF Pressed(t, d, s, now) THEN 2 ELSE 0
  <1>1. l \in Nat \ {0} /\ l <= LongestWait + 2
    BY UntilCheckIs
  <1>2. r \in Nat /\ r <= l + LastWait
    <2>1. Single(t.invalidFor)
      BY DEF ThermoCalm
    <2> QED
      BY <1>1, <2>1, RestBounds
  <1>3. t.state # "ApplyOutput" /\ now = 0 /\ t.state \notin Halting => l + p <= LongestWait + 3
    <2>1. t.state \in ThermoStates /\ t.next \in Nat /\ t.next <= LongestWait /\ t.state # "Idle"
      BY Intervals DEF Thermos, ThermoCalm
    <2>2. CASE t.state \in {"Reconfiguring", "Starting"}
      BY <2>2, UntilCheckIs, LongestWaits DEF Pressed
    <2>3. CASE t.state \in {"CheckTemperature", "Ready"}
      BY <2>1, <2>3, UntilCheckIs, LongestWaits
    <2> QED
      BY <2>1, <2>2, <2>3, NameTypes DEF Halting
  <1>4. p \in 0..2 /\ LastWait \in Nat \ {0, 1}
    BY Intervals DEF LastWait
  <1>5. Left(t, d, s, now) \in {now + 1, now, 0} \/ (t.state \notin Halting /\ Left(t, d, s, now) = r + p)
    BY DEF Left
  <1> HIDE DEF l, r, p
  <1> QED
    BY <1>1, <1>2, <1>3, <1>4, <1>5, LongestWaits

(* What the registry asks of a thermostat changes neither state nor waits.   *)
Alike(t, v) == WaitsAlike(t, v) /\ v.state = t.state

LEMMA AskedAlike ==
  ASSUME NEW t \in Thermos
  PROVE  /\ Alike(t, requestReconfigure(t)) /\ Alike(t, requestDisable(t))
         /\ \A statuses : /\ Alike(t, Refreshed(t, statuses))
                          /\ Refreshed(t, statuses).reconf => t.reconf \/ statuses \ {"Ready", "Disabled"} # {}
  <1>1. Alike(t, requestReconfigure(t)) /\ Alike(t, requestDisable(t)) /\ requestDisable(t).reconf = t.reconf
    BY DEF Alike, WaitsAlike, requestReconfigure, requestDisable, Thermos
  <1>2. Alike(t, t)
    BY DEF Alike, WaitsAlike
  <1> QED
    BY <1>1, <1>2 DEF Refreshed

LEMMA UntilCheckAlike == ASSUME NEW t, NEW v, Alike(t, v) PROVE UntilCheck(v) = UntilCheck(t)
  BY DEF UntilCheck, Alike, WaitsAlike

(* A request puts the check off by two ticks at most, and by none when one   *)
(* is pending.                                                               *)
LEMMA AskedLeft ==
  ASSUME NEW t \in Thermos, ThermoCalm(t), NEW v, Alike(t, v), NEW d, NEW s, NEW z, NEW now \in {0, 1}
  PROVE  /\ Left(v, d, z, now) <= Left(t, d, s, now) + 2
         /\ (v.reconf \/ z # "Ready" => t.reconf \/ s # "Ready" \/ Turning(d))
            => Left(v, d, z, now) <= Left(t, d, s, now)
  <1> DEFINE r == Rest(t.invalidFor, UntilCheck(t))
  <1>1. r \in Nat
    <2>1. Single(t.invalidFor)
      BY DEF ThermoCalm
    <2> QED
      BY <2>1, UntilCheckIs, RestBounds
  <1>2. Rest(v.invalidFor, UntilCheck(v)) = r
    BY UntilCheckAlike DEF Alike, WaitsAlike
  <1>4. v.state = t.state
    BY DEF Alike
  <1>5. (v.reconf \/ z # "Ready" => t.reconf \/ s # "Ready" \/ Turning(d))
        => (Pressed(v, d, z, now) => Pressed(t, d, s, now))
    BY <1>4 DEF Pressed
  <1> HIDE DEF r
  <1> QED
    BY <1>1, <1>2, <1>4, <1>5 DEF Left, r

(* A tick of a heater that stays on.                                         *)
LEMMA FastLess ==
  ASSUME NEW t \in Thermos, ThermoCalm(t), NEW v, Alike(t, v), NEW d \in Outputs, HeaterCalm(d), NEW e,
         HeaterGoesOn(d, e), NEW s, NEW now \in {0, 1},
         v.reconf => t.reconf \/ s # "Ready" \/ e.status # "Ready"
  PROVE  Left(v, e, s, 1) <= Left(t, d, s, now)
  <1> DEFINE r == Rest(t.invalidFor, UntilCheck(t))
  <1>1. r \in Nat
    <2>1. Single(t.invalidFor)
      BY DEF ThermoCalm
    <2> QED
      BY <2>1, UntilCheckIs, RestBounds
  <1>2. Rest(v.invalidFor, UntilCheck(v)) = r
    BY UntilCheckAlike DEF Alike, WaitsAlike
  <1>3. v.state = t.state
    BY DEF Alike
  <1> HIDE DEF r
  <1>4. CASE d.state = "Idle" /\ e.state = "Starting"
    BY <1>4 DEF Left
  <1>5. CASE d.state = "Reconfiguring" /\ ~Unwanted(d)
             /\ e.state = "Ready" /\ ~e.reconf /\ ~Unwanted(e) /\ e.status = "Ready"
    BY <1>1, <1>2, <1>3, <1>5 DEF Left, Pressed, Turning, r
  <1>6. CASE d.state = "Ready" /\ ~Unwanted(d) /\ d.reconf
             /\ e.state = "Reconfiguring" /\ e.reconf /\ ~Unwanted(e)
    BY <1>1, <1>2, <1>3, <1>6 DEF Left, Pressed, Turning, r
  <1>7. CASE d.state = "Ready" /\ ~Unwanted(d) /\ ~d.reconf
             /\ e.state = "Ready" /\ ~e.reconf /\ ~Unwanted(e) /\ e.status = "Ready" /\ d.status = "Ready"
    BY <1>1, <1>2, <1>3, <1>7 DEF Left, Pressed, Turning, r
  <1> QED
    BY <1>4, <1>5, <1>6, <1>7 DEF HeaterGoesOn

(* A tick of the thermostat that finds no reading, and leaves the heater on. *)
LEMMA TickLess ==
  ASSUME NEW t \in Thermos, ThermoCalm(t), t.state # "ApplyOutput", heater \in Outputs, HeaterCalm(heater),
         IsHot(heater), ~Measured, NEW s, s = sensor.status,
         NEW u \in Thermos, u = Aged(t), NEW v \in Thermos, ThermoCalm(v), ThermoGoesOn(u, v),
         NEW w, Alike(v, w), w.reconf => v.reconf \/ s # "Ready" \/ heater.status # "Ready"
  PROVE  Left(w, heater, s, 0) + 1 <= Left(t, heater, s, 1)
  <1> DEFINE r == Rest(t.invalidFor, UntilCheck(t))
             q == Rest(w.invalidFor, UntilCheck(w))
  <1>1. /\ u.state = t.state /\ u.reconf = t.reconf /\ u.next = Less(t.next)
        /\ u.invalidFor = Older(t.invalidFor) /\ w.state = v.state
    BY DEF Aged, Older, Thermos, Alike
  <1>2. Single(t.invalidFor) /\ Single(u.invalidFor)
    BY <1>1, OlderSingle DEF ThermoCalm
  <1>3. /\ UntilCheck(t) \in Nat /\ UntilCheck(t) >= 1 /\ r \in Nat /\ r >= UntilCheck(t)
        /\ t.state # "CheckTemperature" => UntilCheck(t) >= 2
    <2>1. UntilCheck(t) \in Nat \ {0}
      BY UntilCheckIs
    <2>2. UntilCheck(t) \in Nat
      BY <2>1
    <2>3. Rest(t.invalidFor, UntilCheck(t)) \in Nat /\ UntilCheck(t) <= Rest(t.invalidFor, UntilCheck(t))
      BY <1>2, <2>2, RestBounds
    <2>4. t.next \in Nat
      BY Intervals DEF Thermos
    <2>5. t.state # "CheckTemperature" => UntilCheck(t) >= 2
      BY <2>4, LongestWaits DEF UntilCheck
    <2> QED
      BY <2>1, <2>3, <2>5
  <1>4. UntilCheck(w) = UntilCheck(v) /\ q = Rest(v.invalidFor, UntilCheck(v)) /\ q \in Nat
    <2>1. Single(v.invalidFor)
      BY DEF ThermoCalm
    <2> QED
      BY <2>1, UntilCheckAlike, UntilCheckIs, RestBounds DEF Alike, WaitsAlike
  <1>5. CASE heater.state = "Idle" \/ heater.state = "Starting" \/ Unwanted(heater)
    BY <1>5 DEF Left
  <1>6. ASSUME ~(heater.state = "Idle" \/ heater.state = "Starting" \/ Unwanted(heater))
        PROVE  Left(w, heater, s, 0) + 1 <= Left(t, heater, s, 1)
    <2>1. /\ heater.state \in {"Ready", "Reconfiguring"}
          /\ heater.state = "Ready" /\ ~heater.reconf <=> heater.status = "Ready" /\ ~Turning(heater)
          /\ ~Turning(heater) => heater.state = "Ready" /\ heater.status = "Ready"
          /\ heater.status = "Ready" => heater.state = "Ready"
      BY <1>6 DEF HeaterCalm, IsHot, Turning, Outputs
    <2>2. ASSUME w.state \in Halting
          PROVE  Left(w, heater, s, 0) = (IF heater.state = "Ready" /\ heater.reconf THEN 1 ELSE 0)
      BY <1>6, <2>1, <2>2 DEF Left
    <2>3. ASSUME w.state \notin Halting
          PROVE  Left(w, heater, s, 0) = q + (IF Pressed(w, heater, s, 0) THEN 2 ELSE 0)
      BY <1>6, <2>1, <2>3 DEF Left
    <2>4. ASSUME t.state \notin Halting
          PROVE  Left(t, heater, s, 1) = r + (IF Pressed(t, heater, s, 1) THEN 2 ELSE 0)
      BY <1>6, <2>1, <2>4 DEF Left
    <2>5. ASSUME t.state \in Halting
          PROVE  Left(t, heater, s, 1) = (IF heater.state = "Reconfiguring" THEN 1
                                               ELSE IF heater.state = "Ready" /\ heater.reconf THEN 2 ELSE 0)
      BY <1>6, <2>1, <2>5 DEF Left
    <2> HIDE DEF r, q
    <2>6. CASE u.state # "CheckTemperature" /\ heater.status # "Ready" /\ v.state \in Halting
      <3>1. CASE t.state \in Halting
        BY <1>1, <2>1, <2>2, <2>5, <2>6, <3>1 DEF Turning
      <3>2. CASE t.state \notin Halting
        BY <1>1, <1>3, <2>1, <2>2, <2>4, <2>6, <3>2
      <3> QED
        BY <3>1, <3>2
    <2>7. CASE u.state = "CheckTemperature" /\ v.state = "Faulted"
      BY <1>1, <1>3, <2>1, <2>2, <2>4, <2>7 DEF Halting, Pressed, Turning
    <2>8. CASE u.state = "Ready" /\ u.reconf /\ v.state = "Reconfiguring" /\ WaitsAlike(u, v)
      <3>1. UntilCheck(v) = 3 /\ v.invalidFor = Older(t.invalidFor)
        BY <1>1, <2>8, UntilCheckIs DEF WaitsAlike
      <3>2. q + 1 <= Rest(t.invalidFor, 4)
        <4>1. Rest(Older(t.invalidFor), 3) + 1 <= Rest(t.invalidFor, 3 + 1)
          BY <1>2, RestDrops
        <4> QED
          BY <1>4, <3>1, <4>1
      <3>3. UntilCheck(t) >= 2
        BY <1>1, <1>3, <2>8
      <3>4. Rest(t.invalidFor, 4) <= r + 2
        <4>1. 4 <= UntilCheck(t) + 2
          BY <1>3, <3>3
        <4> QED
          BY <1>2, <1>3, <4>1, RestLater DEF r
      <3>5. Pressed(t, heater, s, 1) /\ ~Pressed(w, heater, s, 0)
        BY <1>1, <2>8 DEF Pressed
      <3>6. Rest(t.invalidFor, 4) \in Nat
        BY <1>2, RestBounds
      <3> QED
        BY <1>1, <1>3, <1>4, <2>3, <2>4, <2>8, <3>2, <3>4, <3>5, <3>6 DEF Halting
    <2>9. CASE /\ u.state = "Ready" /\ BothReady /\ WaitsAlike(u, v) /\ ~v.reconf /\ ~u.reconf
               /\ u.next > 0 => v.state = "Ready"
               /\ u.next = 0 => v.state = "CheckTemperature"
      <3>1. t.next \in Nat /\ u.next \in Nat /\ v.next = u.next /\ v.invalidFor = Older(t.invalidFor)
        BY <1>1, <2>9, Intervals DEF Thermos, WaitsAlike
      <3>2. UntilCheck(v) \in Nat \ {0} /\ UntilCheck(t) = UntilCheck(v) + 1
        <4>1. UntilCheck(t) = (IF t.next = 0 THEN 1 ELSE t.next) + 1
          BY <1>1, <2>9, UntilCheckIs
        <4>2. CASE u.next > 0
          <5>1. UntilCheck(v) = (IF v.next = 0 THEN 1 ELSE v.next) + 1
            BY <2>9, <4>2, UntilCheckIs
          <5> QED
            BY <1>1, <3>1, <4>1, <4>2, <5>1 DEF Less
        <4>3. CASE u.next = 0
          <5>1. UntilCheck(v) = 1
            BY <2>9, <4>3, UntilCheckIs
          <5> QED
            BY <1>1, <3>1, <4>1, <4>3, <5>1 DEF Less
        <4> QED
          BY <3>1, <4>2, <4>3
      <3>3. q + 1 <= r
        BY <1>2, <1>4, <3>1, <3>2, RestDrops DEF r
      <3>4. Pressed(w, heater, s, 0) => Pressed(t, heater, s, 1)
        BY <1>1, <2>9, <3>1 DEF Pressed, BothReady
      <3>5. v.state \in {"Ready", "CheckTemperature"}
        BY <2>9, <3>1
      <3> QED
        BY <1>1, <1>3, <1>4, <2>3, <2>4, <2>9, <3>3, <3>4, <3>5 DEF Halting
    <2>10. CASE /\ u.state \in {"Reconfiguring", "Starting"} /\ BothReady /\ v.state = "Ready" /\ ~v.reconf
                /\ v.next = 0 /\ v.invalidFor = u.invalidFor
      <3>1. UntilCheck(t) = 3 /\ UntilCheck(v) = 2 /\ v.invalidFor = Older(t.invalidFor)
        BY <1>1, <2>10, UntilCheckIs
      <3>2. q + 1 <= r
        <4>1. Rest(Older(t.invalidFor), 2) + 1 <= Rest(t.invalidFor, 2 + 1)
          BY <1>2, RestDrops
        <4> QED
          BY <1>4, <3>1, <4>1 DEF r
      <3>3. Pressed(w, heater, s, 0) => Pressed(t, heater, s, 1)
        BY <1>1, <2>1, <2>10 DEF Pressed, BothReady, Turning
      <3> QED
        BY <1>1, <1>3, <1>4, <2>3, <2>4, <2>10, <3>2, <3>3 DEF Halting
    <2>11. CASE /\ u.state = "CheckTemperature" /\ v.state = "Ready" /\ v.next = CheckInterval /\ v.reconf = u.reconf
                /\ v.invalidFor = (IF u.invalidFor = {} THEN {0} ELSE u.invalidFor) /\ v.invalidFor # {SensorTimeout}
      <3>1. UntilCheck(t) = 1 /\ UntilCheck(v) = CheckInterval + 1
        BY <1>1, <2>11, UntilCheckIs, Intervals
      <3>2. v.invalidFor = (IF Older(t.invalidFor) = {} THEN {0} ELSE Older(t.invalidFor))
        BY <1>1, <2>11
      <3>3. q + 1 <= r
        BY <1>2, <1>4, <2>11, <3>1, <3>2, RestAgain DEF r
      <3>4. Pressed(w, heater, s, 0) => Pressed(t, heater, s, 1)
        BY <1>1, <2>1, <2>11 DEF Pressed
      <3> QED
        BY <1>1, <1>3, <1>4, <2>3, <2>4, <2>11, <3>3, <3>4 DEF Halting
    <2>12. CASE u.state = "CheckTemperature" /\ Measured
      BY <2>12
    <2> QED
      BY <2>6, <2>7, <2>8, <2>9, <2>10, <2>11, <2>12 DEF ThermoGoesOn
  <1> QED
    BY <1>5, <1>6
-----------------------------------------------------------------------------
(* Whatever was on and without a reading for some ticks has fewer left.      *)

DueNow == IF heaterTicked THEN 1 ELSE 0
Limit == LongestWait + LastWait + 5 + 2 * thermoRequests

Bounded ==
  /\ HeaterCalm(heater) /\ ThermoCalm(thermo)
  /\ sensor.status # "Ready" => sensor.reading = "invalid"
  /\ thermo.state = "ApplyOutput" => blindFor = 0
  /\ blindFor \in Nat /\ blindFor <= Limit
  /\ IsHot(heater) => blindFor + Left(thermo, heater, sensor.status, DueNow) + 1 <= Limit

BlindInv == heaterFaults \in Nat /\ thermoRequests \in Nat /\ (heaterFaults = 0 => Bounded)

LEMMA WaitsTyped == LongestWait \in Nat /\ LastWait \in Nat
  BY LongestWaits, Intervals DEF LastWait

LEMMA FreshThermoCalm == ASSUME NEW enabled \in BOOLEAN PROVE ThermoCalm(FreshThermo(enabled))
                                                            /\ FreshThermo(enabled).state # "ApplyOutput"
  <1> DEFINE f == IdleTick(Fresh(enabled))
  <1>1. f.state \in {"Starting", "Disabled"} /\ ~f.fault
    BY DEF IdleTick, Fresh, SwitchedOff, Goto, Unwanted
  <1> HIDE DEF f
  <1>2. DOMAIN Fresh(enabled) = {"state", "status", "start", "reconf", "disable", "fault", "enabled"}
    BY DEF Fresh
  <1>3. DOMAIN Unset = {"next", "retry", "sinceSwitch", "invalidFor", "desired", "actual", "pending", "safety", "mode"}
    BY DEF Unset
  <1>4. FreshThermo(enabled) = [x \in DOMAIN Fresh(enabled) \cup DOMAIN Unset |-> IF x \in DOMAIN Unset THEN Unset[x] ELSE f[x]]
    BY DEF FreshThermo, f
  <1>5. FreshThermo(enabled).state = f.state /\ FreshThermo(enabled).fault = f.fault
    BY <1>2, <1>3, <1>4
  <1>6. FreshThermo(enabled).next = 0 /\ FreshThermo(enabled).invalidFor = {}
    BY <1>2, <1>3, <1>4 DEF Unset
  <1> QED
    BY <1>1, <1>5, <1>6, LongestWaits DEF ThermoCalm, Single

LEMMA BlindInitially == ThermoInit => BlindInv
  <1> SUFFICES ASSUME ThermoInit PROVE BlindInv
    OBVIOUS
  <1>1. PICK channel \in BOOLEAN : heater = OutputTick(FreshOutput(TRUE, channel, FALSE), TRUE, "works")
    BY DEF ThermoInit
  <1>2. HeaterCalm(heater) /\ ~IsHot(heater)
    BY <1>1 DEF OutputTick, FreshOutput, HeaterCalm, IsHot
  <1>3. ThermoCalm(thermo) /\ thermo.state # "ApplyOutput"
    BY FreshThermoCalm DEF ThermoInit
  <1>4. heaterFaults = 0 /\ thermoRequests = 0 /\ blindFor = 0 /\ sensor.reading = "invalid"
    BY DEF ThermoInit
  <1>5. 0 <= Limit
    BY <1>4, WaitsTyped DEF Limit
  <1> QED
    BY <1>2, <1>3, <1>4, <1>5 DEF BlindInv, Bounded

(* What starts the count over.                                               *)
LEMMA BlindAfresh ==
  ASSUME thermo' \in Thermos, HeaterCalm(heater'), ThermoCalm(thermo'), blindFor' = 0,
         heaterFaults' \in Nat, thermoRequests' \in Nat,
         sensor'.status # "Ready" => sensor'.reading = "invalid"
  PROVE  BlindInv'
  <1>1. DueNow' \in {0, 1}
    BY DEF DueNow
  <1> DEFINE n == DueNow'
             l == Left(thermo', heater', sensor'.status, n)
  <1> HIDE DEF n
  <1>2. l \in Nat /\ l <= LongestWait + LastWait + 4
    BY <1>1, LeftBound DEF n
  <1> HIDE DEF l
  <1> DEFINE m == thermoRequests'
  <1>m. m \in Nat
    OBVIOUS
  <1> HIDE DEF m
  <1>3. LET limit == LongestWait + LastWait + 5 + 2 * m IN 0 <= limit /\ 0 + l + 1 <= limit
    BY <1>2, <1>m, WaitsTyped
  <1> QED
    BY <1>3 DEF BlindInv, Bounded, Limit, l, n, m

(* A tick of the thermostat.                                                 *)
LEMMA BlindTicks ==
  ASSUME ThermoInv, BlindInv, ThermoInv', Thermo100ms("works"), heaterFaults = 0
  PROVE  BlindInv'
  <1> DEFINE u == Aged(thermo)
             r == ThermoTick(u, "works")
             v == r.thermo
             d == r.heater
             w == thermo'
             s == sensor.status
             l == Left(thermo, heater, s, 1)
             k == Left(w, d, s, 0)
  <1>1. /\ heater \in Outputs /\ thermo \in Thermos /\ sensor \in Sensors /\ "works" \in Hardware /\ w \in Thermos
        /\ HeaterCalm(heater) /\ ThermoCalm(thermo) /\ heaterTicked
    BY DEF ThermoInv, BlindInv, Bounded, Hardware, Thermo100ms
  <1>2. u \in Thermos /\ u.state = thermo.state /\ u.next = Less(thermo.next) /\ u.fault = thermo.fault
        /\ u.invalidFor = Older(thermo.invalidFor)
    <2>1. u \in Thermos
      BY <1>1, ThermoAges
    <2> QED
      BY <1>1, <2>1 DEF Aged, Older, Thermos
  <1>3. ThermoCalm(u)
    <2>1. thermo.next \in Nat
      BY <1>1, Intervals DEF Thermos
    <2> QED
      BY <1>1, <1>2, <2>1, OlderSingle, LongestWaits DEF ThermoCalm, Less
  <1> HIDE DEF u
  <1>4. ThermoLeads(u, r) /\ r \in Pairs
    BY <1>1, <1>2, <1>3, ThermoTickLeads, ThermoTicks
  <1>5. /\ heater' = d /\ w = Refreshed(v, {s, d.status}) /\ sensor' = sensor /\ heaterFaults' = 0
        /\ thermoRequests' = thermoRequests /\ ~heaterTicked'
        /\ blindFor' = IF IsHot(heater) /\ ~Grounds THEN More(blindFor, WaitCap) ELSE 0
    BY DEF Thermo100ms, HeaterTrouble, RefreshedThermo, Hot, IsHot, u
  <1> HIDE DEF r
  <1>6. v \in Thermos /\ d \in Outputs /\ HeaterCalm(d) /\ ThermoCalm(v)
        /\ (IsHot(d) /\ u.state # "ApplyOutput" => d = heater /\ ThermoGoesOn(u, v))
        /\ (v.state = "ApplyOutput" => u.state = "CheckTemperature" /\ Measured)
    BY <1>4 DEF ThermoLeads, Pairs
  <1> HIDE DEF v, d
  <1>7. Alike(v, w) /\ (w.reconf => v.reconf \/ s # "Ready" \/ d.status # "Ready")
    BY <1>5, <1>6, AskedAlike
  <1>8. ThermoCalm(w) /\ w.state = v.state
    BY <1>6, <1>7 DEF Alike, WaitsAlike, ThermoCalm
  <1>9. /\ blindFor \in Nat /\ blindFor <= Limit /\ Limit \in Nat /\ Limit' = Limit
        /\ sensor.status # "Ready" => sensor.reading = "invalid"
        /\ thermo.state = "ApplyOutput" => blindFor = 0
        /\ (IsHot(heater) => blindFor + l + 1 <= Limit)
    BY <1>1, <1>5, WaitsTyped DEF BlindInv, Bounded, Limit, DueNow
  <1>10. /\ l \in Nat /\ k \in Nat /\ k <= LongestWait + LastWait + 4
         /\ (w.state # "ApplyOutput" => k <= LongestWait + LastWait + 3)
         /\ LongestWait + LastWait + 5 <= Limit /\ LongestWait \in Nat /\ LastWait \in Nat
    <2>1. 0 \in {0, 1} /\ 1 \in {0, 1}
      OBVIOUS
    <2>2. l \in Nat
      BY <1>1, <2>1, LeftBound
    <2>3. k \in Nat /\ k <= LongestWait + LastWait + 4
          /\ (w.state # "ApplyOutput" => k <= LongestWait + LastWait + 3)
      BY <1>1, <1>8, <2>1, LeftBound
    <2> HIDE DEF l, k
    <2> QED
      BY <2>2, <2>3, WaitsTyped DEF Limit, BlindInv
  <1>11. ~Grounds <=> ~(sensor.status = "Ready" /\ Measured)
    BY <1>1 DEF Grounds, Measured, Sensors, Readings
  <1>12. ASSUME ~Grounds, IsHot(heater), thermo.state # "ApplyOutput", IsHot(d) PROVE k + 1 <= l
    <2>1. ~Measured
      BY <1>9, <1>11, <1>12 DEF Measured
    <2>2. d = heater /\ ThermoGoesOn(u, v)
      BY <1>2, <1>6, <1>12
    <2>3. w.reconf => v.reconf \/ s # "Ready" \/ heater.status # "Ready"
      BY <1>7, <2>2
    <2>4. u = Aged(thermo)
      BY DEF u
    <2> HIDE DEF w, s
    <2>5. s = sensor.status
      BY DEF s
    <2>6. Left(w, heater, s, 0) + 1 <= Left(thermo, heater, s, 1)
      BY <1>1, <1>2, <1>6, <1>7, <1>12, <2>1, <2>2, <2>3, <2>4, <2>5, TickLess
    <2> QED
      BY <2>2, <2>6
  <1>13. w.state = "ApplyOutput" => Grounds
    BY <1>6, <1>8, <1>9, <1>11 DEF Measured
  <1> HIDE DEF l, k, w
  <1> DEFINE b == IF IsHot(heater) /\ ~Grounds THEN More(blindFor, WaitCap) ELSE 0
  <1>14. b \in Nat /\ b <= (IF IsHot(heater) /\ ~Grounds THEN blindFor + 1 ELSE 0)
    BY <1>9 DEF More
  <1> HIDE DEF b
  <1>15. b <= Limit /\ (IsHot(d) => b + k + 1 <= Limit)
    <2>1. CASE Grounds \/ ~IsHot(heater)
      <3>1. b <= 0
        BY <1>14, <2>1
      <3> QED
        BY <1>9, <1>10, <1>14, <3>1
    <2>2. CASE ~Grounds /\ IsHot(heater)
      <3>1. b <= blindFor + 1
        BY <1>14, <2>2
      <3>2. CASE thermo.state = "ApplyOutput"
        <4>1. k <= LongestWait + LastWait + 3
          BY <1>10, <1>13, <2>2
        <4> QED
          BY <1>9, <1>10, <1>14, <3>1, <3>2, <4>1
      <3>3. CASE thermo.state # "ApplyOutput"
        BY <1>9, <1>10, <1>12, <1>14, <2>2, <3>1, <3>3
      <3> QED
        BY <3>2, <3>3
    <2> QED
      BY <2>1, <2>2
  <1>16. w.state = "ApplyOutput" => blindFor' = 0
    BY <1>5, <1>13
  <1>17. DueNow' = 0 /\ k = Left(thermo', heater', sensor'.status, 0)
    BY <1>5 DEF DueNow, k, w
  <1>18. Bounded'
    BY <1>5, <1>6, <1>8, <1>9, <1>14, <1>15, <1>16, <1>17 DEF Bounded, w, b
  <1> QED
    BY <1>5, <1>18 DEF BlindInv

LEMMA BlindSteps == ThermoInv /\ BlindInv /\ [ThermoNext]_thermoVars => BlindInv'
  <1> SUFFICES ASSUME ThermoInv, BlindInv, [ThermoNext]_thermoVars PROVE BlindInv'
    OBVIOUS
  <1>t. ThermoInv' /\ thermo' \in Thermos
    BY ThermoSteps DEF ThermoInv
  <1>b. /\ heater \in Outputs /\ thermo \in Thermos /\ sensor \in Sensors
        /\ heaterFaults \in Nat /\ thermoRequests \in Nat
        /\ heaterFaults = 0 => Bounded
    BY DEF ThermoInv, BlindInv
  (* A heater that has failed before, or fails now.                          *)
  <1>f. ASSUME NEW hw \in Hardware, HeaterTrouble(hw), thermoRequests' \in Nat, hw # "works" \/ heaterFaults # 0
        PROVE  BlindInv'
    BY <1>b, <1>f DEF HeaterTrouble, BlindInv
  <1>a. ASSUME AsksThermo PROVE thermoRequests' \in Nat
    BY <1>a, <1>b DEF AsksThermo
  <1>s. ASSUME heaterFaults = 0 PROVE sensor.status # "Ready" => sensor.reading = "invalid"
    BY <1>b, <1>s DEF Bounded
  <1>1. ASSUME NEW hw \in Hardware, ThermoFastLoop(hw) PROVE BlindInv'
    <2>1. HeaterTrouble(hw) /\ thermoRequests' = thermoRequests
      BY <1>1 DEF ThermoFastLoop
    <2>2. CASE hw # "works" \/ heaterFaults # 0
      BY <1>b, <1>f, <2>1, <2>2
    <2>3. CASE hw = "works" /\ heaterFaults = 0
      <3> DEFINE e == OutputTick(heater, TRUE, "works")
                 w == thermo'
                 s == sensor.status
                 n == DueNow
      <3>1. /\ heater' = e /\ w = Refreshed(thermo, {s, e.status}) /\ sensor' = sensor /\ blindFor' = blindFor
            /\ heaterFaults' = 0 /\ heaterTicked'
        BY <1>1, <2>3 DEF ThermoFastLoop, HeaterTrouble, RefreshedThermo
      <3>2. HeaterCalm(heater) /\ ThermoCalm(thermo) /\ n \in {0, 1}
        BY <1>b, <2>3 DEF Bounded, DueNow
      <3>3. HeaterCalm(e) /\ (IsHot(e) => HeaterGoesOn(heater, e))
        BY <1>b, <3>2, HeaterTicks
      <3> HIDE DEF e
      <3>4. Alike(thermo, w) /\ (w.reconf => thermo.reconf \/ s # "Ready" \/ e.status # "Ready")
        BY <1>b, <3>1, AskedAlike
      <3> HIDE DEF w, s, n
      <3>5. ThermoCalm(w) /\ w.state = thermo.state
        BY <3>2, <3>4 DEF Alike, WaitsAlike, ThermoCalm
      <3>6. ASSUME IsHot(e) PROVE Left(w, e, s, 1) <= Left(thermo, heater, s, n) /\ IsHot(heater)
        BY <1>b, <3>2, <3>3, <3>4, <3>6, FastLess DEF HeaterGoesOn
      <3>7. 1 \in {0, 1} /\ w \in Thermos
        BY <1>t DEF w
      <3>8. Left(w, e, s, 1) \in Nat /\ Left(thermo, heater, s, n) \in Nat
        BY <1>b, <3>2, <3>5, <3>7, LeftBound
      <3>9. /\ blindFor \in Nat /\ blindFor <= Limit /\ Limit \in Nat /\ Limit' = Limit
            /\ IsHot(heater) => blindFor + Left(thermo, heater, s, n) + 1 <= Limit
        BY <1>b, <2>1, <2>3, WaitsTyped DEF Bounded, Limit, s, n
      <3>10. IsHot(e) => blindFor + Left(w, e, s, 1) + 1 <= Limit
        BY <3>6, <3>8, <3>9
      <3>11. DueNow' = 1 /\ Left(w, e, s, 1) = Left(thermo', heater', sensor'.status, 1)
        BY <3>1 DEF DueNow, w, s
      <3>12. Bounded'
        BY <1>b, <1>s, <2>3, <3>1, <3>3, <3>5, <3>9, <3>10, <3>11 DEF Bounded, w
      <3> QED
        BY <1>b, <2>1, <3>1, <3>12 DEF BlindInv
    <2> QED
      BY <2>2, <2>3
  <1>2. ASSUME NEW hw \in Hardware, Thermo100ms(hw) PROVE BlindInv'
    <2>1. HeaterTrouble(hw) /\ thermoRequests' = thermoRequests
      BY <1>2 DEF Thermo100ms
    <2>2. CASE hw # "works" \/ heaterFaults # 0
      BY <1>b, <1>f, <2>1, <2>2
    <2>3. CASE hw = "works" /\ heaterFaults = 0
      BY <1>2, <1>t, <2>3, BlindTicks
    <2> QED
      BY <2>2, <2>3
  <1>3. ASSUME NEW enabled \in BOOLEAN, NEW m \in ThermoModes, EditThermo(enabled, m) PROVE BlindInv'
    <2> DEFINE t == [thermo EXCEPT !.mode = m, !.enabled = enabled]
               a == Asked(t, TRUE)
               o == Asked(t, FALSE)
               begun == ThermoTick(a, "works")
               changed == enabled # thermo.enabled
    <2>1. thermoRequests' \in Nat /\ heaterFaults' = heaterFaults /\ sensor' = sensor /\ blindFor' = 0
      BY <1>3, <1>a DEF EditThermo
    <2>2. CASE heaterFaults # 0
      BY <1>b, <2>1, <2>2 DEF BlindInv
    <2>3. CASE heaterFaults = 0
      <3>1. t \in Thermos /\ Alike(thermo, t)
        BY <1>b DEF Thermos, Alike, WaitsAlike
      <3>2. HeaterCalm(heater) /\ ThermoCalm(thermo)
        BY <1>b, <2>3 DEF Bounded
      <3>3. ThermoCalm(t)
        BY <3>1, <3>2 DEF Alike, WaitsAlike, ThermoCalm
      <3> HIDE DEF t
      <3>4. a \in Thermos /\ o \in Thermos
        BY <3>1, ThermoRequested
      <3>5. ThermoCalm(a) /\ ThermoCalm(o)
        BY <3>1, <3>3 DEF Asked, clearLifecycleRequests, requestReconfigure, requestDisable, ThermoCalm, Thermos
      <3> HIDE DEF a, o
      <3>6. ThermoLeads(a, begun)
        BY <1>b, <3>2, <3>4, <3>5, ThermoTickLeads
      <3>7. begun \in Pairs
        BY <1>b, <3>4, ThermoTicks DEF Hardware
      <3>8. /\ heater' = IF changed /\ enabled THEN begun.heater ELSE heater
            /\ thermo' = RefreshedThermo(IF ~changed THEN t ELSE IF enabled THEN begun.thermo ELSE o)
        BY <1>3 DEF EditThermo, t, a, o
      <3> HIDE DEF begun, changed
      <3>9. HeaterCalm(heater')
        BY <3>2, <3>6, <3>8 DEF ThermoLeads
      <3> DEFINE x == IF ~changed THEN t ELSE IF enabled THEN begun.thermo ELSE o
      <3>10. x \in Thermos /\ ThermoCalm(x)
        BY <3>1, <3>3, <3>4, <3>5, <3>6, <3>7 DEF ThermoLeads, Pairs
      <3>11. thermo' = RefreshedThermo(x)
        BY <3>8
      <3> HIDE DEF x
      <3>12. ThermoCalm(thermo')
        <4>1. Alike(x, thermo')
          BY <3>10, <3>11, AskedAlike DEF RefreshedThermo
        <4> QED
          BY <3>10, <4>1 DEF Alike, WaitsAlike, ThermoCalm
      <3> QED
        BY <1>b, <1>s, <1>t, <2>1, <2>3, <3>9, <3>12, BlindAfresh
    <2> QED
      BY <2>2, <2>3
  <1>4. ASSUME NEW enabled \in BOOLEAN, NEW reset \in BOOLEAN, NEW hw \in Hardware, EditHeater(enabled, reset, hw)
        PROVE  BlindInv'
    <2>1. HeaterTrouble(hw) /\ thermoRequests' \in Nat /\ sensor' = sensor /\ blindFor' = 0
      BY <1>4, <1>a DEF EditHeater
    <2>2. CASE hw # "works" \/ heaterFaults # 0
      BY <1>b, <1>f, <2>1, <2>2
    <2>3. CASE hw = "works" /\ heaterFaults = 0
      <3> DEFINE d == IF reset THEN resetStateMachine(Released(heater)) ELSE heater
                 a == Asked(d, TRUE)
                 o == Asked(d, FALSE)
                 e == OutputTick(a, TRUE, "works")
      <3>1. HeaterCalm(heater) /\ ThermoCalm(thermo)
        BY <1>b, <2>3 DEF Bounded
      <3>2. HeaterCalm(d)
        <4>1. TRUE \in BOOLEAN
          OBVIOUS
        <4>2. HeaterCalm(resetStateMachine(Released(heater)))
          BY <1>b, <3>1, <4>1, HeaterAsked
        <4> QED
          BY <3>1, <4>2
      <3>3. Good(heater, FALSE)
        BY <1>b DEF Good
      <3>4. Good(d, FALSE)
        BY <3>3, AskedGood
      <3> HIDE DEF d
      <3>5. HeaterCalm(a) /\ HeaterCalm(o)
        BY <3>2, <3>4, HeaterAsked DEF Good
      <3>6. a \in Outputs
        BY <3>4, AskedGood DEF Good
      <3> HIDE DEF a, o
      <3>7. HeaterCalm(e)
        BY <3>5, <3>6, HeaterTicks
      <3>8. heater' = (IF enabled = heater.enabled THEN d ELSE IF enabled THEN e ELSE o)
            /\ heaterFaults' = 0 /\ thermo' = RefreshedThermo(requestReconfigure(thermo))
        BY <1>4, <2>3 DEF EditHeater, HeaterTrouble, d, a, o
      <3> HIDE DEF e
      <3>9. HeaterCalm(heater')
        BY <3>2, <3>5, <3>7, <3>8
      <3>10. ThermoCalm(thermo')
        <4> DEFINE x == requestReconfigure(thermo)
        <4>1. x \in Thermos
          BY <1>b, ThermoRequested
        <4>2. Alike(thermo, x)
          BY <1>b, AskedAlike
        <4> HIDE DEF x
        <4>3. Alike(x, thermo')
          BY <3>8, <4>1, AskedAlike DEF RefreshedThermo, x
        <4> QED
          BY <3>1, <4>2, <4>3 DEF Alike, WaitsAlike, ThermoCalm
      <3> QED
        BY <1>s, <1>t, <2>1, <2>3, <3>8, <3>9, <3>10, BlindAfresh
    <2> QED
      BY <2>2, <2>3
  <1>5. ASSUME NEW v \in BOOLEAN, NEW hw \in Hardware, CommandHeater(v, hw) PROVE BlindInv'
    <2>1. HeaterTrouble(hw) /\ thermoRequests' \in Nat /\ sensor' = sensor /\ blindFor' = 0 /\ thermo' = thermo
      BY <1>5, <1>a DEF CommandHeater
    <2>2. CASE hw # "works" \/ heaterFaults # 0
      BY <1>b, <1>f, <2>1, <2>2
    <2>3. CASE hw = "works" /\ heaterFaults = 0
      <3>1. HeaterCalm(heater) /\ ThermoCalm(thermo)
        BY <1>b, <2>3 DEF Bounded
      <3>2. heater' = requestOutputState(heater, v, "works") /\ heaterFaults' = 0
        BY <1>5, <2>3 DEF CommandHeater, HeaterTrouble
      <3>3. HeaterCalm(heater')
        BY <1>b, <3>1, <3>2, CommandCalm
      <3> QED
        BY <1>s, <1>t, <2>1, <2>3, <3>1, <3>2, <3>3, BlindAfresh
    <2> QED
      BY <2>2, <2>3
  <1>6. ASSUME NEW r \in Readings, SensorMeasures(r) PROVE BlindInv'
    <2>1. /\ UNCHANGED <<heater, thermo, heaterTicked, heaterFaults, thermoRequests, blindFor>>
          /\ sensor.status = "Ready" /\ sensor'.status = sensor.status
      BY <1>6, <1>b DEF SensorMeasures, Sensors
    <2> QED
      BY <1>b, <2>1 DEF BlindInv, Bounded, Limit, DueNow
  <1>7. ASSUME NEW z \in SensorStatuses, SensorChanges(z) PROVE BlindInv'
    <2>1. /\ UNCHANGED <<heater, heaterTicked, heaterFaults, blindFor>> /\ sensor' = [status |-> z, reading |-> "invalid"]
          /\ thermo' = RefreshedThermo(IF sensor.status = "Disabled" THEN requestReconfigure(thermo) ELSE thermo)
          /\ thermoRequests' = (IF sensor.status = "Ready" THEN thermoRequests + 1 ELSE thermoRequests)
      BY <1>7 DEF SensorChanges, AsksThermo
    <2>2. CASE heaterFaults # 0
      BY <1>b, <2>1, <2>2 DEF BlindInv
    <2>3. CASE heaterFaults = 0
      <3> DEFINE w == thermo'
                 s == sensor.status
                 n == DueNow
                 x == IF s = "Disabled" THEN requestReconfigure(thermo) ELSE thermo
      <3>1. HeaterCalm(heater) /\ ThermoCalm(thermo) /\ n \in {0, 1}
        BY <1>b, <2>3 DEF Bounded, DueNow
      <3>2. x \in Thermos /\ Alike(thermo, x)
        BY <1>b, ThermoRequested, AskedAlike DEF Alike, WaitsAlike
      <3> HIDE DEF x
      <3>3. Alike(x, w)
        BY <2>1, <3>2, AskedAlike DEF RefreshedThermo, x
      <3> HIDE DEF w, n
      <3>4. Alike(thermo, w) /\ w \in Thermos
        BY <1>t, <3>2, <3>3 DEF Alike, WaitsAlike, w
      <3>5. ThermoCalm(w) /\ w.state = thermo.state
        BY <3>1, <3>4 DEF Alike, WaitsAlike, ThermoCalm
      <3>6. /\ Left(w, heater, z, n) <= Left(thermo, heater, s, n) + 2
            /\ s # "Ready" => Left(w, heater, z, n) <= Left(thermo, heater, s, n)
        BY <1>b, <3>1, <3>4, AskedLeft
      <3>7. Left(w, heater, z, n) \in Nat /\ Left(thermo, heater, s, n) \in Nat
        BY <1>b, <3>1, <3>4, <3>5, LeftBound
      <3>8. /\ blindFor \in Nat /\ blindFor <= Limit /\ Limit \in Nat
            /\ Limit' = (IF s = "Ready" THEN Limit + 2 ELSE Limit)
        BY <1>b, <2>1, <2>3, WaitsTyped DEF Bounded, Limit
      <3>9. IsHot(heater) => blindFor + Left(thermo, heater, s, n) + 1 <= Limit
        BY <1>b, <2>3 DEF Bounded, n
      <3> DEFINE q == IF s = "Ready" THEN Limit + 2 ELSE Limit
      <3>10. blindFor <= q /\ (IsHot(heater) => blindFor + Left(w, heater, z, n) + 1 <= q)
        BY <3>6, <3>7, <3>8, <3>9
      <3> HIDE DEF s, q
      <3>11. DueNow' = n /\ Left(w, heater, z, n) = Left(thermo', heater', sensor'.status, n) /\ Limit' = q
        BY <2>1, <3>8 DEF DueNow, w, n, q, s
      <3>12. thermo.state = "ApplyOutput" => blindFor = 0
        BY <1>b, <2>3 DEF Bounded
      <3>13. Bounded'
        BY <2>1, <3>1, <3>5, <3>8, <3>10, <3>11, <3>12 DEF Bounded, w
      <3>14. thermoRequests' \in Nat
        BY <1>b, <2>1
      <3> QED
        BY <1>b, <2>1, <3>13, <3>14 DEF BlindInv
    <2> QED
      BY <2>2, <2>3
  <1>8. CASE UNCHANGED thermoVars
    BY <1>8 DEF thermoVars, BlindInv, Bounded, Limit, DueNow
  <1> QED
    BY <1>1, <1>2, <1>3, <1>4, <1>5, <1>6, <1>7, <1>8 DEF ThermoNext

(* The counter of the blind ticks stops beyond the bound, not at it.         *)
LEMMA CapBeyondLimit ==
  ASSUME thermoRequests \in 0..MaxThermoRequests
  PROVE  LongestWait + SensorTimeout + CheckInterval + 5 + 2 * thermoRequests < WaitCap
  BY ThermostatAssumption DEF LongestWait, WaitCap

(* As long as its switch takes every write, a heater is not on for longer    *)
(* than the waits of the thermostat without a reading to justify it.         *)
THEOREM HeaterNotBlind == ThermoSpec => []NeverBlindForLong
  <1>1. BlindInv => NeverBlindForLong
    <2>1. thermoRequests \in Nat => Limit = LongestWait + SensorTimeout + CheckInterval + 5 + 2 * thermoRequests
      BY LongestWaits, Intervals DEF Limit, LastWait
    <2> QED
      BY <2>1 DEF BlindInv, Bounded, NeverBlindForLong
  <1> QED
    BY ThermoInitially, ThermoSteps, BlindInitially, BlindSteps, <1>1, PTL DEF ThermoSpec

-----------------------------------------------------------------------------
(* The units as they are checked, one at a time.                             *)

UnitsInv == AutoInv /\ ThermoInv /\ DoseInv /\ MotorInv

(* Every reachable state of every unit is well typed.                        *)
THEOREM ActuatorsTypeCorrect == ActuatorsSpec => []ActuatorsTypeOK
  <1>1. ActuatorsInit => UnitsInv
    BY AutoInitially, ThermoInitially, DosingInitially, MotorInitially DEF ActuatorsInit, UnitsInv
  <1>2. UnitsInv /\ [ActuatorsNext]_actuatorsVars => UnitsInv'
    <2> SUFFICES ASSUME UnitsInv, [ActuatorsNext]_actuatorsVars PROVE UnitsInv'
      OBVIOUS
    <2>1. [AutoNext]_autoVars /\ [ThermoNext]_thermoVars /\ [DosingNext]_dosingVars
      BY DEF ActuatorsNext, AutoStep, ThermoStep, DosingStep, actuatorsVars
    <2> QED
      BY <2>1, AutoSteps, ThermoSteps, DosingSteps, MotorSteps DEF UnitsInv
  <1>3. UnitsInv => ActuatorsTypeOK
    BY AutoTyped, ThermoTyped, DosingTyped DEF UnitsInv, ActuatorsTypeOK
  <1> QED
    BY <1>1, <1>2, <1>3, PTL DEF ActuatorsSpec
==============================================================================
