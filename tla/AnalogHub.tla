------------------------------- MODULE AnalogHub -------------------------------
(***************************************************************************)
(* The hub of analog inputs, of one of two kinds, with the channel devices *)
(* that share it: an ADC on an I2C bus (Ads1115HubDevice), which converts  *)
(* for one channel at a time, or a multiplexer (Cd74hc4067HubDevice),      *)
(* which has one channel selected at a time.  A channel                    *)
(* (AnalogInputHubChannelDeviceBase) claims the hub by polling it and      *)
(* polls until it has its samples.  All are ticked every 100 ms, the bus   *)
(* first; deadlines are not counted.                                       *)
(***************************************************************************)
EXTENDS BusLifecycle

CONSTANTS
  Channels,        \* the channels of the hub
  AdcSamples,      \* adcSamples of a reading
  LastGeneration,  \* the largest generation of a hub, after which 1 comes again (2^32 - 1)
  MaxHubEvents     \* bound: configuration changes and deletions, and failures of the chip

Inputs == {1, 2}    \* the ids of two channel devices

\* The devices start on the channels 1 and 2.
ASSUME HubAssumption ==
  {AdcSamples, LastGeneration} \subseteq Nat \ {0} /\ MaxHubEvents \in Nat /\ Inputs \subseteq Channels

VARIABLES
  hubBus,       \* the I2cBusDevice under the hub, as in I2cBus
  hub,          \* a hub of a kind: gen, its generation; last: lastDependencyGeneration_, errors:
                \* consecutiveErrors_; owner: ownerChannel_ and ownerRequester_, or <<>>; set: the
                \* channel and gain of the pending conversion, or the channel selected, or <<>>
  leaf,         \* of each channel device: last: lastHubGeneration_, errors, ch: its channel,
                \* got: samples so far, shown: does it show a reading? here: does it exist?
                \* foreign: observer, was a sample of another channel or gain than its own?
  hubFirst,     \* is the hub ticked before its channels? (the order of the ids)
  chipSilent,   \* does the chip not answer?
  hubEvents     \* bound

hubVars == <<hubBus, hub, leaf, hubFirst, chipSilent, hubEvents>>

Nobody == <<>>    \* no owner, and nothing set

\* bumpGeneration()
bumped(gen) == (gen % LastGeneration) + 1
-------------------------------------------------------------------------------
(* What the channels ask of the hub *)
\* releaseOwnership() of the ADC, releaseHardware() of the multiplexer
Freed(h) == [h EXCEPT !.owner = Nobody, !.set = Nobody]

(* Mutant: a claim is only given up by reading. *)
releaseNothing(h, ch, l) == h

releaseChannelRequest(h, ch, l) ==
  IF h.owner # <<ch, l>> THEN h
  ELSE IF h.kind = "adc" THEN Freed(h) ELSE [h EXCEPT !.owner = Nobody]

Taken(h, ch, l) == h.owner # Nobody /\ h.owner # <<ch, l>>

\* recordFailure(): the fault is only asked for.
AdcFailed(h) ==
  LET q == Failed(h, h.status) IN [q EXCEPT !.fault = @ \/ q.errors = FaultThreshold]

\* What pollChannelReading() returns, with the hub it leaves and what was measured.
Polled(h, result, of) == [hub |-> h, result |-> result, of |-> of]

\* A poll of an ADC that the channel has claimed: it starts a conversion or reads it.
AdcPoll(h, b, ch, due, answers) ==
  IF h.set # Nobody /\ ~due THEN Polled(h, "Pending", Nobody)
  ELSE IF b.status # "Ready" THEN Polled(Freed(h), "Fault", Nobody)
  ELSE IF ~Lends(b) THEN Polled(h, "Pending", Nobody)
  ELSE IF ~answers THEN Polled([AdcFailed(Freed(h)) EXCEPT !.state = h.state], "Fault", Nobody)
  ELSE IF h.set = Nobody THEN Polled([h EXCEPT !.set = <<ch, h.gain>>], "Pending", Nobody)
  ELSE Polled([Freed(h) EXCEPT !.errors = 0], "Ready", h.set)

\* A poll of a multiplexer: it selects the channel or reads the pin.
MuxPoll(h, ch) ==
  IF h.set # <<ch, h.gain>> THEN Polled([h EXCEPT !.set = <<ch, h.gain>>], "Pending", Nobody)
  ELSE Polled([h EXCEPT !.owner = Nobody], "Ready", h.set)

pollChannelReading(h, b, ch, l, due, answers) ==
  LET mine == [h EXCEPT !.owner = <<ch, l>>]
  IN IF h.status # "Ready" THEN Polled(h, "Fault", Nobody)
     ELSE IF Taken(h, ch, l) THEN Polled(h, "Busy", Nobody)
     ELSE IF h.kind = "adc" THEN AdcPoll(mine, b, ch, due, answers)
     ELSE MuxPoll(mine, ch)
-------------------------------------------------------------------------------
(* The machines of the hubs *)
AdcStarting(h, b, answers) ==
  HaltOr(h, b,
    IF ~Lends(b) THEN Goto(h, "RetryBackoff", "Starting")
    ELSE IF ~answers THEN [AdcFailed(h) EXCEPT !.status = "Starting"]
    ELSE LET up == [Freed(h) EXCEPT !.last = b.gen, !.start = FALSE, !.errors = 0, !.gen = bumped(@)]
         IN Goto(up, "Ready", "Ready"))

\* A deadline leads out of the fault and leaves its flag set.
AdcFaulted(h, b, due) ==
  HaltOr(h, b, IF h.reconf THEN ToReconfiguring([h EXCEPT !.fault = FALSE])
               ELSE Goto(h, IF due THEN "Starting" ELSE "Faulted", "Faulted"))

AdcTick(h, b, due, answers) ==
  CASE h.state = "Starting" -> AdcStarting(h, b, answers)
    [] h.state = "Ready" -> Steady(h, b, LET s == IF h.fault THEN "Faulted" ELSE "Ready" IN Goto(h, s, s))
    [] h.state = "Faulted" -> AdcFaulted(Freed(h), b, due)
    [] h.state = "Reconfiguring" -> UserReconfiguring(Freed(h), b)
    [] h.state = "Disabled" -> UserDisabled(Freed(h))
    [] OTHER -> QuietTick(h, b, due)

\* configureHardware()
MuxStarting(h, works) ==
  IF Unwanted(h) THEN SwitchedOff(h)
  ELSE IF works THEN Goto([Freed(h) EXCEPT !.gen = bumped(@), !.start = FALSE], "Ready", "Ready")
  ELSE Goto([Freed(h) EXCEPT !.fault = TRUE], "Faulted", "Faulted")

MuxReady(h) ==
  IF Unwanted(h) THEN SwitchedOff(Freed(h))
  ELSE IF h.reconf THEN ToReconfiguring(h)
  ELSE LET s == IF h.fault THEN "Faulted" ELSE "Ready" IN Goto(h, s, s)

MuxReconfiguring(h) ==
  LET q == Freed([h EXCEPT !.reconf = FALSE])
  IN IF Unwanted(q) THEN SwitchedOff(q) ELSE Goto(q, "Starting", "Reconfiguring")

MuxFaulted(h) ==
  LET q == Freed(h)
  IN IF Unwanted(q) THEN SwitchedOff(q)
     ELSE IF q.reconf THEN ToReconfiguring([q EXCEPT !.fault = FALSE])
     ELSE Goto(q, "Faulted", "Faulted")

MuxTick(h, works) ==
  CASE h.state = "Idle" -> IdleTick(h)
    [] h.state = "Starting" -> MuxStarting(h, works)
    [] h.state = "Ready" -> MuxReady(h)
    [] h.state = "Reconfiguring" -> MuxReconfiguring(h)
    [] h.state = "Disabled" -> UserDisabled(h)
    [] h.state = "Faulted" -> MuxFaulted(h)

\* works: the chip answers, or the pins can be configured.
HubTick(h, b, due, works) == IF h.kind = "adc" THEN AdcTick(h, b, due, works) ELSE MuxTick(h, works)
-------------------------------------------------------------------------------
(* AnalogInputHubChannelDeviceBase *)
\* A tick of a channel, with the hub it leaves.
Ticked(h, d) == [hub |-> h, leaf |-> d]

LeafStarting(d, h) ==
  HaltOr(d, h, Goto([d EXCEPT !.start = FALSE, !.reconf = FALSE, !.last = h.gen, !.errors = 0, !.got = 0],
                    "Sampling", "Starting"))

\* The answer to a poll.
Sampled(d, poll) ==
  CASE poll.result = "Fault" -> Failed(d, "Ready")
    [] poll.result \in {"Busy", "Pending"} -> Goto(d, "Sampling", "Ready")
    [] poll.result = "Ready" ->
         LET q == [d EXCEPT !.got = @ + 1, !.foreign = @ \/ poll.of # <<d.ch, poll.hub.gain>>]
         IN IF q.got < AdcSamples THEN Goto(q, "Sampling", "Ready")
            ELSE Goto([q EXCEPT !.shown = TRUE, !.errors = 0, !.got = 0], "Ready", "Ready")

Sampling(d, h, b, l, due, answers) ==
  LET free == releaseChannelRequest(h, d.ch, l)
      poll == pollChannelReading(h, b, d.ch, l, due, answers)
  IN IF Unwanted(d) THEN Ticked(free, SwitchedOff(d))
     ELSE IF h.status # "Ready" THEN Ticked(h, Goto(d, "DependencyBlocked", "DependencyBlocked"))
     ELSE IF Superseded(d, h) THEN Ticked(free, ToReconfiguring(d))
     ELSE Ticked(poll.hub, Sampled(d, poll))

\* invalidateAndMark: with the device, its hub or an answer.
LeafWithdrawn(d, q) ==
  IF \/ q.state \in {"Disabled", "DependencyBlocked"} \/ q.errors > d.errors
     \/ d.state = "Reconfiguring" \/ (d.state = "Idle" /\ d.start)
  THEN [q EXCEPT !.shown = FALSE] ELSE q

LeafTick(d, h, b, l, due, answers) ==
  LET next == IF d.state = "Sampling" THEN Sampling(d, h, b, l, due, answers)
              ELSE Ticked(h,
                CASE d.state = "Starting" -> LeafStarting(d, h)
                  [] d.state = "Ready" -> Steady(d, h,
                       IF due THEN Goto([d EXCEPT !.got = 0], "Sampling", "Ready") ELSE Goto(d, "Ready", "Ready"))
                  [] OTHER -> QuietTick(d, h, due))
  IN Ticked(next.hub, LeafWithdrawn(d, next.leaf))
-------------------------------------------------------------------------------
(* The registry *)
\* refreshDependentRuntimeStates, in the order of the ids.
RefreshHub(b, h, ls) ==
  LET hh == IF h.kind = "adc" THEN Refreshed(h, {b.status}) ELSE h
      seen == IF hubFirst THEN hh ELSE h
  IN /\ hubBus' = b /\ hub' = hh
     /\ leaf' = [l \in Inputs |-> IF ls[l].here THEN Refreshed(ls[l], {seen.status}) ELSE ls[l]]
     /\ UNCHANGED hubFirst

TickIfHere(l, h, b, due, answers) ==
  IF leaf[l].here THEN LeafTick(leaf[l], h, b, l, l \in due, answers) ELSE Ticked(h, leaf[l])

\* tick100ms.  due: the devices, 0 for the hub, whose deadlines have passed.
HubRound(due) ==
  \E b \in {IF hub.kind = "adc" THEN BusTick(hubBus, TRUE, FALSE) ELSE hubBus} :
  \E h \in {IF hubFirst THEN HubTick(hub, b, 0 \in due, ~chipSilent) ELSE hub} :
  \E one \in {TickIfHere(1, h, b, due, ~chipSilent)} :
  \E two \in {TickIfHere(2, one.hub, b, due, ~chipSilent)} :
    /\ RefreshHub(b, IF hubFirst THEN two.hub ELSE HubTick(two.hub, b, 0 \in due, ~chipSilent), <<one.leaf, two.leaf>>)
    /\ UNCHANGED <<chipSilent, hubEvents>>

HubEvent == hubEvents < MaxHubEvents /\ hubEvents' = hubEvents + 1

Here == {l \in Inputs : leaf[l].here}

\* The I2C bus is rewired, disabled or enabled.
EditHubBus(enabled, rewired) ==
  LET b == IF rewired THEN resetStateMachine(releaseHardware(hubBus)) ELSE hubBus
  IN /\ hub.kind = "adc" /\ (enabled # hubBus.enabled \/ rewired)
     /\ HubEvent /\ UNCHANGED chipSilent
     /\ RefreshHub(IF enabled = hubBus.enabled THEN b
                   ELSE IF enabled THEN BusTick(Asked(b, TRUE), TRUE, FALSE) ELSE Asked(b, FALSE),
                   requestReconfigure(hub), leaf)

\* An edit of the hub.  moved: another address, or other pins, which are released; the
\* gain is that of the next conversion, a multiplexer has none.
EditHub(enabled, moved, gain) ==
  LET ended == IF hub.kind = "mux" THEN Freed(hub) ELSE hub
      h == [(IF moved THEN resetStateMachine(ended) ELSE hub) EXCEPT !.gain = gain]
  IN /\ enabled # hub.enabled \/ moved \/ gain # hub.gain
     /\ hub.kind = "mux" => gain = hub.gain
     /\ HubEvent /\ UNCHANGED chipSilent
     /\ RefreshHub(hubBus,
                   IF enabled = hub.enabled THEN h
                   ELSE IF enabled THEN HubTick(Asked(h, TRUE), hubBus, TRUE, ~chipSilent) ELSE Asked(h, FALSE),
                   [l \in Inputs |-> IF l \in Here THEN requestReconfigure(leaf[l]) ELSE leaf[l]])

\* An edit of a channel device.  Another channel, which nobody else has, ends the old one.
EditLeaf(l, enabled, ch) ==
  LET d == leaf[l]
      moved == ch # d.ch
      h == IF moved THEN releaseChannelRequest(hub, d.ch, l) ELSE hub
      q == IF moved THEN [resetStateMachine(d) EXCEPT !.ch = ch] ELSE d
      t == LeafTick(Asked(q, TRUE), h, hubBus, l, TRUE, ~chipSilent)
  IN /\ enabled # d.enabled \/ moved
     /\ \A m \in Here \ {l} : leaf[m].ch # ch
     /\ HubEvent /\ UNCHANGED chipSilent
     /\ RefreshHub(hubBus, IF enabled # d.enabled /\ enabled THEN t.hub ELSE h,
                   [leaf EXCEPT ![l] = IF enabled = d.enabled THEN q ELSE IF enabled THEN t.leaf ELSE Asked(q, FALSE)])

FreshLeaf(enabled, ch) ==
  IdleTick([state |-> "Idle", status |-> "Creating", start |-> TRUE, reconf |-> FALSE, disable |-> FALSE,
            fault |-> FALSE, enabled |-> enabled, last |-> 0, errors |-> 0, ch |-> ch, got |-> 0,
            shown |-> FALSE, foreign |-> FALSE, here |-> TRUE])

\* remove(), or another hub for the channel: the runtime is dropped, or linked anew,
\* without its end().
DeleteLeaf(l) ==
  /\ HubEvent /\ UNCHANGED chipSilent
  /\ RefreshHub(hubBus, hub, [leaf EXCEPT ![l] = [FreshLeaf(FALSE, @.ch) EXCEPT !.here = FALSE]])

\* The chip falls silent or answers again.
ChipChanges ==
  /\ ~chipSilent => hubEvents < MaxHubEvents
  /\ hubEvents' = IF chipSilent THEN hubEvents ELSE hubEvents + 1
  /\ chipSilent' = ~chipSilent
  /\ UNCHANGED <<hubBus, hub, leaf, hubFirst>>
-------------------------------------------------------------------------------
FreshHub(kind) ==
  IdleTick([state |-> "Idle", status |-> "Creating", start |-> TRUE, reconf |-> FALSE, disable |-> FALSE,
            fault |-> FALSE, enabled |-> TRUE, kind |-> kind, last |-> 0, errors |-> 0, gen |-> 0, gain |-> 0,
            owner |-> Nobody, set |-> Nobody])

HubInit ==
  /\ hubBus = FreshBus
  /\ \E kind \in {"adc", "mux"} : hub = FreshHub(kind)
  /\ \E enabled \in BOOLEAN : leaf = [l \in Inputs |-> FreshLeaf(enabled, l)]
  /\ hubFirst \in BOOLEAN
  /\ chipSilent = FALSE /\ hubEvents = 0

HubNext ==
  \/ \E due \in SUBSET ({0} \cup Inputs) : HubRound(due)
  \/ \E enabled, moved \in BOOLEAN :
       \/ EditHubBus(enabled, moved)
       \/ \E gain \in {0, 1} : EditHub(enabled, moved, gain)
  \/ \E l \in Here : DeleteLeaf(l) \/ \E enabled \in BOOLEAN, ch \in Channels : EditLeaf(l, enabled, ch)
  \/ ChipChanges

\* The main loop ticks for ever, and deadlines are reached.
HubSpec == HubInit /\ [][HubNext]_hubVars /\ WF_hubVars(HubRound({0} \cup Inputs))
-------------------------------------------------------------------------------
HubTypeOK ==
  /\ hub.state \in States \cup {"RetryBackoff"} /\ hub.last \in 0..hubBus.gen
  /\ hub.owner \in {Nobody} \cup (Channels \X Inputs) /\ hub.set \in {Nobody} \cup (Channels \X {0, 1})
  /\ \A l \in Inputs :
       /\ leaf[l].state \in States \cup {"Sampling", "RetryBackoff"} /\ leaf[l].status \in Statuses
       /\ leaf[l].last \in 0..LastGeneration /\ leaf[l].errors \in 0..FaultThreshold /\ leaf[l].got \in 0..AdcSamples

\* A sample that a channel takes was measured for that channel, with the gain that the
\* hub has when it is read, whoever else polls the hub and whatever is edited between
\* the start of the conversion and its reading.
ReadsOwnChannel == \A l \in Inputs : ~leaf[l].foreign

\* A channel device that was deleted in the middle of a sample, or given another hub,
\* keeps its claim, for its end() is not called: the hub serves nobody else before it is
\* initialized again.
Wedged == hub.owner # Nobody /\ hub.owner[2] \notin Here

HubWell == hubBus.enabled /\ hub.enabled /\ ~chipSilent

\* A channel shows nothing although its hub works: neither is the hub wedged, nor is it
\* an ADC whose fault flag was set because the chip was silent for long, which goes back
\* and forth between Ready and Faulted until it is reconfigured.
Unserved(l) == HubWell /\ ~hub.fault /\ l \in Here /\ leaf[l].enabled /\ ~leaf[l].shown
ChannelWaits == ~Wedged /\ \E l \in Inputs : Unserved(l)
=================================================================================
