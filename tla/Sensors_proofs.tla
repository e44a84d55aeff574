------------------------------ MODULE Sensors_proofs ------------------------------
(***************************************************************************)
(* What the devices that share a bus or a hub promise, for any channels,   *)
(* samples, generations, error thresholds and numbers of events: what one  *)
(* reads is what it has asked for itself, under the same initialization.   *)
(* Three inductive invariants:                                             *)
(*   HubInv      whose claim the hub holds, what a conversion under way is *)
(*               of, and what a device that is about to give its claim up  *)
(*               has been asked; kept by every tick of the hub (Grown), by *)
(*               every tick of a channel device (Served) and by every edit *)
(*   I2cInv      a sensor that waits for a result has asked for it under   *)
(*               the initialization that it was set up under, and a bus    *)
(*               that says that it is Ready has been initialized           *)
(*   OneWireInv  the same of the OneWire bus and its sensor                *)
(* A bus that lends itself to a user is not initialized again by its next  *)
(* tick (BusKeeps): this is why it does not matter which of the two ticks  *)
(* first.                                                                  *)
(***************************************************************************)
EXTENDS MCSensors, TLAPS

------------------------------------------------------------------------------
(* The hub of analog inputs: no channel ever takes a sample that was         *)
(* measured for another channel or with another gain than the hub has, for   *)
(* any channels, samples, generations, errors and edits.                     *)

(* A channel device, a hub and a bus. *)
Leaves ==
  [state : States \cup {"Sampling", "RetryBackoff"}, status : Statuses, start : BOOLEAN, reconf : BOOLEAN,
   disable : BOOLEAN, fault : BOOLEAN, enabled : BOOLEAN, last : 0..LastGeneration, errors : 0..FaultThreshold,
   ch : Channels, got : 0..AdcSamples, shown : BOOLEAN, foreign : BOOLEAN, here : BOOLEAN]

Hubs ==
  [state : States \cup {"RetryBackoff"}, status : Statuses, start : BOOLEAN, reconf : BOOLEAN,
   disable : BOOLEAN, fault : BOOLEAN, enabled : BOOLEAN, kind : {"adc", "mux"}, last : Nat,
   errors : 0..FaultThreshold, gen : 0..LastGeneration, gain : {0, 1},
   owner : {Nobody} \cup (Channels \X Inputs), set : {Nobody} \cup (Channels \X {0, 1})]

BusPlaces == (States \ {"DependencyBlocked"}) \cup {"Scanning"}

Buses ==
  [state : BusPlaces, status : Statuses, start : BOOLEAN, reconf : BOOLEAN, disable : BOOLEAN, fault : BOOLEAN,
   enabled : BOOLEAN, driver : BOOLEAN, gen : Nat, scanning : BOOLEAN]

(* A bus that is, or says that it is, Ready, has been initialized; and it is *)
(* in a state from which a tick does not initialize it again.                *)
Lawful(b) ==
  /\ b.state \in {"Ready", "Scanning"} => b.gen # 0
  /\ b.status = "Ready" => b.gen # 0 /\ b.state \in {"Ready", "Scanning", "Idle"}

(* A conversion under way is of the channel that has claimed the ADC, and a  *)
(* hub that is on its way out of Ready has a request that says so.           *)
HubSound(h) ==
  /\ h.kind = "mux" => h.state \notin {"DependencyBlocked", "RetryBackoff"}
  /\ h.kind = "adc" /\ h.set # Nobody => h.owner # Nobody /\ h.owner[1] = h.set[1]
  /\ h.kind = "adc" /\ h.state = "Ready" /\ h.status # "Ready" => h.reconf \/ Unwanted(h)

(* The claim of channel device l, which d is, is on its own channel; and     *)
(* what it has asked for is what the hub is set to, unless d is about to     *)
(* give the claim up.                                                        *)
Fits(h, d, l) ==
  h.kind = "adc" /\ h.owner # Nobody /\ d.here /\ h.owner[2] = l =>
    /\ h.owner[1] = d.ch
    /\ h.set # Nobody /\ h.status = "Ready" =>
         d.state = "Sampling" /\ (h.set[2] = h.gain \/ d.reconf \/ Unwanted(d))

(* What keeps every claim on an ADC in order: it is given up, or left as it  *)
(* is while the hub does not become Ready.                                   *)
Keeps(h, q) ==
  /\ q.kind = h.kind
  /\ \/ h.kind # "adc"
     \/ q.owner = Nobody /\ q.set = Nobody
     \/ q.owner = h.owner /\ q.set = h.set /\ q.gain = h.gain /\ (q.status = "Ready" => h.status = "Ready")

LEMMA KeptFits ==
  ASSUME NEW h, NEW q, Keeps(h, q), NEW d, NEW l, Fits(h, d, l)
  PROVE  Fits(q, d, l)
  BY DEF Keeps, Fits

(* The bus. *)
LEMMA BusNames ==
  /\ {"Idle", "Starting", "Ready", "Reconfiguring", "Disabled", "Faulted", "Scanning"} = BusPlaces
  /\ {"Creating", "Starting", "Ready", "Reconfiguring", "Disabled", "Faulted", "DependencyBlocked"} = Statuses
  BY DEF States, Statuses, BusPlaces

LEMMA BusGoes ==
  ASSUME NEW b \in Buses, NEW s \in BusPlaces, NEW t \in Statuses
  PROVE  /\ Goto(b, s, t) \in Buses /\ Goto(b, s, t).gen = b.gen
         /\ Goto(b, s, t).state = s /\ Goto(b, s, t).status = t /\ Goto(b, s, t).driver = b.driver
  BY DEF Goto, Buses

LEMMA BusReleased ==
  ASSUME NEW b \in Buses
  PROVE  /\ releaseHardware(b) \in Buses /\ releaseHardware(b).gen = b.gen
         /\ releaseHardware(b).state = b.state /\ releaseHardware(b).status = b.status
  BY DEF releaseHardware, Buses

(* What a bus q is that b becomes in a tick. *)
Follows(b, q) == q \in Buses /\ q.gen \in {b.gen, b.gen + 1} /\ (Lawful(b) => Lawful(q))

(* To a state that no tick leaves with the bus Ready. *)
LEMMA BusMoves ==
  ASSUME NEW b \in Buses, NEW c \in Buses, c.gen = b.gen,
         NEW s \in BusPlaces \ {"Ready", "Scanning"}, NEW t \in Statuses \ {"Ready"}
  PROVE  Follows(b, Goto(c, s, t))
  <1>1. s \in BusPlaces /\ t \in Statuses /\ s \notin {"Ready", "Scanning"} /\ t # "Ready"
    OBVIOUS
  <1> DEFINE q == Goto(c, s, t)
  <1>2. q \in Buses /\ q.gen = b.gen /\ q.state = s /\ q.status = t
    BY <1>1, BusGoes
  <1> HIDE DEF q
  <1>3. Follows(b, q)
    BY <1>1, <1>2 DEF Follows, Lawful
  <1> QED
    BY <1>3 DEF q

LEMMA BusLeaves ==
  ASSUME NEW b \in Buses
  PROVE  /\ Follows(b, ToReconfiguring(b)) /\ Follows(b, BusOff(b)) /\ Follows(b, Goto(b, "Faulted", "Faulted"))
         /\ \A s \in {"Disabled", "Reconfiguring", "Faulted"} : Follows(b, Goto(releaseHardware(b), s, s))
  <1>1. \A s \in {"Disabled", "Reconfiguring", "Faulted"} :
          s \in BusPlaces \ {"Ready", "Scanning"} /\ s \in Statuses \ {"Ready"}
    BY BusNames
  <1>2. \A s \in {"Disabled", "Reconfiguring", "Faulted"} : Follows(b, Goto(b, s, s))
    BY <1>1, BusMoves
  <1>3. \A s \in {"Disabled", "Reconfiguring", "Faulted"} : Follows(b, Goto(releaseHardware(b), s, s))
    <2> DEFINE c == releaseHardware(b)
    <2>1. c \in Buses /\ c.gen = b.gen
      BY BusReleased
    <2> HIDE DEF c
    <2>2. \A s \in {"Disabled", "Reconfiguring", "Faulted"} : Follows(b, Goto(c, s, s))
      BY <1>1, <2>1, BusMoves
    <2> QED
      BY <2>2 DEF c
  <1> QED
    BY <1>2, <1>3 DEF ToReconfiguring, BusOff, SwitchedOff

(* Ready is reached by an initialization, or kept. *)
LEMMA BusInitialized ==
  ASSUME NEW b \in Buses, NEW c \in Buses, c.gen = b.gen, NEW works \in BOOLEAN
  PROVE  Follows(b, Initialized(c, works))
  <1> DEFINE up == [c EXCEPT !.driver = TRUE, !.gen = @ + 1]
             down == [c EXCEPT !.driver = FALSE, !.fault = TRUE]
  <1>1. up \in Buses /\ up.gen = b.gen + 1 /\ b.gen + 1 # 0
    <2>1. c.gen \in Nat /\ c.gen + 1 \in Nat /\ c.gen + 1 # 0
      BY DEF Buses
    <2> QED
      BY <2>1 DEF Buses
  <1>2. down \in Buses /\ down.gen = b.gen
    BY DEF Buses
  <1>3. Initialized(c, works) \in {Goto(up, "Ready", "Ready"), Goto(down, "Faulted", "Faulted")}
    BY DEF Initialized
  <1>4. /\ "Ready" \in BusPlaces /\ "Ready" \in Statuses
        /\ "Faulted" \in BusPlaces \ {"Ready", "Scanning"} /\ "Faulted" \in Statuses \ {"Ready"}
    BY BusNames
  <1> HIDE DEF up, down
  <1>5. Follows(b, Goto(up, "Ready", "Ready"))
    <2> DEFINE q == Goto(up, "Ready", "Ready")
    <2>1. q \in Buses /\ q.gen = b.gen + 1 /\ q.state = "Ready"
      BY <1>1, <1>4, BusGoes
    <2> HIDE DEF q
    <2>2. Follows(b, q)
      BY <1>1, <2>1 DEF Follows, Lawful
    <2> QED
      BY <2>2 DEF q
  <1>6. Follows(b, Goto(down, "Faulted", "Faulted"))
    BY <1>2, <1>4, BusMoves
  <1> QED
    BY <1>3, <1>5, <1>6

LEMMA BusRemains ==
  ASSUME NEW b \in Buses, b.state \in {"Ready", "Scanning"}, NEW c \in Buses, c.gen = b.gen,
         NEW s \in {"Ready", "Scanning"}
  PROVE  Follows(b, Goto(c, s, "Ready"))
  <1> DEFINE q == Goto(c, s, "Ready")
  <1>1. s \in BusPlaces /\ "Ready" \in Statuses
    BY BusNames
  <1>2. q \in Buses /\ q.gen = b.gen /\ q.state = s
    BY <1>1, BusGoes
  <1> HIDE DEF q
  <1>3. Follows(b, q)
    BY <1>2 DEF Follows, Lawful
  <1> QED
    BY <1>3 DEF q

LEMMA BusTicked ==
  ASSUME NEW b \in Buses, NEW works \in BOOLEAN, NEW last \in BOOLEAN
  PROVE  Follows(b, BusTick(b, works, last))
  <1>1. /\ Follows(b, ToReconfiguring(b)) /\ Follows(b, BusOff(b)) /\ Follows(b, Goto(b, "Faulted", "Faulted"))
        /\ \A s \in {"Disabled", "Reconfiguring", "Faulted"} : Follows(b, Goto(releaseHardware(b), s, s))
    BY BusLeaves
  <1>2. CASE b.state = "Idle"
    <2> DEFINE s == IF b.start THEN "Starting" ELSE "Idle"
    <2>1. BusTick(b, works, last) = BusIdle(b)
      BY <1>2 DEF BusTick
    <2>2. s \in BusPlaces \ {"Ready", "Scanning"} /\ "Creating" \in Statuses \ {"Ready"}
      BY BusNames
    <2>3. Follows(b, Goto(b, s, "Creating"))
      BY <2>2, BusMoves
    <2>4. BusIdle(b) \in {BusOff(b), ToReconfiguring(b), Goto(b, s, "Creating")}
      BY DEF BusIdle, Goto
    <2> QED
      BY <1>1, <2>1, <2>3, <2>4
  <1>3. CASE b.state = "Starting"
    <2> DEFINE i == Initialized(b, works)
    <2>1. BusTick(b, works, last) = BusStarting(b, works)
      BY <1>3 DEF BusTick
    <2>2. Follows(b, i)
      BY BusInitialized
    <2>3. BusStarting(b, works) \in {BusOff(b), ToReconfiguring(b), [i EXCEPT !.start = @ /\ ~works]}
      BY DEF BusStarting
    <2> HIDE DEF i
    <2>4. Follows(b, [i EXCEPT !.start = @ /\ ~works])
      <3> DEFINE v == i.start /\ ~works
                 q == [i EXCEPT !.start = v]
      <3>1. v \in BOOLEAN /\ i \in Buses
        BY <2>2 DEF Follows, Buses
      <3> HIDE DEF v
      <3>2. q \in Buses /\ q.gen = i.gen /\ q.state = i.state /\ q.status = i.status
        BY <3>1 DEF Buses
      <3> HIDE DEF q
      <3>3. Follows(b, q)
        BY <2>2, <3>2 DEF Follows, Lawful
      <3> QED
        BY <3>3 DEF q, v
    <2> QED
      BY <1>1, <2>1, <2>3, <2>4
  <1>4. CASE b.state = "Ready"
    <2>1. BusTick(b, works, last) = BusReady(b)
      BY <1>4 DEF BusTick
    <2>2. Follows(b, Goto(b, "Ready", "Ready"))
      BY <1>4, BusRemains
    <2> QED
      BY <1>1, <2>1, <2>2 DEF BusReady
  <1>5. CASE b.state = "Scanning"
    <2> DEFINE c == [b EXCEPT !.scanning = FALSE]
    <2>1. BusTick(b, works, last) = BusScanning(b, last)
      BY <1>5 DEF BusTick
    <2>2. c \in Buses /\ c.gen = b.gen
      BY DEF Buses
    <2>3. BusScanning(b, last) \in {BusOff(b), ToReconfiguring(c), Goto(b, "Scanning", "Ready"), Goto(c, "Ready", "Ready")}
      BY DEF BusScanning
    <2> HIDE DEF c
    <2>4. Follows(b, Goto(b, "Scanning", "Ready")) /\ Follows(b, Goto(c, "Ready", "Ready"))
      BY <1>5, <2>2, BusRemains
    <2>5. Follows(b, ToReconfiguring(c))
      <3>1. "Reconfiguring" \in BusPlaces \ {"Ready", "Scanning"} /\ "Reconfiguring" \in Statuses \ {"Ready"}
        BY BusNames
      <3> QED
        BY <2>2, <3>1, BusMoves DEF ToReconfiguring
    <2> QED
      BY <1>1, <2>1, <2>3, <2>4, <2>5
  <1>6. CASE b.state = "Reconfiguring"
    <2> DEFINE c == [b EXCEPT !.reconf = FALSE]
    <2>1. BusTick(b, works, last) = Initialized(releaseHardware(c), works)
      BY <1>6 DEF BusTick
    <2>2. c \in Buses /\ c.gen = b.gen
      BY DEF Buses
    <2> HIDE DEF c
    <2>3. releaseHardware(c) \in Buses /\ releaseHardware(c).gen = b.gen
      BY <2>2, BusReleased
    <2> QED
      BY <2>1, <2>3, BusInitialized
  <1>7. CASE b.state = "Disabled"
    <2>1. BusTick(b, works, last) = BusDisabled(b)
      BY <1>7 DEF BusTick
    <2> QED
      BY <1>1, <2>1 DEF BusDisabled, ToReconfiguring, SwitchedOff
  <1>8. CASE b.state = "Faulted"
    <2> DEFINE c == releaseHardware(b)
               q == [c EXCEPT !.fault = FALSE]
    <2>1. BusTick(b, works, last) = BusFaulted(b)
      BY <1>8 DEF BusTick
    <2>2. c \in Buses /\ c.gen = b.gen
      BY BusReleased
    <2>3. BusFaulted(b) \in {ToReconfiguring(q), Goto(c, "Faulted", "Faulted")}
      BY DEF BusFaulted
    <2>4. Follows(b, Goto(c, "Faulted", "Faulted"))
      BY <1>1
    <2> HIDE DEF c
    <2>5. q \in Buses /\ q.gen = b.gen
      BY <2>2 DEF Buses
    <2> HIDE DEF q
    <2>6. Follows(b, ToReconfiguring(q))
      <3>1. "Reconfiguring" \in BusPlaces \ {"Ready", "Scanning"} /\ "Reconfiguring" \in Statuses \ {"Ready"}
        BY BusNames
      <3> QED
        BY <2>5, <3>1, BusMoves DEF ToReconfiguring
    <2> QED
      BY <2>1, <2>3, <2>4, <2>6
  <1>9. b.state \in BusPlaces
    BY DEF Buses
  <1> QED
    BY <1>2, <1>3, <1>4, <1>5, <1>6, <1>7, <1>8, <1>9, BusNames

LEMMA BusAsked ==
  ASSUME NEW b \in Buses
  PROVE  /\ resetStateMachine(b) \in Buses /\ resetStateMachine(b).gen = b.gen
         /\ \A enabled \in BOOLEAN : Asked(b, enabled) \in Buses /\ Asked(b, enabled).gen = b.gen
         /\ Lawful(b) => Lawful(resetStateMachine(b)) /\ \A enabled \in BOOLEAN : Lawful(Asked(b, enabled))
  <1>1. "Idle" \in BusPlaces /\ "Reconfiguring" \in Statuses /\ "Disabled" \in Statuses
    BY BusNames
  <1>2. /\ resetStateMachine(b) \in Buses /\ resetStateMachine(b).gen = b.gen
        /\ resetStateMachine(b).state = "Idle" /\ resetStateMachine(b).status = b.status
    BY <1>1 DEF resetStateMachine, Buses
  <1>3. ASSUME NEW enabled \in BOOLEAN
        PROVE  /\ Asked(b, enabled) \in Buses /\ Asked(b, enabled).gen = b.gen
               /\ Asked(b, enabled).state = b.state /\ Asked(b, enabled).status # "Ready"
    BY <1>1, <1>3 DEF Asked, clearLifecycleRequests, requestReconfigure, requestDisable, Buses
  <1> QED
    BY <1>2, <1>3 DEF Lawful


(* The hub. *)
LEMMA HaltOrIs ==
  ASSUME NEW d, NEW b, NEW next
  PROVE  \/ HaltOr(d, b, next) = Goto(d, "Disabled", "Disabled")
         \/ HaltOr(d, b, next) = Goto(d, "DependencyBlocked", "DependencyBlocked")
         \/ HaltOr(d, b, next) = next /\ ~Unwanted(d) /\ b.status = "Ready"
  <1>1. CASE Unwanted(d)
    BY <1>1 DEF HaltOr, Halts
  <1>2. CASE ~Unwanted(d) /\ b.status # "Ready"
    BY <1>2 DEF HaltOr, Halts
  <1>3. CASE ~Unwanted(d) /\ b.status = "Ready"
    BY <1>3 DEF HaltOr, Halts
  <1> QED
    BY <1>1, <1>2, <1>3

(* What a hub q is that h has become, over the bus b.                        *)
Grown(h, q, b) == q \in Hubs /\ HubSound(q) /\ Keeps(h, q) /\ q.last <= b.gen

LEMMA HubGoes ==
  ASSUME NEW h \in Hubs, NEW s \in States \cup {"RetryBackoff"}, NEW t \in Statuses
  PROVE  /\ Goto(h, s, t) \in Hubs /\ Goto(h, s, t).state = s /\ Goto(h, s, t).status = t
         /\ \A q \in {Goto(h, s, t)} : q.kind = h.kind /\ q.owner = h.owner /\ q.set = h.set /\ q.gain = h.gain
              /\ q.last = h.last /\ q.reconf = h.reconf /\ (Unwanted(q) <=> Unwanted(h))
  BY DEF Goto, Hubs, Unwanted

(* A hub that goes from one state to another, having given its claim up or   *)
(* not.                                                                      *)
LEMMA HubGrows ==
  ASSUME NEW b, NEW h \in Hubs, NEW c, Grown(h, c, b), NEW s \in States \cup {"RetryBackoff"}, NEW t \in Statuses,
         s \in {"DependencyBlocked", "RetryBackoff"} => c.kind = "adc",
         s = "Ready" => t = "Ready",
         t = "Ready" => h.status = "Ready" \/ c.kind = "mux" \/ (c.owner = Nobody /\ c.set = Nobody)
  PROVE  Grown(h, Goto(c, s, t), b)
  <1> DEFINE q == Goto(c, s, t)
  <1>1. c \in Hubs
    BY DEF Grown
  <1>2. /\ q \in Hubs /\ q.state = s /\ q.status = t /\ q.kind = c.kind /\ q.owner = c.owner
        /\ q.set = c.set /\ q.gain = c.gain /\ q.last = c.last
    BY <1>1, HubGoes
  <1> HIDE DEF q
  <1>3. HubSound(c) /\ Keeps(h, c) /\ c.last <= b.gen
    BY DEF Grown
  <1>4. HubSound(q)
    BY <1>2, <1>3 DEF HubSound
  <1>5. Keeps(h, q)
    BY <1>2, <1>3 DEF Keeps
  <1>6. Grown(h, q, b)
    BY <1>2, <1>3, <1>4, <1>5 DEF Grown
  <1> QED
    BY <1>6 DEF q

LEMMA HubStays ==
  ASSUME NEW b, NEW h \in Hubs, HubSound(h), h.last <= b.gen
  PROVE  Grown(h, h, b)
  BY DEF Grown, Keeps

LEMMA HubFreed ==
  ASSUME NEW b, NEW h \in Hubs, NEW c, Grown(h, c, b)
  PROVE  /\ Grown(h, Freed(c), b) /\ Freed(c).owner = Nobody /\ Freed(c).set = Nobody
         /\ Freed(c).state = c.state /\ Freed(c).status = c.status /\ Freed(c).kind = c.kind
         /\ Freed(c).last = c.last
  <1>1. c \in Hubs
    BY DEF Grown
  <1> DEFINE f == Freed(c)
  <1>2. /\ f \in Hubs /\ f.owner = Nobody /\ f.set = Nobody
        /\ f.state = c.state /\ f.status = c.status /\ f.kind = c.kind
        /\ f.last = c.last /\ f.reconf = c.reconf /\ (Unwanted(f) <=> Unwanted(c))
    BY <1>1 DEF Freed, Hubs, Unwanted
  <1> HIDE DEF f
  <1>3. HubSound(f) /\ Keeps(h, f) /\ f.last <= b.gen
    <2>1. HubSound(c) /\ c.kind = h.kind /\ c.last <= b.gen
      BY DEF Grown, Keeps
    <2>2. HubSound(f)
      BY <1>2, <2>1 DEF HubSound
    <2>3. Keeps(h, f)
      BY <1>2, <2>1 DEF Keeps
    <2> QED
      BY <1>2, <2>1, <2>2, <2>3
  <1>4. Grown(h, f, b)
    BY <1>2, <1>3 DEF Grown
  <1> QED
    BY <1>2, <1>4 DEF f

(* Requests granted or dropped, errors and generations counted: the claim,   *)
(* state and status stay.                                                    *)
LEMMA HubAlters ==
  ASSUME NEW b, NEW h \in Hubs, NEW c, Grown(h, c, b), NEW q \in Hubs,
         q.kind = c.kind, q.owner = c.owner, q.set = c.set, q.gain = c.gain, q.state = c.state,
         q.status = c.status, q.last <= b.gen, c.state # "Ready"
  PROVE  Grown(h, q, b)
  BY DEF Grown, HubSound, Keeps

LEMMA HubErrs ==
  ASSUME NEW h \in Hubs, NEW t \in Statuses
  PROVE  /\ Failed(h, t) \in Hubs /\ Failed(h, t).state \in {"Faulted", "RetryBackoff"} /\ Failed(h, t).status = t
         /\ \A q \in {Failed(h, t)} : /\ q.kind = h.kind /\ q.owner = h.owner /\ q.set = h.set
                                      /\ q.gain = h.gain /\ q.last = h.last /\ q.reconf = h.reconf
                                      /\ (Unwanted(q) <=> Unwanted(h))
  <1> DEFINE n == IF h.errors < FaultThreshold THEN h.errors + 1 ELSE h.errors
             c == [h EXCEPT !.errors = n]
  <1>1. n \in 0..FaultThreshold
    BY UserAssumption DEF Hubs
  <1> HIDE DEF n
  <1>2. /\ c \in Hubs /\ c.kind = h.kind /\ c.owner = h.owner /\ c.set = h.set
        /\ c.gain = h.gain /\ c.last = h.last /\ c.reconf = h.reconf /\ (Unwanted(c) <=> Unwanted(h))
    BY <1>1 DEF Hubs, Unwanted
  <1>3. \E s \in {"Faulted", "RetryBackoff"} : Failed(h, t) = Goto(c, s, t)
    BY DEF Failed, n
  <1> HIDE DEF c
  <1>4. PICK s \in {"Faulted", "RetryBackoff"} : Failed(h, t) = Goto(c, s, t)
    BY <1>3
  <1>5. s \in States \cup {"RetryBackoff"}
    BY DEF States
  <1> QED
    BY <1>2, <1>4, <1>5, HubGoes

(* recordFailure() of the ADC: no claim changes. *)
LEMMA AdcErrs ==
  ASSUME NEW h \in Hubs
  PROVE  /\ AdcFailed(h) \in Hubs /\ AdcFailed(h).state \in {"Faulted", "RetryBackoff"}
         /\ AdcFailed(h).status = h.status
         /\ \A q \in {AdcFailed(h)} : /\ q.kind = h.kind /\ q.owner = h.owner /\ q.set = h.set
                                      /\ q.gain = h.gain /\ q.last = h.last /\ q.reconf = h.reconf
                                      /\ (Unwanted(q) <=> Unwanted(h))
  <1> DEFINE c == Failed(h, h.status)
             v == c.fault \/ c.errors = FaultThreshold
  <1>1. h.status \in Statuses
    BY DEF Hubs
  <1>2. /\ c \in Hubs /\ c.state \in {"Faulted", "RetryBackoff"} /\ c.status = h.status
        /\ c.kind = h.kind /\ c.owner = h.owner /\ c.set = h.set
        /\ c.gain = h.gain /\ c.last = h.last /\ c.reconf = h.reconf /\ (Unwanted(c) <=> Unwanted(h))
    BY <1>1, HubErrs
  <1>3. AdcFailed(h) = [c EXCEPT !.fault = v]
    BY DEF AdcFailed
  <1>4. v \in BOOLEAN
    BY <1>2 DEF Hubs
  <1> HIDE DEF c, v
  <1> QED
    BY <1>2, <1>3, <1>4 DEF Hubs, Unwanted

LEMMA GenerationBumped == \A g \in 0..LastGeneration : bumped(g) \in 1..LastGeneration
  BY HubAssumption DEF bumped

LEMMA HubStates ==
  /\ {"Idle", "Starting", "Ready", "Reconfiguring", "Disabled", "Faulted", "DependencyBlocked", "RetryBackoff"}
       = States \cup {"RetryBackoff"}
  /\ {"Creating", "Starting", "Ready", "Reconfiguring", "Disabled", "Faulted", "DependencyBlocked"} = Statuses
  BY DEF States, Statuses

(* A stop, for want of the bus or because nobody wants the hub. *)
LEMMA HubHalts ==
  ASSUME NEW b, NEW h \in Hubs, NEW c, Grown(h, c, b), c.kind = "adc", NEW next,
         ~Unwanted(c) /\ b.status = "Ready" => Grown(h, next, b)
  PROVE  Grown(h, HaltOr(c, b, next), b)
  <1>1. Grown(h, Goto(c, "Disabled", "Disabled"), b) /\ Grown(h, Goto(c, "DependencyBlocked", "DependencyBlocked"), b)
    BY HubGrows, HubStates
  <1> QED
    BY <1>1, HaltOrIs

LEMMA AdcStarts ==
  ASSUME NEW b \in Buses, NEW h \in Hubs, HubSound(h), h.last <= b.gen, h.kind = "adc", h.state = "Starting",
         NEW answers \in BOOLEAN
  PROVE  Grown(h, AdcStarting(h, b, answers), b)
  <1> DEFINE up == [Freed(h) EXCEPT !.last = b.gen, !.start = FALSE, !.errors = 0, !.gen = bumped(@)]
             sad == [AdcFailed(h) EXCEPT !.status = "Starting"]
             next == IF ~Lends(b) THEN Goto(h, "RetryBackoff", "Starting")
                     ELSE IF ~answers THEN sad ELSE Goto(up, "Ready", "Ready")
  <1>1. Grown(h, h, b)
    BY HubStays
  <1>2. Grown(h, Goto(h, "RetryBackoff", "Starting"), b)
    BY <1>1, HubGrows, HubStates
  <1>3. Grown(h, sad, b)
    <2> DEFINE c == AdcFailed(h)
    <2>1. /\ c \in Hubs /\ c.state \in {"Faulted", "RetryBackoff"} /\ c.kind = h.kind /\ c.owner = h.owner
          /\ c.set = h.set /\ c.gain = h.gain /\ c.last = h.last /\ c.reconf = h.reconf
      BY AdcErrs
    <2> HIDE DEF c
    <2>2. /\ [c EXCEPT !.status = "Starting"] \in Hubs
          /\ \A q \in {[c EXCEPT !.status = "Starting"]} :
               /\ q.state \in {"Faulted", "RetryBackoff"} /\ q.kind = h.kind /\ q.owner = h.owner
               /\ q.set = h.set /\ q.gain = h.gain /\ q.last = h.last /\ q.status = "Starting"
      BY <2>1, HubStates DEF Hubs
    <2> QED
      BY <2>2 DEF Grown, HubSound, Keeps, c
  <1>4. Grown(h, Goto(up, "Ready", "Ready"), b)
    <2> DEFINE f == Freed(h)
    <2>1. f \in Hubs /\ f.owner = Nobody /\ f.set = Nobody /\ f.kind = h.kind /\ f.gen \in 0..LastGeneration
      BY <1>1, HubFreed DEF Grown, Hubs
    <2>2. bumped(f.gen) \in 0..LastGeneration /\ 0 \in 0..FaultThreshold /\ b.gen \in Nat /\ b.gen <= b.gen
      <3>1. bumped(f.gen) \in 1..LastGeneration /\ b.gen \in Nat
        BY <2>1, GenerationBumped DEF Buses
      <3> QED
        BY <3>1, UserAssumption, HubAssumption
    <2> HIDE DEF f
    <2>3. up = [f EXCEPT !.last = b.gen, !.start = FALSE, !.errors = 0, !.gen = bumped(@)]
      BY DEF f
    <2> HIDE DEF up
    <2>4. up \in Hubs /\ up.owner = Nobody /\ up.set = Nobody /\ up.kind = h.kind /\ up.last = b.gen
      BY <2>1, <2>2, <2>3 DEF Hubs
    <2>5. /\ Goto(up, "Ready", "Ready") \in Hubs
          /\ \A q \in {Goto(up, "Ready", "Ready")} :
               /\ q.state = "Ready" /\ q.status = "Ready" /\ q.kind = h.kind /\ q.owner = Nobody
               /\ q.set = Nobody /\ q.last = b.gen
      <3>1. "Ready" \in States \cup {"RetryBackoff"} /\ "Ready" \in Statuses
        BY HubStates
      <3> QED
        BY <2>4, <3>1, HubGoes
    <2> QED
      BY <2>2, <2>5 DEF Grown, HubSound, Keeps
  <1>5. Grown(h, next, b)
    BY <1>2, <1>3, <1>4
  <1>6. AdcStarting(h, b, answers) = HaltOr(h, b, next)
    BY DEF AdcStarting
  <1> HIDE DEF next
  <1> QED
    BY <1>1, <1>5, <1>6, HubHalts

(* A hub that another step may go on from. *)
Stands(h, b) == h \in Hubs /\ HubSound(h) /\ h.last <= b.gen

LEMMA HubOnward ==
  ASSUME NEW b, NEW h, NEW c, Grown(h, c, b)
  PROVE  Stands(c, b) /\ \A q : Grown(c, q, b) => Grown(h, q, b)
  BY DEF Grown, Stands, Keeps

(* To any state but Ready. *)
LEMMA HubMoves ==
  ASSUME NEW b, NEW h, Stands(h, b), NEW s \in (States \cup {"RetryBackoff"}) \ {"Ready"}, NEW t \in Statuses \ {"Ready"},
         s \in {"DependencyBlocked", "RetryBackoff"} => h.kind = "adc"
  PROVE  Grown(h, Goto(h, s, t), b)
  <1>1. h \in Hubs /\ Grown(h, h, b)
    BY HubStays DEF Stands
  <1>2. s \in States \cup {"RetryBackoff"} /\ t \in Statuses /\ s # "Ready" /\ t # "Ready"
    OBVIOUS
  <1> QED
    BY <1>1, <1>2, HubGrows

(* The states that a hub of either kind may always go to. *)
LEMMA HubLeaves ==
  ASSUME NEW b, NEW h, Stands(h, b)
  PROVE  Grown(h, SwitchedOff(h), b) /\ Grown(h, ToReconfiguring(h), b) /\ Grown(h, Goto(h, "Faulted", "Faulted"), b)
  <1>1. /\ {"Disabled", "Reconfiguring", "Faulted"} \subseteq (States \cup {"RetryBackoff"}) \ {"Ready"}
        /\ {"Disabled", "Reconfiguring", "Faulted"} \subseteq Statuses \ {"Ready"}
    BY HubStates
  <1> QED
    BY <1>1, HubMoves DEF SwitchedOff, ToReconfiguring

LEMMA HubIdles ==
  ASSUME NEW b, NEW h, Stands(h, b)
  PROVE  Grown(h, IdleTick(h), b)
  <1> DEFINE s == IF h.start THEN "Starting" ELSE "Idle"
  <1>1. s \in (States \cup {"RetryBackoff"}) \ {"Ready"} /\ "Creating" \in Statuses \ {"Ready"}
        /\ s \notin {"DependencyBlocked", "RetryBackoff"}
    BY HubStates
  <1>2. Grown(h, Goto(h, s, "Creating"), b)
    BY <1>1, HubMoves
  <1>3. IdleTick(h) \in {SwitchedOff(h), Goto(h, s, "Creating")}
    BY DEF IdleTick, Goto
  <1> HIDE DEF s
  <1> QED
    BY <1>2, <1>3, HubLeaves

LEMMA HubFrees ==
  ASSUME NEW b, NEW h, Stands(h, b)
  PROVE  /\ Grown(h, Freed(h), b) /\ Freed(h).owner = Nobody /\ Freed(h).set = Nobody
         /\ Freed(h).state = h.state /\ Freed(h).kind = h.kind
  BY HubStays, HubFreed DEF Stands

(* The fault flag cleared or set. *)
LEMMA HubFlagged ==
  ASSUME NEW b, NEW h, Stands(h, b), NEW v \in BOOLEAN, h.state # "Ready"
  PROVE  Grown(h, [h EXCEPT !.fault = v], b)
  <1> DEFINE q == [h EXCEPT !.fault = v]
  <1>1. /\ q \in Hubs /\ q.kind = h.kind /\ q.owner = h.owner /\ q.set = h.set /\ q.gain = h.gain
        /\ q.state = h.state /\ q.status = h.status /\ q.last = h.last
    BY DEF Stands, Hubs
  <1>2. h \in Hubs /\ Grown(h, h, b) /\ h.last <= b.gen
    BY HubStays DEF Stands
  <1> HIDE DEF q
  <1>3. Grown(h, q, b)
    BY <1>1, <1>2, HubAlters
  <1> QED
    BY <1>3 DEF q

LEMMA AdcReady ==
  ASSUME NEW b \in Buses, NEW h, Stands(h, b), h.kind = "adc", h.state = "Ready"
  PROVE  Grown(h, Steady(h, b, LET s == IF h.fault THEN "Faulted" ELSE "Ready" IN Goto(h, s, s)), b)
  <1> DEFINE s == IF h.fault THEN "Faulted" ELSE "Ready"
             next == IF Superseded(h, b) THEN ToReconfiguring(h) ELSE Goto(h, s, s)
  <1>1. h \in Hubs /\ Grown(h, h, b)
    BY HubStays DEF Stands
  <1>2. ASSUME ~Unwanted(h), ~h.reconf PROVE Grown(h, Goto(h, "Ready", "Ready"), b)
    <2>1. h.status = "Ready"
      BY <1>2 DEF Stands, HubSound
    <2>2. "Ready" \in States \cup {"RetryBackoff"} /\ "Ready" \in Statuses
      BY HubStates
    <2> QED
      BY <1>1, <2>1, <2>2, HubGrows
  <1>3. ~Unwanted(h) => Grown(h, next, b)
    BY <1>2, HubLeaves DEF Superseded
  <1>4. Steady(h, b, LET s1 == IF h.fault THEN "Faulted" ELSE "Ready" IN Goto(h, s1, s1)) = HaltOr(h, b, next)
    BY DEF Steady
  <1> HIDE DEF next
  <1> QED
    BY <1>1, <1>3, <1>4, HubHalts

LEMMA AdcReconfigures ==
  ASSUME NEW b \in Buses, NEW h, Stands(h, b), h.kind = "adc", h.state = "Reconfiguring"
  PROVE  Grown(h, UserReconfiguring(h, b), b)
  <1> DEFINE q == [h EXCEPT !.reconf = FALSE, !.start = FALSE, !.last = 0, !.errors = 0]
  <1>1. h \in Hubs /\ Grown(h, h, b) /\ 0 <= b.gen
    BY HubStays DEF Stands, Buses
  <1>2. 0 \in 0..FaultThreshold
    BY UserAssumption
  <1>3. /\ q \in Hubs /\ q.kind = h.kind /\ q.owner = h.owner /\ q.set = h.set /\ q.gain = h.gain
        /\ q.state = h.state /\ q.status = h.status /\ q.last = 0
    BY <1>1, <1>2 DEF Hubs
  <1> HIDE DEF q
  <1>4. Grown(h, q, b)
    BY <1>1, <1>3, HubAlters
  <1>5. Grown(h, Goto(q, "Starting", "Reconfiguring"), b)
    <2>1. /\ "Starting" \in (States \cup {"RetryBackoff"}) \ {"Ready"} /\ "Reconfiguring" \in Statuses \ {"Ready"}
          /\ "Starting" \notin {"DependencyBlocked", "RetryBackoff"}
      BY HubStates
    <2> QED
      BY <1>4, <2>1, HubOnward, HubMoves
  <1>6. UserReconfiguring(h, b) = HaltOr(q, b, Goto(q, "Starting", "Reconfiguring"))
    BY DEF UserReconfiguring, q
  <1> QED
    BY <1>1, <1>3, <1>4, <1>5, <1>6, HubHalts

(* Every tick of an ADC. *)
LEMMA AdcTicks ==
  ASSUME NEW b \in Buses, NEW h, Stands(h, b), h.kind = "adc", NEW due \in BOOLEAN, NEW answers \in BOOLEAN
  PROVE  Grown(h, AdcTick(h, b, due, answers), b)
  <1> DEFINE f == Freed(h)
  <1>1. h \in Hubs /\ HubSound(h) /\ h.last <= b.gen /\ Grown(h, h, b)
    BY HubStays DEF Stands
  <1>2. Grown(h, f, b) /\ Stands(f, b) /\ f.state = h.state /\ f.kind = "adc"
    BY HubFrees, HubOnward
  <1> HIDE DEF f
  <1>3. /\ \A s \in {"Starting", "Faulted", "RetryBackoff"} : s \in (States \cup {"RetryBackoff"}) \ {"Ready"}
        /\ {"Starting", "Faulted", "DependencyBlocked"} \subseteq Statuses \ {"Ready"}
        /\ "DependencyBlocked" \in (States \cup {"RetryBackoff"}) \ {"Ready"}
    BY HubStates
  <1>4. CASE h.state = "Starting"
    <2>1. AdcTick(h, b, due, answers) = AdcStarting(h, b, answers)
      BY <1>4 DEF AdcTick
    <2> QED
      BY <1>1, <1>4, <2>1, AdcStarts
  <1>5. CASE h.state = "Ready"
    <2>1. AdcTick(h, b, due, answers) = Steady(h, b, LET s == IF h.fault THEN "Faulted" ELSE "Ready" IN Goto(h, s, s))
      BY <1>5 DEF AdcTick
    <2> QED
      BY <1>5, <2>1, AdcReady
  <1>6. CASE h.state = "Faulted"
    <2> DEFINE g == [f EXCEPT !.fault = FALSE]
               next == IF f.reconf THEN ToReconfiguring(g)
                       ELSE Goto(f, IF due THEN "Starting" ELSE "Faulted", "Faulted")
    <2>1. AdcTick(h, b, due, answers) = HaltOr(f, b, next)
      BY <1>6 DEF AdcTick, AdcFaulted, f
    <2>2. Grown(f, g, b)
      BY <1>2, <1>6, HubFlagged
    <2> HIDE DEF g
    <2>3. Grown(f, ToReconfiguring(g), b)
      BY <2>2, HubOnward, HubLeaves
    <2>4. \A s \in {"Starting", "Faulted"} : Grown(f, Goto(f, s, "Faulted"), b)
      BY <1>2, <1>3, HubMoves
    <2>5. Grown(f, next, b)
      BY <2>3, <2>4
    <2> HIDE DEF next
    <2>6. Grown(h, next, b)
      BY <1>2, <2>5, HubOnward
    <2> QED
      BY <1>1, <1>2, <2>1, <2>6, HubHalts
  <1>7. CASE h.state = "Reconfiguring"
    <2>1. AdcTick(h, b, due, answers) = UserReconfiguring(f, b)
      BY <1>7 DEF AdcTick, f
    <2> QED
      BY <1>2, <1>7, <2>1, AdcReconfigures, HubOnward
  <1>8. CASE h.state = "Disabled"
    <2>1. AdcTick(h, b, due, answers) = UserDisabled(f)
      BY <1>8 DEF AdcTick, f
    <2>2. Grown(f, UserDisabled(f), b)
      BY <1>2, HubLeaves DEF UserDisabled
    <2> QED
      BY <1>2, <2>1, <2>2, HubOnward
  <1>9. CASE h.state = "Idle"
    <2>1. AdcTick(h, b, due, answers) = IdleTick(h)
      BY <1>9 DEF AdcTick, QuietTick
    <2> QED
      BY <2>1, HubIdles
  <1>10. CASE h.state = "RetryBackoff"
    <2> DEFINE next == IF h.reconf THEN ToReconfiguring(h)
                       ELSE Goto(h, IF due THEN "Starting" ELSE h.state, "Starting")
    <2>1. AdcTick(h, b, due, answers) = Waits(h, b, due, "Starting")
      BY <1>10 DEF AdcTick, QuietTick
    <2>2. \A s \in {"Starting", "RetryBackoff"} : Grown(h, Goto(h, s, "Starting"), b)
      BY <1>3, HubMoves
    <2>3. Grown(h, next, b)
      BY <1>10, <2>2, HubLeaves
    <2>4. Waits(h, b, due, "Starting") = HaltOr(h, b, next)
      BY DEF Waits
    <2> HIDE DEF next
    <2> QED
      BY <1>1, <2>1, <2>3, <2>4, HubHalts
  <1>11. CASE h.state = "DependencyBlocked"
    <2>1. AdcTick(h, b, due, answers) = UserDependencyBlocked(h, b)
      BY <1>11 DEF AdcTick, QuietTick
    <2>2. Grown(h, Goto(h, "DependencyBlocked", "DependencyBlocked"), b)
      BY <1>3, HubMoves
    <2> QED
      BY <2>1, <2>2, HubLeaves DEF UserDependencyBlocked
  <1>12. h.state \in States \cup {"RetryBackoff"}
    BY <1>1 DEF Hubs
  <1> QED
    BY <1>4, <1>5, <1>6, <1>7, <1>8, <1>9, <1>10, <1>11, <1>12 DEF States

LEMMA MuxStarts ==
  ASSUME NEW b, NEW h, Stands(h, b), h.kind = "mux", h.state = "Starting", NEW works
  PROVE  Grown(h, MuxStarting(h, works), b)
  <1> DEFINE f == Freed(h)
             up == [f EXCEPT !.gen = bumped(@), !.start = FALSE]
             down == [f EXCEPT !.fault = TRUE]
  <1>1. Grown(h, f, b) /\ Stands(f, b) /\ f.state = "Starting" /\ f.kind = "mux" /\ h \in Hubs
    BY HubFrees, HubOnward DEF Stands
  <1> HIDE DEF f
  <1>2. bumped(f.gen) \in 0..LastGeneration
    <2>1. bumped(f.gen) \in 1..LastGeneration
      BY <1>1, GenerationBumped DEF Stands, Hubs
    <2> QED
      BY <2>1, HubAssumption
  <1>3. /\ up \in Hubs /\ up.kind = f.kind /\ up.owner = f.owner /\ up.set = f.set /\ up.gain = f.gain
        /\ up.state = f.state /\ up.status = f.status /\ up.last = f.last
    BY <1>1, <1>2 DEF Stands, Hubs
  <1> HIDE DEF up
  <1>4. Grown(h, up, b)
    BY <1>1, <1>3, HubAlters DEF Stands
  <1>5. Grown(h, Goto(up, "Ready", "Ready"), b)
    <2>1. "Ready" \in States \cup {"RetryBackoff"} /\ "Ready" \in Statuses
      BY HubStates
    <2> QED
      BY <1>1, <1>3, <1>4, <2>1, HubGrows
  <1>6. Grown(h, Goto(down, "Faulted", "Faulted"), b)
    <2>1. Grown(f, down, b)
      BY <1>1, HubFlagged
    <2> HIDE DEF down
    <2> QED
      BY <1>1, <2>1, HubOnward, HubLeaves
  <1>7. MuxStarting(h, works) \in {SwitchedOff(h), Goto(up, "Ready", "Ready"), Goto(down, "Faulted", "Faulted")}
    BY DEF MuxStarting, up, f
  <1> HIDE DEF down
  <1> QED
    BY <1>5, <1>6, <1>7, HubLeaves

LEMMA MuxReads ==
  ASSUME NEW b, NEW h, Stands(h, b), h.kind = "mux"
  PROVE  Grown(h, MuxReady(h), b)
  <1>1. Grown(h, SwitchedOff(Freed(h)), b)
    BY HubFrees, HubOnward, HubLeaves
  <1>2. Grown(h, Goto(h, "Ready", "Ready"), b)
    <2>1. "Ready" \in States \cup {"RetryBackoff"} /\ "Ready" \in Statuses /\ h \in Hubs /\ Grown(h, h, b)
      BY HubStates, HubStays DEF Stands
    <2> QED
      BY <2>1, HubGrows
  <1> QED
    BY <1>1, <1>2, HubLeaves DEF MuxReady

LEMMA MuxReconfigures ==
  ASSUME NEW b, NEW h, Stands(h, b), h.kind = "mux", h.state = "Reconfiguring"
  PROVE  Grown(h, MuxReconfiguring(h), b)
  <1> DEFINE g == [h EXCEPT !.reconf = FALSE]
             q == Freed(g)
  <1>1. h \in Hubs /\ Grown(h, h, b) /\ h.last <= b.gen
    BY HubStays DEF Stands
  <1>2. /\ g \in Hubs /\ g.kind = h.kind /\ g.owner = h.owner /\ g.set = h.set /\ g.gain = h.gain
        /\ g.state = h.state /\ g.status = h.status /\ g.last = h.last
    BY <1>1 DEF Hubs
  <1> HIDE DEF g
  <1>3. Grown(h, g, b)
    BY <1>1, <1>2, HubAlters
  <1>4. Grown(h, q, b) /\ Stands(q, b)
    BY <1>3, HubOnward, HubFrees
  <1> HIDE DEF q
  <1>5. Grown(h, SwitchedOff(q), b) /\ Grown(h, Goto(q, "Starting", "Reconfiguring"), b)
    <2>1. /\ "Starting" \in (States \cup {"RetryBackoff"}) \ {"Ready"} /\ "Reconfiguring" \in Statuses \ {"Ready"}
          /\ "Starting" \notin {"DependencyBlocked", "RetryBackoff"}
      BY HubStates
    <2> QED
      BY <1>4, <2>1, HubOnward, HubMoves, HubLeaves
  <1>6. MuxReconfiguring(h) \in {SwitchedOff(q), Goto(q, "Starting", "Reconfiguring")}
    BY DEF MuxReconfiguring, q, g
  <1> QED
    BY <1>5, <1>6

LEMMA MuxFaults ==
  ASSUME NEW b, NEW h, Stands(h, b), h.kind = "mux", h.state = "Faulted"
  PROVE  Grown(h, MuxFaulted(h), b)
  <1> DEFINE f == Freed(h)
             g == [f EXCEPT !.fault = FALSE]
  <1>1. Grown(h, f, b) /\ Stands(f, b) /\ f.state = "Faulted"
    BY HubFrees, HubOnward
  <1> HIDE DEF f
  <1>2. Grown(f, g, b)
    BY <1>1, HubFlagged
  <1> HIDE DEF g
  <1>3. Grown(f, ToReconfiguring(g), b) /\ Grown(f, SwitchedOff(f), b) /\ Grown(f, Goto(f, "Faulted", "Faulted"), b)
    BY <1>1, <1>2, HubOnward, HubLeaves
  <1>4. MuxFaulted(h) \in {SwitchedOff(f), ToReconfiguring(g), Goto(f, "Faulted", "Faulted")}
    BY DEF MuxFaulted, f, g
  <1> QED
    BY <1>1, <1>3, <1>4, HubOnward

LEMMA HubTicked ==
  ASSUME NEW b \in Buses, NEW h, Stands(h, b), NEW due \in BOOLEAN, NEW works \in BOOLEAN
  PROVE  Grown(h, HubTick(h, b, due, works), b)
  <1>1. CASE h.kind = "adc"
    BY <1>1, AdcTicks DEF HubTick
  <1>2. CASE h.kind = "mux"
    <2>1. HubTick(h, b, due, works) = MuxTick(h, works)
      BY <1>2 DEF HubTick
    <2>2. h.state \in {"Idle", "Starting", "Ready", "Reconfiguring", "Disabled", "Faulted"}
      BY <1>2, HubStates DEF Stands, HubSound, Hubs
    <2>3. CASE h.state = "Idle"
      BY <2>1, <2>3, HubIdles DEF MuxTick
    <2>4. CASE h.state = "Starting"
      BY <1>2, <2>1, <2>4, MuxStarts DEF MuxTick
    <2>5. CASE h.state = "Ready"
      BY <1>2, <2>1, <2>5, MuxReads DEF MuxTick
    <2>6. CASE h.state = "Reconfiguring"
      BY <1>2, <2>1, <2>6, MuxReconfigures DEF MuxTick
    <2>7. CASE h.state = "Disabled"
      <3>1. MuxTick(h, works) = UserDisabled(h)
        BY <2>7 DEF MuxTick
      <3> QED
        BY <2>1, <3>1, HubLeaves DEF UserDisabled
    <2>8. CASE h.state = "Faulted"
      BY <1>2, <2>1, <2>8, MuxFaults DEF MuxTick
    <2> QED
      BY <2>2, <2>3, <2>4, <2>5, <2>6, <2>7, <2>8
  <1> QED
    BY <1>1, <1>2 DEF Stands, Hubs

(* What the registry and an edit ask of a hub. *)
LEMMA HubAsks ==
  ASSUME NEW b, NEW h, Stands(h, b)
  PROVE  /\ \A statuses : Grown(h, Refreshed(h, statuses), b)
         /\ Grown(h, requestReconfigure(h), b) /\ Grown(h, resetStateMachine(h), b)
         /\ \A enabled \in BOOLEAN : Grown(h, Asked(h, enabled), b)
  <1>1. h \in Hubs /\ HubSound(h) /\ h.last <= b.gen
    BY DEF Stands
  <1>2. "Reconfiguring" \in Statuses /\ "Disabled" \in Statuses /\ "Idle" \in States
    BY HubStates DEF States
  <1>3. \A q \in Hubs : HubSound(q) /\ Keeps(h, q) /\ q.last = h.last => Grown(h, q, b)
    BY <1>1 DEF Grown
  <1>4. Grown(h, requestReconfigure(h), b)
    <2>1. requestReconfigure(h) \in Hubs /\ requestReconfigure(h).last = h.last
      BY <1>1, <1>2 DEF requestReconfigure, Hubs
    <2>2. HubSound(requestReconfigure(h)) /\ Keeps(h, requestReconfigure(h))
      BY <1>1 DEF requestReconfigure, Hubs, HubSound, Keeps
    <2> QED
      BY <1>3, <2>1, <2>2
  <1>5. Grown(h, requestDisable(h), b)
    <2>1. requestDisable(h) \in Hubs /\ requestDisable(h).last = h.last
      BY <1>1, <1>2 DEF requestDisable, Hubs
    <2>2. HubSound(requestDisable(h)) /\ Keeps(h, requestDisable(h))
      BY <1>1 DEF requestDisable, Hubs, HubSound, Keeps, Unwanted
    <2> QED
      BY <1>3, <2>1, <2>2
  <1>6. Grown(h, h, b)
    BY <1>1, HubStays
  <1>7. \A statuses : Grown(h, Refreshed(h, statuses), b)
    BY <1>4, <1>5, <1>6 DEF Refreshed
  <1>8. Grown(h, resetStateMachine(h), b)
    <2>1. resetStateMachine(h) \in Hubs /\ resetStateMachine(h).last = h.last
      BY <1>1, <1>2 DEF resetStateMachine, Hubs
    <2>2. HubSound(resetStateMachine(h)) /\ Keeps(h, resetStateMachine(h))
      BY <1>1 DEF resetStateMachine, Hubs, HubSound, Keeps
    <2> QED
      BY <1>3, <2>1, <2>2
  <1>9. ASSUME NEW enabled \in BOOLEAN PROVE Grown(h, Asked(h, enabled), b)
    <2> DEFINE q == Asked(h, enabled)
    <2>1. q \in Hubs /\ q.last = h.last /\ q.kind = h.kind /\ q.state = h.state /\ q.owner = h.owner
          /\ q.set = h.set /\ q.gain = h.gain /\ q.status # "Ready"
      BY <1>1, <1>2, <1>9
         DEF Asked, clearLifecycleRequests, requestReconfigure, requestDisable, Hubs
    <2>2. q.reconf \/ Unwanted(q)
      BY <1>1, <1>9 DEF Asked, clearLifecycleRequests, requestReconfigure, requestDisable, Hubs, Unwanted
    <2> HIDE DEF q
    <2>3. HubSound(q) /\ Keeps(h, q)
      BY <1>1, <2>1, <2>2 DEF HubSound, Keeps
    <2>4. Grown(h, q, b)
      BY <1>3, <2>1, <2>3
    <2> QED
      BY <2>4 DEF q
  <1> QED
    BY <1>4, <1>7, <1>8, <1>9

(* A channel device q that d has become. *)
Grew(d, q) == q \in Leaves /\ q.ch = d.ch /\ q.here = d.here /\ q.foreign = d.foreign

(* It has, besides, not lost the request that will make it give its claim    *)
(* up.                                                                       *)
Kept(d, q) == Grew(d, q) /\ q.state = d.state /\ (d.reconf \/ Unwanted(d) => q.reconf \/ Unwanted(q))

LEMMA LeafStates ==
  /\ {"Idle", "Starting", "Ready", "Reconfiguring", "Disabled", "Faulted", "DependencyBlocked", "RetryBackoff", "Sampling"}
       = States \cup {"Sampling", "RetryBackoff"}
  /\ {"Creating", "Starting", "Ready", "Reconfiguring", "Disabled", "Faulted", "DependencyBlocked"} = Statuses
  BY DEF States, Statuses

LEMMA LeafGoes ==
  ASSUME NEW d \in Leaves, NEW c, Grew(d, c), NEW s \in States \cup {"Sampling", "RetryBackoff"}, NEW t \in Statuses
  PROVE  Grew(d, Goto(c, s, t)) /\ Goto(c, s, t).state = s
  BY DEF Goto, Leaves, Grew

LEMMA LeafStays == \A d \in Leaves : Grew(d, d)
  BY DEF Grew

LEMMA LeafHalts ==
  ASSUME NEW d \in Leaves, NEW c, Grew(d, c), NEW b, NEW next,
         ~Unwanted(c) /\ b.status = "Ready" => Grew(d, next)
  PROVE  Grew(d, HaltOr(c, b, next))
  <1>1. Grew(d, Goto(c, "Disabled", "Disabled")) /\ Grew(d, Goto(c, "DependencyBlocked", "DependencyBlocked"))
    BY LeafGoes, LeafStates
  <1> QED
    BY <1>1, HaltOrIs

LEMMA LeafFails ==
  ASSUME NEW d \in Leaves
  PROVE  Grew(d, Failed(d, "Ready"))
  <1> DEFINE n == IF d.errors < FaultThreshold THEN d.errors + 1 ELSE d.errors
             c == [d EXCEPT !.errors = n]
  <1>1. n \in 0..FaultThreshold
    BY UserAssumption DEF Leaves
  <1> HIDE DEF n
  <1>2. Grew(d, c)
    BY <1>1 DEF Grew, Leaves
  <1>3. \E s \in {"Faulted", "RetryBackoff"} : Failed(d, "Ready") = Goto(c, s, "Ready")
    BY DEF Failed, n
  <1> HIDE DEF c
  <1> QED
    BY <1>2, <1>3, LeafGoes, LeafStates

(* The ticks that ask nothing of the hub. *)
LEMMA LeafQuiet ==
  ASSUME NEW d \in Leaves, NEW h, NEW due \in BOOLEAN,
         d.state \in {"Idle", "RetryBackoff", "DependencyBlocked", "Reconfiguring", "Disabled", "Faulted"}
  PROVE  Grew(d, QuietTick(d, h, due))
  <1>1. /\ Grew(d, d) /\ Grew(d, SwitchedOff(d)) /\ Grew(d, ToReconfiguring(d))
        /\ Grew(d, Goto(d, "DependencyBlocked", "DependencyBlocked"))
    BY LeafStays, LeafGoes, LeafStates DEF SwitchedOff, ToReconfiguring
  <1>2. ASSUME NEW t \in {"Starting", "Faulted"} PROVE Grew(d, Waits(d, h, due, t))
    <2> DEFINE next == IF d.reconf THEN ToReconfiguring(d) ELSE Goto(d, IF due THEN "Starting" ELSE d.state, t)
    <2>1. \A s \in {"Starting", d.state} : Grew(d, Goto(d, s, t))
      <3>1. d.state \in States \cup {"Sampling", "RetryBackoff"} /\ t \in Statuses
            /\ "Starting" \in States \cup {"Sampling", "RetryBackoff"}
        BY <1>2, LeafStates DEF Leaves
      <3> QED
        BY <1>1, <3>1, LeafGoes
    <2>2. Grew(d, next)
      BY <1>1, <2>1
    <2>3. Waits(d, h, due, t) = HaltOr(d, h, next)
      BY DEF Waits
    <2> HIDE DEF next
    <2> QED
      BY <1>1, <2>2, <2>3, LeafHalts
  <1>3. CASE d.state = "Idle"
    <2> DEFINE s == IF d.start THEN "Starting" ELSE "Idle"
    <2>1. s \in States \cup {"Sampling", "RetryBackoff"} /\ "Creating" \in Statuses
      BY LeafStates
    <2>2. Grew(d, Goto(d, s, "Creating"))
      BY <1>1, <2>1, LeafGoes
    <2>3. QuietTick(d, h, due) \in {SwitchedOff(d), Goto(d, s, "Creating")}
      BY <1>3 DEF QuietTick, IdleTick, Goto
    <2> HIDE DEF s
    <2> QED
      BY <1>1, <2>2, <2>3
  <1>4. CASE d.state = "RetryBackoff"
    <2>1. QuietTick(d, h, due) = Waits(d, h, due, "Starting")
      BY <1>4 DEF QuietTick
    <2> QED
      BY <1>2, <2>1
  <1>5. CASE d.state = "DependencyBlocked"
    <2>1. QuietTick(d, h, due) = UserDependencyBlocked(d, h)
      BY <1>5 DEF QuietTick
    <2> QED
      BY <1>1, <2>1 DEF UserDependencyBlocked
  <1>6. CASE d.state = "Reconfiguring"
    <2> DEFINE q == [d EXCEPT !.reconf = FALSE, !.start = FALSE, !.last = 0, !.errors = 0]
    <2>1. 0 \in 0..FaultThreshold /\ 0 \in 0..LastGeneration
      BY UserAssumption, HubAssumption
    <2>2. Grew(d, q)
      BY <2>1 DEF Grew, Leaves
    <2>3. QuietTick(d, h, due) = HaltOr(q, h, Goto(q, "Starting", "Reconfiguring"))
      BY <1>6 DEF QuietTick, UserReconfiguring
    <2> HIDE DEF q
    <2>4. Grew(d, Goto(q, "Starting", "Reconfiguring"))
      BY <2>2, LeafGoes, LeafStates
    <2> QED
      BY <2>2, <2>3, <2>4, LeafHalts
  <1>7. CASE d.state = "Disabled"
    <2>1. QuietTick(d, h, due) = UserDisabled(d)
      BY <1>7 DEF QuietTick
    <2> QED
      BY <1>1, <2>1 DEF UserDisabled
  <1>8. CASE d.state = "Faulted"
    <2>1. QuietTick(d, h, due) = Waits(d, h, due, "Faulted")
      BY <1>8 DEF QuietTick
    <2> QED
      BY <1>2, <2>1
  <1> QED
    BY <1>3, <1>4, <1>5, <1>6, <1>7, <1>8

LEMMA LeafStarts ==
  ASSUME NEW d \in Leaves, NEW h \in Hubs
  PROVE  Grew(d, LeafStarting(d, h))
  <1> DEFINE q == [d EXCEPT !.start = FALSE, !.reconf = FALSE, !.last = h.gen, !.errors = 0, !.got = 0]
  <1>1. 0 \in 0..FaultThreshold /\ 0 \in 0..AdcSamples /\ h.gen \in 0..LastGeneration
    BY UserAssumption, HubAssumption DEF Hubs
  <1>2. Grew(d, q)
    BY <1>1 DEF Grew, Leaves
  <1> HIDE DEF q
  <1>3. Grew(d, Goto(q, "Sampling", "Starting")) /\ Grew(d, d)
    BY <1>2, LeafGoes, LeafStates, LeafStays
  <1>4. LeafStarting(d, h) = HaltOr(d, h, Goto(q, "Sampling", "Starting"))
    BY DEF LeafStarting, q
  <1> QED
    BY <1>3, <1>4, LeafHalts

LEMMA LeafRests ==
  ASSUME NEW d \in Leaves, NEW h, NEW due \in BOOLEAN
  PROVE  Grew(d, Steady(d, h, IF due THEN Goto([d EXCEPT !.got = 0], "Sampling", "Ready") ELSE Goto(d, "Ready", "Ready")))
  <1> DEFINE q == [d EXCEPT !.got = 0]
             go == IF due THEN Goto(q, "Sampling", "Ready") ELSE Goto(d, "Ready", "Ready")
             next == IF Superseded(d, h) THEN ToReconfiguring(d) ELSE go
  <1>1. 0 \in 0..AdcSamples
    BY HubAssumption
  <1>2. Grew(d, q) /\ Grew(d, d)
    BY <1>1 DEF Grew, Leaves
  <1> HIDE DEF q
  <1>3. Grew(d, Goto(q, "Sampling", "Ready")) /\ Grew(d, Goto(d, "Ready", "Ready")) /\ Grew(d, ToReconfiguring(d))
    BY <1>2, LeafGoes, LeafStates DEF ToReconfiguring
  <1>4. Grew(d, next)
    BY <1>3
  <1>5. Steady(d, h, IF due THEN Goto([d EXCEPT !.got = 0], "Sampling", "Ready") ELSE Goto(d, "Ready", "Ready"))
          = HaltOr(d, h, next)
    BY DEF Steady, q
  <1> HIDE DEF next
  <1> QED
    BY <1>2, <1>4, <1>5, LeafHalts

(* What a channel device makes of an answer. *)
LEMMA LeafSamples ==
  ASSUME NEW d \in Leaves, NEW poll, poll.result \in {"Fault", "Busy", "Pending", "Ready"},
         poll.result = "Ready" => poll.of = <<d.ch, poll.hub.gain>>
  PROVE  /\ Grew(d, Sampled(d, poll))
         /\ poll.result \in {"Busy", "Pending"} => Kept(d, Sampled(d, poll)) \/ d.state # "Sampling"
  <1>1. CASE poll.result = "Fault"
    <2>1. Sampled(d, poll) = Failed(d, "Ready")
      BY <1>1 DEF Sampled
    <2> QED
      BY <1>1, <2>1, LeafFails
  <1>2. CASE poll.result \in {"Busy", "Pending"}
    <2>1. Sampled(d, poll) = Goto(d, "Sampling", "Ready")
      BY <1>2 DEF Sampled
    <2>2. Grew(d, Goto(d, "Sampling", "Ready"))
      BY LeafStays, LeafGoes, LeafStates
    <2>3. /\ Goto(d, "Sampling", "Ready").state = "Sampling" /\ Goto(d, "Sampling", "Ready").reconf = d.reconf
          /\ (Unwanted(d) => Unwanted(Goto(d, "Sampling", "Ready")))
      BY DEF Goto, Leaves, Unwanted
    <2> QED
      BY <2>1, <2>2, <2>3 DEF Kept
  <1>3. CASE poll.result = "Ready"
    <2> DEFINE n == d.got + 1
               q == [d EXCEPT !.got = @ + 1, !.foreign = @ \/ poll.of # <<d.ch, poll.hub.gain>>]
               p == [d EXCEPT !.got = n]
               r == [d EXCEPT !.shown = TRUE, !.errors = 0, !.got = 0]
    <2>1. q = p
      BY <1>3 DEF Leaves
    <2>2. p.got = n
      BY DEF Leaves
    <2>3. Sampled(d, poll) = IF q.got < AdcSamples THEN Goto(q, "Sampling", "Ready")
                             ELSE Goto([q EXCEPT !.shown = TRUE, !.errors = 0, !.got = 0], "Ready", "Ready")
      BY <1>3 DEF Sampled
    <2>4. [p EXCEPT !.shown = TRUE, !.errors = 0, !.got = 0] = r
      BY DEF Leaves
    <2>5. Sampled(d, poll) = IF n < AdcSamples THEN Goto(p, "Sampling", "Ready") ELSE Goto(r, "Ready", "Ready")
      BY <2>1, <2>2, <2>3, <2>4
    <2>6. ASSUME n < AdcSamples PROVE Grew(d, p)
      <3>1. n \in 0..AdcSamples
        BY <2>6, HubAssumption DEF Leaves
      <3> HIDE DEF n
      <3> QED
        BY <3>1 DEF Grew, Leaves
    <2>7. Grew(d, r)
      <3>1. 0 \in 0..AdcSamples /\ 0 \in 0..FaultThreshold
        BY HubAssumption, UserAssumption
      <3> QED
        BY <3>1 DEF Grew, Leaves
    <2> HIDE DEF n, p, q, r
    <2>8. "Sampling" \in States \cup {"Sampling", "RetryBackoff"} /\ "Ready" \in States \cup {"Sampling", "RetryBackoff"}
          /\ "Ready" \in Statuses
      BY LeafStates
    <2>9. Grew(d, Sampled(d, poll))
      BY <2>5, <2>6, <2>7, <2>8, LeafGoes
    <2> QED
      BY <1>3, <2>9
  <1> QED
    BY <1>1, <1>2, <1>3

(* The ADC is not claimed by channel device l; and a hub q that h has become *)
(* in a tick of l, which touches no claim of another channel device, unless  *)
(* it gives the claim up or takes it.                                        *)
Unclaimed(h, l) == h.kind = "adc" => h.owner = Nobody \/ h.owner[2] # l

Spared(h, q, l) ==
  /\ q.kind = h.kind
  /\ Keeps(h, q) \/ (q.owner # Nobody /\ q.owner[2] = l)

LEMMA SparedFits ==
  ASSUME NEW h, NEW q, NEW l, Spared(h, q, l), NEW e, NEW m, m # l, Fits(h, e, m)
  PROVE  Fits(q, e, m)
  <1>1. CASE Keeps(h, q)
    BY <1>1, KeptFits
  <1>2. CASE q.owner # Nobody /\ q.owner[2] = l
    BY <1>2 DEF Fits
  <1> QED
    BY <1>1, <1>2 DEF Spared

LEMMA UnclaimedFits ==
  ASSUME NEW h, NEW l, Unclaimed(h, l), NEW d
  PROVE  Fits(h, d, l)
  BY DEF Unclaimed, Fits

LEMMA ClaimsArePairs ==
  ASSUME NEW h \in Hubs
  PROVE  /\ h.owner # Nobody => h.owner \in Channels \X Inputs /\ h.owner = <<h.owner[1], h.owner[2]>>
         /\ h.set # Nobody => h.set \in Channels \X {0, 1} /\ h.set = <<h.set[1], h.set[2]>>
  <1>1. h.owner \in {Nobody} \cup (Channels \X Inputs) /\ h.set \in {Nobody} \cup (Channels \X {0, 1})
    BY DEF Hubs
  <1>2. h.owner # Nobody => h.owner \in Channels \X Inputs
    BY <1>1
  <1>3. h.set # Nobody => h.set \in Channels \X {0, 1}
    BY <1>1
  <1> QED
    BY <1>2, <1>3

LEMMA ClaimReleased ==
  ASSUME NEW b, NEW h, Stands(h, b), NEW l \in Inputs, NEW d \in Leaves, d.here, Fits(h, d, l)
  PROVE  \A f \in {releaseChannelRequest(h, d.ch, l)} : Stands(f, b) /\ Unclaimed(f, l) /\ Spared(h, f, l)
  <1> DEFINE q == [h EXCEPT !.owner = Nobody]
  <1>1. h \in Hubs
    BY DEF Stands
  <1>2. CASE h.owner # <<d.ch, l>>
    <2>1. releaseChannelRequest(h, d.ch, l) = h
      BY <1>2 DEF releaseChannelRequest
    <2>2. Unclaimed(h, l)
      BY <1>1, <1>2, ClaimsArePairs DEF Unclaimed, Fits
    <2> QED
      BY <2>1, <2>2 DEF Spared, Keeps
  <1>3. CASE h.owner = <<d.ch, l>> /\ h.kind = "adc"
    <2>1. releaseChannelRequest(h, d.ch, l) = Freed(h)
      BY <1>3 DEF releaseChannelRequest
    <2>2. Grown(h, Freed(h), b) /\ Freed(h).owner = Nobody
      BY HubFrees
    <2> QED
      BY <2>1, <2>2, HubOnward DEF Unclaimed, Spared, Grown, Keeps
  <1>4. CASE h.owner = <<d.ch, l>> /\ h.kind # "adc"
    <2>1. releaseChannelRequest(h, d.ch, l) = q
      BY <1>4 DEF releaseChannelRequest
    <2>2. q \in Hubs /\ q.kind = h.kind /\ q.state = h.state /\ q.last = h.last
      BY <1>1 DEF Hubs
    <2> HIDE DEF q
    <2>3. HubSound(q)
      BY <1>4, <2>2 DEF Stands, HubSound
    <2> QED
      BY <1>4, <2>1, <2>2, <2>3 DEF Stands, Unclaimed, Spared, Keeps
  <1> QED
    BY <1>2, <1>3, <1>4

(* An answer p of the hub h to channel device l, which d is and which nobody *)
(* wants to stop: the claim that is left is that of l, for its own channel   *)
(* and with the gain of the hub, and a reading is of that.                   *)
Honest(h, p, d, l, b) ==
  /\ Stands(p.hub, b) /\ Spared(h, p.hub, l)
  /\ p.result \in {"Fault", "Busy", "Pending", "Ready"}
  /\ p.result = "Ready" => p.of = <<d.ch, p.hub.gain>>
  /\ \/ Unclaimed(p.hub, l)
     \/ /\ p.result = "Pending" /\ p.hub.owner = <<d.ch, l>>
        /\ p.hub.set # Nobody => p.hub.set[2] = p.hub.gain

LEMMA HubClaimed ==
  ASSUME NEW b, NEW h, Stands(h, b), h.kind = "adc", NEW l \in Inputs, NEW ch \in Channels,
         h.set # Nobody => h.set[1] = ch
  PROVE  \A q \in {[h EXCEPT !.owner = <<ch, l>>]} :
           /\ Stands(q, b) /\ q.owner = <<ch, l>> /\ q.set = h.set /\ q.gain = h.gain /\ q.kind = h.kind
           /\ q.status = h.status /\ q.state = h.state
  <1> DEFINE q == [h EXCEPT !.owner = <<ch, l>>]
  <1>1. h \in Hubs /\ HubSound(h) /\ h.last <= b.gen
    BY DEF Stands
  <1>2. <<ch, l>> \in {Nobody} \cup (Channels \X Inputs) /\ <<ch, l>> # Nobody /\ <<ch, l>>[1] = ch
    BY DEF Nobody
  <1>3. /\ q \in Hubs /\ q.owner = <<ch, l>> /\ q.set = h.set /\ q.gain = h.gain /\ q.kind = h.kind
        /\ q.status = h.status /\ q.state = h.state /\ q.last = h.last /\ q.reconf = h.reconf
        /\ (Unwanted(q) <=> Unwanted(h))
    BY <1>1, <1>2 DEF Hubs, Unwanted
  <1> HIDE DEF q
  <1>4. HubSound(q)
    BY <1>1, <1>2, <1>3 DEF HubSound
  <1>5. Stands(q, b) /\ q.owner = <<ch, l>> /\ q.set = h.set /\ q.gain = h.gain /\ q.kind = h.kind
           /\ q.status = h.status /\ q.state = h.state
    BY <1>1, <1>3, <1>4 DEF Stands
  <1> QED
    BY <1>5 DEF q

LEMMA AdcPolled ==
  ASSUME NEW b \in Buses, NEW h, Stands(h, b), h.kind = "adc", h.status = "Ready", NEW l \in Inputs, NEW d \in Leaves,
         h.set # Nobody => h.set = <<d.ch, h.gain>>, NEW due \in BOOLEAN, NEW answers \in BOOLEAN
  PROVE  Honest(h, AdcPoll([h EXCEPT !.owner = <<d.ch, l>>], b, d.ch, due, answers), d, l, b)
  <1> DEFINE m == [h EXCEPT !.owner = <<d.ch, l>>]
             g == [m EXCEPT !.set = <<d.ch, m.gain>>]
             f == Freed(m)
             sad == [AdcFailed(f) EXCEPT !.state = m.state]
             done == [f EXCEPT !.errors = 0]
  <1>1. d.ch \in Channels /\ <<d.ch, l>>[1] = d.ch /\ <<d.ch, l>>[2] = l /\ <<d.ch, l>> # Nobody
        /\ <<d.ch, h.gain>>[1] = d.ch /\ <<d.ch, h.gain>>[2] = h.gain
    BY DEF Leaves, Nobody
  <1>2. /\ Stands(m, b) /\ m.owner = <<d.ch, l>> /\ m.set = h.set /\ m.gain = h.gain /\ m.kind = h.kind
        /\ m.status = "Ready" /\ m.state = h.state
    BY <1>1, HubClaimed
  <1>3. Stands(f, b) /\ f.owner = Nobody /\ f.set = Nobody /\ f.kind = "adc" /\ f.gain = h.gain
        /\ f.status = "Ready" /\ f.state = h.state
    <2> HIDE DEF m
    <2>1. Grown(m, f, b) /\ f.owner = Nobody /\ f.set = Nobody /\ f.state = m.state /\ f.kind = m.kind
      BY <1>2, HubFrees
    <2>2. f.gain = m.gain /\ f.status = m.status
      BY <1>2 DEF Freed, Stands, Hubs
    <2> QED
      BY <1>2, <2>1, <2>2, HubOnward
  <1> HIDE DEF m, f
  <1>4. \A q \in {f, sad, done} :
          /\ Stands(q, b) /\ q.owner = Nobody /\ q.set = Nobody /\ q.kind = "adc" /\ q.gain = h.gain
    <2> DEFINE Sane(q) == Stands(q, b) /\ q.owner = Nobody /\ q.set = Nobody /\ q.kind = "adc" /\ q.gain = h.gain
    <2>1. Sane(sad)
      <3> DEFINE a == AdcFailed(f)
      <3>1. /\ a \in Hubs /\ a.status = "Ready" /\ a.kind = "adc" /\ a.owner = Nobody /\ a.set = Nobody
            /\ a.gain = h.gain /\ a.last = f.last
        BY <1>3, AdcErrs DEF Stands
      <3>2. m.state \in States \cup {"RetryBackoff"}
        BY <1>2 DEF Stands, Hubs
      <3> HIDE DEF a
      <3>3. /\ [a EXCEPT !.state = m.state] \in Hubs
            /\ \A q \in {[a EXCEPT !.state = m.state]} :
                 q.status = "Ready" /\ q.kind = "adc" /\ q.owner = Nobody /\ q.set = Nobody /\ q.gain = h.gain
                 /\ q.last = f.last
        BY <3>1, <3>2 DEF Hubs
      <3>4. \A q \in {[a EXCEPT !.state = m.state]} : HubSound(q)
        BY <3>3 DEF HubSound
      <3> QED
        BY <1>3, <3>3, <3>4 DEF Stands, a
    <2>2. Sane(done)
      <3>1. 0 \in 0..FaultThreshold
        BY UserAssumption
      <3>2. done \in Hubs /\ done.status = "Ready" /\ done.kind = "adc" /\ done.owner = Nobody /\ done.set = Nobody
            /\ done.gain = h.gain /\ done.last = f.last
        BY <1>3, <3>1 DEF Stands, Hubs
      <3>3. HubSound(done)
        BY <3>2 DEF HubSound
      <3> QED
        BY <1>3, <3>2, <3>3 DEF Stands
    <2>3. Sane(f)
      BY <1>3
    <2> HIDE DEF sad, done
    <2> QED
      BY <2>1, <2>2, <2>3
  <1>5. /\ Stands(g, b) /\ g.owner = <<d.ch, l>> /\ g.set = <<d.ch, h.gain>> /\ g.gain = h.gain /\ g.kind = h.kind
    <2>1. m \in Hubs /\ HubSound(m) /\ m.last <= b.gen /\ <<d.ch, m.gain>> \in {Nobody} \cup (Channels \X {0, 1})
      BY <1>1, <1>2 DEF Stands, Hubs
    <2>2. /\ g \in Hubs /\ g.owner = <<d.ch, l>> /\ g.set = <<d.ch, h.gain>> /\ g.gain = h.gain /\ g.kind = h.kind
          /\ g.status = "Ready" /\ g.last = m.last
      BY <1>2, <2>1 DEF Hubs
    <2> HIDE DEF g
    <2>3. HubSound(g)
      BY <1>1, <2>2 DEF HubSound
    <2> QED
      BY <2>1, <2>2, <2>3 DEF Stands
  <1> HIDE DEF g, sad, done
  <1>6. \A q \in {f, sad, done} : Unclaimed(q, l) /\ Spared(h, q, l)
    BY <1>4 DEF Unclaimed, Spared, Keeps
  <1>7. \A q \in {m, g} : /\ Stands(q, b) /\ Spared(h, q, l) /\ q.owner = <<d.ch, l>>
                          /\ (q.set # Nobody => q.set[2] = q.gain)
    BY <1>1, <1>2, <1>5 DEF Spared
  <1>8. \A q \in {m, g} : Honest(h, Polled(q, "Pending", Nobody), d, l, b)
    BY <1>7 DEF Honest, Polled
  <1>9. \A q \in {f, sad} : Honest(h, Polled(q, "Fault", Nobody), d, l, b)
    BY <1>4, <1>6 DEF Honest, Polled
  <1>10. m.set = <<d.ch, h.gain>> => Honest(h, Polled(done, "Ready", m.set), d, l, b)
    BY <1>4, <1>6 DEF Honest, Polled
  <1>11. \/ AdcPoll(m, b, d.ch, due, answers) \in {Polled(q, "Pending", Nobody) : q \in {m, g}}
         \/ AdcPoll(m, b, d.ch, due, answers) \in {Polled(q, "Fault", Nobody) : q \in {f, sad}}
         \/ m.set # Nobody /\ AdcPoll(m, b, d.ch, due, answers) = Polled(done, "Ready", m.set)
    BY DEF AdcPoll, f, g, sad, done
  <1>12. Honest(h, AdcPoll(m, b, d.ch, due, answers), d, l, b)
    BY <1>2, <1>8, <1>9, <1>10, <1>11
  <1> QED
    BY <1>12 DEF m

LEMMA MuxPolled ==
  ASSUME NEW b, NEW h, Stands(h, b), h.kind = "mux", NEW l \in Inputs, NEW d \in Leaves
  PROVE  Honest(h, MuxPoll([h EXCEPT !.owner = <<d.ch, l>>], d.ch), d, l, b)
  <1> DEFINE m == [h EXCEPT !.owner = <<d.ch, l>>]
             g == [m EXCEPT !.set = <<d.ch, m.gain>>]
             f == [m EXCEPT !.owner = Nobody]
  <1>1. h \in Hubs /\ HubSound(h) /\ h.last <= b.gen
    BY DEF Stands
  <1>2. <<d.ch, l>> \in {Nobody} \cup (Channels \X Inputs) /\ <<d.ch, h.gain>> \in {Nobody} \cup (Channels \X {0, 1})
    BY <1>1 DEF Leaves, Hubs
  <1>3. /\ m \in Hubs /\ g \in Hubs /\ f \in Hubs /\ m.gain = h.gain /\ f.gain = h.gain
        /\ \A q \in {m, g, f} : q.kind = "mux" /\ q.state = h.state /\ q.last = h.last
    BY <1>1, <1>2 DEF Hubs
  <1> HIDE DEF m, f, g
  <1>4. \A q \in {m, g, f} : HubSound(q)
    BY <1>1, <1>3 DEF HubSound
  <1>5. \A q \in {m, g, f} : Stands(q, b) /\ Unclaimed(q, l) /\ Spared(h, q, l)
    BY <1>1, <1>3, <1>4 DEF Stands, Unclaimed, Spared, Keeps
  <1>6. \/ MuxPoll(m, d.ch) = Polled(g, "Pending", Nobody)
        \/ MuxPoll(m, d.ch) = Polled(f, "Ready", m.set) /\ m.set = <<d.ch, f.gain>>
    BY <1>3 DEF MuxPoll, f, g
  <1>7. Honest(h, Polled(g, "Pending", Nobody), d, l, b)
    BY <1>5 DEF Honest, Polled
  <1>8. m.set = <<d.ch, f.gain>> => Honest(h, Polled(f, "Ready", m.set), d, l, b)
    BY <1>5 DEF Honest, Polled
  <1>9. Honest(h, MuxPoll(m, d.ch), d, l, b)
    BY <1>6, <1>7, <1>8
  <1> QED
    BY <1>9 DEF m

(* Every answer of a hub that is Ready is honest. *)
LEMMA HubPolled ==
  ASSUME NEW b \in Buses, NEW h, Stands(h, b), h.status = "Ready", NEW l \in Inputs, NEW d \in Leaves, d.here,
         Fits(h, d, l), ~Unwanted(d), ~d.reconf, NEW due \in BOOLEAN, NEW answers \in BOOLEAN
  PROVE  Honest(h, pollChannelReading(h, b, d.ch, l, due, answers), d, l, b)
  <1> DEFINE m == [h EXCEPT !.owner = <<d.ch, l>>]
  <1>1. h \in Hubs /\ HubSound(h)
    BY DEF Stands
  <1>2. CASE Taken(h, d.ch, l)
    <2>1. pollChannelReading(h, b, d.ch, l, due, answers) = Polled(h, "Busy", Nobody)
      BY <1>2 DEF pollChannelReading
    <2>2. Unclaimed(h, l)
      BY <1>1, <1>2, ClaimsArePairs DEF Unclaimed, Fits, Taken
    <2>3. Spared(h, h, l)
      BY DEF Spared, Keeps
    <2> QED
      BY <2>1, <2>2, <2>3 DEF Honest, Polled
  <1>3. CASE ~Taken(h, d.ch, l) /\ h.kind = "adc"
    <2>1. pollChannelReading(h, b, d.ch, l, due, answers) = AdcPoll(m, b, d.ch, due, answers)
      BY <1>3 DEF pollChannelReading
    <2>2. ASSUME h.set # Nobody PROVE h.set = <<d.ch, h.gain>>
      <3>1. h.owner # Nobody /\ h.owner[1] = h.set[1]
        BY <1>1, <1>3, <2>2 DEF HubSound
      <3>2. h.owner = <<d.ch, l>>
        BY <1>3, <3>1 DEF Taken
      <3>3. h.owner[1] = d.ch /\ h.owner[2] = l
        BY <3>2
      <3>4. h.set[2] = h.gain
        BY <1>3, <2>2, <3>1, <3>3 DEF Fits
      <3> QED
        BY <1>1, <2>2, <3>1, <3>3, <3>4, ClaimsArePairs
    <2> HIDE DEF m
    <2>3. Honest(h, AdcPoll(m, b, d.ch, due, answers), d, l, b)
      BY <1>3, <2>2, AdcPolled DEF m
    <2> QED
      BY <2>1, <2>3
  <1>4. CASE ~Taken(h, d.ch, l) /\ h.kind = "mux"
    <2>1. pollChannelReading(h, b, d.ch, l, due, answers) = MuxPoll(m, d.ch)
      BY <1>4 DEF pollChannelReading
    <2>2. Honest(h, MuxPoll(m, d.ch), d, l, b)
      BY <1>4, MuxPolled
    <2> QED
      BY <2>1, <2>2
  <1>5. h.kind \in {"adc", "mux"}
    BY <1>1 DEF Hubs
  <1> QED
    BY <1>2, <1>3, <1>4, <1>5

(* What a tick n of channel device l, which was d, may do to the hub h and   *)
(* to the device.                                                            *)
Served(h, n, d, l, b) ==
  /\ Stands(n.hub, b) /\ Spared(h, n.hub, l)
  /\ Grew(d, n.leaf) /\ Fits(n.hub, n.leaf, l)

LEMMA SamplingServed ==
  ASSUME NEW b \in Buses, NEW h, Stands(h, b), NEW l \in Inputs, NEW d \in Leaves, d.here, d.state = "Sampling",
         Fits(h, d, l), NEW due \in BOOLEAN, NEW answers \in BOOLEAN
  PROVE  Served(h, Sampling(d, h, b, l, due, answers), d, l, b)
  <1> DEFINE free == releaseChannelRequest(h, d.ch, l)
             poll == pollChannelReading(h, b, d.ch, l, due, answers)
  <1>1. Stands(free, b) /\ Unclaimed(free, l) /\ Spared(h, free, l)
    BY ClaimReleased
  <1>2. \A q : Grew(d, q) => Served(h, Ticked(free, q), d, l, b)
    <2> HIDE DEF free
    <2> QED
      BY <1>1, UnclaimedFits DEF Served, Ticked
  <1>3. Grew(d, SwitchedOff(d)) /\ Grew(d, ToReconfiguring(d)) /\ Grew(d, Goto(d, "DependencyBlocked", "DependencyBlocked"))
    BY LeafStays, LeafGoes, LeafStates DEF SwitchedOff, ToReconfiguring
  <1>4. CASE Unwanted(d)
    <2>1. Sampling(d, h, b, l, due, answers) = Ticked(free, SwitchedOff(d))
      BY <1>4 DEF Sampling
    <2> HIDE DEF free, poll
    <2> QED
      BY <1>2, <1>3, <2>1
  <1>5. CASE ~Unwanted(d) /\ h.status # "Ready"
    <2> DEFINE q == Goto(d, "DependencyBlocked", "DependencyBlocked")
    <2>1. Sampling(d, h, b, l, due, answers) = Ticked(h, q)
      BY <1>5 DEF Sampling
    <2> HIDE DEF q
    <2>2. Grew(d, q)
      BY <1>3 DEF q
    <2>3. Fits(h, q, l)
      BY <1>5, <2>2 DEF Fits, Grew
    <2> QED
      BY <2>1, <2>2, <2>3 DEF Served, Ticked, Spared, Keeps
  <1>6. CASE ~Unwanted(d) /\ h.status = "Ready" /\ Superseded(d, h)
    <2>1. Sampling(d, h, b, l, due, answers) = Ticked(free, ToReconfiguring(d))
      BY <1>6 DEF Sampling
    <2> HIDE DEF free, poll
    <2> QED
      BY <1>2, <1>3, <2>1
  <1>7. CASE ~Unwanted(d) /\ h.status = "Ready" /\ ~Superseded(d, h)
    <2>1. Sampling(d, h, b, l, due, answers) = Ticked(poll.hub, Sampled(d, poll))
      BY <1>7 DEF Sampling
    <2>2. Honest(h, poll, d, l, b)
      BY <1>7, HubPolled DEF Superseded
    <2> HIDE DEF free, poll
    <2> DEFINE q == Sampled(d, poll)
    <2>3. Grew(d, q) /\ (poll.result = "Pending" => Kept(d, q))
      BY <2>2, LeafSamples DEF Honest
    <2> HIDE DEF q
    <2>4. CASE Unclaimed(poll.hub, l)
      BY <2>1, <2>2, <2>3, <2>4, UnclaimedFits DEF Honest, Served, Ticked, q
    <2>5. CASE ~Unclaimed(poll.hub, l)
      <3>1. poll.result = "Pending" /\ poll.hub.owner = <<d.ch, l>>
            /\ (poll.hub.set # Nobody => poll.hub.set[2] = poll.hub.gain)
        BY <2>2, <2>5 DEF Honest
      <3>2. q.ch = d.ch /\ q.state = "Sampling"
        BY <2>3, <3>1 DEF Kept, Grew
      <3>3. Fits(poll.hub, q, l)
        BY <3>1, <3>2 DEF Fits
      <3> QED
        BY <2>1, <2>2, <2>3, <3>3 DEF Honest, Served, Ticked, q
    <2> QED
      BY <2>4, <2>5
  <1> QED
    BY <1>4, <1>5, <1>6, <1>7

(* A device that was not sampling keeps what the hub may hold of it. *)
LEMMA IdleServed ==
  ASSUME NEW b, NEW h, Stands(h, b), NEW l, NEW d, d.state # "Sampling", Fits(h, d, l), NEW q, Grew(d, q)
  PROVE  Served(h, Ticked(h, q), d, l, b)
  BY DEF Served, Ticked, Spared, Keeps, Grew, Fits

LEMMA ShownServed ==
  ASSUME NEW b, NEW h, NEW l, NEW d, NEW n, Served(h, n, d, l, b)
  PROVE  Served(h, Ticked(n.hub, LeafWithdrawn(d, n.leaf)), d, l, b)
  <1> DEFINE w == LeafWithdrawn(d, n.leaf)
             q == n.leaf
  <1>1. /\ w \in Leaves /\ w.ch = q.ch /\ w.here = q.here /\ w.foreign = q.foreign /\ w.state = q.state
        /\ w.reconf = q.reconf /\ (Unwanted(w) <=> Unwanted(q))
    <2>1. n.leaf \in Leaves
      BY DEF Served, Grew
    <2>2. w \in {n.leaf, [n.leaf EXCEPT !.shown = FALSE]}
      BY DEF LeafWithdrawn
    <2> HIDE DEF w
    <2> QED
      BY <2>1, <2>2 DEF Leaves, Unwanted
  <1>2. Grew(d, q) /\ Fits(n.hub, q, l)
    BY DEF Served
  <1> HIDE DEF w, q
  <1>3. Grew(d, w) /\ Fits(n.hub, w, l)
    BY <1>1, <1>2 DEF Grew, Fits
  <1> QED
    BY <1>3 DEF Served, Ticked, w

LEMMA LeafServed ==
  ASSUME NEW b \in Buses, NEW h, Stands(h, b), NEW l \in Inputs, NEW d \in Leaves, d.here,
         Fits(h, d, l), NEW due \in BOOLEAN, NEW answers \in BOOLEAN
  PROVE  Served(h, LeafTick(d, h, b, l, due, answers), d, l, b)
  <1> DEFINE rest == IF due THEN Goto([d EXCEPT !.got = 0], "Sampling", "Ready") ELSE Goto(d, "Ready", "Ready")
             quiet == CASE d.state = "Starting" -> LeafStarting(d, h)
                        [] d.state = "Ready" -> Steady(d, h, rest)
                        [] OTHER -> QuietTick(d, h, due)
             next == IF d.state = "Sampling" THEN Sampling(d, h, b, l, due, answers) ELSE Ticked(h, quiet)
  <1> HIDE DEF rest, quiet, next
  <1>1. ASSUME d.state = "Sampling" PROVE Served(h, next, d, l, b)
    <2>1. next = Sampling(d, h, b, l, due, answers)
      BY <1>1 DEF next
    <2> QED
      BY <1>1, <2>1, SamplingServed
  <1>2. ASSUME d.state # "Sampling" PROVE Served(h, next, d, l, b)
    <2>1. h \in Hubs /\ next = Ticked(h, quiet)
      BY <1>2 DEF Stands, next
    <2>2. ASSUME d.state = "Starting" PROVE Grew(d, quiet)
      <3>1. quiet = LeafStarting(d, h)
        BY <2>2 DEF quiet
      <3> QED
        BY <2>1, <3>1, LeafStarts
    <2>3. ASSUME d.state = "Ready" PROVE Grew(d, quiet)
      <3>1. quiet = Steady(d, h, rest)
        BY <2>3 DEF quiet
      <3> QED
        BY <3>1, LeafRests DEF rest
    <2>4. ASSUME d.state \notin {"Starting", "Ready"} PROVE Grew(d, quiet)
      <3>1. quiet = QuietTick(d, h, due)
        BY <2>4 DEF quiet
      <3>2. d.state \in {"Idle", "RetryBackoff", "DependencyBlocked", "Reconfiguring", "Disabled", "Faulted"}
        BY <1>2, <2>4, LeafStates DEF Leaves
      <3> QED
        BY <3>1, <3>2, LeafQuiet
    <2>5. Grew(d, quiet)
      BY <2>2, <2>3, <2>4
    <2> QED
      BY <1>2, <2>1, <2>5, IdleServed
  <1>3. Served(h, next, d, l, b)
    BY <1>1, <1>2
  <1>4. LeafTick(d, h, b, l, due, answers) = Ticked(next.hub, LeafWithdrawn(d, next.leaf))
    BY DEF LeafTick, next, quiet, rest
  <1> QED
    BY <1>3, <1>4, ShownServed

(* What holds in every state: of the bus b, the hub h and the devices ls.    *)
Sound(b, h, ls) ==
  /\ b \in Buses /\ Stands(h, b) /\ ls \in [Inputs -> Leaves]
  /\ \A l \in Inputs : Fits(h, ls[l], l) /\ ~ls[l].foreign

HubInv == Sound(hubBus, hub, leaf) /\ {hubFirst, chipSilent} \subseteq BOOLEAN

LEMMA BusSteps ==
  ASSUME NEW b, NEW h, NEW ls, Sound(b, h, ls), NEW c \in Buses, c.gen \in {b.gen, b.gen + 1}
  PROVE  Sound(c, h, ls)
  <1>1. h.last <= c.gen
    BY DEF Sound, Stands, Buses, Hubs
  <1> QED
    BY <1>1 DEF Sound, Stands

LEMMA HubSteps ==
  ASSUME NEW b, NEW h, NEW ls, Sound(b, h, ls), NEW q, Grown(h, q, b)
  PROVE  Sound(b, q, ls)
  <1>1. Stands(q, b) /\ Keeps(h, q)
    BY HubOnward DEF Grown
  <1> QED
    BY <1>1, KeptFits DEF Sound

LEMMA LeafSteps ==
  ASSUME NEW b, NEW h, NEW ls, Sound(b, h, ls), NEW l \in Inputs, NEW n, Served(h, n, ls[l], l, b)
  PROVE  Sound(b, n.hub, [ls EXCEPT ![l] = n.leaf])
  <1> DEFINE ks == [ls EXCEPT ![l] = n.leaf]
  <1>1. /\ Stands(n.hub, b) /\ Spared(h, n.hub, l) /\ n.leaf \in Leaves /\ n.leaf.foreign = ls[l].foreign
        /\ Fits(n.hub, n.leaf, l)
    BY DEF Served, Grew
  <1>2. ks \in [Inputs -> Leaves] /\ ks[l] = n.leaf /\ \A m \in Inputs \ {l} : ks[m] = ls[m]
    BY <1>1 DEF Sound
  <1> HIDE DEF ks
  <1>3. \A m \in Inputs \ {l} : Fits(n.hub, ks[m], m) /\ ~ks[m].foreign
    BY <1>1, <1>2, SparedFits DEF Sound
  <1>4. Sound(b, n.hub, ks)
    BY <1>1, <1>2, <1>3 DEF Sound
  <1> QED
    BY <1>4 DEF ks

(* The requests of the registry and of an edit. *)
LEMMA LeafKeeps ==
  ASSUME NEW h, NEW l, NEW d, Fits(h, d, l), NEW q, Kept(d, q)
  PROVE  Fits(h, q, l)
  BY DEF Fits, Kept, Grew

LEMMA LeafAsks ==
  ASSUME NEW d \in Leaves
  PROVE  /\ \A statuses : Kept(d, Refreshed(d, statuses))
         /\ Kept(d, requestReconfigure(d)) /\ requestReconfigure(d).reconf
         /\ \A enabled \in BOOLEAN : Kept(d, Asked(d, enabled))
  <1>1. "Reconfiguring" \in Statuses /\ "Disabled" \in Statuses
    BY LeafStates
  <1>2. Kept(d, requestReconfigure(d)) /\ requestReconfigure(d).reconf
    BY <1>1 DEF requestReconfigure, Kept, Grew, Leaves
  <1>3. Kept(d, requestDisable(d))
    BY <1>1 DEF requestDisable, Kept, Grew, Leaves, Unwanted
  <1>4. Kept(d, d)
    BY LeafStays DEF Kept
  <1>5. \A statuses : Kept(d, Refreshed(d, statuses))
    BY <1>2, <1>3, <1>4 DEF Refreshed
  <1>6. ASSUME NEW enabled \in BOOLEAN PROVE Kept(d, Asked(d, enabled))
    <2> DEFINE q == Asked(d, enabled)
    <2>1. Grew(d, q) /\ q.state = d.state
      BY <1>1, <1>6 DEF Asked, clearLifecycleRequests, requestReconfigure, requestDisable, Grew, Leaves
    <2>2. q.reconf \/ Unwanted(q)
      BY <1>6 DEF Asked, clearLifecycleRequests, requestReconfigure, requestDisable, Leaves, Unwanted
    <2> HIDE DEF q
    <2>3. Kept(d, q)
      BY <2>1, <2>2 DEF Kept
    <2> QED
      BY <2>3 DEF q
  <1> QED
    BY <1>2, <1>5, <1>6

LEMMA RefreshSteps ==
  ASSUME NEW b, NEW h, NEW ls, NEW ks, Sound(b, h, ks), \A l \in Inputs : ls[l] = ks[l], RefreshHub(b, h, ls)
  PROVE  Sound(hubBus, hub, leaf)'
  <1> DEFINE hh == IF h.kind = "adc" THEN Refreshed(h, {b.status}) ELSE h
             seen == IF hubFirst THEN hh ELSE h
             fs == [l \in Inputs |-> IF ls[l].here THEN Refreshed(ls[l], {seen.status}) ELSE ls[l]]
  <1>1. hubBus' = b /\ hub' = hh /\ leaf' = fs
    BY DEF RefreshHub
  <1>2. Stands(h, b)
    BY DEF Sound
  <1>3. Grown(h, hh, b)
    <2>1. Grown(h, h, b)
      BY <1>2, HubStays DEF Stands
    <2> QED
      BY <1>2, <2>1, HubAsks
  <1> HIDE DEF hh
  <1>4. Sound(b, hh, ks)
    BY <1>3, HubSteps
  <1> HIDE DEF seen
  <1>5. ASSUME NEW l \in Inputs PROVE Kept(ks[l], fs[l])
    <2>1. ks[l] \in Leaves /\ ls[l] = ks[l]
      BY <1>5 DEF Sound
    <2>2. Kept(ks[l], ks[l])
      BY <2>1, LeafStays DEF Kept
    <2>3. fs[l] \in {Refreshed(ks[l], {seen.status}), ks[l]}
      BY <2>1
    <2> HIDE DEF fs
    <2> QED
      BY <2>1, <2>2, <2>3, LeafAsks
  <1>6. fs \in [Inputs -> Leaves]
    <2>1. fs = [l \in Inputs |-> fs[l]]
      OBVIOUS
    <2> HIDE DEF fs
    <2> QED
      BY <1>5, <2>1 DEF Kept, Grew
  <1> HIDE DEF fs
  <1>7. \A l \in Inputs : Fits(hh, fs[l], l) /\ ~fs[l].foreign
    BY <1>4, <1>5, LeafKeeps DEF Sound, Kept, Grew
  <1>8. Sound(b, hh, fs)
    BY <1>4, <1>6, <1>7 DEF Sound
  <1> QED
    BY <1>1, <1>8

(* The events. *)
LEMMA TickSteps ==
  ASSUME NEW b, NEW h, NEW ls, Sound(b, h, ls), NEW l \in Inputs, ls[l] = leaf[l],
         NEW due \in SUBSET ({0} \cup Inputs), NEW answers \in BOOLEAN
  PROVE  Sound(b, TickIfHere(l, h, b, due, answers).hub, [ls EXCEPT ![l] = TickIfHere(l, h, b, due, answers).leaf])
  <1>1. CASE ls[l].here
    <2> DEFINE n == LeafTick(ls[l], h, b, l, l \in due, answers)
    <2>1. TickIfHere(l, h, b, due, answers) = n
      BY <1>1 DEF TickIfHere
    <2>2. (l \in due) \in BOOLEAN
      OBVIOUS
    <2>3. Served(h, n, ls[l], l, b)
      BY <1>1, <2>2, LeafServed DEF Sound
    <2> HIDE DEF n
    <2> QED
      BY <2>1, <2>3, LeafSteps
  <1>2. CASE ~ls[l].here
    <2>1. TickIfHere(l, h, b, due, answers) = Ticked(h, ls[l])
      BY <1>2 DEF TickIfHere
    <2>2. [ls EXCEPT ![l] = ls[l]] = ls
      BY DEF Sound
    <2> QED
      BY <2>1, <2>2 DEF Ticked
  <1> QED
    BY <1>1, <1>2

LEMMA RoundSteps ==
  ASSUME HubInv, NEW due \in SUBSET ({0} \cup Inputs), HubRound(due)
  PROVE  HubInv'
  <1>1. PICK b \in {IF hub.kind = "adc" THEN BusTick(hubBus, TRUE, FALSE) ELSE hubBus} :
        \E h \in {IF hubFirst THEN HubTick(hub, b, 0 \in due, ~chipSilent) ELSE hub} :
        \E one \in {TickIfHere(1, h, b, due, ~chipSilent)} :
        \E two \in {TickIfHere(2, one.hub, b, due, ~chipSilent)} :
          /\ RefreshHub(b, IF hubFirst THEN two.hub ELSE HubTick(two.hub, b, 0 \in due, ~chipSilent), <<one.leaf, two.leaf>>)
          /\ UNCHANGED <<chipSilent, hubEvents>>
    BY Zenon DEF HubRound
  <1>2. PICK h \in {IF hubFirst THEN HubTick(hub, b, 0 \in due, ~chipSilent) ELSE hub} :
        \E one \in {TickIfHere(1, h, b, due, ~chipSilent)} :
        \E two \in {TickIfHere(2, one.hub, b, due, ~chipSilent)} :
          /\ RefreshHub(b, IF hubFirst THEN two.hub ELSE HubTick(two.hub, b, 0 \in due, ~chipSilent), <<one.leaf, two.leaf>>)
          /\ UNCHANGED <<chipSilent, hubEvents>>
    BY <1>1, Zenon
  <1>3. PICK one \in {TickIfHere(1, h, b, due, ~chipSilent)} :
        \E two \in {TickIfHere(2, one.hub, b, due, ~chipSilent)} :
          /\ RefreshHub(b, IF hubFirst THEN two.hub ELSE HubTick(two.hub, b, 0 \in due, ~chipSilent), <<one.leaf, two.leaf>>)
          /\ UNCHANGED <<chipSilent, hubEvents>>
    BY <1>2, Zenon
  <1>4. PICK two \in {TickIfHere(2, one.hub, b, due, ~chipSilent)} :
          /\ RefreshHub(b, IF hubFirst THEN two.hub ELSE HubTick(two.hub, b, 0 \in due, ~chipSilent), <<one.leaf, two.leaf>>)
          /\ UNCHANGED <<chipSilent, hubEvents>>
    BY <1>3, Zenon
  <1> DEFINE top == HubTick(two.hub, b, 0 \in due, ~chipSilent)
             ks == [leaf EXCEPT ![1] = one.leaf]
             ms == [ks EXCEPT ![2] = two.leaf]
  <1>5. /\ Sound(hubBus, hub, leaf) /\ (0 \in due) \in BOOLEAN /\ (~chipSilent) \in BOOLEAN
        /\ leaf \in [Inputs -> Leaves] /\ 1 \in Inputs /\ 2 \in Inputs /\ Inputs = {1, 2}
    BY DEF HubInv, Sound, Inputs
  <1>6. Sound(b, hub, leaf)
    BY <1>1, <1>5, BusTicked, BusSteps DEF Sound, Follows
  <1>7. Sound(b, h, leaf)
    <2>1. Grown(hub, HubTick(hub, b, 0 \in due, ~chipSilent), b)
      BY <1>5, <1>6, HubTicked DEF Sound
    <2> QED
      BY <1>2, <1>6, <2>1, HubSteps
  <1>8. Sound(b, one.hub, ks)
    <2> DEFINE answers == ~chipSilent
    <2>1. answers \in BOOLEAN /\ one = TickIfHere(1, h, b, due, answers)
      BY <1>3, <1>5
    <2> HIDE DEF answers
    <2>2. Sound(b, TickIfHere(1, h, b, due, answers).hub, [leaf EXCEPT ![1] = TickIfHere(1, h, b, due, answers).leaf])
      BY <1>5, <1>7, <2>1, TickSteps
    <2> QED
      BY <2>1, <2>2
  <1>9. ks[2] = leaf[2]
    BY <1>5
  <1>10. Sound(b, two.hub, ms)
    <2> DEFINE answers == ~chipSilent
    <2>1. answers \in BOOLEAN /\ two = TickIfHere(2, one.hub, b, due, answers)
      BY <1>4, <1>5
    <2> HIDE DEF answers, ks
    <2>2. Sound(b, TickIfHere(2, one.hub, b, due, answers).hub,
                [ks EXCEPT ![2] = TickIfHere(2, one.hub, b, due, answers).leaf])
      BY <1>5, <1>8, <1>9, <2>1, TickSteps
    <2> QED
      BY <2>1, <2>2
  <1>11. \A l \in Inputs : <<one.leaf, two.leaf>>[l] = ms[l]
    BY <1>5
  <1> HIDE DEF ks, ms
  <1>12. Sound(b, IF hubFirst THEN two.hub ELSE top, ms)
    <2>1. Grown(two.hub, top, b)
      BY <1>5, <1>10, HubTicked DEF Sound
    <2> QED
      BY <1>10, <2>1, HubSteps
  <1>13. Sound(hubBus, hub, leaf)'
    BY <1>4, <1>11, <1>12, RefreshSteps
  <1>14. hubFirst' = hubFirst /\ chipSilent' = chipSilent
    BY <1>4 DEF RefreshHub
  <1> QED
    BY <1>13, <1>14 DEF HubInv

LEMMA EditHubBusSteps ==
  ASSUME HubInv, NEW enabled \in BOOLEAN, NEW rewired \in BOOLEAN, EditHubBus(enabled, rewired)
  PROVE  HubInv'
  <1> DEFINE b == IF rewired THEN resetStateMachine(releaseHardware(hubBus)) ELSE hubBus
             c == IF enabled = hubBus.enabled THEN b
                  ELSE IF enabled THEN BusTick(Asked(b, TRUE), TRUE, FALSE) ELSE Asked(b, FALSE)
  <1>1. Sound(hubBus, hub, leaf) /\ hubBus \in Buses /\ Stands(hub, hubBus)
    BY DEF HubInv, Sound
  <1>2. RefreshHub(c, requestReconfigure(hub), leaf) /\ chipSilent' = chipSilent /\ hubFirst' = hubFirst
    BY DEF EditHubBus, RefreshHub
  <1>3. b \in Buses /\ b.gen = hubBus.gen
    BY <1>1, BusReleased, BusAsked
  <1> HIDE DEF b
  <1>4. c \in Buses /\ c.gen \in {hubBus.gen, hubBus.gen + 1}
    <2> DEFINE on == Asked(b, TRUE)
               off == Asked(b, FALSE)
    <2>1. on \in Buses /\ on.gen = hubBus.gen /\ off \in Buses /\ off.gen = hubBus.gen
      BY <1>3, BusAsked
    <2> HIDE DEF on
    <2>2. BusTick(on, TRUE, FALSE) \in Buses /\ BusTick(on, TRUE, FALSE).gen \in {hubBus.gen, hubBus.gen + 1}
      BY <2>1, BusTicked DEF Follows
    <2>3. c \in {b, BusTick(on, TRUE, FALSE), off}
      BY DEF on
    <2> HIDE DEF c, off
    <2> QED
      BY <1>3, <2>1, <2>2, <2>3
  <1> HIDE DEF c
  <1>5. Sound(c, hub, leaf)
    BY <1>1, <1>4, BusSteps
  <1>6. Sound(c, requestReconfigure(hub), leaf)
    BY <1>5, HubAsks, HubSteps DEF Sound
  <1>7. Sound(hubBus, hub, leaf)'
    BY <1>2, <1>6, RefreshSteps
  <1> QED
    BY <1>2, <1>7 DEF HubInv

(* Another gain only while the devices that wait for a conversion are asked  *)
(* to start again.                                                           *)
LEMMA GainSteps ==
  ASSUME NEW b, NEW h, NEW ls, Sound(b, h, ls), NEW gain \in {0, 1}, h.kind = "mux" => gain = h.gain,
         NEW ks \in [Inputs -> Leaves],
         \A l \in Inputs : ks[l] = IF ls[l].here THEN requestReconfigure(ls[l]) ELSE ls[l]
  PROVE  Sound(b, [h EXCEPT !.gain = gain], ks)
  <1> DEFINE g == [h EXCEPT !.gain = gain]
  <1>1. h \in Hubs /\ HubSound(h) /\ h.last <= b.gen /\ b \in Buses
    BY DEF Sound, Stands
  <1>2. /\ g \in Hubs /\ g.kind = h.kind /\ g.owner = h.owner /\ g.set = h.set /\ g.state = h.state /\ g.status = h.status
        /\ g.last = h.last /\ g.reconf = h.reconf /\ (Unwanted(g) <=> Unwanted(h))
    BY <1>1 DEF Hubs, Unwanted
  <1> HIDE DEF g
  <1>3. HubSound(g)
    BY <1>1, <1>2 DEF HubSound
  <1>4. ASSUME NEW l \in Inputs PROVE Fits(g, ks[l], l) /\ ~ks[l].foreign
    <2>1. ls[l] \in Leaves /\ Fits(h, ls[l], l) /\ ~ls[l].foreign
      BY <1>4 DEF Sound
    <2>2. CASE ls[l].here
      <3> DEFINE q == requestReconfigure(ls[l])
      <3>1. Kept(ls[l], q) /\ q.reconf /\ ks[l] = q
        BY <2>1, <2>2, LeafAsks
      <3> HIDE DEF q
      <3>2. Fits(g, q, l) /\ ~q.foreign
        BY <1>2, <2>1, <3>1 DEF Fits, Kept, Grew
      <3> QED
        BY <3>1, <3>2
    <2>3. CASE ~ls[l].here
      BY <2>1, <2>3 DEF Fits
    <2> QED
      BY <2>2, <2>3
  <1>5. Sound(b, g, ks)
    BY <1>1, <1>2, <1>3, <1>4 DEF Sound, Stands
  <1> QED
    BY <1>5 DEF g

LEMMA EditHubSteps ==
  ASSUME HubInv, NEW enabled \in BOOLEAN, NEW moved \in BOOLEAN, NEW gain \in {0, 1}, EditHub(enabled, moved, gain)
  PROVE  HubInv'
  <1> DEFINE ended == IF hub.kind = "mux" THEN Freed(hub) ELSE hub
             h == [(IF moved THEN resetStateMachine(ended) ELSE hub) EXCEPT !.gain = gain]
             t == IF enabled = hub.enabled THEN h
                  ELSE IF enabled THEN HubTick(Asked(h, TRUE), hubBus, TRUE, ~chipSilent) ELSE Asked(h, FALSE)
             ks == [l \in Inputs |-> IF l \in Here THEN requestReconfigure(leaf[l]) ELSE leaf[l]]
             g == [hub EXCEPT !.gain = gain]
  <1>1. Sound(hubBus, hub, leaf) /\ hubBus \in Buses /\ Stands(hub, hubBus) /\ hub \in Hubs /\ leaf \in [Inputs -> Leaves]
        /\ (~chipSilent) \in BOOLEAN
    BY DEF HubInv, Sound, Stands
  <1>2. /\ hub.kind = "mux" => gain = hub.gain
        /\ RefreshHub(hubBus, t, ks) /\ chipSilent' = chipSilent /\ hubFirst' = hubFirst
    BY DEF EditHub, RefreshHub
  <1>3. ks \in [Inputs -> Leaves] /\ \A l \in Inputs : ks[l] = IF leaf[l].here THEN requestReconfigure(leaf[l]) ELSE leaf[l]
    <2>1. \A l \in Inputs : leaf[l] \in Leaves /\ requestReconfigure(leaf[l]) \in Leaves
      BY <1>1, LeafAsks DEF Kept, Grew
    <2> QED
      BY <2>1 DEF Here
  <1> HIDE DEF ks
  <1>4. Sound(hubBus, g, ks)
    BY <1>1, <1>2, <1>3, GainSteps
  <1>5. h \in {g, resetStateMachine(g), resetStateMachine(Freed(g))}
    BY <1>1 DEF resetStateMachine, Freed, Hubs
  <1> HIDE DEF h, g
  <1>6. Sound(hubBus, h, ks)
    <2>1. Grown(g, resetStateMachine(g), hubBus) /\ Grown(g, resetStateMachine(Freed(g)), hubBus)
      BY <1>4, HubAsks, HubFrees, HubOnward DEF Sound
    <2> QED
      BY <1>4, <1>5, <2>1, HubSteps
  <1>7. Sound(hubBus, t, ks)
    <2>1. Grown(h, Asked(h, TRUE), hubBus) /\ Grown(h, Asked(h, FALSE), hubBus)
      BY <1>6, HubAsks DEF Sound
    <2>2. Grown(h, HubTick(Asked(h, TRUE), hubBus, TRUE, ~chipSilent), hubBus)
      BY <1>1, <2>1, HubOnward, HubTicked
    <2> QED
      BY <1>6, <2>1, <2>2, HubSteps
  <1> HIDE DEF t
  <1>8. Sound(hubBus, hub, leaf)'
    BY <1>2, <1>7, RefreshSteps
  <1> QED
    BY <1>2, <1>8 DEF HubInv

LEMMA LeafMoved ==
  ASSUME NEW d \in Leaves, NEW ch \in Channels
  PROVE  \A q \in {[resetStateMachine(d) EXCEPT !.ch = ch]} : q \in Leaves /\ q.here = d.here /\ q.foreign = d.foreign
  BY LeafStates DEF resetStateMachine, Leaves

LEMMA LeafFresh ==
  ASSUME NEW enabled \in BOOLEAN, NEW ch \in Channels
  PROVE  FreshLeaf(enabled, ch) \in Leaves /\ ~FreshLeaf(enabled, ch).foreign
  <1> DEFINE d == [state |-> "Idle", status |-> "Creating", start |-> TRUE, reconf |-> FALSE, disable |-> FALSE,
                   fault |-> FALSE, enabled |-> enabled, last |-> 0, errors |-> 0, ch |-> ch, got |-> 0,
                   shown |-> FALSE, foreign |-> FALSE, here |-> TRUE]
  <1>1. 0 \in 0..FaultThreshold /\ 0 \in 0..AdcSamples /\ 0 \in 0..LastGeneration
    BY HubAssumption, UserAssumption
  <1>2. \A s \in {"Idle", "Starting", "Disabled"} : s \in States \cup {"Sampling", "RetryBackoff"}
    BY LeafStates
  <1>3. \A t \in {"Creating", "Disabled"} : t \in Statuses
    BY LeafStates
  <1>4. d \in Leaves /\ d.ch = ch /\ ~d.foreign /\ d.start = TRUE
    BY <1>1, <1>2, <1>3 DEF Leaves
  <1>5. \E s \in {"Starting", "Disabled"}, t \in {"Creating", "Disabled"} : FreshLeaf(enabled, ch) = Goto(d, s, t)
    BY DEF FreshLeaf, IdleTick, SwitchedOff, Goto
  <1>6. PICK s \in {"Starting", "Disabled"}, t \in {"Creating", "Disabled"} : FreshLeaf(enabled, ch) = Goto(d, s, t)
    BY <1>5
  <1> HIDE DEF d
  <1>7. Goto(d, s, t) \in Leaves /\ ~Goto(d, s, t).foreign
    <2>1. s \in States \cup {"Sampling", "RetryBackoff"} /\ t \in Statuses
      BY <1>2, <1>3
    <2> QED
      BY <1>4, <2>1 DEF Goto, Leaves
  <1> QED
    BY <1>6, <1>7

LEMMA EditLeafSteps ==
  ASSUME HubInv, NEW l \in Here, NEW enabled \in BOOLEAN, NEW ch \in Channels, EditLeaf(l, enabled, ch)
  PROVE  HubInv'
  <1> DEFINE d == leaf[l]
             moved == ch # d.ch
             h == IF moved THEN releaseChannelRequest(hub, d.ch, l) ELSE hub
             q == IF moved THEN [resetStateMachine(d) EXCEPT !.ch = ch] ELSE d
             on == Asked(q, TRUE)
             off == Asked(q, FALSE)
             t == LeafTick(on, h, hubBus, l, TRUE, ~chipSilent)
             n == IF enabled = d.enabled THEN Ticked(h, q) ELSE IF enabled THEN t ELSE Ticked(h, off)
             ks == [leaf EXCEPT ![l] = n.leaf]
  <1>1. /\ Sound(hubBus, hub, leaf) /\ hubBus \in Buses /\ Stands(hub, hubBus) /\ (~chipSilent) \in BOOLEAN
        /\ l \in Inputs /\ d \in Leaves /\ d.here /\ Fits(hub, d, l)
    BY DEF HubInv, Sound, Here
  <1>2. RefreshHub(hubBus, n.hub, ks) /\ chipSilent' = chipSilent /\ hubFirst' = hubFirst
    <2>1. RefreshHub(hubBus, IF enabled # d.enabled /\ enabled THEN t.hub ELSE h,
                   [leaf EXCEPT ![l] = IF enabled = d.enabled THEN q ELSE IF enabled THEN t.leaf ELSE Asked(q, FALSE)])
          /\ chipSilent' = chipSilent
      BY DEF EditLeaf
    <2> HIDE DEF d, h, q, on, t
    <2>2. n.hub = IF enabled # d.enabled /\ enabled THEN t.hub ELSE h
      BY DEF Ticked
    <2>3. n.leaf = IF enabled = d.enabled THEN q ELSE IF enabled THEN t.leaf ELSE Asked(q, FALSE)
      BY DEF Ticked
    <2>4. hubFirst' = hubFirst
      BY <2>1 DEF RefreshHub
    <2> QED
      BY <2>1, <2>2, <2>3, <2>4
  <1>3. Stands(h, hubBus) /\ Spared(hub, h, l) /\ Fits(h, q, l) /\ q \in Leaves /\ q.here /\ q.foreign = d.foreign
    <2>1. CASE moved
      <3>1. Stands(h, hubBus) /\ Unclaimed(h, l) /\ Spared(hub, h, l)
        BY <1>1, <2>1, ClaimReleased
      <3>2. q \in Leaves /\ q.here = d.here /\ q.foreign = d.foreign
        BY <1>1, <2>1, LeafMoved
      <3> HIDE DEF h, q
      <3> QED
        BY <1>1, <3>1, <3>2, UnclaimedFits
    <2>2. CASE ~moved
      <3>1. h = hub /\ q = d
        BY <2>2
      <3> HIDE DEF h, q
      <3> QED
        BY <1>1, <3>1 DEF Spared, Keeps
    <2> QED
      BY <2>1, <2>2
  <1> HIDE DEF h, q
  <1>4. /\ on \in Leaves /\ on.here /\ on.foreign = q.foreign /\ Fits(h, on, l)
        /\ off \in Leaves /\ off.here /\ off.foreign = q.foreign /\ Fits(h, off, l)
    <2>1. Kept(q, on) /\ Kept(q, off)
      BY <1>3, LeafAsks
    <2> HIDE DEF on, off
    <2> QED
      BY <1>3, <2>1, LeafKeeps DEF Kept, Grew
  <1> HIDE DEF on, off
  <1>5. Served(h, t, on, l, hubBus)
    <2> DEFINE answers == ~chipSilent
    <2>1. answers \in BOOLEAN /\ TRUE \in BOOLEAN
      BY <1>1
    <2> HIDE DEF answers
    <2>2. Served(h, LeafTick(on, h, hubBus, l, TRUE, answers), on, l, hubBus)
      BY <1>1, <1>3, <1>4, <2>1, LeafServed
    <2> QED
      BY <2>2 DEF answers
  <1> HIDE DEF t
  <1>6. /\ Stands(n.hub, hubBus) /\ Spared(h, n.hub, l) /\ Fits(n.hub, n.leaf, l)
        /\ n.leaf \in Leaves /\ n.leaf.foreign = d.foreign
    <2>1. \A c \in {q, off} : /\ Stands(Ticked(h, c).hub, hubBus) /\ Spared(h, Ticked(h, c).hub, l)
                              /\ Fits(Ticked(h, c).hub, Ticked(h, c).leaf, l)
                              /\ Ticked(h, c).leaf \in Leaves /\ Ticked(h, c).leaf.foreign = d.foreign
      BY <1>3, <1>4 DEF Ticked, Spared, Keeps
    <2>2. /\ Stands(t.hub, hubBus) /\ Spared(h, t.hub, l) /\ Fits(t.hub, t.leaf, l)
          /\ t.leaf \in Leaves /\ t.leaf.foreign = d.foreign
      BY <1>3, <1>4, <1>5 DEF Served, Grew
    <2>3. n \in {Ticked(h, q), Ticked(h, off), t}
      OBVIOUS
    <2> HIDE DEF n, d
    <2> QED
      BY <2>1, <2>2, <2>3
  <1> HIDE DEF n
  <1>7. ks \in [Inputs -> Leaves] /\ ks[l] = n.leaf /\ \A m \in Inputs \ {l} : ks[m] = leaf[m]
    BY <1>1, <1>6 DEF Sound
  <1> HIDE DEF ks
  <1>8. ASSUME NEW m \in Inputs \ {l} PROVE Fits(n.hub, ks[m], m)
    <2>1. m # l /\ Fits(hub, leaf[m], m) /\ ks[m] = leaf[m]
      BY <1>1, <1>7, <1>8 DEF Sound
    <2>2. Fits(h, leaf[m], m)
      BY <1>3, <2>1, SparedFits
    <2> QED
      BY <1>6, <2>1, <2>2, SparedFits
  <1>9. Sound(hubBus, n.hub, ks)
    BY <1>1, <1>6, <1>7, <1>8 DEF Sound
  <1>10. Sound(hubBus, hub, leaf)'
    BY <1>2, <1>9, RefreshSteps
  <1> QED
    BY <1>1, <1>2, <1>10 DEF HubInv

LEMMA DeleteLeafSteps ==
  ASSUME HubInv, NEW l \in Here, DeleteLeaf(l)
  PROVE  HubInv'
  <1> DEFINE q == [FreshLeaf(FALSE, leaf[l].ch) EXCEPT !.here = FALSE]
             ks == [leaf EXCEPT ![l] = q]
  <1>1. Sound(hubBus, hub, leaf) /\ l \in Inputs /\ leaf[l] \in Leaves /\ leaf \in [Inputs -> Leaves]
    BY DEF HubInv, Sound, Here
  <1>2. leaf[l].ch \in Channels
    BY <1>1 DEF Leaves
  <1>3. q \in Leaves /\ ~q.here /\ ~q.foreign
    <2>1. FreshLeaf(FALSE, leaf[l].ch) \in Leaves /\ ~FreshLeaf(FALSE, leaf[l].ch).foreign
      BY <1>2, LeafFresh
    <2> QED
      BY <2>1 DEF Leaves
  <1>4. RefreshHub(hubBus, hub, ks) /\ chipSilent' = chipSilent /\ hubFirst' = hubFirst
    BY DEF DeleteLeaf, RefreshHub
  <1> HIDE DEF q
  <1>5. ks \in [Inputs -> Leaves] /\ ks[l] = q /\ \A m \in Inputs \ {l} : ks[m] = leaf[m]
    BY <1>1, <1>3
  <1> HIDE DEF ks
  <1>6. \A m \in Inputs : Fits(hub, ks[m], m) /\ ~ks[m].foreign
    BY <1>1, <1>3, <1>5 DEF Sound, Fits
  <1>7. Sound(hubBus, hub, ks)
    BY <1>1, <1>5, <1>6 DEF Sound
  <1>8. Sound(hubBus, hub, leaf)'
    BY <1>4, <1>7, RefreshSteps
  <1> QED
    BY <1>4, <1>8 DEF HubInv

LEMMA FreshBusIs == FreshBus \in Buses /\ Lawful(FreshBus) /\ FreshBus.gen = 0
  <1>1. FreshBus = [state |-> "Starting", status |-> "Creating", start |-> TRUE, reconf |-> FALSE, disable |-> FALSE,
                    fault |-> FALSE, enabled |-> TRUE, driver |-> FALSE, gen |-> 0, scanning |-> FALSE]
    BY DEF FreshBus, IdleTick, Unwanted
  <1>2. "Starting" \in BusPlaces /\ "Creating" \in Statuses
    BY BusNames
  <1> QED
    BY <1>1, <1>2 DEF Buses, Lawful

LEMMA HubInitial == HubInit => HubInv
  <1> SUFFICES ASSUME HubInit PROVE HubInv
    OBVIOUS
  <1>1. hubBus \in Buses
    BY FreshBusIs DEF HubInit
  <1>2. hubBus.gen = 0
    BY FreshBusIs DEF HubInit
  <1>3. PICK kind \in {"adc", "mux"} : hub = FreshHub(kind)
    BY DEF HubInit
  <1>4. /\ hub = [state |-> "Starting", status |-> "Creating", start |-> TRUE, reconf |-> FALSE, disable |-> FALSE,
                  fault |-> FALSE, enabled |-> TRUE, kind |-> kind, last |-> 0, errors |-> 0, gen |-> 0, gain |-> 0,
                  owner |-> Nobody, set |-> Nobody]
    BY <1>3 DEF FreshHub, IdleTick, Unwanted
  <1>5. hub \in Hubs /\ hub.owner = Nobody /\ hub.set = Nobody /\ hub.state = "Starting" /\ hub.last = 0
    <2>1. "Starting" \in States \cup {"RetryBackoff"} /\ "Creating" \in Statuses
      BY HubStates
    <2>2. 0 \in 0..FaultThreshold /\ 0 \in 0..LastGeneration
      BY UserAssumption, HubAssumption
    <2> QED
      BY <1>3, <1>4, <2>1, <2>2 DEF Hubs
  <1>6. Stands(hub, hubBus)
    BY <1>2, <1>5 DEF Stands, HubSound
  <1>7. PICK enabled \in BOOLEAN : leaf = [l \in Inputs |-> FreshLeaf(enabled, l)]
    BY DEF HubInit
  <1>8. ASSUME NEW l \in Inputs PROVE leaf[l] \in Leaves /\ ~leaf[l].foreign
    <2>1. l \in Channels
      BY <1>8, HubAssumption
    <2>2. FreshLeaf(enabled, l) \in Leaves /\ ~FreshLeaf(enabled, l).foreign
      BY <2>1, LeafFresh
    <2> QED
      BY <1>7, <1>8, <2>2
  <1>9. leaf \in [Inputs -> Leaves]
    BY <1>7, <1>8
  <1>10. \A l \in Inputs : Fits(hub, leaf[l], l)
    BY <1>5 DEF Fits
  <1>11. Sound(hubBus, hub, leaf)
    BY <1>1, <1>6, <1>8, <1>9, <1>10 DEF Sound
  <1> QED
    BY <1>11 DEF HubInv, HubInit

LEMMA HubInductive == HubInv /\ [HubNext]_hubVars => HubInv'
  <1> SUFFICES ASSUME HubInv, [HubNext]_hubVars PROVE HubInv'
    OBVIOUS
  <1>1. ASSUME NEW due \in SUBSET ({0} \cup Inputs), HubRound(due) PROVE HubInv'
    BY <1>1, RoundSteps
  <1>2. ASSUME NEW enabled \in BOOLEAN, NEW moved \in BOOLEAN, EditHubBus(enabled, moved) PROVE HubInv'
    BY <1>2, EditHubBusSteps
  <1>3. ASSUME NEW enabled \in BOOLEAN, NEW moved \in BOOLEAN, NEW gain \in {0, 1}, EditHub(enabled, moved, gain)
        PROVE  HubInv'
    BY <1>3, EditHubSteps
  <1>4. ASSUME NEW l \in Here, DeleteLeaf(l) PROVE HubInv'
    BY <1>4, DeleteLeafSteps
  <1>5. ASSUME NEW l \in Here, NEW enabled \in BOOLEAN, NEW ch \in Channels, EditLeaf(l, enabled, ch) PROVE HubInv'
    BY <1>5, EditLeafSteps
  <1>6. CASE ChipChanges
    BY <1>6 DEF ChipChanges, HubInv, Sound
  <1>7. CASE UNCHANGED hubVars
    BY <1>7 DEF hubVars, HubInv, Sound
  <1> QED
    BY <1>1, <1>2, <1>3, <1>4, <1>5, <1>6, <1>7 DEF HubNext

LEMMA HubInvariant == HubSpec => []HubInv
  <1>1. HubInit => HubInv
    BY HubInitial
  <1>2. HubInv /\ [HubNext]_hubVars => HubInv'
    BY HubInductive
  <1> QED
    BY <1>1, <1>2, PTL DEF HubSpec

LEMMA HubTyped == HubInv => HubTypeOK
  <1> SUFFICES ASSUME HubInv PROVE HubTypeOK
    OBVIOUS
  <1>1. hub \in Hubs /\ hub.last <= hubBus.gen /\ hubBus \in Buses
    BY DEF HubInv, Sound, Stands
  <1>2. hub.last \in 0..hubBus.gen
    BY <1>1 DEF Hubs, Buses
  <1>3. \A l \in Inputs : leaf[l] \in Leaves
    BY DEF HubInv, Sound
  <1> QED
    BY <1>1, <1>2, <1>3 DEF HubTypeOK, Hubs, Leaves

(* HubTypeOK: the hub, its claims, and the devices are what the code says    *)
(* they are; the generation a hub was set up under is one its bus has had.   *)
THEOREM HubTypeCorrect == HubSpec => []HubTypeOK
  BY HubInvariant, HubTyped, PTL

(* ReadsOwnChannel: every sample a channel device takes was measured for its *)
(* own channel and with the gain the hub has, however the polls of the two   *)
(* devices, the ticks of the hub and the edits fall.                         *)
THEOREM ReadsOwn == HubSpec => []ReadsOwnChannel
  <1>1. HubInv => ReadsOwnChannel
    BY DEF HubInv, Sound, ReadsOwnChannel
  <1> QED
    BY <1>1, HubInvariant, PTL

------------------------------------------------------------------------------
(* The users of a bus: a result is read only under the initialization of the *)
(* bus under which it was asked for, for any number of edits, failures,      *)
(* initializations and errors.                                               *)

(* The states in which a user asks nothing of its bus, and what              *)
(* UserReconfiguring makes of a user.                                        *)
Rest == {"Idle", "Starting", "Reconfiguring", "Disabled", "Faulted", "DependencyBlocked", "RetryBackoff"}

Forgotten(d) == [d EXCEPT !.reconf = FALSE, !.start = FALSE, !.last = 0, !.errors = 0]

Erred(d, n) == [d EXCEPT !.errors = n]

LEMMA SteadyOrIs ==
  ASSUME NEW d, NEW b, NEW next
  PROVE  \/ \E s \in {"Disabled", "DependencyBlocked", "Reconfiguring"} : Steady(d, b, next) = Goto(d, s, s)
         \/ Steady(d, b, next) = next /\ b.status = "Ready" /\ ~Superseded(d, b)
  <1> DEFINE go == IF Superseded(d, b) THEN ToReconfiguring(d) ELSE next
  <1>1. Steady(d, b, next) = HaltOr(d, b, go)
    BY DEF Steady
  <1>2. go \in {Goto(d, "Reconfiguring", "Reconfiguring"), next} /\ (~Superseded(d, b) => go = next)
    BY DEF ToReconfiguring
  <1>3. Superseded(d, b) => go = Goto(d, "Reconfiguring", "Reconfiguring")
    BY DEF ToReconfiguring
  <1> HIDE DEF go
  <1> QED
    BY <1>1, <1>2, <1>3, HaltOrIs

LEMMA FailedIs ==
  ASSUME NEW d, d.errors \in 0..FaultThreshold, NEW t
  PROVE  \E n \in 0..FaultThreshold, s \in {"Faulted", "RetryBackoff"} : Failed(d, t) = Goto(Erred(d, n), s, t)
  <1> DEFINE n == IF d.errors < FaultThreshold THEN d.errors + 1 ELSE d.errors
  <1>1. n \in 0..FaultThreshold
    BY UserAssumption
  <1>2. Failed(d, t) = Goto(Erred(d, n), IF n = FaultThreshold THEN "Faulted" ELSE "RetryBackoff", t)
    BY DEF Failed, Erred
  <1> HIDE DEF n
  <1> QED
    BY <1>1, <1>2

LEMMA TransactsIs ==
  ASSUME NEW d, d.errors \in 0..FaultThreshold, NEW lends, NEW t, NEW answers, NEW done
  PROVE  \/ \E c \in {d} \cup {Erred(d, n) : n \in 0..FaultThreshold}, s \in {"Faulted", "RetryBackoff"} :
              Transacts(d, lends, t, answers, done) = Goto(c, s, t)
         \/ lends /\ answers /\ Transacts(d, lends, t, answers, done) = done
  <1>1. CASE ~lends
    BY <1>1 DEF Transacts
  <1>2. CASE lends /\ answers
    BY <1>2 DEF Transacts
  <1>3. CASE lends /\ ~answers
    <2>1. Transacts(d, lends, t, answers, done) = Failed(d, t)
      BY <1>3 DEF Transacts
    <2> QED
      BY <2>1, FailedIs
  <1> QED
    BY <1>1, <1>2, <1>3

LEMMA QuietIs ==
  ASSUME NEW d, NEW b, NEW due, d.state \in Rest \ {"Starting"}
  PROVE  \E c \in {d, Forgotten(d)}, s \in Rest, t \in Statuses : QuietTick(d, b, due) = Goto(c, s, t)
  <1> DEFINE Ends(q) == \E c \in {d, Forgotten(d)}, s \in Rest, t \in Statuses : q = Goto(c, s, t)
  <1>1. \A c \in {d, Forgotten(d)}, s \in Rest, t \in Statuses : Ends(Goto(c, s, t))
    OBVIOUS
  <1> HIDE DEF Ends
  <1>2. /\ \A s \in {"Disabled", "Reconfiguring", "DependencyBlocked", "Faulted", "Starting"} : s \in Rest /\ s \in Statuses
        /\ "Creating" \in Statuses /\ "Idle" \in Rest /\ "RetryBackoff" \in Rest
    BY LeafStates DEF Rest
  <1>3. /\ \A c \in {d, Forgotten(d)} :
             Ends(Goto(c, "Disabled", "Disabled")) /\ Ends(Goto(c, "DependencyBlocked", "DependencyBlocked"))
        /\ Ends(SwitchedOff(d)) /\ Ends(ToReconfiguring(d))
    BY <1>1, <1>2 DEF SwitchedOff, ToReconfiguring
  <1>4. ASSUME d.state \in {"RetryBackoff", "Faulted"}, NEW t \in {"Starting", "Faulted"} PROVE Ends(Waits(d, b, due, t))
    <2> DEFINE s == IF due THEN "Starting" ELSE d.state
               next == IF d.reconf THEN ToReconfiguring(d) ELSE Goto(d, s, t)
    <2>1. s \in Rest /\ t \in Statuses
      BY <1>2, <1>4
    <2> HIDE DEF s
    <2>2. Ends(next)
      BY <1>1, <1>3, <2>1
    <2>3. Waits(d, b, due, t) = HaltOr(d, b, next)
      BY DEF Waits, s
    <2> HIDE DEF next
    <2> QED
      BY <1>3, <2>2, <2>3, HaltOrIs
  <1>5. CASE d.state = "Idle"
    <2> DEFINE s == IF d.start THEN "Starting" ELSE "Idle"
    <2>1. Ends(Goto(d, s, "Creating"))
      BY <1>1, <1>2
    <2>2. QuietTick(d, b, due) \in {SwitchedOff(d), Goto(d, s, "Creating")}
      BY <1>5 DEF QuietTick, IdleTick, Goto
    <2> QED
      BY <1>3, <2>1, <2>2 DEF Ends
  <1>6. CASE d.state = "RetryBackoff"
    <2>1. QuietTick(d, b, due) = Waits(d, b, due, "Starting")
      BY <1>6 DEF QuietTick
    <2> QED
      BY <1>4, <1>6, <2>1 DEF Ends
  <1>7. CASE d.state = "DependencyBlocked"
    <2>1. QuietTick(d, b, due) = UserDependencyBlocked(d, b)
      BY <1>7 DEF QuietTick
    <2>2. Ends(UserDependencyBlocked(d, b))
      BY <1>3 DEF UserDependencyBlocked
    <2> QED
      BY <2>1, <2>2 DEF Ends
  <1>8. CASE d.state = "Reconfiguring"
    <2> DEFINE q == Forgotten(d)
    <2>1. QuietTick(d, b, due) = HaltOr(q, b, Goto(q, "Starting", "Reconfiguring"))
      BY <1>8 DEF QuietTick, UserReconfiguring, Forgotten
    <2>2. Ends(Goto(q, "Starting", "Reconfiguring"))
      BY <1>1, <1>2
    <2>3. Ends(Goto(q, "Disabled", "Disabled")) /\ Ends(Goto(q, "DependencyBlocked", "DependencyBlocked"))
      BY <1>3
    <2> HIDE DEF q
    <2>4. Ends(QuietTick(d, b, due))
      BY <2>1, <2>2, <2>3, HaltOrIs
    <2> QED
      BY <2>4 DEF Ends
  <1>9. CASE d.state = "Disabled"
    <2>1. QuietTick(d, b, due) = UserDisabled(d)
      BY <1>9 DEF QuietTick
    <2>2. Ends(UserDisabled(d))
      BY <1>3 DEF UserDisabled
    <2> QED
      BY <2>1, <2>2 DEF Ends
  <1>10. CASE d.state = "Faulted"
    <2>1. QuietTick(d, b, due) = Waits(d, b, due, "Faulted")
      BY <1>10 DEF QuietTick
    <2> QED
      BY <1>4, <1>10, <2>1 DEF Ends
  <1> QED
    BY <1>5, <1>6, <1>7, <1>8, <1>9, <1>10 DEF Rest

(* A bus that lends itself stays as it is for one more tick. *)
LEMMA BusKeeps ==
  ASSUME NEW b \in Buses, Lawful(b), b.status = "Ready", Lends(b), NEW works \in BOOLEAN, NEW last \in BOOLEAN
  PROVE  BusTick(b, works, last).gen = b.gen /\ BusTick(b, works, last).driver = b.driver
  <1>1. ~Unwanted(b) /\ ~b.reconf
    BY DEF Lends, Unwanted
  <1>2. CASE b.state = "Idle"
    <2>1. BusTick(b, works, last) = BusIdle(b)
      BY <1>2 DEF BusTick
    <2> QED
      BY <1>1, <2>1 DEF BusIdle, Buses
  <1>3. CASE b.state = "Ready"
    <2>1. BusTick(b, works, last) = BusReady(b)
      BY <1>3 DEF BusTick
    <2> QED
      BY <1>1, <2>1 DEF BusReady, Goto, Buses
  <1>4. CASE b.state = "Scanning"
    <2>1. BusTick(b, works, last) = BusScanning(b, last)
      BY <1>4 DEF BusTick
    <2> QED
      BY <1>1, <2>1 DEF BusScanning, Goto, Buses
  <1> QED
    BY <1>2, <1>3, <1>4 DEF Lawful

------------------------------------------------------------------------------
(* The sensor on an I2C bus. *)
ProbePlaces == Rest \cup {"Ready", "InitDelay", "TriggerPhase", "ReadPhase"}

Probes ==
  [state : ProbePlaces, status : Statuses, start : BOOLEAN, reconf : BOOLEAN, disable : BOOLEAN, fault : BOOLEAN,
   enabled : BOOLEAN, kind : {"probe"}, last : Nat, errors : 0..FaultThreshold, shown : BOOLEAN, asked : Nat]

ProbeFits(d, b) == d \in Probes /\ d.last <= b.gen

(* A sensor past its start has been set up under some initialization of the  *)
(* bus, and what it waits for was asked for under that one.                  *)
ProbeLaw(d, b) ==
  /\ ProbeFits(d, b)
  /\ d.state \in {"InitDelay", "TriggerPhase", "ReadPhase", "Ready"} => d.last # 0
  /\ d.state = "ReadPhase" => d.asked = d.last

LEMMA RestNames == Rest \subseteq ProbePlaces /\ {"Starting", "Ready"} \subseteq Statuses
                   /\ \A s \in Rest : s \notin {"InitDelay", "TriggerPhase", "ReadPhase", "Ready"}
  BY LeafStates DEF Rest, ProbePlaces

LEMMA ProbeRests ==
  ASSUME NEW b, NEW c, ProbeFits(c, b), NEW s \in Rest, NEW t \in Statuses
  PROVE  ProbeLaw(Goto(c, s, t), b) /\ Goto(c, s, t).state = s
  <1>1. s \in ProbePlaces /\ s \notin {"InitDelay", "TriggerPhase", "ReadPhase", "Ready"}
    BY RestNames
  <1> QED
    BY <1>1 DEF ProbeLaw, ProbeFits, Probes, Goto

LEMMA ProbeErrs ==
  ASSUME NEW b \in Buses, NEW d, ProbeFits(d, b)
  PROVE  ProbeFits(Forgotten(d), b) /\ \A n \in 0..FaultThreshold : ProbeFits(Erred(d, n), b)
  <1>1. 0 \in 0..FaultThreshold /\ 0 <= b.gen
    BY UserAssumption DEF Buses
  <1>2. ProbeFits(Forgotten(d), b)
    BY <1>1 DEF ProbeFits, Probes, Forgotten
  <1>3. \A n \in 0..FaultThreshold : ProbeFits(Erred(d, n), b)
    BY DEF ProbeFits, Probes, Erred
  <1> QED
    BY <1>2, <1>3

LEMMA ProbeGoesOn ==
  ASSUME NEW b, NEW d, ProbeLaw(d, b), d.last # 0, NEW s \in {"InitDelay", "TriggerPhase", "Ready"},
         NEW t \in {"Starting", "Ready"}
  PROVE  ProbeLaw(Goto(d, s, t), b)
  <1>1. s \in ProbePlaces /\ t \in Statuses /\ s # "ReadPhase"
    BY RestNames DEF ProbePlaces
  <1> QED
    BY <1>1 DEF ProbeLaw, ProbeFits, Probes, Goto

(* What a transaction comes to. *)
LEMMA ProbeTransacts ==
  ASSUME NEW b \in Buses, NEW d, ProbeFits(d, b), NEW lends, NEW t \in Statuses, NEW answers, NEW done
  PROVE  \/ ProbeLaw(Transacts(d, lends, t, answers, done), b) /\ Transacts(d, lends, t, answers, done).state \in Rest
         \/ lends /\ answers /\ Transacts(d, lends, t, answers, done) = done
  <1>1. d.errors \in 0..FaultThreshold
    BY DEF ProbeFits, Probes
  <1>2. CASE \E c \in {d} \cup {Erred(d, n) : n \in 0..FaultThreshold}, s \in {"Faulted", "RetryBackoff"} :
               Transacts(d, lends, t, answers, done) = Goto(c, s, t)
    <2>1. PICK c \in {d} \cup {Erred(d, n) : n \in 0..FaultThreshold}, s \in {"Faulted", "RetryBackoff"} :
               Transacts(d, lends, t, answers, done) = Goto(c, s, t)
      BY <1>2
    <2>2. ProbeFits(c, b) /\ s \in Rest
      BY <2>1, ProbeErrs DEF Rest
    <2>3. ProbeLaw(Goto(c, s, t), b) /\ Goto(c, s, t).state = s
      BY <2>2, ProbeRests
    <2> QED
      BY <2>1, <2>2, <2>3
  <1>3. CASE lends /\ answers /\ Transacts(d, lends, t, answers, done) = done
    BY <1>3
  <1> QED
    BY <1>1, <1>2, <1>3, TransactsIs

(* A state that looks at its bus first. *)
LEMMA ProbeSteady ==
  ASSUME NEW b, NEW d, ProbeLaw(d, b), NEW next
  PROVE  \A q \in {Steady(d, b, next)} :
           (ProbeLaw(q, b) /\ q.state \in Rest) \/ (b.status = "Ready" /\ ~Superseded(d, b) /\ q = next)
  <1>1. \A s \in {"Disabled", "DependencyBlocked", "Reconfiguring"} :
          ProbeLaw(Goto(d, s, s), b) /\ Goto(d, s, s).state \in Rest
    <2>1. \A s \in {"Disabled", "DependencyBlocked", "Reconfiguring"} : s \in Rest /\ s \in Statuses
      BY LeafStates DEF Rest
    <2>2. ProbeFits(d, b)
      BY DEF ProbeLaw
    <2> QED
      BY <2>1, <2>2, ProbeRests
  <1> QED
    BY <1>1, SteadyOrIs

(* A result that is read is what was asked for under this initialization,    *)
(* and the sensor has answered.                                              *)
ReadRight(d, q, b, answers) ==
  d.state = "ReadPhase" /\ q.state \in {"Ready", "TriggerPhase"} =>
    d.asked = b.gen /\ b.status = "Ready" /\ Lends(b) /\ answers

LEMMA ProbeReads ==
  ASSUME NEW b \in Buses, Lawful(b), NEW d, ProbeLaw(d, b), d.state = "ReadPhase", NEW due, NEW answers, NEW busy, NEW more
  PROVE  \A q \in {ReadPhase(d, b, due, answers, busy, more)} : ProbeLaw(q, b) /\ ReadRight(d, q, b, answers)
  <1> DEFINE done == IF more THEN Goto(d, "TriggerPhase", "Ready")
                     ELSE Goto([d EXCEPT !.shown = TRUE, !.errors = 0], "Ready", "Ready")
             try == Transacts(d, Lends(b), "Ready", answers, done)
             next == IF ~due THEN Goto(d, "ReadPhase", "Ready")
                     ELSE IF Lends(b) /\ answers /\ busy THEN Goto([d EXCEPT !.shown = FALSE], "RetryBackoff", "Ready")
                     ELSE try
             q == ReadPhase(d, b, due, answers, busy, more)
  <1>1. d.last # 0 /\ d.asked = d.last /\ ProbeFits(d, b)
    BY DEF ProbeLaw
  <1>2. q = Steady(d, b, next)
    BY DEF ReadPhase
  <1>3. ProbeLaw(Goto(d, "ReadPhase", "Ready"), b) /\ Goto(d, "ReadPhase", "Ready").state = "ReadPhase"
    BY RestNames DEF ProbeLaw, ProbeFits, Probes, ProbePlaces, Goto
  <1>4. /\ ProbeLaw(Goto([d EXCEPT !.shown = FALSE], "RetryBackoff", "Ready"), b)
        /\ Goto([d EXCEPT !.shown = FALSE], "RetryBackoff", "Ready").state = "RetryBackoff"
    <2> DEFINE c == [d EXCEPT !.shown = FALSE]
    <2>1. ProbeFits(c, b)
      BY <1>1 DEF ProbeFits, Probes
    <2> HIDE DEF c
    <2>2. "RetryBackoff" \in Rest /\ "Ready" \in Statuses
      BY RestNames DEF Rest
    <2>3. ProbeLaw(Goto(c, "RetryBackoff", "Ready"), b) /\ Goto(c, "RetryBackoff", "Ready").state = "RetryBackoff"
      BY <2>1, <2>2, ProbeRests
    <2> QED
      BY <2>3 DEF c
  <1>5. ProbeLaw(done, b)
    <2> DEFINE c == [d EXCEPT !.shown = TRUE, !.errors = 0]
    <2>1. 0 \in 0..FaultThreshold
      BY UserAssumption
    <2>2. ProbeLaw(c, b) /\ c.last # 0
      BY <1>1, <2>1 DEF ProbeLaw, ProbeFits, Probes
    <2> HIDE DEF c
    <2>3. ProbeLaw(Goto(c, "Ready", "Ready"), b) /\ ProbeLaw(Goto(d, "TriggerPhase", "Ready"), b)
      BY <1>1, <2>2, ProbeGoesOn
    <2> QED
      BY <2>3 DEF c
  <1> HIDE DEF done
  <1>6. (ProbeLaw(try, b) /\ try.state \in Rest) \/ (Lends(b) /\ answers /\ try = done)
    BY <1>1, ProbeTransacts, RestNames
  <1> HIDE DEF try
  <1>7. (ProbeLaw(next, b) /\ next.state \in Rest \cup {"ReadPhase"}) \/ (Lends(b) /\ answers /\ next = done)
    BY <1>3, <1>4, <1>6 DEF Rest
  <1> HIDE DEF next
  <1>8. (ProbeLaw(q, b) /\ q.state \in Rest) \/ (b.status = "Ready" /\ ~Superseded(d, b) /\ q = next)
    BY <1>2, ProbeSteady
  <1> HIDE DEF q
  <1>9. ~Superseded(d, b) => b.gen = d.asked
    BY <1>1 DEF Superseded
  <1>10. \A s \in Rest \cup {"ReadPhase"} : s \notin {"Ready", "TriggerPhase"}
    BY DEF Rest
  <1>11. ProbeLaw(q, b) /\ ReadRight(d, q, b, answers)
    BY <1>5, <1>7, <1>8, <1>9, <1>10 DEF ReadRight
  <1> QED
    BY <1>11 DEF q

LEMMA ProbeTriggers ==
  ASSUME NEW b \in Buses, Lawful(b), NEW d, ProbeLaw(d, b), d.state = "TriggerPhase", NEW answers
  PROVE  ProbeLaw(TriggerPhase(d, b, answers), b)
  <1> DEFINE c == [d EXCEPT !.asked = b.gen]
             done == Goto(c, "ReadPhase", "Ready")
             next == Transacts(d, Lends(b), "Ready", answers, done)
  <1>1. ProbeFits(d, b) /\ d.last # 0 /\ b.gen \in Nat
    BY DEF ProbeLaw, Buses
  <1>2. ~Superseded(d, b) => ProbeLaw(done, b)
    <2> SUFFICES ASSUME ~Superseded(d, b) PROVE ProbeLaw(done, b)
      OBVIOUS
    <2>1. b.gen = d.last
      BY <1>1 DEF Superseded
    <2>2. c \in Probes /\ c.asked = d.last /\ c.last = d.last
      BY <1>1, <2>1 DEF ProbeFits, Probes
    <2> HIDE DEF c
    <2> QED
      BY <1>1, <2>2, RestNames DEF ProbeLaw, ProbeFits, Probes, ProbePlaces, Goto
  <1> HIDE DEF done
  <1>3. (ProbeLaw(next, b) /\ next.state \in Rest) \/ (Lends(b) /\ answers /\ next = done)
    <2>1. "Starting" \in Statuses /\ "Ready" \in Statuses
      BY RestNames
    <2> QED
      BY <1>1, <2>1, ProbeTransacts
  <1>4. TriggerPhase(d, b, answers) = Steady(d, b, next)
    BY DEF TriggerPhase, done
  <1> HIDE DEF next
  <1> QED
    BY <1>2, <1>3, <1>4, ProbeSteady

LEMMA ProbeStarts ==
  ASSUME NEW b \in Buses, Lawful(b), NEW d, ProbeLaw(d, b), NEW answers
  PROVE  ProbeLaw(ProbeStarting(d, b, answers), b)
  <1> DEFINE done == Goto([d EXCEPT !.last = b.gen, !.start = FALSE], "InitDelay", "Starting")
             next == Transacts(d, Lends(b), "Starting", answers, done)
  <1>1. ProbeFits(d, b)
    BY DEF ProbeLaw
  <1>2. b.status = "Ready" => ProbeLaw(done, b)
    <2> DEFINE e == [d EXCEPT !.last = b.gen, !.start = FALSE]
    <2> SUFFICES ASSUME b.status = "Ready" PROVE ProbeLaw(done, b)
      OBVIOUS
    <2>1. b.gen # 0 /\ b.gen \in Nat /\ b.gen <= b.gen
      BY DEF Lawful, Buses
    <2>2. e \in Probes /\ e.last = b.gen
      BY <1>1, <2>1 DEF ProbeFits, Probes
    <2> HIDE DEF e
    <2>3. ProbeLaw(Goto(e, "InitDelay", "Starting"), b)
      BY <2>1, <2>2, RestNames DEF ProbeLaw, ProbeFits, Probes, ProbePlaces, Goto
    <2> QED
      BY <2>3 DEF e
  <1> HIDE DEF done
  <1>3. (ProbeLaw(next, b) /\ next.state \in Rest) \/ (Lends(b) /\ answers /\ next = done)
    <2>1. "Starting" \in Statuses
      BY RestNames
    <2>2. CASE Lends(b) /\ answers
      BY <2>2 DEF Transacts
    <2>3. CASE ~(Lends(b) /\ answers)
      <3>1. \A lends, t : t \in Statuses =>
              \/ ProbeLaw(Transacts(d, lends, t, answers, done), b) /\ Transacts(d, lends, t, answers, done).state \in Rest
              \/ lends /\ answers /\ Transacts(d, lends, t, answers, done) = done
        BY <1>1, ProbeTransacts
      <3> QED
        BY <2>1, <2>3, <3>1
    <2> QED
      BY <2>2, <2>3
  <1>4. ProbeStarting(d, b, answers) = HaltOr(d, b, next)
    BY DEF ProbeStarting, done
  <1> HIDE DEF next
  <1>5. \A s \in {"Disabled", "DependencyBlocked"} : ProbeLaw(Goto(d, s, s), b)
    <2>1. \A s \in {"Disabled", "DependencyBlocked"} : s \in Rest /\ s \in Statuses
      BY LeafStates DEF Rest
    <2> QED
      BY <1>1, <2>1, ProbeRests
  <1> QED
    BY <1>2, <1>3, <1>4, <1>5, HaltOrIs

LEMMA ProbeWithdraws ==
  ASSUME NEW b, NEW d, NEW q, ProbeLaw(q, b)
  PROVE  ProbeLaw(Withdrawn(d, q), b) /\ Withdrawn(d, q).state = q.state
  <1> DEFINE a == Asking(q)
  <1>1. a \in Probes /\ a.state = q.state /\ a.last = q.last /\ (q.state = "ReadPhase" => a.asked = q.asked)
    BY DEF Asking, ProbeLaw, ProbeFits, Probes
  <1>2. Withdrawn(d, q) \in {a, [a EXCEPT !.shown = FALSE]}
    BY DEF Withdrawn
  <1> HIDE DEF a
  <1>3. \A w \in {a, [a EXCEPT !.shown = FALSE]} :
          w \in Probes /\ w.state = a.state /\ w.last = a.last /\ w.asked = a.asked
    BY <1>1 DEF Probes
  <1> QED
    BY <1>1, <1>2, <1>3 DEF ProbeLaw, ProbeFits

LEMMA ProbeTicked ==
  ASSUME NEW b \in Buses, Lawful(b), NEW d, ProbeLaw(d, b), NEW due, NEW answers, NEW busy, NEW more
  PROVE  \A q \in {ProbeTick(d, b, due, answers, busy, more)} :
           ProbeLaw(q, b) /\ ReadRight(d, q, b, answers) /\ (d.state = "Idle" => q.state \in Rest)
  <1> DEFINE ready == Steady(d, b, Goto(d, IF due THEN "TriggerPhase" ELSE "Ready", "Ready"))
             q == CASE d.state = "Starting" -> ProbeStarting(d, b, answers)
                    [] d.state = "InitDelay" -> InitDelay(d, b, due)
                    [] d.state = "TriggerPhase" -> TriggerPhase(d, b, answers)
                    [] d.state = "ReadPhase" -> ReadPhase(d, b, due, answers, busy, more)
                    [] d.state = "Ready" -> ready
                    [] OTHER -> QuietTick(d, b, due)
  <1>1. ProbeTick(d, b, due, answers, busy, more) = Withdrawn(d, q)
    BY DEF ProbeTick
  <1> HIDE DEF ready, q
  <1>2. d.state \in ProbePlaces /\ ProbeFits(d, b)
    BY DEF ProbeLaw, ProbeFits, Probes
  <1>3. ASSUME d.state = "Starting" PROVE ProbeLaw(q, b)
    <2>1. q = ProbeStarting(d, b, answers)
      BY <1>3 DEF q
    <2> QED
      BY <2>1, ProbeStarts
  <1>4. ASSUME d.state = "InitDelay" PROVE ProbeLaw(q, b)
    <2> DEFINE next == Goto(d, IF due THEN "TriggerPhase" ELSE "InitDelay", "Starting")
    <2>1. q = Steady(d, b, next)
      BY <1>4 DEF q, InitDelay
    <2>2. ProbeLaw(next, b)
      <3>1. d.last # 0
        BY <1>4 DEF ProbeLaw
      <3>2. \A s \in {"InitDelay", "TriggerPhase"} : ProbeLaw(Goto(d, s, "Starting"), b)
        BY <3>1, ProbeGoesOn
      <3> QED
        BY <3>2
    <2> HIDE DEF next
    <2> QED
      BY <2>1, <2>2, ProbeSteady
  <1>5. ASSUME d.state = "TriggerPhase" PROVE ProbeLaw(q, b)
    <2>1. q = TriggerPhase(d, b, answers)
      BY <1>5 DEF q
    <2> QED
      BY <1>5, <2>1, ProbeTriggers
  <1>6. ASSUME d.state = "ReadPhase" PROVE ProbeLaw(q, b) /\ ReadRight(d, q, b, answers)
    <2>1. q = ReadPhase(d, b, due, answers, busy, more)
      BY <1>6 DEF q
    <2> QED
      BY <1>6, <2>1, ProbeReads
  <1>7. ASSUME d.state = "Ready" PROVE ProbeLaw(q, b)
    <2> DEFINE next == Goto(d, IF due THEN "TriggerPhase" ELSE "Ready", "Ready")
    <2>1. q = Steady(d, b, next)
      BY <1>7 DEF q, ready
    <2>2. ProbeLaw(next, b)
      <3>1. d.last # 0
        BY <1>7 DEF ProbeLaw
      <3>2. \A s \in {"Ready", "TriggerPhase"} : ProbeLaw(Goto(d, s, "Ready"), b)
        BY <3>1, ProbeGoesOn
      <3> QED
        BY <3>2
    <2> HIDE DEF next
    <2> QED
      BY <2>1, <2>2, ProbeSteady
  <1>8. ASSUME d.state \notin {"Starting", "InitDelay", "TriggerPhase", "ReadPhase", "Ready"}
        PROVE  ProbeLaw(q, b) /\ q.state \in Rest
    <2>1. q = QuietTick(d, b, due)
      BY <1>8 DEF q
    <2>2. d.state \in Rest \ {"Starting"}
      BY <1>2, <1>8 DEF ProbePlaces
    <2>3. PICK c \in {d, Forgotten(d)}, s \in Rest, t \in Statuses : QuietTick(d, b, due) = Goto(c, s, t)
      BY <2>2, QuietIs
    <2>4. ProbeFits(c, b)
      BY <1>2, <2>3, ProbeErrs
    <2> QED
      BY <2>1, <2>3, <2>4, ProbeRests
  <1>9. ProbeLaw(q, b) /\ ReadRight(d, q, b, answers) /\ (d.state = "Idle" => q.state \in Rest)
    BY <1>3, <1>4, <1>5, <1>6, <1>7, <1>8 DEF ReadRight
  <1>10. ProbeLaw(Withdrawn(d, q), b) /\ Withdrawn(d, q).state = q.state
    BY <1>9, ProbeWithdraws
  <1>11. ReadRight(d, Withdrawn(d, q), b, answers) /\ (d.state = "Idle" => Withdrawn(d, q).state \in Rest)
    BY <1>9, <1>10 DEF ReadRight
  <1> QED
    BY <1>1, <1>10, <1>11

(* The requests of the registry and of an edit. *)
LEMMA ProbeAsked ==
  ASSUME NEW b, NEW d, ProbeLaw(d, b)
  PROVE  /\ \A statuses : ProbeLaw(Refreshed(d, statuses), b) /\ Refreshed(d, statuses).state = d.state
         /\ ProbeLaw(requestReconfigure(d), b) /\ requestReconfigure(d).state = d.state
         /\ ProbeLaw(resetStateMachine(d), b) /\ resetStateMachine(d).state = "Idle"
         /\ \A enabled \in BOOLEAN : /\ ProbeLaw(Asked(d, enabled), b) /\ Asked(d, enabled).state = d.state
                                     /\ Asked(d, enabled).asked = d.asked
  <1>1. "Reconfiguring" \in Statuses /\ "Disabled" \in Statuses /\ "Idle" \in ProbePlaces
    BY LeafStates, RestNames DEF Rest
  <1>2. ProbeLaw(requestReconfigure(d), b) /\ requestReconfigure(d).state = d.state
    BY <1>1 DEF requestReconfigure, ProbeLaw, ProbeFits, Probes
  <1>3. ProbeLaw(requestDisable(d), b) /\ requestDisable(d).state = d.state
    BY <1>1 DEF requestDisable, ProbeLaw, ProbeFits, Probes
  <1>4. \A statuses : ProbeLaw(Refreshed(d, statuses), b) /\ Refreshed(d, statuses).state = d.state
    BY <1>2, <1>3 DEF Refreshed
  <1>5. ProbeLaw(resetStateMachine(d), b) /\ resetStateMachine(d).state = "Idle"
    BY <1>1 DEF resetStateMachine, ProbeLaw, ProbeFits, Probes
  <1>6. ASSUME NEW enabled \in BOOLEAN
        PROVE  ProbeLaw(Asked(d, enabled), b) /\ Asked(d, enabled).state = d.state /\ Asked(d, enabled).asked = d.asked
    <2> DEFINE q == Asked(d, enabled)
    <2>1. q \in Probes /\ q.state = d.state /\ q.last = d.last /\ q.asked = d.asked
      BY <1>1, <1>6 DEF Asked, clearLifecycleRequests, requestReconfigure, requestDisable, ProbeLaw, ProbeFits, Probes
    <2> HIDE DEF q
    <2>2. ProbeLaw(q, b)
      BY <2>1 DEF ProbeLaw, ProbeFits
    <2> QED
      BY <2>1, <2>2 DEF q
  <1> QED
    BY <1>2, <1>4, <1>5, <1>6

------------------------------------------------------------------------------
(* The port expander on an I2C bus. *)
ChipPlaces == Rest \cup {"Ready", "Syncing"}

Chips ==
  [state : ChipPlaces, status : Statuses, start : BOOLEAN, reconf : BOOLEAN, disable : BOOLEAN, fault : BOOLEAN,
   enabled : BOOLEAN, kind : {"chip"}, last : Nat, errors : 0..FaultThreshold, level : BOOLEAN, pin : BOOLEAN]

ChipLaw(d, b) == d \in Chips /\ d.last <= b.gen

LEMMA ChipNames ==
  /\ {"Starting", "Disabled", "DependencyBlocked", "Reconfiguring", "Faulted", "RetryBackoff", "Ready", "Syncing", "Idle"}
       = ChipPlaces
  /\ {"Starting", "Disabled", "DependencyBlocked", "Reconfiguring", "Faulted", "Ready", "Creating"} = Statuses
  BY DEF Rest, ChipPlaces, Statuses

LEMMA ChipGoes ==
  ASSUME NEW b, NEW c, ChipLaw(c, b), NEW s \in ChipPlaces, NEW t \in Statuses
  PROVE  ChipLaw(Goto(c, s, t), b)
  BY DEF ChipLaw, Chips, Goto

LEMMA ChipChanged ==
  ASSUME NEW b \in Buses, NEW d, ChipLaw(d, b)
  PROVE  /\ ChipLaw(Forgotten(d), b) /\ ChipLaw(Written(d), b)
         /\ \A n \in 0..FaultThreshold : ChipLaw(Erred(d, n), b)
         /\ \A v \in BOOLEAN : ChipLaw([d EXCEPT !.level = v], b) /\ ChipLaw([d EXCEPT !.pin = v], b)
  <1>1. 0 \in 0..FaultThreshold /\ 0 <= b.gen
    BY UserAssumption DEF Buses
  <1>2. ChipLaw(Forgotten(d), b)
    BY <1>1 DEF ChipLaw, Chips, Forgotten
  <1>3. ChipLaw(Written(d), b)
    BY <1>1 DEF ChipLaw, Chips, Written
  <1>4. \A n \in 0..FaultThreshold : ChipLaw(Erred(d, n), b)
    BY DEF ChipLaw, Chips, Erred
  <1>5. \A v \in BOOLEAN : ChipLaw([d EXCEPT !.level = v], b) /\ ChipLaw([d EXCEPT !.pin = v], b)
    BY DEF ChipLaw, Chips
  <1> QED
    BY <1>2, <1>3, <1>4, <1>5

LEMMA ChipTransacts ==
  ASSUME NEW b \in Buses, NEW d, ChipLaw(d, b), NEW lends, NEW answers, NEW done, ChipLaw(done, b)
  PROVE  ChipLaw(Transacts(d, lends, "Ready", answers, done), b)
  <1>1. d.errors \in 0..FaultThreshold
    BY DEF ChipLaw, Chips
  <1>2. \A c \in {d} \cup {Erred(d, n) : n \in 0..FaultThreshold}, s \in {"Faulted", "RetryBackoff"} :
          ChipLaw(Goto(c, s, "Ready"), b)
    <2>1. \A s \in {"Faulted", "RetryBackoff"} : s \in ChipPlaces /\ "Ready" \in Statuses
      BY ChipNames
    <2>2. \A c \in {d} \cup {Erred(d, n) : n \in 0..FaultThreshold} : ChipLaw(c, b)
      BY ChipChanged
    <2> QED
      BY <2>1, <2>2, ChipGoes
  <1> DEFINE t == "Ready"
             q == Transacts(d, lends, t, answers, done)
  <1>3. \A c \in {d} \cup {Erred(d, n) : n \in 0..FaultThreshold}, s \in {"Faulted", "RetryBackoff"} :
          ChipLaw(Goto(c, s, t), b)
    BY <1>2
  <1> HIDE DEF t
  <1>4. \/ \E c \in {d} \cup {Erred(d, n) : n \in 0..FaultThreshold}, s \in {"Faulted", "RetryBackoff"} : q = Goto(c, s, t)
        \/ q = done
    BY <1>1, TransactsIs
  <1> HIDE DEF q
  <1>5. ChipLaw(q, b)
    BY <1>3, <1>4
  <1> QED
    BY <1>5 DEF q, t

LEMMA ChipSteady ==
  ASSUME NEW b, NEW d, ChipLaw(d, b), NEW next, ChipLaw(next, b)
  PROVE  \A q \in {Steady(d, b, next), HaltOr(d, b, next)} : ChipLaw(q, b)
  <1>1. \A s \in {"Disabled", "DependencyBlocked", "Reconfiguring"} : ChipLaw(Goto(d, s, s), b)
    <2>1. \A s \in {"Disabled", "DependencyBlocked", "Reconfiguring"} : s \in ChipPlaces /\ s \in Statuses
      BY ChipNames
    <2> QED
      BY <2>1, ChipGoes
  <1> QED
    BY <1>1, SteadyOrIs, HaltOrIs

LEMMA ChipTicked ==
  ASSUME NEW b \in Buses, NEW d, ChipLaw(d, b), NEW due, NEW answers
  PROVE  \A q \in {ChipTick(d, b, due, answers)} : ChipLaw(q, b)
  <1> DEFINE q == ChipTick(d, b, due, answers)
  <1>1. {"Starting", "Syncing", "Ready"} \subseteq ChipPlaces /\ {"Starting", "Ready"} \subseteq Statuses
    BY ChipNames
  <1>2. CASE d.state = "Starting"
    <2> DEFINE c == [d EXCEPT !.start = FALSE]
               next == Goto(c, "Syncing", "Starting")
    <2>1. q = HaltOr(d, b, next)
      BY <1>2 DEF ChipTick
    <2>2. ChipLaw(c, b)
      BY DEF ChipLaw, Chips
    <2> HIDE DEF c
    <2>3. ChipLaw(next, b)
      BY <1>1, <2>2, ChipGoes
    <2> HIDE DEF next, q
    <2> QED
      BY <2>1, <2>3, ChipSteady DEF q
  <1>3. CASE d.state = "Syncing"
    <2> DEFINE c == [Written(d) EXCEPT !.last = b.gen]
               done == Goto(c, "Ready", "Ready")
               lends == Lends(b)
               next == Transacts(d, lends, "Ready", answers, done)
    <2>1. q = Steady(d, b, next)
      BY <1>3 DEF ChipTick, Syncing
    <2>2. ChipLaw(c, b)
      <3>1. ChipLaw(Written(d), b) /\ b.gen \in Nat /\ b.gen <= b.gen
        BY ChipChanged DEF Buses
      <3> QED
        BY <3>1 DEF ChipLaw, Chips
    <2> HIDE DEF c, lends
    <2>3. ChipLaw(done, b)
      BY <1>1, <2>2, ChipGoes
    <2> HIDE DEF done
    <2>4. ChipLaw(next, b)
      BY <2>3, ChipTransacts
    <2> HIDE DEF next, q
    <2> QED
      BY <2>1, <2>4, ChipSteady DEF q
  <1>4. CASE d.state = "Ready"
    <2> DEFINE s == IF due THEN "Syncing" ELSE "Ready"
               next == Goto(d, s, "Ready")
    <2>1. q = Steady(d, b, next)
      BY <1>4 DEF ChipTick
    <2>2. s \in ChipPlaces
      BY <1>1
    <2> HIDE DEF s
    <2>3. ChipLaw(next, b)
      BY <1>1, <2>2, ChipGoes
    <2> HIDE DEF next, q
    <2> QED
      BY <2>1, <2>3, ChipSteady DEF q
  <1>5. CASE d.state \notin {"Starting", "Syncing", "Ready"}
    <2>1. q = QuietTick(d, b, due)
      BY <1>5 DEF ChipTick
    <2>2. d.state \in Rest \ {"Starting"}
      BY <1>5 DEF ChipLaw, Chips, ChipPlaces
    <2>3. PICK c \in {d, Forgotten(d)}, s \in Rest, t \in Statuses : QuietTick(d, b, due) = Goto(c, s, t)
      BY <2>2, QuietIs
    <2>4. ChipLaw(c, b) /\ s \in ChipPlaces
      BY <2>3, ChipChanged DEF ChipPlaces
    <2>5. ChipLaw(Goto(c, s, t), b)
      BY <2>4, ChipGoes
    <2> QED
      BY <2>1, <2>3, <2>5
  <1> QED
    BY <1>2, <1>3, <1>4, <1>5

LEMMA ChipAsked ==
  ASSUME NEW b, NEW d, ChipLaw(d, b)
  PROVE  /\ \A statuses : ChipLaw(Refreshed(d, statuses), b)
         /\ ChipLaw(requestReconfigure(d), b) /\ ChipLaw(resetStateMachine(d), b)
         /\ \A enabled \in BOOLEAN : ChipLaw(Asked(d, enabled), b)
  <1>1. "Reconfiguring" \in Statuses /\ "Disabled" \in Statuses /\ "Idle" \in ChipPlaces
    BY ChipNames
  <1>2. ChipLaw(requestReconfigure(d), b)
    BY <1>1 DEF requestReconfigure, ChipLaw, Chips
  <1>3. ChipLaw(requestDisable(d), b)
    BY <1>1 DEF requestDisable, ChipLaw, Chips
  <1>4. \A statuses : ChipLaw(Refreshed(d, statuses), b)
    BY <1>2, <1>3 DEF Refreshed
  <1>5. ChipLaw(resetStateMachine(d), b)
    BY <1>1 DEF resetStateMachine, ChipLaw, Chips
  <1>6. ASSUME NEW enabled \in BOOLEAN PROVE ChipLaw(Asked(d, enabled), b)
    <2> DEFINE q == Asked(d, enabled)
    <2>1. q \in Chips /\ q.last = d.last
      BY <1>1, <1>6 DEF Asked, clearLifecycleRequests, requestReconfigure, requestDisable, ChipLaw, Chips
    <2> HIDE DEF q
    <2>2. ChipLaw(q, b)
      BY <2>1 DEF ChipLaw
    <2> QED
      BY <2>2 DEF q
  <1> QED
    BY <1>2, <1>4, <1>5, <1>6

LEMMA ChipDriven ==
  ASSUME NEW b \in Buses, NEW d, ChipLaw(d, b), NEW v \in BOOLEAN, NEW answers
  PROVE  \A q \in {requestChannelState(d, b, v, answers)} : ChipLaw(q, b)
  <1> DEFINE q == [d EXCEPT !.level = v]
             f == Failed(q, q.status)
             g == [f EXCEPT !.state = q.state]
  <1>1. ChipLaw(q, b)
    BY ChipChanged
  <1>2. requestChannelState(d, b, v, answers) \in {q, Written(q), g}
    BY DEF requestChannelState
  <1> HIDE DEF q
  <1>3. q.errors \in 0..FaultThreshold /\ q.status \in Statuses /\ q.state \in ChipPlaces
    BY <1>1 DEF ChipLaw, Chips
  <1>4. ChipLaw(f, b)
    <2> DEFINE t == q.status
    <2> HIDE DEF t
    <2>1. PICK n \in 0..FaultThreshold, s \in {"Faulted", "RetryBackoff"} : Failed(q, t) = Goto(Erred(q, n), s, t)
      BY <1>3, FailedIs
    <2>2. ChipLaw(Erred(q, n), b) /\ s \in ChipPlaces /\ t \in Statuses
      BY <1>1, <1>3, <2>1, ChipChanged, ChipNames DEF t
    <2>3. ChipLaw(Goto(Erred(q, n), s, t), b)
      BY <2>2, ChipGoes
    <2> QED
      BY <2>1, <2>3 DEF t
  <1> HIDE DEF f
  <1>5. ChipLaw(g, b)
    BY <1>3, <1>4 DEF ChipLaw, Chips
  <1> HIDE DEF g
  <1>6. ChipLaw(Written(q), b)
    BY <1>1, ChipChanged
  <1> QED
    BY <1>1, <1>2, <1>5, <1>6

------------------------------------------------------------------------------
(* The I2C bus with its user. *)
UserLaw(d, b) == ProbeLaw(d, b) \/ ChipLaw(d, b)

I2cInv == bus \in Buses /\ Lawful(bus) /\ UserLaw(user, bus)

(* The kind of a user is fixed, and so is what it can be. *)
LEMMA UserKinds ==
  ASSUME NEW d, NEW b, UserLaw(d, b)
  PROVE  /\ d.kind = "probe" => ProbeLaw(d, b)
         /\ d.kind # "probe" => ChipLaw(d, b) /\ d.state # "ReadPhase"
         /\ d.kind = "chip" => ChipLaw(d, b) /\ d.state # "ReadPhase"
  <1>1. ProbeLaw(d, b) => d.kind = "probe"
    BY DEF ProbeLaw, ProbeFits, Probes
  <1>2. ChipLaw(d, b) => d.kind = "chip" /\ d.state \in ChipPlaces
    BY DEF ChipLaw, Chips
  <1>3. "ReadPhase" \notin ChipPlaces
    BY ChipNames
  <1> QED
    BY <1>1, <1>2, <1>3 DEF UserLaw

(* A user fits its bus whatever becomes of the bus. *)
LEMMA UserMoves ==
  ASSUME NEW b \in Buses, NEW q, Follows(b, q), NEW d
  PROVE  (ProbeLaw(d, b) => ProbeLaw(d, q)) /\ (ChipLaw(d, b) => ChipLaw(d, q))
  <1>1. b.gen \in Nat /\ q.gen \in Nat /\ b.gen <= q.gen
    BY DEF Follows, Buses
  <1>2. d \in Probes \/ d \in Chips => d.last \in Nat
    BY DEF Probes, Chips
  <1> QED
    BY <1>1, <1>2 DEF ProbeLaw, ProbeFits, ChipLaw

LEMMA UserRefreshed ==
  ASSUME NEW b, NEW d, UserLaw(d, b)
  PROVE  \A statuses : UserLaw(Refreshed(d, statuses), b) /\ Refreshed(d, statuses).state = d.state
  <1>1. \A statuses : ProbeLaw(d, b) => ProbeLaw(Refreshed(d, statuses), b)
    BY ProbeAsked
  <1>2. \A statuses : ChipLaw(d, b) => ChipLaw(Refreshed(d, statuses), b)
    BY ChipAsked
  <1>3. \A statuses : Refreshed(d, statuses).state = d.state
    <2>1. d \in Probes \/ d \in Chips
      BY DEF UserLaw, ProbeLaw, ProbeFits, ChipLaw
    <2> QED
      BY <2>1 DEF Refreshed, requestDisable, requestReconfigure, Probes, Chips
  <1> QED
    BY <1>1, <1>2, <1>3 DEF UserLaw

(* What an edit makes of a bus. *)
LEMMA BusEdited ==
  ASSUME NEW b \in Buses, NEW c \in Buses, c.gen = b.gen, Lawful(b), Lawful(c), NEW works \in BOOLEAN
  PROVE  /\ Follows(b, c) /\ Follows(b, resetStateMachine(c)) /\ Follows(b, Asked(c, FALSE))
         /\ Follows(b, BusTick(Asked(c, TRUE), works, FALSE))
  <1>1. Follows(b, c)
    BY DEF Follows
  <1>2. Follows(b, resetStateMachine(c))
    <2> DEFINE q == resetStateMachine(c)
    <2>1. q \in Buses /\ q.gen = c.gen /\ Lawful(q)
      BY BusAsked
    <2> HIDE DEF q
    <2>2. Follows(b, q)
      BY <2>1 DEF Follows
    <2> QED
      BY <2>2 DEF q
  <1>3. \A e \in BOOLEAN : Asked(c, e) \in Buses /\ Asked(c, e).gen = c.gen /\ Lawful(Asked(c, e))
    BY BusAsked
  <1>4. Follows(b, Asked(c, FALSE))
    <2> DEFINE q == Asked(c, FALSE)
    <2>1. q \in Buses /\ q.gen = c.gen /\ Lawful(q)
      BY <1>3
    <2> HIDE DEF q
    <2>2. Follows(b, q)
      BY <2>1 DEF Follows
    <2> QED
      BY <2>2 DEF q
  <1>5. Follows(b, BusTick(Asked(c, TRUE), works, FALSE))
    <2> DEFINE q == Asked(c, TRUE)
               last == FALSE
    <2>1. q \in Buses /\ q.gen = c.gen /\ Lawful(q) /\ last \in BOOLEAN
      BY <1>3
    <2> HIDE DEF q, last
    <2>2. Follows(q, BusTick(q, works, last))
      BY <2>1, BusTicked
    <2>3. Follows(b, BusTick(q, works, last))
      BY <2>1, <2>2 DEF Follows
    <2> QED
      BY <2>3 DEF q, last
  <1> QED
    BY <1>1, <1>2, <1>4, <1>5

LEMMA BusScans ==
  ASSUME NEW b \in Buses, Lawful(b), b.status = "Ready"
  PROVE  Follows(b, [b EXCEPT !.scanning = TRUE, !.state = "Scanning"])
  <1> DEFINE q == [b EXCEPT !.scanning = TRUE, !.state = "Scanning"]
  <1>1. "Scanning" \in BusPlaces
    BY BusNames
  <1>2. q \in Buses /\ q.gen = b.gen /\ q.state = "Scanning" /\ q.status = b.status
    BY <1>1 DEF Buses
  <1> HIDE DEF q
  <1>3. Follows(b, q)
    BY <1>2 DEF Follows, Lawful
  <1> QED
    BY <1>3 DEF q

(* What every step does: the bus follows itself, and the user becomes what   *)
(* it is refreshed from.                                                     *)
LEMMA UserBecomes ==
  ASSUME I2cInv, Follows(bus, bus'), NEW q, UserLaw(q, bus'), RefreshUser(q)
  PROVE  I2cInv' /\ user'.state = q.state
  <1>1. bus' \in Buses /\ Lawful(bus')
    BY DEF I2cInv, Follows
  <1>2. UserLaw(user', bus') /\ user'.state = q.state
    BY UserRefreshed DEF RefreshUser
  <1> QED
    BY <1>1, <1>2 DEF I2cInv, UserLaw, ProbeLaw, ProbeFits, ChipLaw, Lawful

(* A step that does not let the user read what it asked for under another    *)
(* initialization.                                                           *)
Reads == user.state = "ReadPhase" /\ user'.state \in {"Ready", "TriggerPhase"} =>
           user.asked = bus'.gen /\ bus'.driver

LEMMA UserTicked ==
  ASSUME NEW b \in Buses, Lawful(b), NEW d, UserLaw(d, b), NEW due, NEW answers, NEW busy, NEW more
  PROVE  \A q \in {UserTick(d, b, due, answers, busy, more)} :
           UserLaw(q, b) /\ ReadRight(d, q, b, answers) /\ (d.kind = "probe" /\ d.state = "Idle" => q.state \in Rest)
  <1>1. CASE d.kind = "probe"
    <2>1. ProbeLaw(d, b)
      BY <1>1, UserKinds
    <2> QED
      BY <1>1, <2>1, ProbeTicked DEF UserTick, UserLaw
  <1>2. CASE d.kind # "probe"
    <2>1. ChipLaw(d, b) /\ d.state # "ReadPhase"
      BY <1>2, UserKinds
    <2> QED
      BY <1>2, <2>1, ChipTicked DEF UserTick, UserLaw, ReadRight
  <1> QED
    BY <1>1, <1>2

LEMMA BusRoundSteps ==
  ASSUME I2cInv, NEW works \in BOOLEAN, NEW last \in BOOLEAN, NEW due \in BOOLEAN, NEW busy \in BOOLEAN,
         NEW more \in BOOLEAN, BusRound(works, last, due, busy, more)
  PROVE  I2cInv' /\ Reads
  <1> DEFINE seen == IF busFirst THEN bus' ELSE bus
             q == IF user.kind = "chip" THEN user ELSE ProbeTick(user, seen, due, Answers(seen), busy, more)
  <1>1. bus \in Buses /\ Lawful(bus) /\ UserLaw(user, bus) /\ bus' = BusTick(bus, works, last) /\ RefreshUser(q)
    BY DEF I2cInv, BusRound
  <1>2. Follows(bus, bus') /\ bus' \in Buses /\ Lawful(bus')
    <2>1. Follows(bus, BusTick(bus, works, last))
      BY <1>1, BusTicked
    <2> QED
      BY <1>1, <2>1 DEF Follows
  <1>3. /\ seen \in Buses /\ Lawful(seen) /\ UserLaw(user, seen) /\ UserLaw(user, bus')
        /\ \A c : ProbeLaw(c, seen) => ProbeLaw(c, bus')
    <2>1. UserLaw(user, bus')
      BY <1>1, <1>2, UserMoves DEF UserLaw
    <2>2. \A c : ProbeLaw(c, bus) => ProbeLaw(c, bus')
      BY <1>1, <1>2, UserMoves
    <2> QED
      BY <1>1, <1>2, <2>1, <2>2
  <1>4. seen.status = "Ready" /\ Lends(seen) => bus'.gen = seen.gen /\ bus'.driver = seen.driver
    <2>1. CASE seen = bus'
      BY <2>1
    <2>2. CASE seen = bus
      <3> SUFFICES ASSUME bus.status = "Ready", Lends(bus) PROVE bus'.gen = bus.gen /\ bus'.driver = bus.driver
        BY <2>2
      <3> QED
        BY <1>1, BusKeeps
    <2> QED
      BY <2>1, <2>2
  <1> DEFINE answers == Answers(seen)
  <1>5. answers => seen.driver
    BY DEF Answers
  <1>6. user.kind # "chip" => q = ProbeTick(user, seen, due, answers, busy, more)
    OBVIOUS
  <1>7. user.kind = "chip" => q = user
    OBVIOUS
  <1> HIDE DEF seen, q, answers
  <1>8. CASE user.kind = "chip"
    <2>1. I2cInv' /\ user'.state = user.state
      BY <1>1, <1>2, <1>3, <1>7, <1>8, UserBecomes
    <2>2. user.state # "ReadPhase"
      BY <1>1, <1>8, UserKinds
    <2> QED
      BY <2>1, <2>2 DEF Reads
  <1>9. CASE user.kind # "chip"
    <2>1. ProbeLaw(user, seen)
      BY <1>3, <1>9, UserKinds DEF UserLaw, ChipLaw, Chips
    <2>2. ProbeLaw(q, seen) /\ ReadRight(user, q, seen, answers)
      BY <1>3, <1>6, <1>9, <2>1, ProbeTicked
    <2>3. UserLaw(q, bus')
      BY <1>3, <2>2 DEF UserLaw
    <2>4. I2cInv' /\ user'.state = q.state
      BY <1>1, <1>2, <2>3, UserBecomes
    <2> QED
      BY <1>4, <1>5, <2>2, <2>4 DEF Reads, ReadRight
  <1> QED
    BY <1>8, <1>9

LEMMA ChipRoundSteps ==
  ASSUME I2cInv, NEW due \in BOOLEAN, ChipRound(due)
  PROVE  I2cInv' /\ Reads
  <1> DEFINE q == ChipTick(user, bus, due, Answers(bus))
  <1>1. bus \in Buses /\ Lawful(bus) /\ bus' = bus /\ ChipLaw(user, bus) /\ user.state # "ReadPhase" /\ RefreshUser(q)
    BY UserKinds DEF I2cInv, ChipRound
  <1>2. UserLaw(q, bus)
    <2> DEFINE answers == Answers(bus)
    <2> HIDE DEF answers
    <2>1. ChipLaw(ChipTick(user, bus, due, answers), bus)
      BY <1>1, ChipTicked
    <2> QED
      BY <2>1 DEF answers, UserLaw
  <1> HIDE DEF q
  <1>3. Follows(bus, bus')
    BY <1>1 DEF Follows
  <1>4. I2cInv'
    BY <1>1, <1>2, <1>3, UserBecomes
  <1> QED
    BY <1>1, <1>4 DEF Reads

LEMMA EditBusSteps ==
  ASSUME I2cInv, NEW enabled \in BOOLEAN, NEW rewired \in BOOLEAN, NEW works \in BOOLEAN,
         EditBus(enabled, rewired, works)
  PROVE  I2cInv' /\ Reads
  <1> DEFINE c == releaseHardware(bus)
             b == IF rewired THEN resetStateMachine(c) ELSE bus
             q == requestReconfigure(user)
  <1>1. /\ bus \in Buses /\ Lawful(bus) /\ UserLaw(user, bus) /\ RefreshUser(q)
        /\ bus' \in {b, BusTick(Asked(b, TRUE), works, FALSE), Asked(b, FALSE)}
    BY DEF I2cInv, EditBus
  <1>2. c \in Buses /\ c.gen = bus.gen /\ Lawful(c)
    BY <1>1, BusReleased DEF Lawful
  <1> HIDE DEF c
  <1>3. Follows(bus, b)
    <2>1. Follows(bus, resetStateMachine(c)) /\ Follows(bus, bus)
      BY <1>1, <1>2, BusEdited
    <2> QED
      BY <2>1
  <1>4. b \in Buses /\ b.gen = bus.gen /\ Lawful(b)
    <2>1. resetStateMachine(c).gen = c.gen
      BY <1>2, BusAsked
    <2> QED
      BY <1>1, <1>2, <1>3, <2>1 DEF Follows
  <1> HIDE DEF b
  <1>5. Follows(bus, bus')
    BY <1>1, <1>4, BusEdited
  <1>6. UserLaw(q, bus') /\ q.state = user.state
    <2>1. UserLaw(user, bus')
      BY <1>1, <1>5, UserMoves DEF UserLaw
    <2>2. UserLaw(q, bus')
      BY <2>1, ProbeAsked, ChipAsked DEF UserLaw
    <2>3. user \in Probes \/ user \in Chips
      BY <2>1 DEF UserLaw, ProbeLaw, ProbeFits, ChipLaw
    <2>4. q.state = user.state
      BY <2>3 DEF requestReconfigure, Probes, Chips
    <2> QED
      BY <2>2, <2>4
  <1> HIDE DEF q
  <1>7. I2cInv' /\ user'.state = user.state
    BY <1>1, <1>5, <1>6, UserBecomes
  <1> QED
    BY <1>7 DEF Reads

LEMMA UserAsked ==
  ASSUME NEW b, NEW d, UserLaw(d, b)
  PROVE  /\ UserLaw(resetStateMachine(d), b) /\ resetStateMachine(d).kind = d.kind /\ resetStateMachine(d).state = "Idle"
         /\ \A enabled \in BOOLEAN : /\ UserLaw(Asked(d, enabled), b) /\ Asked(d, enabled).kind = d.kind
                                     /\ Asked(d, enabled).state = d.state
                                     /\ d.kind = "probe" => Asked(d, enabled).asked = d.asked
  <1>1. UserLaw(resetStateMachine(d), b) /\ \A enabled \in BOOLEAN : UserLaw(Asked(d, enabled), b)
    BY ProbeAsked, ChipAsked DEF UserLaw
  <1>2. d \in Probes \/ d \in Chips
    BY DEF UserLaw, ProbeLaw, ProbeFits, ChipLaw
  <1>3. resetStateMachine(d).kind = d.kind /\ resetStateMachine(d).state = "Idle"
    BY <1>2 DEF resetStateMachine, Probes, Chips
  <1>4. \A enabled \in BOOLEAN : Asked(d, enabled).kind = d.kind /\ Asked(d, enabled).state = d.state
    BY <1>2 DEF Asked, clearLifecycleRequests, requestReconfigure, requestDisable, Probes, Chips
  <1>5. ASSUME d.kind = "probe" PROVE \A enabled \in BOOLEAN : Asked(d, enabled).asked = d.asked
    BY <1>5, UserKinds, ProbeAsked
  <1> QED
    BY <1>1, <1>3, <1>4, <1>5

LEMMA EditUserSteps ==
  ASSUME I2cInv, NEW enabled \in BOOLEAN, NEW readdressed \in BOOLEAN, EditUser(enabled, readdressed)
  PROVE  I2cInv' /\ Reads
  <1> DEFINE d == IF readdressed THEN resetStateMachine(user) ELSE user
             on == Asked(d, TRUE)
             off == Asked(d, FALSE)
             answers == Answers(bus)
             t == UserTick(on, bus, TRUE, answers, FALSE, FALSE)
             q == IF enabled = user.enabled THEN d ELSE IF enabled THEN t ELSE off
  <1>1. bus \in Buses /\ Lawful(bus) /\ UserLaw(user, bus) /\ RefreshUser(q) /\ bus' = bus
    BY DEF I2cInv, EditUser
  <1>2. /\ UserLaw(d, bus) /\ d.kind = user.kind
        /\ d = user \/ d.state = "Idle"
    BY <1>1, UserAsked
  <1>3. q \in {d, t, off} /\ (answers => bus.driver)
    BY DEF Answers
  <1> HIDE DEF d, answers
  <1>4. /\ UserLaw(off, bus) /\ off.state = d.state
        /\ UserLaw(on, bus) /\ on.kind = d.kind /\ on.state = d.state /\ (d.kind = "probe" => on.asked = d.asked)
    BY <1>2, UserAsked
  <1> HIDE DEF on, off
  <1>5. UserLaw(t, bus) /\ ReadRight(on, t, bus, answers) /\ (on.kind = "probe" /\ on.state = "Idle" => t.state \in Rest)
    BY <1>1, <1>4, UserTicked
  <1> HIDE DEF t, q
  <1>6. Follows(bus, bus') /\ UserLaw(q, bus')
    BY <1>1, <1>2, <1>3, <1>4, <1>5 DEF Follows
  <1>7. I2cInv' /\ user'.state = q.state
    BY <1>1, <1>6, UserBecomes
  <1>8. Reads
    <2> SUFFICES ASSUME user.state = "ReadPhase", q.state \in {"Ready", "TriggerPhase"}
                 PROVE  user.asked = bus.gen /\ bus.driver
      BY <1>1, <1>7 DEF Reads
    <2>1. user.kind = "probe"
      BY <1>1, UserKinds
    <2>2. d.state \in {"ReadPhase", "Idle"}
      BY <1>2
    <2>3. q = t
      BY <1>3, <1>4, <2>2
    <2>4. d.state = "ReadPhase"
      BY <1>2, <1>4, <1>5, <2>1, <2>2, <2>3 DEF Rest
    <2>5. d = user
      BY <1>2, <2>4
    <2> QED
      BY <1>3, <1>4, <1>5, <2>1, <2>3, <2>5 DEF ReadRight
  <1> QED
    BY <1>7, <1>8

LEMMA OtherBusSteps ==
  ASSUME I2cInv, startScan \/ WireChanges \/ \E v \in BOOLEAN : DriveChannel(v)
  PROVE  I2cInv' /\ Reads
  <1>1. bus \in Buses /\ Lawful(bus) /\ UserLaw(user, bus)
    BY DEF I2cInv
  <1>2. CASE startScan
    <2>1. bus' = [bus EXCEPT !.scanning = TRUE, !.state = "Scanning"] /\ bus.status = "Ready" /\ RefreshUser(user)
      BY <1>2 DEF startScan
    <2>2. Follows(bus, bus')
      BY <1>1, <2>1, BusScans
    <2>3. UserLaw(user, bus')
      BY <1>1, <2>2, UserMoves DEF UserLaw
    <2>4. I2cInv' /\ user'.state = user.state
      BY <2>1, <2>2, <2>3, UserBecomes
    <2> QED
      BY <2>4 DEF Reads
  <1>3. ASSUME NEW v \in BOOLEAN, DriveChannel(v) PROVE I2cInv' /\ Reads
    <2> DEFINE answers == Answers(bus)
    <2>1. user.kind = "chip" /\ user' = requestChannelState(user, bus, v, answers) /\ bus' = bus
      BY <1>3 DEF DriveChannel
    <2> HIDE DEF answers
    <2>2. ChipLaw(user, bus) /\ user.state # "ReadPhase"
      BY <1>1, <2>1, UserKinds
    <2>3. ChipLaw(user', bus)
      BY <1>1, <2>1, <2>2, ChipDriven
    <2> QED
      BY <1>1, <2>1, <2>2, <2>3 DEF Reads, I2cInv, UserLaw, ChipLaw
  <1>4. CASE WireChanges
    <2>1. PICK v \in BOOLEAN : user' = IF user.kind = "chip" THEN [user EXCEPT !.pin = v] ELSE user
      BY <1>4 DEF WireChanges
    <2>2. bus' = bus
      BY <1>4 DEF WireChanges
    <2>3. CASE user.kind = "chip"
      <3>1. ChipLaw(user, bus) /\ user.state # "ReadPhase"
        BY <1>1, <2>3, UserKinds
      <3>2. ChipLaw([user EXCEPT !.pin = v], bus)
        BY <1>1, <3>1, ChipChanged
      <3> QED
        BY <1>1, <2>1, <2>2, <2>3, <3>1, <3>2 DEF Reads, I2cInv, UserLaw, ChipLaw
    <2>4. CASE user.kind # "chip"
      BY <1>1, <2>1, <2>2, <2>4 DEF Reads, I2cInv
    <2> QED
      BY <2>3, <2>4
  <1> QED
    BY <1>2, <1>3, <1>4

LEMMA FreshUserIs ==
  ASSUME NEW enabled \in BOOLEAN, NEW b \in Buses
  PROVE  ProbeLaw(FreshProbe(enabled), b) /\ ChipLaw(FreshChip(enabled), b)
  <1> DEFINE p == [state |-> "Idle", status |-> "Creating", start |-> TRUE, reconf |-> FALSE, disable |-> FALSE,
                   fault |-> FALSE, enabled |-> enabled, kind |-> "probe", last |-> 0, errors |-> 0,
                   shown |-> FALSE, asked |-> 0]
             c == [state |-> "Idle", status |-> "Creating", start |-> TRUE, reconf |-> FALSE, disable |-> FALSE,
                   fault |-> FALSE, enabled |-> enabled, kind |-> "chip", last |-> 0, errors |-> 0,
                   level |-> FALSE, pin |-> TRUE]
  <1>1. /\ 0 \in 0..FaultThreshold /\ 0 <= b.gen
        /\ "Idle" \in ChipPlaces /\ "Creating" \in Statuses /\ "Disabled" \in Statuses
    BY UserAssumption, ChipNames DEF Buses
  <1>2. "Idle" \in ProbePlaces /\ {"Starting", "Disabled"} \subseteq Rest /\ {"Starting", "Disabled"} \subseteq ChipPlaces
    BY DEF Rest, ProbePlaces, ChipPlaces
  <1>3. ProbeFits(p, b) /\ p.start
    BY <1>1, <1>2 DEF ProbeFits, Probes
  <1>4. ChipLaw(c, b) /\ c.start
    BY <1>1 DEF ChipLaw, Chips
  <1>5. FreshProbe(enabled) \in {Goto(p, "Disabled", "Disabled"), Goto(p, "Starting", "Creating")}
    BY DEF FreshProbe, IdleTick, SwitchedOff, Goto
  <1>6. FreshChip(enabled) \in {Goto(c, "Disabled", "Disabled"), Goto(c, "Starting", "Creating")}
    BY DEF FreshChip, IdleTick, SwitchedOff, Goto
  <1> HIDE DEF p, c
  <1>7. ProbeLaw(Goto(p, "Disabled", "Disabled"), b) /\ ProbeLaw(Goto(p, "Starting", "Creating"), b)
    BY <1>1, <1>2, <1>3, ProbeRests
  <1>8. ChipLaw(Goto(c, "Disabled", "Disabled"), b) /\ ChipLaw(Goto(c, "Starting", "Creating"), b)
    BY <1>1, <1>2, <1>4, ChipGoes
  <1> QED
    BY <1>5, <1>6, <1>7, <1>8

LEMMA BusInitial == BusInit => I2cInv
  <1> SUFFICES ASSUME BusInit PROVE I2cInv
    OBVIOUS
  <1>1. bus = FreshBus /\ \E enabled \in BOOLEAN : user \in {FreshProbe(enabled), FreshChip(enabled)}
    BY DEF BusInit
  <1> QED
    BY <1>1, FreshBusIs, FreshUserIs DEF I2cInv, UserLaw

LEMMA BusInductive == I2cInv /\ [BusNext]_busVars => I2cInv' /\ (BusNext => Reads)
  <1> SUFFICES ASSUME I2cInv, [BusNext]_busVars PROVE I2cInv' /\ (BusNext => Reads)
    OBVIOUS
  <1>1. ASSUME NEW works \in BOOLEAN, NEW last \in BOOLEAN, NEW due \in BOOLEAN, NEW busy \in BOOLEAN,
               NEW more \in BOOLEAN, BusRound(works, last, due, busy, more)
        PROVE  I2cInv' /\ Reads
    BY <1>1, BusRoundSteps
  <1>2. ASSUME NEW due \in BOOLEAN, ChipRound(due) PROVE I2cInv' /\ Reads
    BY <1>2, ChipRoundSteps
  <1>3. ASSUME NEW enabled \in BOOLEAN, NEW changed \in BOOLEAN, EditUser(enabled, changed) PROVE I2cInv' /\ Reads
    BY <1>3, EditUserSteps
  <1>4. ASSUME NEW enabled \in BOOLEAN, NEW changed \in BOOLEAN, NEW works \in BOOLEAN, EditBus(enabled, changed, works)
        PROVE  I2cInv' /\ Reads
    BY <1>4, EditBusSteps
  <1>5. ASSUME startScan \/ WireChanges \/ \E v \in BOOLEAN : DriveChannel(v) PROVE I2cInv' /\ Reads
    BY <1>5, OtherBusSteps
  <1>6. BusNext => I2cInv' /\ Reads
    BY <1>1, <1>2, <1>3, <1>4, <1>5 DEF BusNext
  <1>7. CASE UNCHANGED busVars
    <2>1. I2cInv'
      BY <1>7 DEF busVars, I2cInv, UserLaw, ProbeLaw, ProbeFits, ChipLaw, Lawful
    <2> QED
      BY <1>6, <2>1
  <1> QED
    BY <1>6, <1>7

LEMMA BusTyped == I2cInv => BusTypeOK
  <1> SUFFICES ASSUME I2cInv PROVE BusTypeOK
    OBVIOUS
  <1>1. bus \in Buses /\ UserLaw(user, bus)
    BY DEF I2cInv
  <1>2. BusPlaces \subseteq BusStates /\ ProbePlaces \subseteq UserStates /\ ChipPlaces \subseteq UserStates
    BY DEF BusPlaces, BusStates, ProbePlaces, ChipPlaces, Rest, UserStates, States
  <1>3. user \in Probes \cup Chips /\ user.last <= bus.gen
    BY <1>1 DEF UserLaw, ProbeLaw, ProbeFits, ChipLaw
  <1>4. user.state \in ProbePlaces \cup ChipPlaces /\ user.status \in Statuses /\ user.errors \in 0..FaultThreshold
        /\ user.last \in Nat
    BY <1>3 DEF Probes, Chips
  <1>5. bus.gen \in Nat /\ bus.state \in BusPlaces /\ bus.status \in Statuses
    BY <1>1 DEF Buses
  <1>6. user.last \in 0..bus.gen
    BY <1>3, <1>4, <1>5
  <1> QED
    BY <1>2, <1>4, <1>5, <1>6 DEF BusTypeOK

(* BusTypeOK: the bus and its user are what the code says they are; the      *)
(* generation a user was set up under is one the bus has had.                *)
THEOREM BusTypeCorrect == BusSpec => []BusTypeOK
  <1>1. I2cInv /\ [BusNext]_busVars => I2cInv'
    BY BusInductive
  <1> QED
    BY <1>1, BusInitial, BusTyped, PTL DEF BusSpec

(* ReadsWhatItAsked: a sensor on an I2C bus reads a result only under the    *)
(* initialization of the bus under which it has triggered the measurement,   *)
(* however ticks, edits, scans and errors fall between.                      *)
THEOREM ReadsAsked == BusSpec => ReadsWhatItAsked
  <1>1. I2cInv /\ [BusNext]_busVars => I2cInv'
    BY BusInductive
  <1>2. I2cInv /\ [BusNext]_busVars =>
          [user.state = "ReadPhase" /\ user'.state \in {"Ready", "TriggerPhase"} =>
             user.asked = bus'.gen /\ bus'.driver]_busVars
    BY BusInductive DEF Reads
  <1> QED
    BY <1>1, <1>2, BusInitial, PTL DEF BusSpec, ReadsWhatItAsked

------------------------------------------------------------------------------
(* The sensor on a OneWire bus. *)
DsPlaces ==
  Rest \cup {"Ready", "PowerUpDelay", "ConfigureSensor", "RequestConversion", "WaitConversion", "ReadScratchpad"}

DsSensors ==
  [state : DsPlaces, status : Statuses, start : BOOLEAN, reconf : BOOLEAN, disable : BOOLEAN, fault : BOOLEAN,
   enabled : BOOLEAN, last : Nat, errors : 0..FaultThreshold, shown : BOOLEAN, asked : Nat]

DsFits(d, b) == d \in DsSensors /\ d.last <= b.gen

(* A sensor that has been configured has been so under some initialization   *)
(* of the bus, and the conversion it waits for was asked for under that one. *)
DsLaw(d, b) ==
  /\ DsFits(d, b)
  /\ d.state \in {"RequestConversion", "WaitConversion", "ReadScratchpad", "Ready"} => d.last # 0
  /\ d.state \in {"WaitConversion", "ReadScratchpad"} => d.asked = d.last

(* The states that ask nothing of the sensor under an initialization. *)
DsCalm == Rest \cup {"PowerUpDelay", "ConfigureSensor"}

LEMMA DsNames ==
  /\ Rest \subseteq DsCalm /\ DsCalm \subseteq DsPlaces
  /\ {"PowerUpDelay", "ConfigureSensor"} \subseteq DsCalm
  /\ {"RequestConversion", "WaitConversion", "ReadScratchpad", "Ready"} \subseteq DsPlaces
  /\ {"Disabled", "DependencyBlocked", "Reconfiguring", "Faulted", "RetryBackoff", "Starting", "Idle"} = Rest
  /\ {"Starting", "Disabled", "DependencyBlocked", "Reconfiguring", "Faulted", "Ready", "Creating"} = Statuses
  /\ \A s \in DsCalm : s \notin {"RequestConversion", "WaitConversion", "ReadScratchpad", "Ready"}
  BY DEF Rest, DsCalm, DsPlaces, Statuses

LEMMA DsRests ==
  ASSUME NEW b, NEW c, DsFits(c, b), NEW s \in DsCalm, NEW t \in Statuses
  PROVE  DsLaw(Goto(c, s, t), b) /\ Goto(c, s, t).state = s
  <1>1. s \in DsPlaces /\ s \notin {"RequestConversion", "WaitConversion", "ReadScratchpad", "Ready"}
    BY DsNames
  <1> QED
    BY <1>1 DEF DsLaw, DsFits, DsSensors, Goto

LEMMA DsErrs ==
  ASSUME NEW b \in Buses, NEW d, DsFits(d, b)
  PROVE  DsFits(Forgotten(d), b) /\ \A n \in 0..FaultThreshold : DsFits(Erred(d, n), b)
  <1>1. 0 \in 0..FaultThreshold /\ 0 <= b.gen
    BY UserAssumption DEF Buses
  <1>2. DsFits(Forgotten(d), b)
    BY <1>1 DEF DsFits, DsSensors, Forgotten
  <1>3. \A n \in 0..FaultThreshold : DsFits(Erred(d, n), b)
    BY DEF DsFits, DsSensors, Erred
  <1> QED
    BY <1>2, <1>3

LEMMA DsGoesOn ==
  ASSUME NEW b, NEW d, DsLaw(d, b), d.last # 0, NEW s \in {"RequestConversion", "WaitConversion", "ReadScratchpad", "Ready"},
         s \in {"WaitConversion", "ReadScratchpad"} => d.asked = d.last, NEW t \in {"Starting", "Ready"}
  PROVE  DsLaw(Goto(d, s, t), b)
  <1>1. s \in DsPlaces /\ t \in Statuses
    BY DsNames
  <1> QED
    BY <1>1 DEF DsLaw, DsFits, DsSensors, Goto

LEMMA DsTransacts ==
  ASSUME NEW b \in Buses, NEW d, DsFits(d, b), NEW lends, NEW t \in Statuses, NEW answers, NEW done
  PROVE  \/ DsLaw(Transacts(d, lends, t, answers, done), b) /\ Transacts(d, lends, t, answers, done).state \in Rest
         \/ lends /\ answers /\ Transacts(d, lends, t, answers, done) = done
  <1>1. d.errors \in 0..FaultThreshold
    BY DEF DsFits, DsSensors
  <1>2. CASE \E c \in {d} \cup {Erred(d, n) : n \in 0..FaultThreshold}, s \in {"Faulted", "RetryBackoff"} :
               Transacts(d, lends, t, answers, done) = Goto(c, s, t)
    <2>1. PICK c \in {d} \cup {Erred(d, n) : n \in 0..FaultThreshold}, s \in {"Faulted", "RetryBackoff"} :
               Transacts(d, lends, t, answers, done) = Goto(c, s, t)
      BY <1>2
    <2>2. DsFits(c, b) /\ s \in Rest /\ s \in DsCalm
      BY <2>1, DsErrs, DsNames
    <2>3. DsLaw(Goto(c, s, t), b) /\ Goto(c, s, t).state = s
      BY <2>2, DsRests
    <2> QED
      BY <2>1, <2>2, <2>3
  <1>3. CASE lends /\ answers /\ Transacts(d, lends, t, answers, done) = done
    BY <1>3
  <1> QED
    BY <1>1, <1>2, <1>3, TransactsIs

(* A state that looks at its own requests, its bus and a twin first. *)
Stopping(q, b) == DsLaw(q, b) /\ q.state \in Rest

LEMMA DsStops ==
  ASSUME NEW b, NEW d, DsFits(d, b)
  PROVE  \A s \in {"Disabled", "DependencyBlocked", "Reconfiguring", "Faulted"} : Stopping(Goto(d, s, s), b)
  <1>1. \A s \in {"Disabled", "DependencyBlocked", "Reconfiguring", "Faulted"} : s \in DsCalm /\ s \in Rest /\ s \in Statuses
    BY DsNames
  <1> QED
    BY <1>1, DsRests DEF Stopping

LEMMA DsSteadyIs ==
  ASSUME NEW b, NEW d, DsFits(d, b), NEW next
  PROVE  \A q \in {DsSteady(d, b, next)} :
           Stopping(q, b) \/ (b.status = "Ready" /\ ~Superseded(d, b) /\ ~twin /\ q = next)
  <1> DEFINE go == OrTwin(d, next)
             q == Steady(d, b, go)
  <1>1. DsSteady(d, b, next) = q
    BY DEF DsSteady
  <1>2. Stopping(go, b) \/ (~twin /\ go = next)
    BY DsStops DEF OrTwin
  <1> HIDE DEF go
  <1>3. \/ \E s \in {"Disabled", "DependencyBlocked", "Reconfiguring"} : q = Goto(d, s, s)
        \/ q = go /\ b.status = "Ready" /\ ~Superseded(d, b)
    BY SteadyOrIs
  <1> HIDE DEF q
  <1>4. Stopping(q, b) \/ (b.status = "Ready" /\ ~Superseded(d, b) /\ ~twin /\ q = next)
    BY <1>2, <1>3, DsStops
  <1> QED
    BY <1>1, <1>4

LEMMA DsHaltOrIs ==
  ASSUME NEW b, NEW d, DsFits(d, b), NEW next
  PROVE  \A q \in {HaltOr(d, b, OrTwin(d, next))} : Stopping(q, b) \/ (b.status = "Ready" /\ q = next)
  <1> DEFINE go == OrTwin(d, next)
             q == HaltOr(d, b, go)
  <1>1. Stopping(go, b) \/ go = next
    BY DsStops DEF OrTwin
  <1> HIDE DEF go
  <1>2. \/ \E s \in {"Disabled", "DependencyBlocked"} : q = Goto(d, s, s)
        \/ q = go /\ b.status = "Ready"
    BY HaltOrIs
  <1> HIDE DEF q
  <1>3. Stopping(q, b) \/ (b.status = "Ready" /\ q = next)
    BY <1>1, <1>2, DsStops
  <1> QED
    BY <1>3 DEF q, go

(* What a tick makes of a sensor: in order, and if it has read a result, that *)
(* is of a conversion asked for under the bus as it is, with no twin.        *)
DsRead(d, q, b) ==
  d.state = "ReadScratchpad" /\ q.state = "Ready" =>
    d.asked = b.gen /\ b.status = "Ready" /\ LendsWire(b) /\ ~twin

LEMMA DsReads ==
  ASSUME NEW b \in Buses, NEW d, DsLaw(d, b), d.state = "ReadScratchpad", NEW answers
  PROVE  \A q \in {ReadScratchpad(d, b, answers)} : DsLaw(q, b) /\ DsRead(d, q, b)
  <1> DEFINE c == [d EXCEPT !.shown = TRUE, !.errors = 0]
             done == Goto(c, "Ready", "Ready")
             lends == LendsWire(b)
             t == "Ready"
             try == Transacts(d, lends, t, answers, done)
             q == ReadScratchpad(d, b, answers)
  <1>1. d.last # 0 /\ d.asked = d.last /\ DsFits(d, b)
    BY DEF DsLaw
  <1>2. q = DsSteady(d, b, try)
    BY DEF ReadScratchpad
  <1>3. DsLaw(done, b)
    <2>1. 0 \in 0..FaultThreshold
      BY UserAssumption
    <2>2. DsLaw(c, b) /\ c.last # 0
      BY <1>1, <2>1 DEF DsLaw, DsFits, DsSensors
    <2> HIDE DEF c
    <2> QED
      BY <2>2, DsGoesOn
  <1>4. t \in Statuses
    BY DsNames
  <1> HIDE DEF done, lends, t
  <1>5. (DsLaw(try, b) /\ try.state \in Rest) \/ (lends /\ answers /\ try = done)
    BY <1>1, <1>4, DsTransacts
  <1> HIDE DEF try
  <1>6. Stopping(q, b) \/ (b.status = "Ready" /\ ~Superseded(d, b) /\ ~twin /\ q = try)
    BY <1>1, <1>2, DsSteadyIs
  <1> HIDE DEF q
  <1>7. ~Superseded(d, b) => b.gen = d.asked
    BY <1>1 DEF Superseded
  <1>8. "Ready" \notin Rest
    BY DEF Rest
  <1>9. DsLaw(q, b) /\ DsRead(d, q, b)
    BY <1>3, <1>5, <1>6, <1>7, <1>8 DEF DsRead, Stopping, lends
  <1> QED
    BY <1>9 DEF q

LEMMA DsRequests ==
  ASSUME NEW b \in Buses, NEW d, DsLaw(d, b), d.state = "RequestConversion", NEW answers
  PROVE  \A q \in {RequestConversion(d, b, answers)} : DsLaw(q, b)
  <1> DEFINE c == [d EXCEPT !.asked = b.gen]
             done == Goto(c, "WaitConversion", "Ready")
             lends == LendsWire(b)
             t == "Ready"
             try == Transacts(d, lends, t, answers, done)
             q == RequestConversion(d, b, answers)
  <1>1. DsFits(d, b) /\ d.last # 0 /\ b.gen \in Nat
    BY DEF DsLaw, Buses
  <1>2. q = DsSteady(d, b, try)
    BY DEF RequestConversion
  <1>3. ~Superseded(d, b) => DsLaw(done, b)
    <2> SUFFICES ASSUME ~Superseded(d, b) PROVE DsLaw(done, b)
      OBVIOUS
    <2>1. b.gen = d.last
      BY <1>1 DEF Superseded
    <2>2. DsLaw(c, b) /\ c.asked = c.last /\ c.last # 0
      BY <1>1, <2>1 DEF DsLaw, DsFits, DsSensors
    <2> HIDE DEF c
    <2> QED
      BY <2>2, DsGoesOn
  <1>4. t \in Statuses
    BY DsNames
  <1> HIDE DEF done, lends, t
  <1>5. (DsLaw(try, b) /\ try.state \in Rest) \/ try = done
    BY <1>1, <1>4, DsTransacts
  <1> HIDE DEF try
  <1>6. Stopping(q, b) \/ (b.status = "Ready" /\ ~Superseded(d, b) /\ ~twin /\ q = try)
    BY <1>1, <1>2, DsSteadyIs
  <1> HIDE DEF q
  <1>7. DsLaw(q, b)
    BY <1>3, <1>5, <1>6 DEF Stopping
  <1> QED
    BY <1>7 DEF q

LEMMA DsConfigures ==
  ASSUME NEW b \in Buses, Lawful(b), NEW d, DsLaw(d, b), NEW answers
  PROVE  \A q \in {ConfigureSensor(d, b, answers)} : DsLaw(q, b)
  <1> DEFINE c == [d EXCEPT !.last = b.gen, !.errors = 0]
             done == Goto(c, "RequestConversion", "Starting")
             lends == LendsWire(b)
             t == "Starting"
             try == Transacts(d, lends, t, answers, done)
             q == ConfigureSensor(d, b, answers)
  <1>1. DsFits(d, b)
    BY DEF DsLaw
  <1>2. q = HaltOr(d, b, OrTwin(d, try))
    BY DEF ConfigureSensor
  <1>3. b.status = "Ready" => DsLaw(done, b)
    <2> SUFFICES ASSUME b.status = "Ready" PROVE DsLaw(done, b)
      OBVIOUS
    <2>1. b.gen # 0 /\ b.gen \in Nat /\ b.gen <= b.gen /\ 0 \in 0..FaultThreshold
      BY UserAssumption DEF Lawful, Buses
    <2>2. c \in DsSensors /\ c.last = b.gen
      BY <1>1, <2>1 DEF DsFits, DsSensors
    <2> HIDE DEF c
    <2> QED
      BY <2>1, <2>2, DsNames DEF DsLaw, DsFits, DsSensors, Goto
  <1>4. t \in Statuses
    BY DsNames
  <1> HIDE DEF done, lends, t
  <1>5. (DsLaw(try, b) /\ try.state \in Rest) \/ try = done
    BY <1>1, <1>4, DsTransacts
  <1> HIDE DEF try
  <1>6. Stopping(q, b) \/ (b.status = "Ready" /\ q = try)
    BY <1>1, <1>2, DsHaltOrIs
  <1> HIDE DEF q
  <1>7. DsLaw(q, b)
    BY <1>3, <1>5, <1>6 DEF Stopping
  <1> QED
    BY <1>7 DEF q

(* The states in which the sensor only waits, or starts over. *)
LEMMA DsBegins ==
  ASSUME NEW b \in Buses, NEW d, DsLaw(d, b), NEW due
  PROVE  \A q \in {DsStarting(d, b), PowerUpDelay(d, b, due), DsReconfiguring(d, b)} : DsLaw(q, b)
  <1>1. DsFits(d, b) /\ 0 \in 0..FaultThreshold /\ 0 <= b.gen
    BY UserAssumption DEF DsLaw, Buses
  <1>2. {"PowerUpDelay", "ConfigureSensor", "Starting"} \subseteq DsCalm /\ {"Starting", "Reconfiguring"} \subseteq Statuses
    BY DsNames DEF DsCalm, Rest
  <1>3. DsLaw(DsStarting(d, b), b)
    <2> DEFINE c == [d EXCEPT !.start = FALSE]
               next == Goto(c, "PowerUpDelay", "Starting")
               q == HaltOr(d, b, OrTwin(d, next))
    <2>1. DsFits(c, b)
      BY <1>1 DEF DsFits, DsSensors
    <2> HIDE DEF c
    <2>2. DsLaw(next, b)
      BY <1>2, <2>1, DsRests
    <2>3. DsStarting(d, b) = q
      BY DEF DsStarting, c
    <2> HIDE DEF next
    <2>4. Stopping(q, b) \/ q = next
      BY <1>1, DsHaltOrIs
    <2> HIDE DEF q
    <2> QED
      BY <2>2, <2>3, <2>4 DEF Stopping
  <1>4. DsLaw(PowerUpDelay(d, b, due), b)
    <2> DEFINE s == IF due THEN "ConfigureSensor" ELSE "PowerUpDelay"
               next == Goto(d, s, "Starting")
               q == HaltOr(d, b, OrTwin(d, next))
    <2>1. PowerUpDelay(d, b, due) = q
      BY DEF PowerUpDelay
    <2>2. s \in DsCalm
      BY <1>2
    <2> HIDE DEF s
    <2>3. DsLaw(next, b)
      BY <1>1, <1>2, <2>2, DsRests
    <2> HIDE DEF next
    <2>4. Stopping(q, b) \/ q = next
      BY <1>1, DsHaltOrIs
    <2> HIDE DEF q
    <2> QED
      BY <2>1, <2>3, <2>4 DEF Stopping
  <1>5. DsLaw(DsReconfiguring(d, b), b)
    <2> DEFINE c == [d EXCEPT !.reconf = FALSE, !.last = 0, !.errors = 0]
               next == Goto(c, "Starting", "Reconfiguring")
               q == HaltOr(c, b, OrTwin(c, next))
    <2>1. DsFits(c, b)
      BY <1>1 DEF DsFits, DsSensors
    <2>2. DsReconfiguring(d, b) = q
      BY DEF DsReconfiguring
    <2> HIDE DEF c
    <2>3. DsLaw(next, b)
      BY <1>2, <2>1, DsRests
    <2> HIDE DEF next
    <2>4. Stopping(q, b) \/ q = next
      BY <2>1, DsHaltOrIs
    <2> HIDE DEF q
    <2> QED
      BY <2>2, <2>3, <2>4 DEF Stopping
  <1> QED
    BY <1>3, <1>4, <1>5

LEMMA DsContinues ==
  ASSUME NEW b \in Buses, NEW d, DsLaw(d, b), NEW due
  PROVE  /\ d.state = "WaitConversion" => DsLaw(WaitConversion(d, b, due), b)
         /\ d.state = "Ready" => DsLaw(DsSteady(d, b, Goto(d, IF due THEN "RequestConversion" ELSE "Ready", "Ready")), b)
  <1>1. DsFits(d, b)
    BY DEF DsLaw
  <1>2. ASSUME d.state = "WaitConversion" PROVE DsLaw(WaitConversion(d, b, due), b)
    <2> DEFINE s == IF due THEN "ReadScratchpad" ELSE "WaitConversion"
               next == Goto(d, s, "Ready")
               q == DsSteady(d, b, next)
    <2>1. WaitConversion(d, b, due) = q
      BY DEF WaitConversion
    <2>2. d.last # 0 /\ d.asked = d.last /\ s \in {"ReadScratchpad", "WaitConversion"}
      BY <1>2 DEF DsLaw
    <2> HIDE DEF s
    <2>3. DsLaw(next, b)
      BY <2>2, DsGoesOn
    <2> HIDE DEF next
    <2>4. Stopping(q, b) \/ q = next
      BY <1>1, DsSteadyIs
    <2> HIDE DEF q
    <2> QED
      BY <2>1, <2>3, <2>4 DEF Stopping
  <1>3. ASSUME d.state = "Ready"
        PROVE  DsLaw(DsSteady(d, b, Goto(d, IF due THEN "RequestConversion" ELSE "Ready", "Ready")), b)
    <2> DEFINE s == IF due THEN "RequestConversion" ELSE "Ready"
               next == Goto(d, s, "Ready")
               q == DsSteady(d, b, next)
    <2>1. d.last # 0 /\ s \in {"RequestConversion", "Ready"}
      BY <1>3 DEF DsLaw
    <2> HIDE DEF s
    <2>2. DsLaw(next, b)
      BY <2>1, DsGoesOn
    <2> HIDE DEF next
    <2>3. Stopping(q, b) \/ q = next
      BY <1>1, DsSteadyIs
    <2> HIDE DEF q
    <2>4. DsLaw(q, b)
      BY <2>2, <2>3 DEF Stopping
    <2> QED
      BY <2>4 DEF q, next, s
  <1> QED
    BY <1>2, <1>3

LEMMA DsQuiet ==
  ASSUME NEW b \in Buses, NEW d, DsLaw(d, b), d.state \in Rest \ {"Starting"}, NEW due
  PROVE  Stopping(QuietTick(d, b, due), b)
  <1>1. PICK c \in {d, Forgotten(d)}, s \in Rest, t \in Statuses : QuietTick(d, b, due) = Goto(c, s, t)
    BY QuietIs
  <1>2. DsFits(c, b) /\ s \in DsCalm
    BY <1>1, DsErrs, DsNames DEF DsLaw
  <1> QED
    BY <1>1, <1>2, DsRests DEF Stopping

LEMMA DsWaiting ==
  ASSUME NEW b \in Buses, NEW d, DsLaw(d, b), NEW due
  PROVE  /\ d.state = "RetryBackoff" => DsLaw(DsWaits(d, b, due, "Starting"), b)
         /\ d.state = "Faulted" => DsLaw(DsWaits(d, b, due, "Faulted"), b)
  <1>1. DsFits(d, b)
    BY DEF DsLaw
  <1>2. ASSUME NEW t, d.state \in {"RetryBackoff", "Faulted"}, QuietTick(d, b, due) = Waits(d, b, due, t)
        PROVE  DsLaw(DsWaits(d, b, due, t), b)
    <2> DEFINE w == Waits(d, b, due, t)
               next == IF twin /\ ~d.reconf THEN Goto(d, "Faulted", "Faulted") ELSE w
               q == HaltOr(d, b, next)
    <2>1. DsWaits(d, b, due, t) = q
      BY DEF DsWaits
    <2>2. Stopping(w, b)
      <3>1. d.state \in Rest \ {"Starting"}
        BY <1>2, DsNames
      <3> QED
        BY <1>2, <3>1, DsQuiet
    <2> HIDE DEF w
    <2>3. Stopping(next, b)
      BY <1>1, <2>2, DsStops
    <2> HIDE DEF next
    <2>4. q \in {Goto(d, "Disabled", "Disabled"), Goto(d, "DependencyBlocked", "DependencyBlocked"), next}
      BY HaltOrIs
    <2> HIDE DEF q
    <2>5. Stopping(q, b)
      BY <1>1, <2>3, <2>4, DsStops
    <2> QED
      BY <2>1, <2>5 DEF Stopping
  <1>3. d.state = "RetryBackoff" => QuietTick(d, b, due) = Waits(d, b, due, "Starting")
    BY DEF QuietTick
  <1>4. d.state = "Faulted" => QuietTick(d, b, due) = Waits(d, b, due, "Faulted")
    BY DEF QuietTick
  <1> QED
    BY <1>2, <1>3, <1>4

LEMMA DsWithdraws ==
  ASSUME NEW b, NEW d, NEW q, DsLaw(q, b)
  PROVE  DsLaw(DsWithdrawn(d, q), b) /\ DsWithdrawn(d, q).state = q.state
  <1>1. PICK kept \in BOOLEAN :
          DsWithdrawn(d, q) = [q EXCEPT !.shown = @ /\ kept,
                                        !.asked = IF q.state \in {"WaitConversion", "ReadScratchpad"} THEN @ ELSE 0]
    BY DEF DsWithdrawn
  <1> DEFINE v == q.shown /\ kept
             n == IF q.state \in {"WaitConversion", "ReadScratchpad"} THEN q.asked ELSE 0
             w == [q EXCEPT !.shown = v, !.asked = n]
  <1>2. q \in DsSensors /\ v \in BOOLEAN /\ n \in Nat
    BY DEF DsLaw, DsFits, DsSensors
  <1>3. q.state \in {"WaitConversion", "ReadScratchpad"} => n = q.asked
    OBVIOUS
  <1>4. DsWithdrawn(d, q) = w
    BY <1>1
  <1> HIDE DEF v, n
  <1>5. w \in DsSensors /\ w.state = q.state /\ w.last = q.last /\ w.asked = n
    BY <1>2 DEF DsSensors
  <1> HIDE DEF w
  <1> QED
    BY <1>3, <1>4, <1>5 DEF DsLaw, DsFits

LEMMA DsTicked ==
  ASSUME NEW b \in Buses, Lawful(b), NEW d, DsLaw(d, b), NEW due
  PROVE  \A q \in {DsTick(d, b, due)} :
           DsLaw(q, b) /\ DsRead(d, q, b) /\ (d.state = "Idle" => q.state \in Rest)
  <1> DEFINE answers == probe = IF b.driver THEN "configured" ELSE "left"
             ready == DsSteady(d, b, Goto(d, IF due THEN "RequestConversion" ELSE "Ready", "Ready"))
             q == CASE d.state = "Starting" -> DsStarting(d, b)
                    [] d.state = "PowerUpDelay" -> PowerUpDelay(d, b, due)
                    [] d.state = "ConfigureSensor" -> ConfigureSensor(d, b, answers)
                    [] d.state = "RequestConversion" -> RequestConversion(d, b, answers)
                    [] d.state = "WaitConversion" -> WaitConversion(d, b, due)
                    [] d.state = "ReadScratchpad" -> ReadScratchpad(d, b, answers)
                    [] d.state = "Ready" -> ready
                    [] d.state = "RetryBackoff" -> DsWaits(d, b, due, "Starting")
                    [] d.state = "Faulted" -> DsWaits(d, b, due, "Faulted")
                    [] d.state = "Reconfiguring" -> DsReconfiguring(d, b)
                    [] OTHER -> QuietTick(d, b, due)
  <1>1. DsTick(d, b, due) = DsWithdrawn(d, q)
    BY DEF DsTick
  <1>2. DsLaw(ready, b) \/ d.state # "Ready"
    BY DsContinues
  <1> HIDE DEF answers, ready, q
  <1>3. ASSUME d.state \in {"Starting", "PowerUpDelay", "Reconfiguring"} PROVE DsLaw(q, b)
    <2>1. q \in {DsStarting(d, b), PowerUpDelay(d, b, due), DsReconfiguring(d, b)}
      BY <1>3 DEF q
    <2> QED
      BY <2>1, DsBegins
  <1>4. ASSUME d.state = "ConfigureSensor" PROVE DsLaw(q, b)
    <2>1. q = ConfigureSensor(d, b, answers)
      BY <1>4 DEF q
    <2> QED
      BY <2>1, DsConfigures
  <1>5. ASSUME d.state = "RequestConversion" PROVE DsLaw(q, b)
    <2>1. q = RequestConversion(d, b, answers)
      BY <1>5 DEF q
    <2> QED
      BY <1>5, <2>1, DsRequests
  <1>6. ASSUME d.state = "ReadScratchpad" PROVE DsLaw(q, b) /\ DsRead(d, q, b)
    <2>1. q = ReadScratchpad(d, b, answers)
      BY <1>6 DEF q
    <2> QED
      BY <1>6, <2>1, DsReads
  <1>7. ASSUME d.state = "WaitConversion" PROVE DsLaw(q, b)
    <2>1. q = WaitConversion(d, b, due)
      BY <1>7 DEF q
    <2> QED
      BY <1>7, <2>1, DsContinues
  <1>8. ASSUME d.state = "Ready" PROVE DsLaw(q, b)
    <2>1. q = ready
      BY <1>8 DEF q
    <2> QED
      BY <1>2, <1>8, <2>1
  <1>9. ASSUME d.state \in {"RetryBackoff", "Faulted"} PROVE DsLaw(q, b)
    <2>1. CASE d.state = "RetryBackoff"
      <3>1. q = DsWaits(d, b, due, "Starting")
        BY <2>1 DEF q
      <3> QED
        BY <2>1, <3>1, DsWaiting
    <2>2. CASE d.state = "Faulted"
      <3>1. q = DsWaits(d, b, due, "Faulted")
        BY <2>2 DEF q
      <3> QED
        BY <2>2, <3>1, DsWaiting
    <2> QED
      BY <1>9, <2>1, <2>2
  <1>10. ASSUME d.state \in {"Idle", "DependencyBlocked", "Disabled"} PROVE DsLaw(q, b) /\ q.state \in Rest
    <2>1. q = QuietTick(d, b, due)
      BY <1>10 DEF q
    <2>2. d.state \in Rest \ {"Starting"}
      BY <1>10, DsNames
    <2> QED
      BY <2>1, <2>2, DsQuiet DEF Stopping
  <1>11. d.state \in {"Starting", "PowerUpDelay", "Reconfiguring", "ConfigureSensor", "RequestConversion", "ReadScratchpad",
                      "WaitConversion", "Ready", "RetryBackoff", "Faulted", "Idle", "DependencyBlocked", "Disabled"}
    BY DsNames DEF DsLaw, DsFits, DsSensors, DsPlaces
  <1>12. DsLaw(q, b) /\ DsRead(d, q, b) /\ (d.state = "Idle" => q.state \in Rest)
    BY <1>3, <1>4, <1>5, <1>6, <1>7, <1>8, <1>9, <1>10, <1>11 DEF DsRead
  <1> DEFINE w == DsWithdrawn(d, q)
  <1>13. DsLaw(w, b) /\ w.state = q.state
    BY <1>12, DsWithdraws
  <1> HIDE DEF w
  <1>14. DsLaw(w, b) /\ DsRead(d, w, b) /\ (d.state = "Idle" => w.state \in Rest)
    BY <1>12, <1>13 DEF DsRead
  <1> QED
    BY <1>1, <1>14 DEF w

LEMMA DsAsked ==
  ASSUME NEW b, NEW d, DsLaw(d, b)
  PROVE  /\ \A statuses : DsLaw(Refreshed(d, statuses), b) /\ Refreshed(d, statuses).state = d.state
         /\ DsLaw(requestReconfigure(d), b) /\ requestReconfigure(d).state = d.state
         /\ DsLaw(resetStateMachine(d), b) /\ resetStateMachine(d).state = "Idle"
         /\ \A enabled \in BOOLEAN : /\ DsLaw(Asked(d, enabled), b) /\ Asked(d, enabled).state = d.state
                                     /\ Asked(d, enabled).asked = d.asked
  <1>1. "Reconfiguring" \in Statuses /\ "Disabled" \in Statuses /\ "Idle" \in DsPlaces
    BY DsNames DEF DsPlaces
  <1>2. DsLaw(requestReconfigure(d), b) /\ requestReconfigure(d).state = d.state
    BY <1>1 DEF requestReconfigure, DsLaw, DsFits, DsSensors
  <1>3. DsLaw(requestDisable(d), b) /\ requestDisable(d).state = d.state
    BY <1>1 DEF requestDisable, DsLaw, DsFits, DsSensors
  <1>4. \A statuses : DsLaw(Refreshed(d, statuses), b) /\ Refreshed(d, statuses).state = d.state
    BY <1>2, <1>3 DEF Refreshed
  <1>5. DsLaw(resetStateMachine(d), b) /\ resetStateMachine(d).state = "Idle"
    BY <1>1 DEF resetStateMachine, DsLaw, DsFits, DsSensors
  <1>6. ASSUME NEW enabled \in BOOLEAN
        PROVE  DsLaw(Asked(d, enabled), b) /\ Asked(d, enabled).state = d.state /\ Asked(d, enabled).asked = d.asked
    <2> DEFINE q == Asked(d, enabled)
    <2>1. q \in DsSensors /\ q.state = d.state /\ q.last = d.last /\ q.asked = d.asked
      BY <1>1, <1>6 DEF Asked, clearLifecycleRequests, requestReconfigure, requestDisable, DsLaw, DsFits, DsSensors
    <2> HIDE DEF q
    <2>2. DsLaw(q, b)
      BY <2>1 DEF DsLaw, DsFits
    <2> QED
      BY <2>1, <2>2 DEF q
  <1> QED
    BY <1>2, <1>4, <1>5, <1>6

------------------------------------------------------------------------------
(* The OneWire bus with its sensor. *)
OneWireInv == oneWire \in Buses /\ Lawful(oneWire) /\ DsLaw(ds, oneWire)

DsReadsWell == ds.state = "ReadScratchpad" /\ ds'.state = "Ready" =>
                 ds.asked = oneWire'.gen /\ ~twin

LEMMA DsMoves ==
  ASSUME NEW b \in Buses, NEW q, Follows(b, q), NEW d, DsLaw(d, b)
  PROVE  DsLaw(d, q)
  <1>1. b.gen \in Nat /\ q.gen \in Nat /\ b.gen <= q.gen
    BY DEF Follows, Buses
  <1>2. d.last \in Nat
    BY DEF DsLaw, DsFits, DsSensors
  <1> QED
    BY <1>1, <1>2 DEF DsLaw, DsFits

LEMMA DsBecomes ==
  ASSUME OneWireInv, Follows(oneWire, oneWire'), NEW q, DsLaw(q, oneWire'), RefreshDs(q)
  PROVE  OneWireInv' /\ ds'.state = q.state
  <1>1. oneWire' \in Buses /\ Lawful(oneWire')
    BY DEF OneWireInv, Follows
  <1>2. DsLaw(ds', oneWire') /\ ds'.state = q.state
    BY DsAsked DEF RefreshDs
  <1> QED
    BY <1>1, <1>2 DEF OneWireInv, DsLaw, DsFits, Lawful

LEMMA OneWireRoundSteps ==
  ASSUME OneWireInv, NEW last \in BOOLEAN, NEW due \in BOOLEAN, OneWireRound(last, due)
  PROVE  OneWireInv' /\ DsReadsWell
  <1> DEFINE seen == IF oneWireFirst THEN oneWire' ELSE oneWire
             q == DsTick(ds, seen, due)
             works == TRUE
  <1>1. /\ oneWire \in Buses /\ Lawful(oneWire) /\ DsLaw(ds, oneWire) /\ RefreshDs(q)
        /\ oneWire' = BusTick(oneWire, works, last) /\ works \in BOOLEAN
    BY DEF OneWireInv, OneWireRound
  <1> HIDE DEF works
  <1>2. Follows(oneWire, oneWire') /\ oneWire' \in Buses /\ Lawful(oneWire')
    <2>1. Follows(oneWire, BusTick(oneWire, works, last))
      BY <1>1, BusTicked
    <2> QED
      BY <1>1, <2>1 DEF Follows
  <1>3. seen \in Buses /\ Lawful(seen) /\ DsLaw(ds, seen) /\ \A c : DsLaw(c, seen) => DsLaw(c, oneWire')
    <2>1. \A c : DsLaw(c, oneWire) => DsLaw(c, oneWire')
      BY <1>1, <1>2, DsMoves
    <2> QED
      BY <1>1, <1>2, <2>1
  <1>4. seen.status = "Ready" /\ LendsWire(seen) => oneWire'.gen = seen.gen
    <2>1. CASE seen = oneWire'
      BY <2>1
    <2>2. CASE seen = oneWire
      <3> SUFFICES ASSUME oneWire.status = "Ready", LendsWire(oneWire)
                   PROVE  oneWire'.gen = oneWire.gen
        BY <2>2
      <3>1. Lends(oneWire)
        BY DEF LendsWire, Lends, Unwanted
      <3> QED
        BY <1>1, <3>1, BusKeeps
    <2> QED
      BY <2>1, <2>2
  <1> HIDE DEF seen
  <1>5. DsLaw(q, seen) /\ DsRead(ds, q, seen)
    BY <1>3, DsTicked
  <1> HIDE DEF q
  <1>6. OneWireInv' /\ ds'.state = q.state
    BY <1>1, <1>2, <1>3, <1>5, DsBecomes
  <1> QED
    BY <1>4, <1>5, <1>6 DEF DsReadsWell, DsRead

LEMMA EditWireSteps ==
  ASSUME OneWireInv, NEW enabled \in BOOLEAN, NEW rewired \in BOOLEAN, EditWire(enabled, rewired)
  PROVE  OneWireInv' /\ DsReadsWell
  <1> DEFINE c == endWire(oneWire)
             b == IF rewired THEN resetStateMachine(c) ELSE oneWire
             q == requestReconfigure(ds)
             works == TRUE
  <1>1. /\ oneWire \in Buses /\ Lawful(oneWire) /\ DsLaw(ds, oneWire) /\ RefreshDs(q) /\ works \in BOOLEAN
        /\ oneWire' \in {b, BusTick(Asked(b, TRUE), works, FALSE), Asked(b, FALSE)}
    BY DEF OneWireInv, EditWire
  <1> HIDE DEF works
  <1>2. c \in Buses /\ c.gen = oneWire.gen /\ Lawful(c)
    <2>1. c \in Buses /\ c.gen = oneWire.gen /\ c.state = oneWire.state /\ c.status = oneWire.status
      BY <1>1 DEF endWire, Buses
    <2> HIDE DEF c
    <2> QED
      BY <1>1, <2>1 DEF Lawful
  <1> HIDE DEF c
  <1>3. Follows(oneWire, b)
    <2>1. Follows(oneWire, resetStateMachine(c)) /\ Follows(oneWire, oneWire)
      BY <1>1, <1>2, BusEdited
    <2> QED
      BY <2>1
  <1>4. b \in Buses /\ b.gen = oneWire.gen /\ Lawful(b)
    <2>1. resetStateMachine(c).gen = c.gen
      BY <1>2, BusAsked
    <2> QED
      BY <1>1, <1>2, <1>3, <2>1 DEF Follows
  <1> HIDE DEF b
  <1>5. Follows(oneWire, oneWire')
    BY <1>1, <1>4, BusEdited
  <1>6. DsLaw(q, oneWire') /\ q.state = ds.state
    <2>1. DsLaw(ds, oneWire')
      BY <1>1, <1>5, DsMoves
    <2> QED
      BY <2>1, DsAsked
  <1> HIDE DEF q
  <1>7. OneWireInv' /\ ds'.state = ds.state
    BY <1>1, <1>5, <1>6, DsBecomes
  <1> QED
    BY <1>7 DEF DsReadsWell

LEMMA EditDsSteps ==
  ASSUME OneWireInv, NEW enabled \in BOOLEAN, NEW changed \in BOOLEAN, EditDs(enabled, changed)
  PROVE  OneWireInv' /\ DsReadsWell
  <1> DEFINE d == IF changed THEN resetStateMachine(ds) ELSE ds
             on == Asked(d, TRUE)
             off == Asked(d, FALSE)
             t == DsTick(on, oneWire, TRUE)
             q == IF enabled = ds.enabled THEN d ELSE IF enabled THEN t ELSE off
  <1>1. oneWire \in Buses /\ Lawful(oneWire) /\ DsLaw(ds, oneWire) /\ RefreshDs(q) /\ oneWire' = oneWire
    BY DEF OneWireInv, EditDs
  <1>2. DsLaw(d, oneWire) /\ (d = ds \/ d.state = "Idle")
    BY <1>1, DsAsked
  <1>3. q \in {d, t, off}
    OBVIOUS
  <1> HIDE DEF d
  <1>4. /\ DsLaw(off, oneWire) /\ off.state = d.state
        /\ DsLaw(on, oneWire) /\ on.state = d.state /\ on.asked = d.asked
    BY <1>2, DsAsked
  <1> HIDE DEF on, off
  <1>5. DsLaw(t, oneWire) /\ DsRead(on, t, oneWire) /\ (on.state = "Idle" => t.state \in Rest)
    BY <1>1, <1>4, DsTicked
  <1> HIDE DEF t, q
  <1>6. Follows(oneWire, oneWire') /\ DsLaw(q, oneWire')
    BY <1>1, <1>2, <1>3, <1>4, <1>5 DEF Follows
  <1>7. OneWireInv' /\ ds'.state = q.state
    BY <1>1, <1>6, DsBecomes
  <1>8. DsReadsWell
    <2> SUFFICES ASSUME ds.state = "ReadScratchpad", q.state = "Ready"
                 PROVE  ds.asked = oneWire.gen /\ ~twin
      BY <1>1, <1>7 DEF DsReadsWell
    <2>1. d.state \in {"ReadScratchpad", "Idle"}
      BY <1>2
    <2>2. q = t
      BY <1>3, <1>4, <2>1
    <2>3. d.state = "ReadScratchpad"
      BY <1>4, <1>5, <2>1, <2>2 DEF Rest
    <2>4. d = ds
      BY <1>2, <2>3
    <2> QED
      BY <1>4, <1>5, <2>2, <2>4 DEF DsRead
  <1> QED
    BY <1>7, <1>8

LEMMA OneWireInitial == OneWireInit => OneWireInv
  <1> SUFFICES ASSUME OneWireInit PROVE OneWireInv
    OBVIOUS
  <1>1. oneWire = FreshBus
    BY DEF OneWireInit
  <1>2. PICK enabled \in BOOLEAN : ds = FreshDs(enabled)
    BY DEF OneWireInit
  <1> DEFINE d == [state |-> "Idle", status |-> "Creating", start |-> TRUE, reconf |-> FALSE, disable |-> FALSE,
                   fault |-> FALSE, enabled |-> enabled, last |-> 0, errors |-> 0, shown |-> FALSE, asked |-> 0]
  <1>3. ds \in {Goto(d, "Disabled", "Disabled"), Goto(d, "Starting", "Creating")}
    BY <1>2 DEF FreshDs, IdleTick, SwitchedOff, Goto
  <1>4. DsFits(d, oneWire)
    <2>1. 0 \in 0..FaultThreshold /\ 0 <= oneWire.gen /\ "Idle" \in DsPlaces /\ "Creating" \in Statuses
      BY <1>1, FreshBusIs, UserAssumption, DsNames DEF DsPlaces, Buses
    <2> QED
      BY <2>1 DEF DsFits, DsSensors
  <1> HIDE DEF d
  <1>5. DsLaw(Goto(d, "Disabled", "Disabled"), oneWire) /\ DsLaw(Goto(d, "Starting", "Creating"), oneWire)
    <2>1. {"Disabled", "Starting"} \subseteq DsCalm /\ {"Disabled", "Creating"} \subseteq Statuses
      BY DsNames
    <2> QED
      BY <1>4, <2>1, DsRests
  <1> QED
    BY <1>1, <1>3, <1>5, FreshBusIs DEF OneWireInv

LEMMA OneWireInductive == OneWireInv /\ [OneWireNext]_oneWireVars => OneWireInv' /\ (OneWireNext => DsReadsWell)
  <1> SUFFICES ASSUME OneWireInv, [OneWireNext]_oneWireVars PROVE OneWireInv' /\ (OneWireNext => DsReadsWell)
    OBVIOUS
  <1>1. ASSUME NEW last \in BOOLEAN, NEW due \in BOOLEAN, OneWireRound(last, due) PROVE OneWireInv' /\ DsReadsWell
    BY <1>1, OneWireRoundSteps
  <1>2. ASSUME NEW enabled \in BOOLEAN, NEW changed \in BOOLEAN, EditWire(enabled, changed) PROVE OneWireInv' /\ DsReadsWell
    BY <1>2, EditWireSteps
  <1>3. ASSUME NEW enabled \in BOOLEAN, NEW changed \in BOOLEAN, EditDs(enabled, changed) PROVE OneWireInv' /\ DsReadsWell
    BY <1>3, EditDsSteps
  <1>4. ASSUME ScanWire PROVE OneWireInv' /\ DsReadsWell
    <2>1. /\ oneWire \in Buses /\ Lawful(oneWire) /\ DsLaw(ds, oneWire) /\ oneWire.status = "Ready" /\ RefreshDs(ds)
          /\ oneWire' = [oneWire EXCEPT !.scanning = TRUE, !.state = "Scanning"]
      BY <1>4 DEF ScanWire, startWireScan, OneWireInv
    <2>2. Follows(oneWire, oneWire')
      BY <2>1, BusScans
    <2>3. DsLaw(ds, oneWire')
      BY <2>1, <2>2, DsMoves
    <2>4. OneWireInv' /\ ds'.state = ds.state
      BY <2>1, <2>2, <2>3, DsBecomes
    <2> QED
      BY <2>4 DEF DsReadsWell
  <1>5. ASSUME oneWire' = oneWire, ds' = ds PROVE OneWireInv' /\ DsReadsWell
    BY <1>5 DEF OneWireInv, DsReadsWell, DsLaw, DsFits, Lawful
  <1>6. OneWireNext => OneWireInv' /\ DsReadsWell
    BY <1>1, <1>2, <1>3, <1>4, <1>5 DEF OneWireNext, TwinChanges, ProbeChanges
  <1>7. CASE UNCHANGED oneWireVars
    BY <1>5, <1>6, <1>7 DEF oneWireVars
  <1> QED
    BY <1>6, <1>7

LEMMA OneWireTyped == OneWireInv => OneWireTypeOK
  <1> SUFFICES ASSUME OneWireInv PROVE OneWireTypeOK
    OBVIOUS
  <1>1. oneWire \in Buses /\ ds \in DsSensors /\ ds.last <= oneWire.gen
    BY DEF OneWireInv, DsLaw, DsFits
  <1>2. BusPlaces \subseteq States \cup {"Scanning"} /\ DsPlaces \subseteq DsStates
    BY DEF BusPlaces, DsPlaces, DsStates, Rest, States
  <1>3. ds.last \in 0..oneWire.gen
    BY <1>1 DEF Buses, DsSensors
  <1> QED
    BY <1>1, <1>2, <1>3 DEF OneWireTypeOK, Buses, DsSensors

(* OneWireTypeOK: the bus and its sensor are what the code says they are;    *)
(* the generation the sensor was configured under is one the bus has had.    *)
THEOREM OneWireTypeCorrect == OneWireSpec => []OneWireTypeOK
  <1>1. OneWireInv /\ [OneWireNext]_oneWireVars => OneWireInv'
    BY OneWireInductive
  <1> QED
    BY <1>1, OneWireInitial, OneWireTyped, PTL DEF OneWireSpec

(* ReadsItsConversion: a temperature is read only under the initialization   *)
(* of the bus under which its conversion was asked for, and never while      *)
(* there is a twin, also when the bus goes on with a pin it had before.      *)
THEOREM ReadsConversion == OneWireSpec => ReadsItsConversion
  <1>1. OneWireInv /\ [OneWireNext]_oneWireVars => OneWireInv'
    BY OneWireInductive
  <1>2. OneWireInv /\ [OneWireNext]_oneWireVars =>
          [ds.state = "ReadScratchpad" /\ ds'.state = "Ready" =>
             ds.asked = oneWire'.gen /\ ~twin]_oneWireVars
    BY OneWireInductive DEF DsReadsWell
  <1> QED
    BY <1>1, <1>2, OneWireInitial, PTL DEF OneWireSpec, ReadsItsConversion

------------------------------------------------------------------------------
(* All of them: as MCSensors runs them, a step of one leaves the others be.  *)
LEMMA UnitSteps ==
  [SensorsNext]_sensorsVars => [BusNext]_busVars /\ [OneWireNext]_oneWireVars /\ [HubNext]_hubVars
  <1> SUFFICES ASSUME [SensorsNext]_sensorsVars
               PROVE  [BusNext]_busVars /\ [OneWireNext]_oneWireVars /\ [HubNext]_hubVars
    OBVIOUS
  <1>1. CASE I2cStep
    BY <1>1 DEF I2cStep
  <1>2. CASE OneWireStep
    BY <1>2 DEF OneWireStep
  <1>3. CASE HubStep
    BY <1>3 DEF HubStep
  <1>4. CASE UNCHANGED sensorsVars
    BY <1>4 DEF sensorsVars
  <1> QED
    BY <1>1, <1>2, <1>3, <1>4 DEF SensorsNext

LEMMA UnitsInvariant == SensorsSpec => [](I2cInv /\ OneWireInv /\ HubInv)
  <1>1. SensorsInit => I2cInv /\ OneWireInv /\ HubInv
    BY BusInitial, OneWireInitial, HubInitial DEF SensorsInit
  <1>2. I2cInv /\ OneWireInv /\ HubInv /\ [SensorsNext]_sensorsVars => (I2cInv /\ OneWireInv /\ HubInv)'
    BY UnitSteps, BusInductive, OneWireInductive, HubInductive
  <1> QED
    BY <1>1, <1>2, PTL DEF SensorsSpec

(* SensorsTypeOK: the three units are what the code says they are.           *)
THEOREM SensorsTypeCorrect == SensorsSpec => []SensorsTypeOK
  <1>1. I2cInv /\ OneWireInv /\ HubInv => SensorsTypeOK
    BY BusTyped, OneWireTyped, HubTyped DEF SensorsTypeOK
  <1> QED
    BY <1>1, UnitsInvariant, PTL

(* ReadsItsOwn and ReadsOwnChannel: whatever a sensor or a channel device    *)
(* reads through a bus or a hub that it shares is what it has asked for      *)
(* itself, under the same initialization.                                    *)
THEOREM SensorsReadTheirOwn == SensorsSpec => ReadsItsOwn /\ []ReadsOwnChannel
  <1>1. I2cInv /\ [SensorsNext]_sensorsVars =>
          [user.state = "ReadPhase" /\ user'.state \in {"Ready", "TriggerPhase"} =>
             user.asked = bus'.gen /\ bus'.driver]_busVars
    BY UnitSteps, BusInductive DEF Reads
  <1>2. OneWireInv /\ [SensorsNext]_sensorsVars =>
          [ds.state = "ReadScratchpad" /\ ds'.state = "Ready" =>
             ds.asked = oneWire'.gen /\ ~twin]_oneWireVars
    BY UnitSteps, OneWireInductive DEF DsReadsWell
  <1>3. HubInv => ReadsOwnChannel
    BY DEF HubInv, Sound, ReadsOwnChannel
  <1> QED
    BY <1>1, <1>2, <1>3, UnitsInvariant, PTL
      DEF SensorsSpec, ReadsItsOwn, ReadsWhatItAsked, ReadsItsConversion
================================================================================
