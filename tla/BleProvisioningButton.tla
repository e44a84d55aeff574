------------------------- MODULE BleProvisioningButton -------------------------
(***************************************************************************)
(* The button that starts a Bluetooth session when it is held.  The main   *)
(* loop samples it, at whatever distance its passes have, debounces the    *)
(* level and asks the Wi-Fi manager once the debounced press has lasted    *)
(* HoldTime.  Times are those of a clock that wraps at ButtonWrap.         *)
(***************************************************************************)
EXTENDS Naturals

CONSTANTS
  DebounceTime,   \* kDebounceMs
  HoldTime,       \* kHoldMs
  MaxPass,        \* bound: longest time between two passes of the main loop
  ButtonWrap      \* the clock's modulus, 2^32 in the program

ASSUME ButtonAssumption ==
  /\ {DebounceTime, HoldTime, MaxPass, ButtonWrap} \subseteq Nat \ {0}
  /\ DebounceTime < HoldTime /\ HoldTime + MaxPass < ButtonWrap

VARIABLES
  now,              \* millis()
  rawPressed, rawChangedAt,
  stablePressed, pressedAt,
  activationSent,
  upFor,            \* observer: for how long every sample has found the button up, as far as
                    \* DebounceTime
  released          \* observer: has it rested up for DebounceTime since the last request?

buttonVars == <<now, rawPressed, rawChangedAt, stablePressed, pressedAt, activationSent,
                upFor, released>>

ButtonTime == 0..(ButtonWrap - 1)
Since(t, from) == (t + ButtonWrap - from) % ButtonWrap

\* begin(): a button already down counts as pressed from now on.
ButtonInit ==
  /\ now \in {0, ButtonWrap - 1}
  /\ rawPressed \in BOOLEAN /\ stablePressed = rawPressed
  /\ rawChangedAt = now /\ pressedAt = now
  /\ activationSent = FALSE
  /\ upFor = 0 /\ released = TRUE

\* The debounced level follows the raw one once that has rested.
Settles(t) == stablePressed # rawPressed' /\ Since(t, rawChangedAt') >= DebounceTime

\* requestBleConfig() is called; a press that settles only now is not held yet.
Asks(t) ==
  ~Settles(t) /\ stablePressed /\ ~activationSent /\ Since(t, pressedAt) >= HoldTime

\* Mutant: every edge of the raw level makes way for another request.
SentUntilEdge(t) == Asks(t) \/ (rawPressed' = rawPressed /\ activationSent)

\* The request of a press stands until the debounced level changes.
Sent(t) == Asks(t) \/ (~Settles(t) /\ activationSent)

\* Counts from the first sample that found the button up.
RestsUp(d) == upFor' = IF rawPressed \/ rawPressed' THEN 0
                     ELSE IF upFor + d < DebounceTime THEN upFor + d ELSE DebounceTime

\* tick(): one sample, d after the last one.
Sample(d, pressed) ==
  LET t == (now + d) % ButtonWrap IN
  /\ now' = t
  /\ rawPressed' = pressed
  /\ rawChangedAt' = IF pressed # rawPressed THEN t ELSE rawChangedAt
  /\ stablePressed' = IF Settles(t) THEN pressed ELSE stablePressed
  /\ pressedAt' = IF Settles(t) /\ pressed THEN t ELSE pressedAt
  /\ activationSent' = Sent(t)
  /\ RestsUp(d)
  /\ released' = (upFor' = DebounceTime \/ (released /\ ~Asks(t)))

\* The pin cannot be read: the sample is skipped.
ReadFails(d) ==
  /\ now' = (now + d) % ButtonWrap
  /\ UNCHANGED <<rawPressed, rawChangedAt, stablePressed, pressedAt, activationSent, released>>
  /\ RestsUp(d)

ButtonNext ==
  \E d \in 1..MaxPass : ReadFails(d) \/ \E pressed \in BOOLEAN : Sample(d, pressed)

ButtonSpec == ButtonInit /\ [][ButtonNext]_buttonVars
-------------------------------------------------------------------------------
\* Every variable holds a value of its type.
ButtonTypeOK ==
  /\ {now, rawChangedAt, pressedAt} \subseteq ButtonTime
  /\ {rawPressed, stablePressed, activationSent, released} \subseteq BOOLEAN
  /\ upFor \in 0..DebounceTime

\* However the contact bounces and however long it is held, past the wrap of
\* the clock too, one press asks for at most one Bluetooth session: between two
\* requests the button has rested up for DebounceTime.
OneRequestPerPress == [][activationSent' /\ ~activationSent => released]_buttonVars
================================================================================
