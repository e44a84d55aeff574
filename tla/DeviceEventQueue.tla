--------------------------- MODULE DeviceEventQueue ---------------------------
(***************************************************************************)
(* The ring of events between the registry and those that listen to it     *)
(* (DeviceEventQueue, with the dispatcher's drop counter).  Pushes come    *)
(* from whichever task changed the registry, one at a time because the     *)
(* registry's mutex is held; the main loop pops without any lock.  The     *)
(* number of events is a plain integer that both sides read, change and    *)
(* write back, so a push of the web server's task and a pop that overlap   *)
(* may lose one of the two changes.  From then on the count and the two    *)
(* indices disagree: events are overwritten, hidden or delivered again.    *)
(*                                                                         *)
(* The ring is turned so that head_ is place 0: a pop turns it by one.     *)
(***************************************************************************)
EXTENDS Naturals

CONSTANTS
  Devices,
  MaxEvents      \* kMaxEvents

NoDevice == "none"    \* id 0

ASSUME QueueAssumption == MaxEvents \in Nat \ {0} /\ NoDevice \notin Devices

EventKinds == {"created", "updated", "state", "deleted"}
Event == [kind : EventKinds, device : Devices]

\* A slot that was never written: an event that no sink handles.
NoEvent == [kind |-> "none", device |-> NoDevice]

Places == 0..(MaxEvents - 1)

VARIABLES
  slots,       \* events_, from head_ on
  tail,        \* how far tail_ is from head_, round the ring
  count,       \* count_
  pushing,     \* the push of the web task under way, if any: the count it has read, and what
               \* the place it writes held before
  popping,     \* the pop under way, if any: the event and the count it has read
  raced,       \* observer: a push and a pop have changed count_ at the same time
  missed       \* observer: devices an event of which did not get through; all, for good,
               \* once that has happened

queueVars == <<slots, tail, count, pushing, popping, missed, raced>>

QueueInit ==
  /\ slots = [i \in Places |-> NoEvent]
  /\ tail = 0 /\ count = 0
  /\ pushing = {} /\ popping = {}
  /\ missed = {} /\ raced = FALSE

\* Mutant: the ring is full one event too late.
fullLate == count > MaxEvents

full == count >= MaxEvents

After(i) == (i + 1) % MaxEvents
Before(i) == (i + MaxEvents - 1) % MaxEvents

\* The dispatcher counts the event of a full queue and drops it.
Dropped(e) == missed' = missed \cup {e.device}

Meets(other) ==
  /\ raced' = (raced \/ other # {})
  /\ missed' = IF raced' THEN Devices ELSE missed

Stored(e) == slots' = [slots EXCEPT ![tail] = e] /\ tail' = After(tail)

\* enqueue() by the web server's task, up to the change of count_.
PushBegin(e) ==
  /\ pushing = {}
  /\ IF full
     THEN Dropped(e) /\ UNCHANGED <<slots, tail, pushing, raced>>
     ELSE /\ Stored(e)
          /\ pushing' = {[count |-> count, over |-> slots[tail]]}
          /\ Meets(popping)
  /\ UNCHANGED <<count, popping>>

Pushed == CHOOSE p \in pushing : TRUE

PushEnd ==
  /\ pushing # {}
  /\ count' = Pushed.count + 1
  /\ pushing' = {}
  /\ UNCHANGED <<slots, tail, popping, missed, raced>>

\* A push of the main loop cannot meet a pop, which is the loop's too.
PushWhole(e) ==
  /\ pushing = {} /\ popping = {}
  /\ IF full
     THEN Dropped(e) /\ UNCHANGED <<slots, tail, count>>
     ELSE Stored(e) /\ count' = count + 1 /\ UNCHANGED missed
  /\ UNCHANGED <<pushing, popping, raced>>

\* What a pop may find at head_: parts of two events while a push, which is then
\* just before tail_, writes there.
Found ==
  LET seen == {slots[0]} \cup IF tail = After(0) THEN {p.over : p \in pushing} ELSE {}
  IN {[kind |-> x.kind, device |-> y.device] : x, y \in seen}

PopBegin ==
  /\ popping = {} /\ count # 0
  /\ \E e \in Found : popping' = {[event |-> e, count |-> count]}
  /\ slots' = [i \in Places |-> slots[After(i)]] /\ tail' = Before(tail)
  /\ Meets(pushing)
  /\ UNCHANGED <<count, pushing>>

Popped == CHOOSE p \in popping : TRUE

PopEnd ==
  /\ popping # {}
  /\ count' = Popped.count - 1
  /\ popping' = {}
  /\ UNCHANGED <<slots, tail, pushing, raced>>
================================================================================
