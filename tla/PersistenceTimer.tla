--------------------------- MODULE PersistenceTimer ---------------------------
(***************************************************************************)
(* DeviceRegistryPersistenceCoordinator and the pass of the main loop that *)
(* polls it: when does a change that is only in RAM reach flash?           *)
(*                                                                         *)
(* millis() is a Word-sized counter.  App::tick reads it once, at the top  *)
(* of a pass, and hands that value to DeviceRegistry::tick at the end of   *)
(* the pass; the web server's task reads it on its own, in the middle.     *)
(* What DeviceRegistry does with the keys it writes is the subject of the  *)
(* module of that name; here a flush or an immediate save is one step.     *)
(***************************************************************************)
EXTENDS Integers

CONSTANTS
  Word,              \* 2^32 in the firmware
  Debounce, MaxDelay,  \* PersistenceConfig
  MaxPass            \* bound: how long one pass of the main loop takes at most

ASSUME TimerAssumption ==
  /\ Debounce \in Nat /\ MaxDelay \in Nat /\ MaxPass \in Nat \ {0}
  /\ Debounce <= MaxDelay
  /\ Word \in Nat /\ Word > MaxDelay + 3 * MaxPass

Kinds == {"index", "config", "retained"}
Unset == Word - 1   \* kDirtyTimestampUnset

VARIABLES
  clock,         \* millis()
  passAt,        \* the value App::tick read; the pass is running
  polling,       \* is a pass running?
  dirty,         \* dirty_
  work,          \* which of dirtyIndex_, dirtyConfigRecordIds_, dirtyRetainedStateIds_ hold something
  firstDirtyAt, lastChangeAt,
  age, quiet,    \* observers: real time since the first unflushed and since the last change
  failed,        \* observer: has a flush failed since then?
  foreign        \* observer: does a change since then come from the web server's task?

timer == <<dirty, work, firstDirtyAt, lastChangeAt>>
observers == <<age, quiet, failed, foreign>>
vars == <<clock, passAt, polling, timer, observers>>

AgeCap == MaxDelay + 4 * MaxPass   \* bound of the observers
Older(t) == IF t = AgeCap THEN t ELSE t + 1

Stamps == 0..(Word - 1)

TypeOK ==
  /\ clock \in Stamps /\ passAt \in Stamps /\ polling \in BOOLEAN
  /\ dirty \in BOOLEAN /\ work \in SUBSET Kinds
  /\ firstDirtyAt \in Stamps /\ lastChangeAt \in Stamps
  /\ age \in 0..AgeCap /\ quiet \in 0..AgeCap /\ failed \in BOOLEAN /\ foreign \in BOOLEAN

Since(now, then) == (now - then) % Word

(* Mutant: the quiet period is counted from the first change. *)
ShouldFlushFromFirst(now) ==
  /\ dirty
  /\ firstDirtyAt # Unset
  /\ Since(now, firstDirtyAt) >= Debounce

(* shouldFlush *)
ShouldFlush(now) ==
  /\ dirty
  /\ firstDirtyAt # Unset
  /\ Since(now, lastChangeAt) >= Debounce \/ Since(now, firstDirtyAt) >= MaxDelay

(* Mutant: a sentinel wider than the time stamps. *)
MarkCleanWide ==
  /\ dirty' = FALSE
  /\ work' = {}
  /\ firstDirtyAt' = Word
  /\ lastChangeAt' = Unset

MarkClean ==
  /\ dirty' = FALSE
  /\ work' = {}
  /\ firstDirtyAt' = Unset
  /\ lastChangeAt' = Unset

NothingPending == age' = 0 /\ quiet' = 0 /\ failed' = FALSE /\ foreign' = FALSE

(* Mutant: every change counts as the first. *)
MarkDirtyAfresh(kind, now) ==
  /\ dirty' = TRUE
  /\ work' = work \cup {kind}
  /\ firstDirtyAt' = now
  /\ lastChangeAt' = now
  /\ quiet' = 0
  /\ UNCHANGED <<age, failed>>

(* markDirty(now) and the kind it is for. *)
MarkDirty(kind, now) ==
  /\ dirty' = TRUE
  /\ work' = work \cup {kind}
  /\ firstDirtyAt' = IF dirty THEN firstDirtyAt ELSE now
  /\ lastChangeAt' = now
  /\ quiet' = 0
  /\ UNCHANGED <<age, failed>>

(* DeviceRegistry::begin: reset(now). *)
Init ==
  /\ clock = 0 /\ passAt = 0 /\ polling = FALSE
  /\ dirty = FALSE /\ work = {}
  /\ firstDirtyAt = Unset /\ lastChangeAt = 0
  /\ age = 0 /\ quiet = 0 /\ failed = FALSE /\ foreign = FALSE

(* A millisecond goes by; a pass takes MaxPass of them at most. *)
Elapse ==
  /\ Since(clock, passAt) < MaxPass
  /\ clock' = (clock + 1) % Word
  /\ age' = IF dirty THEN Older(age) ELSE 0
  /\ quiet' = IF dirty THEN Older(quiet) ELSE 0
  /\ UNCHANGED <<passAt, polling, timer, failed, foreign>>

(* App::tick starts over. *)
StartPass ==
  /\ ~polling
  /\ polling' = TRUE
  /\ passAt' = clock
  /\ UNCHANGED <<clock, timer, observers>>

(* A device's tick or an MQTT command, with the now of the pass. *)
LoopChange(kind) ==
  /\ polling
  /\ MarkDirty(kind, passAt)
  /\ UNCHANGED <<clock, passAt, polling, foreign>>

(* A request of the portal, with a now of its own. *)
WebChange(kind) ==
  /\ MarkDirty(kind, clock)
  /\ foreign' = TRUE
  /\ UNCHANGED <<clock, passAt, polling>>

(* Mutant: the summary flag stays up when no retained work is left. *)
ImmediateSaveKeepsFlag ==
  /\ work' = work \cap {"retained"}
  /\ UNCHANGED <<dirty, firstDirtyAt, lastChangeAt, observers, clock, passAt, polling>>

(* clearConfigDirtyAfterImmediateFlush, after a create, delete or relink. *)
ImmediateSave ==
  /\ IF "retained" \in work
       THEN /\ dirty' = TRUE
            /\ work' = {"retained"}
            /\ UNCHANGED <<firstDirtyAt, lastChangeAt, observers>>
       ELSE MarkClean /\ NothingPending
  /\ UNCHANGED <<clock, passAt, polling>>

(* restoreImpl: reset(now) and markConfigDirty(id, now) for each display.    *)
(* Its only caller passes 0 for now.                                         *)
Restore(withDisplay) ==
  /\ age' = 0 /\ quiet' = 0 /\ failed' = FALSE
  /\ foreign' = withDisplay
  /\ dirty' = withDisplay
  /\ work' = IF withDisplay THEN {"config"} ELSE {}
  /\ firstDirtyAt' = IF withDisplay THEN 0 ELSE Unset
  /\ lastChangeAt' = 0
  /\ UNCHANGED <<clock, passAt, polling>>

(* DeviceRegistry::tick ends the pass: a flush that succeeds, a flush that   *)
(* fails and leaves everything marked, or none.                              *)
EndPass ==
  /\ polling
  /\ polling' = FALSE
  /\ UNCHANGED <<clock, passAt>>

TickFlushes ==
  /\ EndPass
  /\ ShouldFlush(passAt)
  /\ MarkClean
  /\ NothingPending

TickFails ==
  /\ EndPass
  /\ ShouldFlush(passAt)
  /\ failed' = TRUE
  /\ UNCHANGED <<timer, age, quiet, foreign>>

TickWaits ==
  /\ EndPass
  /\ ~ShouldFlush(passAt)
  /\ UNCHANGED <<timer, observers>>

(* The restart and the update of the firmware flush at once. *)
FlushNow ==
  /\ dirty
  /\ MarkClean
  /\ NothingPending
  /\ UNCHANGED <<clock, passAt, polling>>

Next ==
  \/ Elapse \/ StartPass \/ TickFlushes \/ TickFails \/ TickWaits
  \/ \E kind \in Kinds : LoopChange(kind) \/ WebChange(kind)
  \/ ImmediateSave \/ FlushNow
  \/ \E withDisplay \in BOOLEAN : Restore(withDisplay)

Spec == Init /\ [][Next]_vars

------------------------------------------------------------------------------
(* dirty_ is only a summary, kept by hand next to the three sets: it is up   *)
(* exactly when one of them holds something (hasAnyPersistenceWork), so no   *)
(* marked change is left for good and no flush runs for nothing.             *)
DirtyMatchesWork == dirty <=> work # {}

(* "hard cap from the first unflushed change" (rest-api-contract.md): unless *)
(* flash refused it, or its stamp happens to be the one that means unset, no *)
(* change stays in RAM longer than MaxDelay, the two passes it takes to      *)
(* notice, and the pass an import may lose because its now of 0 looks recent *)
(* again once millis() wraps.                                                *)
MaxDelayHolds == dirty /\ ~failed /\ firstDirtyAt # Unset => age <= MaxDelay + 3 * MaxPass

(* A flush comes in time when the burst has settled or its first change has  *)
(* reached the cap; one pass of the loop is the resolution of either.        *)
InTime == quiet + MaxPass >= Debounce \/ age + MaxPass >= MaxDelay

(* The tick flushes a burst of the main loop's own changes in time.          *)
DebounceHolds == [][TickFlushes /\ ~foreign => InTime]_vars

(* "quiet period after the last change" (rest-api-contract.md), whichever    *)
(* task the change comes from.  The code does not keep it.                   *)
QuietPeriodHolds == [][TickFlushes => InTime]_vars
==============================================================================
