-------------------------------- MODULE RtcSync --------------------------------
(***************************************************************************)
(* What RtcSyncCoordinator does with the system clock and a battery-backed *)
(* clock chip: seed the one from the other at boot, write authoritative    *)
(* time back, and fall back to the chip when the network's time is old.    *)
(* The system clock drifts by one in each unit of time; the chip, for the  *)
(* property here, keeps what was written to it.                            *)
(***************************************************************************)
EXTENDS Naturals

CONSTANTS
  WriteBackInterval,    \* kWriteBackIntervalMs
  StalenessThreshold,   \* kStalenessThresholdMs
  ReseedInterval,       \* kStalenessReseedIntervalMs
  BootRetry,            \* kBootReseedRetryMs
  MaxDrift              \* bound: the largest error that is told apart

ASSUME RtcAssumption ==
  /\ {WriteBackInterval, StalenessThreshold, ReseedInterval, BootRetry, MaxDrift} \subseteq Nat
  /\ StalenessThreshold + ReseedInterval + 2 < MaxDrift

VARIABLES
  authoritative,             \* hasAuthoritativeSync_
  syncRevision, observed,    \* syncRevision_ and observedSyncRevision_
  systemError, rtcError,     \* external: how far the two clocks are off; MaxDrift: never set
  rtcReady,                  \* findActiveRtc() finds a device
  sinceAuthoritative, sinceWriteBack, sinceSeed, sinceBootSeed,    \* ages of the time stamps
  due,                       \* a unit has passed that tick() has not seen
  owed                       \* observer: no write to the chip was tried since the last sync

ages == <<sinceAuthoritative, sinceWriteBack, sinceSeed, sinceBootSeed>>
rtcVars == <<authoritative, syncRevision, observed, systemError, rtcError, rtcReady, ages, due,
             owed>>

RtcInit ==
  /\ authoritative = FALSE /\ syncRevision = 0 /\ observed = 0
  /\ systemError = MaxDrift /\ rtcError = 0 /\ rtcReady = FALSE
  /\ sinceAuthoritative = 0 /\ sinceWriteBack = 0 /\ sinceSeed = 0
  /\ sinceBootSeed = BootRetry + 1
  /\ due = FALSE /\ owed = FALSE

Elapsed(age, interval) == age > interval

tickBootSeed == ~authoritative /\ rtcReady /\ Elapsed(sinceBootSeed, BootRetry)

WriteBackWanted ==
  syncRevision # observed \/ (authoritative /\ Elapsed(sinceWriteBack, WriteBackInterval))

\* Mutant: the clock is written back whether anybody has set it or not.
tickWriteBackAnyTime == rtcReady /\ (WriteBackWanted \/ Elapsed(sinceWriteBack, WriteBackInterval))

\* A sync is taken note of only when it can be written; a failing write is
\* not tried again before the next interval.
tickWriteBack == WriteBackWanted /\ rtcReady /\ authoritative

\* Mutant: the sync is noted although there is no chip to write it to.
NotedWithoutChip == WriteBackWanted

Noted == tickWriteBack

tickStalenessFallback ==
  /\ authoritative /\ rtcReady
  /\ Elapsed(sinceAuthoritative, StalenessThreshold) /\ Elapsed(sinceSeed, ReseedInterval)

\* tick(): its three parts in their order; reading or writing the chip may fail.
RtcTick(read, written) ==
  /\ due /\ due' = FALSE
  /\ sinceBootSeed' = IF tickBootSeed THEN 0 ELSE sinceBootSeed
  /\ sinceWriteBack' = IF Noted THEN 0 ELSE sinceWriteBack
  /\ observed' = IF Noted THEN syncRevision ELSE observed
  /\ rtcError' = IF tickWriteBack /\ written THEN systemError ELSE rtcError
  /\ owed' = (owed /\ ~tickWriteBack)
  /\ sinceSeed' = IF tickStalenessFallback THEN 0 ELSE sinceSeed
  /\ systemError' = IF read /\ tickBootSeed THEN rtcError
                    ELSE IF read /\ tickStalenessFallback THEN rtcError' ELSE systemError
  /\ UNCHANGED <<authoritative, syncRevision, rtcReady, sinceAuthoritative>>

\* applyExternalTime() for an answer of the network or a time set by hand.
applyExternalTime ==
  /\ authoritative' = TRUE
  /\ syncRevision' = (syncRevision + 1) % 3
  /\ syncRevision' # observed
  /\ systemError' = 0
  /\ sinceAuthoritative' = 0 /\ owed' = TRUE
  /\ UNCHANGED <<observed, rtcError, rtcReady, sinceWriteBack, sinceSeed, sinceBootSeed, due>>

RtcChanges ==
  /\ rtcReady' = ~rtcReady
  /\ UNCHANGED <<authoritative, syncRevision, observed, systemError, rtcError, ages, due, owed>>

Older(age, cap) == IF age > cap THEN age ELSE age + 1

UnitPasses ==
  /\ ~due /\ due' = TRUE
  /\ sinceAuthoritative' = Older(sinceAuthoritative, StalenessThreshold)
  /\ sinceWriteBack' = Older(sinceWriteBack, WriteBackInterval)
  /\ sinceSeed' = Older(sinceSeed, ReseedInterval)
  /\ sinceBootSeed' = Older(sinceBootSeed, BootRetry)
  /\ systemError' = Older(systemError, MaxDrift - 2)
  /\ UNCHANGED <<authoritative, syncRevision, observed, rtcError, rtcReady, owed>>

Coordinate == \E read, written \in BOOLEAN : RtcTick(read, written)

RtcNext == Coordinate \/ UnitPasses \/ applyExternalTime \/ RtcChanges

\* Time passes and the main loop ticks.
RtcSpec == RtcInit /\ [][RtcNext]_rtcVars /\ WF_rtcVars(Coordinate) /\ WF_rtcVars(UnitPasses)
-------------------------------------------------------------------------------
\* Every variable holds a value of its type.
RtcTypeOK ==
  /\ {authoritative, rtcReady, due, owed} \subseteq BOOLEAN
  /\ {syncRevision, observed} \subseteq 0..2
  /\ {systemError, rtcError} \subseteq 0..MaxDrift
  /\ sinceAuthoritative \in 0..(StalenessThreshold + 1) /\ sinceWriteBack \in 0..(WriteBackInterval + 1)
  /\ sinceSeed \in 0..(ReseedInterval + 1) /\ sinceBootSeed \in 0..(BootRetry + 1)

\* A sync is not used up while the chip is away: the first tick that finds the
\* chip writes it, though the regular interval has not passed.  (A write that
\* fails is not tried again before that interval.)
SyncReachesRtc == [][owed /\ rtcReady /\ due /\ ~due' => ~owed']_rtcVars

\* The chip is never set from a clock that nobody has set: what it kept
\* through a power cut is not replaced by the garbage of a boot.
RtcKeepsTime == rtcError # MaxDrift
================================================================================
