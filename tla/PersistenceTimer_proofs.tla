------------------------ MODULE PersistenceTimer_proofs ------------------------
(***************************************************************************)
(* For every word size, debounce, cap and length of a pass that the module *)
(* assumes: the summary flag is the summary of the sets, no change waits   *)
(* past the cap, and the loop's own bursts are flushed in time.            *)
(***************************************************************************)
EXTENDS PersistenceTimer, TLAPS

-----------------------------------------------------------------------------
(* Unsigned differences.                                                     *)

LEMMA SmallMod == ASSUME NEW w \in Nat, NEW x \in 0..(w - 1) PROVE x % w = x
  OBVIOUS

LEMMA NegativeMod == ASSUME NEW w \in Nat, NEW x \in Int, x < 0, -w <= x PROVE x % w = x + w
  OBVIOUS

LEMMA SinceIs ==
  ASSUME NEW a \in Stamps, NEW b \in Stamps
  PROVE  /\ Since(a, b) \in Stamps
         /\ Since(a, b) = IF b <= a THEN a - b ELSE a - b + Word
  <1>w. Word \in Nat /\ a \in Int /\ b \in Int /\ a - b \in Int
    BY TimerAssumption DEF Stamps
  <1>1. CASE b <= a
    <2>1. a - b \in 0..(Word - 1)
      BY <1>1, <1>w DEF Stamps
    <2>2. (a - b) % Word = a - b
      BY <1>w, <2>1, SmallMod
    <2> QED
      BY <1>1, <2>1, <2>2 DEF Stamps, Since
  <1>2. CASE ~(b <= a)
    <2>1. a - b < 0 /\ -Word <= a - b /\ a - b + Word \in 0..(Word - 1)
      BY <1>2, <1>w DEF Stamps
    <2>2. (a - b) % Word = a - b + Word
      BY <1>w, <2>1, NegativeMod
    <2> QED
      BY <1>2, <2>1, <2>2 DEF Stamps, Since
  <1> QED
    BY <1>1, <1>2

(* What arithmetic needs to know of the difference of two stamps.            *)
LEMMA SinceNat == ASSUME NEW a \in Stamps, NEW b \in Stamps PROVE Since(a, b) \in Nat /\ Since(a, a) = 0
  <1>1. Since(a, b) \in Stamps /\ Since(a, a) = IF a <= a THEN a - a ELSE a - a + Word
    BY SinceIs
  <1> QED
    BY <1>1, TimerAssumption DEF Stamps

LEMMA Triangle ==
  ASSUME NEW a \in Stamps, NEW b \in Stamps, NEW c \in Stamps
  PROVE  /\ Since(c, b) <= Since(a, b) + Since(c, a)
         /\ Since(a, b) + Since(c, a) < Word => Since(c, b) = Since(a, b) + Since(c, a)
  <1>1. /\ Since(c, b) = IF b <= c THEN c - b ELSE c - b + Word
        /\ Since(a, b) = IF b <= a THEN a - b ELSE a - b + Word
        /\ Since(c, a) = IF a <= c THEN c - a ELSE c - a + Word
    BY SinceIs
  <1> QED
    BY <1>1, TimerAssumption DEF Stamps

LEMMA NextStamp ==
  ASSUME NEW a \in Stamps
  PROVE  /\ (a + 1) % Word \in Stamps
         /\ (a + 1) % Word = IF a + 1 = Word THEN 0 ELSE a + 1
  <1>1. CASE a + 1 = Word
    BY <1>1, TimerAssumption DEF Stamps
  <1>2. CASE a + 1 # Word
    <2>1. a + 1 \in 0..(Word - 1)
      BY <1>2, TimerAssumption DEF Stamps
    <2> QED
      BY <1>2, <2>1, TimerAssumption, SmallMod DEF Stamps
  <1> QED
    BY <1>1, <1>2

-----------------------------------------------------------------------------
(* The pass that runs, or ran last, began at most MaxPass ago.               *)
PassInv == Since(clock, passAt) <= MaxPass

(* Nothing waits, so nothing has aged.                                       *)
RestInv == ~dirty => age = 0 /\ quiet = 0

(* No stamp of the loop's own changes looks older than it is, but for the    *)
(* pass that the stamp was taken from.                                       *)
StampInv ==
  dirty /\ ~foreign =>
    /\ Since(passAt, lastChangeAt) + Since(clock, passAt) <= quiet + MaxPass \/ quiet = AgeCap
    /\ Since(passAt, firstDirtyAt) + Since(clock, passAt) <= age + MaxPass \/ age = AgeCap

(* A change is no older than its stamp says, but for one pass; and if the    *)
(* pass that runs will flush it, it was noticed in time.                     *)
Counted == dirty /\ ~failed /\ firstDirtyAt # Unset

AgeInv ==
  Counted =>
    /\ Since(passAt, firstDirtyAt) < MaxDelay => age <= Since(clock, firstDirtyAt) + MaxPass
    /\ Since(passAt, firstDirtyAt) >= MaxDelay =>
         \/ age <= Since(clock, passAt)
         \/ polling /\ age <= MaxDelay + 2 * MaxPass + Since(clock, passAt)

IInv == TypeOK /\ DirtyMatchesWork /\ PassInv /\ RestInv /\ StampInv /\ AgeInv

(* One millisecond later a stamp looks one older, unless that is a whole      *)
(* round of the counter.                                                     *)
LEMMA OneLater ==
  ASSUME NEW a \in Stamps, NEW b \in Stamps, Since(a, b) + 1 < Word
  PROVE  Since((a + 1) % Word, b) = Since(a, b) + 1
  <1>1. /\ (a + 1) % Word \in Stamps
        /\ (a + 1) % Word = IF a + 1 = Word THEN 0 ELSE a + 1
    BY NextStamp
  <1>2. /\ Since((a + 1) % Word, b) = IF b <= (a + 1) % Word THEN ((a + 1) % Word) - b ELSE ((a + 1) % Word) - b + Word
        /\ Since(a, b) = IF b <= a THEN a - b ELSE a - b + Word
    BY <1>1, SinceIs
  <1>3. Word \in Nat /\ a \in Nat /\ b \in Nat /\ a < Word /\ b < Word
    BY TimerAssumption DEF Stamps
  <1>4. CASE a + 1 = Word
    BY <1>1, <1>2, <1>3, <1>4
  <1>5. CASE a + 1 # Word
    BY <1>1, <1>2, <1>3, <1>5
  <1> QED
    BY <1>4, <1>5

-----------------------------------------------------------------------------
LEMMA CapNat ==
  /\ AgeCap \in Nat /\ AgeCap = MaxDelay + 4 * MaxPass /\ 0 \in 0..AgeCap
  /\ Unset \in Stamps /\ 0 \in Stamps
  /\ Word \in Nat /\ MaxDelay \in Nat /\ Debounce \in Nat /\ MaxPass \in Nat /\ MaxPass >= 1
  /\ Debounce <= MaxDelay /\ MaxDelay + 3 * MaxPass < Word
  BY TimerAssumption DEF AgeCap, Unset, Stamps

LEMMA Figures ==
  ASSUME TypeOK
  PROVE  /\ clock \in Stamps /\ passAt \in Stamps /\ firstDirtyAt \in Stamps /\ lastChangeAt \in Stamps
         /\ age \in Nat /\ quiet \in Nat /\ age <= AgeCap /\ quiet <= AgeCap
         /\ Since(clock, passAt) \in Nat /\ Since(passAt, passAt) = 0 /\ Since(clock, clock) = 0
         /\ Since(passAt, lastChangeAt) \in Nat /\ Since(passAt, firstDirtyAt) \in Nat
         /\ Since(clock, lastChangeAt) \in Nat /\ Since(clock, firstDirtyAt) \in Nat
  <1>1. clock \in Stamps /\ passAt \in Stamps /\ firstDirtyAt \in Stamps /\ lastChangeAt \in Stamps
    BY DEF TypeOK
  <1>2. age \in 0..AgeCap /\ quiet \in 0..AgeCap
    BY DEF TypeOK
  <1>3. age \in Nat /\ quiet \in Nat /\ age <= AgeCap /\ quiet <= AgeCap
    BY <1>2, CapNat
  <1> QED
    BY <1>1, <1>3, SinceNat

LEMMA Initially == Init => IInv
  <1> SUFFICES ASSUME Init PROVE IInv
    OBVIOUS
  <1>1. TypeOK
    <2>1. /\ clock \in Stamps /\ passAt \in Stamps /\ firstDirtyAt \in Stamps /\ lastChangeAt \in Stamps
          /\ age \in 0..AgeCap /\ quiet \in 0..AgeCap
      BY CapNat DEF Init
    <2>2. work \in SUBSET Kinds
      BY DEF Init
    <2> QED
      BY <2>1, <2>2 DEF Init, TypeOK
  <1>2. Since(clock, passAt) = 0
    BY SinceIs, CapNat DEF Init
  <1> QED
    BY <1>1, <1>2, TimerAssumption DEF Init, IInv, DirtyMatchesWork, PassInv, RestInv, StampInv, AgeInv, Counted

-----------------------------------------------------------------------------
(* What MarkDirty and MarkClean do to the invariant, whoever calls them.     *)

LEMMA Marking ==
  ASSUME IInv, NEW kind \in Kinds, NEW at \in Stamps, MarkDirty(kind, at),
         UNCHANGED <<clock, passAt, polling>>, foreign' \in BOOLEAN,
         (at = passAt /\ foreign' = foreign) \/ foreign'
  PROVE  IInv'
  <1> USE DEF IInv
  <1>1. TypeOK'
    BY CapNat, TimerAssumption DEF TypeOK, MarkDirty, Kinds
  <1>2. DirtyMatchesWork' /\ PassInv' /\ RestInv'
    BY DEF MarkDirty, DirtyMatchesWork, PassInv, RestInv, Since
  <1>3. Since(passAt, passAt) = 0 /\ Since(clock, passAt) \in Nat
    <2>1. clock \in Stamps /\ passAt \in Stamps
      BY DEF TypeOK
    <2> QED
      BY <2>1, SinceNat
  <1>4. StampInv'
    <2> SUFFICES ASSUME ~foreign' PROVE StampInv'
      BY DEF StampInv
    <2>1. at = passAt /\ ~foreign
      OBVIOUS
    <2>2. Since(passAt, lastChangeAt)' + Since(clock, passAt)' <= quiet' + MaxPass
      BY <1>3, <2>1, TimerAssumption DEF MarkDirty, PassInv, Since
    <2>3. CASE dirty
      BY <2>1, <2>2, <2>3 DEF MarkDirty, StampInv, Since
    <2>4. CASE ~dirty
      BY <1>3, <2>1, <2>2, <2>4, TimerAssumption DEF MarkDirty, StampInv, RestInv, PassInv, Since
    <2> QED
      BY <2>3, <2>4
  <1>5. AgeInv'
    <2>1. CASE dirty
      BY <2>1 DEF MarkDirty, AgeInv, Counted, Since
    <2>2. CASE ~dirty
      <3>1. age' = 0 /\ Since(clock, passAt)' \in Nat /\ Since(clock, firstDirtyAt)' \in Nat
        <4>1. (clock \in Stamps /\ passAt \in Stamps /\ firstDirtyAt \in Stamps)'
          BY <1>1 DEF TypeOK
        <4>2. Since(clock', passAt') \in Stamps /\ Since(clock', firstDirtyAt') \in Stamps
          BY <4>1, SinceIs
        <4> QED
          BY <2>2, <4>2, TimerAssumption DEF MarkDirty, RestInv, Stamps, Since
      <3> QED
        BY <3>1, TimerAssumption DEF AgeInv
    <2> QED
      BY <2>1, <2>2
  <1> QED
    BY <1>1, <1>2, <1>4, <1>5

LEMMA Cleaning ==
  ASSUME IInv, MarkClean, NothingPending, UNCHANGED <<clock, passAt>>, polling' \in BOOLEAN
  PROVE  IInv'
  <1>1. TypeOK'
    <2>1. (clock \in Stamps /\ passAt \in Stamps)'
      BY DEF IInv, TypeOK
    <2>2. (firstDirtyAt \in Stamps /\ lastChangeAt \in Stamps /\ age \in 0..AgeCap /\ quiet \in 0..AgeCap)'
      BY CapNat DEF MarkClean, NothingPending
    <2>3. (work \in SUBSET Kinds /\ dirty \in BOOLEAN /\ failed \in BOOLEAN /\ foreign \in BOOLEAN)'
      BY DEF MarkClean, NothingPending
    <2> QED
      BY <2>1, <2>2, <2>3 DEF TypeOK
  <1>2. (DirtyMatchesWork /\ RestInv /\ StampInv /\ AgeInv)'
    BY DEF MarkClean, NothingPending, DirtyMatchesWork, RestInv, StampInv, AgeInv, Counted
  <1>3. PassInv'
    BY DEF IInv, PassInv, Since
  <1> QED
    BY <1>1, <1>2, <1>3 DEF IInv

-----------------------------------------------------------------------------
(* Time goes by, and a pass begins.                                          *)

LEMMA OlderIs ==
  ASSUME NEW t \in 0..AgeCap
  PROVE  Older(t) \in 0..AgeCap /\ Older(t) <= t + 1 /\ (Older(t) = t + 1 \/ Older(t) = AgeCap)
  BY CapNat DEF Older

LEMMA Elapsing == ASSUME IInv, Elapse PROVE IInv'
  <1> USE DEF IInv
  <1>t. /\ clock \in Stamps /\ passAt \in Stamps /\ firstDirtyAt \in Stamps /\ lastChangeAt \in Stamps
        /\ age \in Nat /\ quiet \in Nat /\ age <= AgeCap /\ quiet <= AgeCap
        /\ Since(clock, passAt) \in Nat /\ Since(clock, firstDirtyAt) \in Nat
        /\ Since(passAt, firstDirtyAt) \in Nat /\ Since(passAt, lastChangeAt) \in Nat
    BY Figures
  <1>o. /\ Older(age) \in 0..AgeCap /\ Older(age) <= age + 1 /\ (Older(age) = age + 1 \/ Older(age) = AgeCap)
        /\ Older(quiet) \in 0..AgeCap /\ (Older(quiet) = quiet + 1 \/ Older(quiet) = AgeCap)
    BY OlderIs DEF TypeOK
  <1>1. TypeOK'
    BY <1>o, NextStamp, CapNat DEF Elapse, TypeOK, timer
  <1>2. DirtyMatchesWork' /\ RestInv'
    BY DEF Elapse, DirtyMatchesWork, RestInv, timer
  <1>3. Since(clock, passAt) < MaxPass
    BY DEF Elapse
  <1>4. Since(clock', passAt) = Since(clock, passAt) + 1
    <2>1. Since(clock, passAt) + 1 < Word
      BY <1>t, <1>3, CapNat
    <2> QED
      BY <1>t, <2>1, OneLater DEF Elapse
  <1>5. PassInv'
    <2>1. Since(clock', passAt) <= MaxPass
      BY <1>t, <1>3, <1>4, CapNat
    <2> QED
      BY <2>1 DEF Elapse, PassInv, Since
  <1>7. StampInv'
    <2> SUFFICES ASSUME dirty, ~foreign PROVE StampInv'
      BY DEF StampInv, Elapse, timer
    <2>1. age' = Older(age) /\ quiet' = Older(quiet)
      BY DEF Elapse
    <2>2. Since(passAt, lastChangeAt) + Since(clock', passAt) <= quiet' + MaxPass \/ quiet' = AgeCap
      <3>1. Since(passAt, lastChangeAt) + Since(clock, passAt) <= quiet + MaxPass \/ quiet = AgeCap
        BY DEF StampInv
      <3>2. quiet = AgeCap => quiet' = AgeCap
        BY <2>1 DEF Older
      <3> QED
        BY <1>o, <1>t, <1>4, <2>1, <3>1, <3>2, CapNat
    <2>3. Since(passAt, firstDirtyAt) + Since(clock', passAt) <= age' + MaxPass \/ age' = AgeCap
      <3>1. Since(passAt, firstDirtyAt) + Since(clock, passAt) <= age + MaxPass \/ age = AgeCap
        BY DEF StampInv
      <3>2. age = AgeCap => age' = AgeCap
        BY <2>1 DEF Older
      <3> QED
        BY <1>o, <1>t, <1>4, <2>1, <3>1, <3>2, CapNat
    <2> QED
      BY <2>2, <2>3 DEF StampInv, Elapse, timer, Since
  <1>8. AgeInv'
    <2> SUFFICES ASSUME Counted PROVE AgeInv'
      BY DEF AgeInv, Counted, Elapse, timer
    <2>1. age' <= age + 1 /\ age' \in Nat
      BY <1>t, <1>o, CapNat DEF Elapse, Counted
    <2>2. ASSUME Since(passAt, firstDirtyAt) < MaxDelay
          PROVE  age' <= Since(clock', firstDirtyAt) + MaxPass
      <3>1. Since(clock, firstDirtyAt) <= Since(passAt, firstDirtyAt) + Since(clock, passAt)
        BY <1>t, Triangle
      <3>2. Since(clock, firstDirtyAt) + 1 < Word
        BY <1>t, <1>3, <2>2, <3>1, CapNat
      <3>3. Since(clock', firstDirtyAt) = Since(clock, firstDirtyAt) + 1
        BY <1>t, <3>2, OneLater DEF Elapse
      <3>4. age <= Since(clock, firstDirtyAt) + MaxPass
        BY <2>2 DEF AgeInv
      <3> QED
        BY <1>t, <2>1, <3>3, <3>4, CapNat
    <2>3. ASSUME Since(passAt, firstDirtyAt) >= MaxDelay
          PROVE  \/ age' <= Since(clock', passAt)
                 \/ polling /\ age' <= MaxDelay + 2 * MaxPass + Since(clock', passAt)
      <3>1. \/ age <= Since(clock, passAt)
            \/ polling /\ age <= MaxDelay + 2 * MaxPass + Since(clock, passAt)
        BY <2>3 DEF AgeInv
      <3> QED
        BY <1>t, <1>4, <2>1, <3>1, CapNat
    <2> QED
      BY <2>2, <2>3 DEF AgeInv, Elapse, timer, Since
  <1> QED
    BY <1>1, <1>2, <1>5, <1>7, <1>8

LEMMA Starting == ASSUME IInv, StartPass PROVE IInv'
  <1> USE DEF IInv
  <1>t. /\ clock \in Stamps /\ passAt \in Stamps /\ firstDirtyAt \in Stamps /\ lastChangeAt \in Stamps
        /\ age \in Nat /\ quiet \in Nat
        /\ Since(clock, passAt) \in Nat /\ Since(clock, clock) = 0
        /\ Since(passAt, firstDirtyAt) \in Nat /\ Since(passAt, lastChangeAt) \in Nat
        /\ Since(clock, firstDirtyAt) \in Nat /\ Since(clock, lastChangeAt) \in Nat
    BY Figures
  <1>1. TypeOK' /\ DirtyMatchesWork' /\ RestInv'
    BY DEF StartPass, TypeOK, DirtyMatchesWork, RestInv, timer, observers
  <1>2. Since(clock, passAt) <= MaxPass
    BY DEF PassInv
  <1>3. PassInv'
    BY <1>t, CapNat DEF StartPass, PassInv, Since
  <1>l. /\ Since(clock, lastChangeAt) <= Since(passAt, lastChangeAt) + Since(clock, passAt)
        /\ Since(clock, firstDirtyAt) <= Since(passAt, firstDirtyAt) + Since(clock, passAt)
        /\ Since(passAt, firstDirtyAt) + Since(clock, passAt) < Word =>
             Since(clock, firstDirtyAt) = Since(passAt, firstDirtyAt) + Since(clock, passAt)
    BY <1>t, Triangle
  <1>4. StampInv'
    <2> SUFFICES ASSUME dirty, ~foreign PROVE StampInv'
      BY DEF StampInv, StartPass, timer, observers
    <2>1. /\ Since(passAt, lastChangeAt) + Since(clock, passAt) <= quiet + MaxPass \/ quiet = AgeCap
          /\ Since(passAt, firstDirtyAt) + Since(clock, passAt) <= age + MaxPass \/ age = AgeCap
      BY DEF StampInv
    <2>2. /\ Since(clock, lastChangeAt) + Since(clock, clock) <= quiet + MaxPass \/ quiet = AgeCap
          /\ Since(clock, firstDirtyAt) + Since(clock, clock) <= age + MaxPass \/ age = AgeCap
      BY <1>t, <1>l, <2>1, CapNat
    <2> QED
      BY <2>2 DEF StampInv, StartPass, timer, observers, Since
  <1>5. AgeInv'
    <2> SUFFICES ASSUME Counted PROVE AgeInv'
      BY DEF AgeInv, Counted, StartPass, timer, observers
    <2>1. age <= Since(clock, firstDirtyAt) + MaxPass /\ age <= MaxDelay + 2 * MaxPass
      <3>1. CASE Since(passAt, firstDirtyAt) < MaxDelay
        <4>1. age <= Since(clock, firstDirtyAt) + MaxPass
          BY <3>1 DEF AgeInv
        <4> QED
          BY <1>t, <1>2, <1>l, <3>1, <4>1, CapNat
      <3>2. CASE Since(passAt, firstDirtyAt) >= MaxDelay
        <4>1. age <= Since(clock, passAt)
          BY <3>2 DEF AgeInv, StartPass
        <4> QED
          BY <1>t, <1>2, <4>1, CapNat
      <3> QED
        BY <1>t, <3>1, <3>2, CapNat
    <2> QED
      BY <1>t, <2>1, CapNat DEF AgeInv, StartPass, timer, observers, Since
  <1> QED
    BY <1>1, <1>3, <1>4, <1>5

-----------------------------------------------------------------------------
LEMMA Waiting == ASSUME IInv, TickWaits PROVE IInv'
  <1> USE DEF IInv
  <1>1. TypeOK' /\ DirtyMatchesWork' /\ RestInv' /\ PassInv' /\ StampInv'
    BY DEF TickWaits, EndPass, TypeOK, DirtyMatchesWork, RestInv, PassInv, StampInv, timer, observers, Since
  <1>2. AgeInv'
    <2> SUFFICES ASSUME Counted PROVE AgeInv'
      BY DEF AgeInv, Counted, TickWaits, EndPass, timer, observers
    <2>1. ~(Since(passAt, firstDirtyAt) >= MaxDelay)
      BY DEF TickWaits, ShouldFlush, Counted
    <2> QED
      BY <2>1 DEF AgeInv, TickWaits, EndPass, timer, observers, Since
  <1> QED
    BY <1>1, <1>2

LEMMA Failing == ASSUME IInv, TickFails PROVE IInv'
  BY DEF IInv, TickFails, EndPass, TypeOK, DirtyMatchesWork, RestInv, PassInv, StampInv, AgeInv, Counted,
         timer, Since

LEMMA Saving == ASSUME IInv, ImmediateSave PROVE IInv'
  <1>1. CASE "retained" \in work
    BY <1>1 DEF IInv, ImmediateSave, TypeOK, DirtyMatchesWork, RestInv, PassInv, StampInv, AgeInv, Counted,
                Kinds, observers, Since
  <1>2. CASE "retained" \notin work
    BY <1>2, Cleaning DEF ImmediateSave, IInv, TypeOK
  <1> QED
    BY <1>1, <1>2

LEMMA Importing == ASSUME IInv, NEW withDisplay \in BOOLEAN, Restore(withDisplay) PROVE IInv'
  <1>1. TypeOK'
    <2>1. (clock \in Stamps /\ passAt \in Stamps /\ polling \in BOOLEAN)'
      BY DEF IInv, TypeOK, Restore
    <2>2. (firstDirtyAt \in Stamps /\ lastChangeAt \in Stamps /\ age \in 0..AgeCap /\ quiet \in 0..AgeCap)'
      BY CapNat DEF Restore
    <2>3. (work \in SUBSET Kinds /\ dirty \in BOOLEAN /\ failed \in BOOLEAN /\ foreign \in BOOLEAN)'
      BY DEF Restore, Kinds
    <2> QED
      BY <2>1, <2>2, <2>3 DEF TypeOK
  <1>2. (DirtyMatchesWork /\ RestInv /\ StampInv)'
    BY DEF Restore, DirtyMatchesWork, RestInv, StampInv
  <1>3. PassInv'
    BY DEF IInv, PassInv, Since, Restore
  <1>4. AgeInv'
    <2>1. clock' \in Stamps /\ passAt' \in Stamps /\ firstDirtyAt' \in Stamps
      BY <1>1 DEF TypeOK
    <2>2. Since(clock', firstDirtyAt') \in Nat /\ Since(clock', passAt') \in Nat
      BY <2>1, SinceNat
    <2>3. age' = 0
      BY DEF Restore
    <2>4. age' <= Since(clock', firstDirtyAt') + MaxPass /\ age' <= Since(clock', passAt')
      BY <2>2, <2>3, CapNat
    <2> QED
      BY <2>4 DEF AgeInv, Since
  <1> QED
    BY <1>1, <1>2, <1>3, <1>4 DEF IInv

LEMMA Stuttering == ASSUME IInv, UNCHANGED vars PROVE IInv'
  BY DEF IInv, vars, timer, observers, TypeOK, DirtyMatchesWork, RestInv, PassInv, StampInv, AgeInv, Counted,
         Since

LEMMA Stepping == IInv /\ [Next]_vars => IInv'
  <1> SUFFICES ASSUME IInv, [Next]_vars PROVE IInv'
    OBVIOUS
  <1>1. CASE Elapse
    BY <1>1, Elapsing
  <1>2. CASE StartPass
    BY <1>2, Starting
  <1>3. CASE TickFlushes
    BY <1>3, Cleaning DEF TickFlushes, EndPass
  <1>4. CASE TickFails
    BY <1>4, Failing
  <1>5. CASE TickWaits
    BY <1>5, Waiting
  <1>6. ASSUME NEW kind \in Kinds, LoopChange(kind) PROVE IInv'
    BY <1>6, Marking DEF LoopChange, IInv, TypeOK
  <1>7. ASSUME NEW kind \in Kinds, WebChange(kind) PROVE IInv'
    BY <1>7, Marking DEF WebChange, IInv, TypeOK
  <1>8. CASE ImmediateSave
    BY <1>8, Saving
  <1>9. CASE FlushNow
    BY <1>9, Cleaning DEF FlushNow, IInv, TypeOK
  <1>10. ASSUME NEW withDisplay \in BOOLEAN, Restore(withDisplay) PROVE IInv'
    BY <1>10, Importing
  <1>11. CASE UNCHANGED vars
    BY <1>11, Stuttering
  <1> QED
    BY <1>1, <1>2, <1>3, <1>4, <1>5, <1>6, <1>7, <1>8, <1>9, <1>10, <1>11 DEF Next

LEMMA Always == Spec => []IInv
  BY Initially, Stepping, PTL DEF Spec

-----------------------------------------------------------------------------
(* Every time stamp, set and flag of the coordinator keeps its type.         *)
THEOREM TimerTypeCorrect == Spec => []TypeOK
  <1>1. IInv => TypeOK
    BY DEF IInv
  <1> QED
    BY <1>1, Always, PTL

(* dirty_ is the summary of the three sets, after any sequence of changes,   *)
(* saves, imports and flushes.                                               *)
THEOREM SummaryCorrect == Spec => []DirtyMatchesWork
  <1>1. IInv => DirtyMatchesWork
    BY DEF IInv
  <1> QED
    BY <1>1, Always, PTL

(* No change stays in RAM past the cap and three passes, unless flash        *)
(* refused it or its stamp is the one that means unset: for every word size  *)
(* that holds the cap and the passes, wrapped around as often as it may.     *)
THEOREM CapHolds == Spec => []MaxDelayHolds
  <1>1. IInv => MaxDelayHolds
    <2> SUFFICES ASSUME IInv, Counted PROVE age <= MaxDelay + 3 * MaxPass
      BY DEF MaxDelayHolds, Counted
    <2>t. /\ clock \in Stamps /\ passAt \in Stamps /\ firstDirtyAt \in Stamps /\ age \in Nat
          /\ Since(clock, passAt) \in Nat /\ Since(passAt, firstDirtyAt) \in Nat
          /\ Since(clock, firstDirtyAt) \in Nat
      BY Figures DEF IInv
    <2>p. Since(clock, passAt) <= MaxPass
      BY DEF IInv, PassInv
    <2>1. CASE Since(passAt, firstDirtyAt) < MaxDelay
      <3>1. Since(clock, firstDirtyAt) <= Since(passAt, firstDirtyAt) + Since(clock, passAt)
        BY <2>t, Triangle
      <3>2. age <= Since(clock, firstDirtyAt) + MaxPass
        BY <2>1 DEF IInv, AgeInv
      <3> QED
        BY <2>t, <2>p, <2>1, <3>1, <3>2, CapNat
    <2>2. CASE Since(passAt, firstDirtyAt) >= MaxDelay
      <3>1. age <= Since(clock, passAt) \/ age <= MaxDelay + 2 * MaxPass + Since(clock, passAt)
        BY <2>2 DEF IInv, AgeInv
      <3> QED
        BY <2>t, <2>p, <3>1, CapNat
    <2> QED
      BY <2>t, <2>1, <2>2, CapNat
  <1> QED
    BY <1>1, Always, PTL

(* A burst of the loop's own changes is flushed when it settled or reached   *)
(* the cap, never in its middle.                                             *)
THEOREM OwnBurstsSettle == Spec => DebounceHolds
  <1>1. IInv /\ [Next]_vars => [TickFlushes /\ ~foreign => InTime]_vars
    <2> SUFFICES ASSUME IInv, TickFlushes, ~foreign PROVE InTime
      OBVIOUS
    <2>t. /\ age \in Nat /\ quiet \in Nat
          /\ Since(clock, passAt) \in Nat /\ Since(passAt, lastChangeAt) \in Nat
          /\ Since(passAt, firstDirtyAt) \in Nat
      BY Figures DEF IInv
    <2>1. dirty /\ (Since(passAt, lastChangeAt) >= Debounce \/ Since(passAt, firstDirtyAt) >= MaxDelay)
      BY DEF TickFlushes, ShouldFlush
    <2>2. /\ Since(passAt, lastChangeAt) + Since(clock, passAt) <= quiet + MaxPass \/ quiet = AgeCap
          /\ Since(passAt, firstDirtyAt) + Since(clock, passAt) <= age + MaxPass \/ age = AgeCap
      BY <2>1 DEF IInv, StampInv
    <2>3. quiet + MaxPass >= Debounce \/ age + MaxPass >= MaxDelay
      BY <2>t, <2>1, <2>2, CapNat
    <2> QED
      BY <2>3 DEF InTime
  <1> QED
    BY <1>1, Always, PTL DEF Spec, DebounceHolds
================================================================================
