------------------------- MODULE Connectivity_proofs -------------------------
(***************************************************************************)
(* The machines that connect the board, for any networks, servers, devices,*)
(* retries, faults, settings, intervals and widths of the clock that the   *)
(* modules assume: the time, the Wi-Fi credentials, the button that asks   *)
(* for new ones, and Home Assistant's picture of the devices.              *)
(***************************************************************************)
EXTENDS MCConnectivity, TLAPS

------------------------------------------------------------------------------
(* The two machines that keep the time: the socket of an exchange is closed  *)
(* whatever ends it, a sync is not used up while there is no chip, and the   *)
(* chip is never set from a clock that nobody has set.                       *)

(* NtpManager *)

LEMMA NtpInitially == NtpInit => NtpTypeOK /\ SocketClosed
  <1> SUFFICES ASSUME NtpInit PROVE NtpTypeOK /\ SocketClosed
    OBVIOUS
  <1>1. 0 \in 0..MaxSettings
    BY NtpAssumption
  <1> QED
    BY <1>1 DEF NtpInit, NtpTypeOK, SocketClosed

(* Which states a step leads to, and what becomes of the socket.             *)
LEMMA NtpTicking ==
  ASSUME NtpTypeOK, SocketClosed,
         \/ NtpTick
         \/ Synced(FALSE)
  PROVE  (NtpTypeOK /\ SocketClosed)'
  <1> USE DEF NtpTypeOK, SocketClosed, external, ntpVars
  <1>1. CASE NtpWaitingForStation
    BY <1>1 DEF NtpWaitingForStation
  <1>2. CASE LeaveWhenStationGoes
    BY <1>2 DEF LeaveWhenStationGoes
  <1>3. CASE BeginResolve
    BY <1>3 DEF BeginResolve
  <1>4. CASE AwaitResolve(TRUE)
    BY <1>4 DEF AwaitResolve
  <1>5. ASSUME NEW ok \in BOOLEAN, Syncing(ok) PROVE (NtpTypeOK /\ SocketClosed)'
    BY <1>5 DEF Syncing
  <1>6. ASSUME NEW ok \in BOOLEAN, CheckSynced(ok) PROVE (NtpTypeOK /\ SocketClosed)'
    BY <1>6 DEF CheckSynced
  <1>7. ASSUME NEW e \in BOOLEAN, Synced(e) PROVE (NtpTypeOK /\ SocketClosed)'
    BY <1>7 DEF Synced
  <1>8. CASE NtpRetryDelay
    BY <1>8 DEF NtpRetryDelay
  <1> QED
    BY <1>1, <1>2, <1>3, <1>4, <1>5, <1>6, <1>7, <1>8 DEF NtpTick

LEMMA NtpDisturbed ==
  ASSUME NtpTypeOK, SocketClosed, NtpEnvironment
  PROVE  (NtpTypeOK /\ SocketClosed)'
  <1> USE DEF NtpTypeOK, SocketClosed, ntpVars
  <1>1. ASSUME NEW s \in Servers, applyTimeSettings(s) PROVE (NtpTypeOK /\ SocketClosed)'
    <2>1. timeRevision + 1 \in 0..MaxSettings
      BY <1>1, NtpAssumption DEF applyTimeSettings
    <2> QED
      BY <1>1, <2>1 DEF applyTimeSettings
  <1>2. ASSUME NEW n \in Servers, NEW found \in BOOLEAN, DnsAnswers(n, found)
        PROVE  (NtpTypeOK /\ SocketClosed)'
    BY <1>2 DEF DnsAnswers
  <1>3. CASE StationChanges
    BY <1>3 DEF StationChanges
  <1> QED
    BY <1>1, <1>2, <1>3 DEF NtpEnvironment

(* The types, and the socket closed, hold in every reachable state.          *)
LEMMA NtpSteps == NtpTypeOK /\ SocketClosed /\ [NtpNext]_ntpManagerVars => (NtpTypeOK /\ SocketClosed)'
  <1> SUFFICES ASSUME NtpTypeOK, SocketClosed, [NtpNext]_ntpManagerVars PROVE (NtpTypeOK /\ SocketClosed)'
    OBVIOUS
  <1>1. CASE NtpNext
    BY <1>1, NtpTicking, NtpDisturbed DEF NtpNext
  <1>2. CASE UNCHANGED ntpManagerVars
    BY <1>2 DEF ntpManagerVars, ntpVars, external, NtpTypeOK, SocketClosed
  <1> QED
    BY <1>1, <1>2

LEMMA NtpAlways == NtpSpec => [](NtpTypeOK /\ SocketClosed)
  BY NtpInitially, NtpSteps, PTL DEF NtpSpec

(* Every variable of the NTP machine holds a value of its type.              *)
THEOREM NtpTypeCorrect == NtpSpec => []NtpTypeOK
  BY NtpAlways, PTL

(* Loss of the station, an answer, none or a failure to send: the UDP socket *)
(* of the exchange is closed, however they follow each other.                *)
THEOREM ExchangeClosesSocket == NtpSpec => []SocketClosed
  BY NtpAlways, PTL

-----------------------------------------------------------------------------
(* RtcSync *)

(* Once somebody has set the system clock, its error is one that is known.   *)
ClockSet == authoritative => systemError # MaxDrift

(* A sync that waits to be written is one that was made and not observed.    *)
OwedSync == owed => authoritative /\ syncRevision # observed

RtcInv == RtcTypeOK /\ RtcKeepsTime /\ ClockSet /\ OwedSync

LEMMA Intervals ==
  /\ WriteBackInterval \in Nat /\ StalenessThreshold \in Nat /\ ReseedInterval \in Nat
  /\ BootRetry \in Nat /\ MaxDrift \in Nat /\ 2 < MaxDrift
  BY RtcAssumption

LEMMA OlderBounded ==
  ASSUME NEW cap \in Nat, NEW age \in 0..(cap + 1)
  PROVE  Older(age, cap) \in 0..(cap + 1)
  BY DEF Older

LEMMA RtcInitially == RtcInit => RtcInv
  <1> SUFFICES ASSUME RtcInit PROVE RtcInv
    OBVIOUS
  <1>1. /\ 0 \in 0..MaxDrift /\ MaxDrift \in 0..MaxDrift /\ 0 # MaxDrift
        /\ 0 \in 0..(StalenessThreshold + 1) /\ 0 \in 0..(WriteBackInterval + 1)
        /\ 0 \in 0..(ReseedInterval + 1) /\ BootRetry + 1 \in 0..(BootRetry + 1) /\ 0 \in 0..2
    BY Intervals
  <1>2. RtcTypeOK
    BY <1>1 DEF RtcInit, RtcTypeOK
  <1> QED
    BY <1>1, <1>2 DEF RtcInit, RtcInv, RtcKeepsTime, ClockSet, OwedSync

LEMMA Coordinating ==
  ASSUME RtcInv, NEW read \in BOOLEAN, NEW written \in BOOLEAN, RtcTick(read, written)
  PROVE  RtcInv'
  <1> USE DEF RtcInv
  <1>1. RtcKeepsTime'
    BY DEF RtcTick, RtcKeepsTime, tickWriteBack, ClockSet
  <1>2. ClockSet'
    BY DEF RtcTick, RtcKeepsTime, ClockSet, tickWriteBack, tickBootSeed, tickStalenessFallback
  <1>3. OwedSync'
    BY DEF RtcTick, OwedSync, Noted, tickWriteBack, WriteBackWanted
  <1>4. RtcTypeOK'
    <2>1. /\ 0 \in 0..(WriteBackInterval + 1) /\ 0 \in 0..(ReseedInterval + 1) /\ 0 \in 0..(BootRetry + 1)
      BY Intervals
    <2>2. (sinceAuthoritative \in 0..(StalenessThreshold + 1) /\ sinceWriteBack \in 0..(WriteBackInterval + 1)
           /\ sinceSeed \in 0..(ReseedInterval + 1) /\ sinceBootSeed \in 0..(BootRetry + 1))'
      BY <2>1 DEF RtcTick, RtcTypeOK
    <2>3. (systemError \in 0..MaxDrift /\ rtcError \in 0..MaxDrift)'
      BY DEF RtcTick, RtcTypeOK
    <2>4. (syncRevision \in 0..2 /\ observed \in 0..2)'
      BY DEF RtcTick, RtcTypeOK
    <2>5. (authoritative \in BOOLEAN /\ rtcReady \in BOOLEAN /\ due \in BOOLEAN /\ owed \in BOOLEAN)'
      <3>1. authoritative \in BOOLEAN /\ rtcReady \in BOOLEAN
        BY DEF RtcTypeOK
      <3> QED
        BY <3>1 DEF RtcTick
    <2> QED
      BY <2>2, <2>3, <2>4, <2>5 DEF RtcTypeOK
  <1> QED
    BY <1>1, <1>2, <1>3, <1>4

LEMMA Syncs == ASSUME RtcInv, applyExternalTime PROVE RtcInv'
  <1> USE DEF RtcInv
  <1>1. (syncRevision + 1) % 3 \in 0..2
    BY DEF RtcTypeOK
  <1>2. RtcTypeOK'
    BY <1>1, Intervals DEF applyExternalTime, RtcTypeOK
  <1> QED
    BY <1>2, Intervals DEF applyExternalTime, RtcKeepsTime, ClockSet, OwedSync

LEMMA Passing == ASSUME RtcInv, UnitPasses PROVE RtcInv'
  <1> USE DEF RtcInv
  <1>1. /\ Older(sinceAuthoritative, StalenessThreshold) \in 0..(StalenessThreshold + 1)
        /\ Older(sinceWriteBack, WriteBackInterval) \in 0..(WriteBackInterval + 1)
        /\ Older(sinceSeed, ReseedInterval) \in 0..(ReseedInterval + 1)
        /\ Older(sinceBootSeed, BootRetry) \in 0..(BootRetry + 1)
    BY OlderBounded, Intervals DEF RtcTypeOK
  <1>2. Older(systemError, MaxDrift - 2) \in 0..MaxDrift /\ (systemError # MaxDrift => Older(systemError, MaxDrift - 2) # MaxDrift)
    BY Intervals DEF RtcTypeOK, Older
  <1>3. RtcTypeOK'
    BY <1>1, <1>2 DEF UnitPasses, RtcTypeOK
  <1> QED
    BY <1>2, <1>3 DEF UnitPasses, RtcKeepsTime, ClockSet, OwedSync

LEMMA RtcSteps == RtcInv /\ [RtcNext]_rtcVars => RtcInv'
  <1> SUFFICES ASSUME RtcInv, [RtcNext]_rtcVars PROVE RtcInv'
    OBVIOUS
  <1>1. CASE Coordinate
    BY <1>1, Coordinating DEF Coordinate
  <1>2. CASE UnitPasses
    BY <1>2, Passing
  <1>3. CASE applyExternalTime
    BY <1>3, Syncs
  <1>4. CASE RtcChanges \/ UNCHANGED rtcVars
    <2>1. rtcReady' \in BOOLEAN
      BY <1>4 DEF RtcChanges, rtcVars, RtcInv, RtcTypeOK
    <2>2. UNCHANGED <<authoritative, syncRevision, observed, systemError, rtcError, ages, due, owed>>
      BY <1>4 DEF RtcChanges, rtcVars
    <2> QED
      BY <2>1, <2>2 DEF ages, RtcInv, RtcTypeOK, RtcKeepsTime, ClockSet, OwedSync
  <1> QED
    BY <1>1, <1>2, <1>3, <1>4 DEF RtcNext

LEMMA RtcAlways == RtcSpec => []RtcInv
  BY RtcInitially, RtcSteps, PTL DEF RtcSpec

(* Every variable of the coordinator holds a value of its type.              *)
THEOREM RtcTypeCorrect == RtcSpec => []RtcTypeOK
  <1>1. RtcInv => RtcTypeOK
    BY DEF RtcInv
  <1> QED
    BY <1>1, RtcAlways, PTL

(* Whatever comes and goes, the chip is written from a clock that was set.   *)
THEOREM ChipKeepsTime == RtcSpec => []RtcKeepsTime
  <1>1. RtcInv => RtcKeepsTime
    BY DEF RtcInv
  <1> QED
    BY <1>1, RtcAlways, PTL

(* The tick that finds a chip after a sync writes it, whatever the intervals *)
(* and however often the chip was away in between.                           *)
THEOREM SyncIsNotLost == RtcSpec => SyncReachesRtc
  <1>1. RtcInv /\ [RtcNext]_rtcVars => [owed /\ rtcReady /\ due /\ ~due' => ~owed']_rtcVars
    <2> SUFFICES ASSUME RtcInv, RtcNext, owed, rtcReady, due, ~due' PROVE ~owed'
      BY DEF RtcInv
    <2>1. PICK read \in BOOLEAN, written \in BOOLEAN : RtcTick(read, written)
      BY DEF RtcNext, Coordinate, UnitPasses, applyExternalTime, RtcChanges
    <2>2. tickWriteBack
      BY DEF RtcInv, OwedSync, tickWriteBack, WriteBackWanted
    <2> QED
      BY <2>1, <2>2 DEF RtcTick
  <1> QED
    BY <1>1, RtcAlways, PTL DEF RtcSpec, SyncReachesRtc

------------------------------------------------------------------------------
(* Credentials: those the board uses are those that flash holds, as long as  *)
(* no save was cut, failed or overlapped another one.                        *)

Credentials == Networks \cup {None}

(* What a task is saving: nothing, or one copy.                              *)
Drafts == {{}} \cup {{c} : c \in Config}

WifiTypes ==
  /\ config \in Config /\ flash \in Config
  /\ next \in [Writers -> Drafts] /\ at \in [Writers -> 0..2]
  /\ credentials \in Credentials /\ pending \in Credentials /\ received \in Credentials
  /\ applying \in Credentials /\ webNetwork \in Credentials

Writing == {"clearing", "saving"}

(* Each task knows whether its save is on its way.                           *)
TasksKnow == (applying # None <=> Saving("loop")) /\ (web \in Writing <=> Saving("web"))

(* What the save of the main loop has written so far.                        *)
LoopSaves ==
  Saving("loop") =>
    /\ next["loop"] = {WithCredentials(config, applying)}
    /\ flash = IF at["loop"] = 1 THEN config ELSE WithCredentials(config, applying)

(* A save of the web server's task leaves the credentials in flash alone, or *)
(* has cleared them everywhere before.                                       *)
WebSaves ==
  /\ web = "saving" => /\ credentials = config.wifi /\ flash = config
                       /\ \E c \in Config : next["web"] = {c} /\ c.wifi = config.wifi
  /\ web = "clearing" => flash = config /\ next["web"] = {}

OneAtATime == ~Saving("loop") \/ ~Saving("web")
AtRest == ~Saving("loop") /\ ~Saving("web") => credentials = config.wifi /\ config = flash

InOrder == ordered => OneAtATime /\ LoopSaves /\ WebSaves /\ AtRest

WifiInv == WifiTypes /\ TasksKnow /\ InOrder

-----------------------------------------------------------------------------
LEMMA TwoKeys == Len(Keys) = 2 /\ Keys[1] = "wifi" /\ Keys[2] = "setting"
  BY DEF Keys

LEMMA Copies ==
  ASSUME NEW c \in Config, NEW n \in Credentials
  PROVE  /\ WithCredentials(c, n) \in Config /\ WithCredentials(c, n).wifi = n
         /\ WithCredentials(c, n).setting = c.setting
  BY DEF Config, WithCredentials, Credentials

LEMMA SourceIs ==
  ASSUME NEW w \in Writers, NEW c, next[w] = {c}
  PROVE  Source(w) = c
  BY DEF Source

LEMMA SourceInConfig ==
  ASSUME WifiTypes, NEW w \in Writers
  PROVE  Source(w) \in Config
  <1>1. CASE next[w] = {}
    BY <1>1 DEF Source, WifiTypes
  <1>2. CASE next[w] # {}
    <2>1. PICK c \in Config : next[w] = {c}
      BY <1>2 DEF WifiTypes, Drafts
    <2> QED
      BY <2>1, SourceIs
  <1> QED
    BY <1>1, <1>2

LEMMA ADraft == {} \in Drafts /\ \A c \in Config : {c} \in Drafts
  BY DEF Drafts

LEMMA Progress ==
  ASSUME WifiTypes, NEW w \in Writers, NEW n \in 0..2, NEW d \in Drafts
  PROVE  [at EXCEPT ![w] = n] \in [Writers -> 0..2] /\ [next EXCEPT ![w] = d] \in [Writers -> Drafts]
  BY DEF WifiTypes

LEMMA WifiInitially == WifiInit => WifiInv
  <1> SUFFICES ASSUME WifiInit PROVE WifiInv
    OBVIOUS
  <1>1. defaultConfig \in Config /\ defaultConfig.wifi = None
    BY DEF defaultConfig, Config, Settings
  <1>2. at = [w \in Writers |-> 0] /\ next = [w \in Writers |-> {}]
    BY DEF WifiInit, ConfigInit
  <1>3. ~Saving("loop") /\ ~Saving("web")
    BY <1>2 DEF Saving, Writers
  <1>4. WifiTypes
    BY <1>1, <1>2, ADraft DEF WifiInit, ConfigInit, WifiTypes, Credentials
  <1> QED
    BY <1>1, <1>3, <1>4
    DEF WifiInit, ConfigInit, WifiInv, TasksKnow, InOrder, OneAtATime, LoopSaves, WebSaves, AtRest, Writing

(* Steps that neither save nor change the credentials in use.                *)
Elsewhere ==
  /\ UNCHANGED <<configVars, credentials, applying>>
  /\ web' = web \/ {web, web'} \subseteq {"idle", "submitting"}
  /\ {pending', received', webNetwork'} \subseteq Credentials

LEMMA Unsaved == ASSUME WifiInv, Elsewhere PROVE WifiInv'
  <1> USE DEF WifiInv, Elsewhere, configVars
  <1>1. WifiTypes'
    BY DEF WifiTypes
  <1>2. TasksKnow'
    BY DEF TasksKnow, Saving, Writing
  <1>3. InOrder'
    BY DEF InOrder, OneAtATime, LoopSaves, WebSaves, AtRest, Saving
  <1> QED
    BY <1>1, <1>2, <1>3

-----------------------------------------------------------------------------
(* The saves of the main loop.                                               *)

LEMMA LoopBegins ==
  ASSUME WifiInv, NEW n \in Networks, saveWifiCredentials("loop", n),
         applying = None, applying' = n, UNCHANGED <<credentials, web>>,
         {pending', received', webNetwork'} \subseteq Credentials
  PROVE  WifiInv'
  <1> USE DEF WifiInv
  <1>1. /\ at' = [at EXCEPT !["loop"] = 1] /\ next' = [next EXCEPT !["loop"] = {WithCredentials(config, n)}]
        /\ ~Saving("loop") /\ UNCHANGED <<config, flash>>
        /\ ordered' = (ordered /\ \A v \in Writers : ~Saving(v))
    BY DEF saveWifiCredentials, BeginSave
  <1>2. n \in Credentials /\ n # None /\ WithCredentials(config, n) \in Config
    BY Copies, ConfigAssumption DEF Credentials, WifiTypes
  <1>3. at'["loop"] = 1 /\ at'["web"] = at["web"] /\ next'["loop"] = {WithCredentials(config, n)}
    BY <1>1 DEF WifiTypes, Writers
  <1>4. WifiTypes'
    <2>1. at' \in [Writers -> 0..2] /\ next' \in [Writers -> Drafts]
      BY <1>1, <1>2, Progress, ADraft DEF Writers
    <2> QED
      BY <1>1, <1>2, <2>1 DEF WifiTypes
  <1>5. TasksKnow'
    BY <1>2, <1>3 DEF TasksKnow, Saving
  <1>6. ASSUME ordered' PROVE (OneAtATime /\ LoopSaves /\ WebSaves /\ AtRest)'
    <2>1. ordered /\ ~Saving("loop") /\ ~Saving("web")
      BY <1>1, <1>6 DEF Writers
    <2>2. web \notin Writing /\ config = flash
      BY <2>1 DEF TasksKnow, InOrder, AtRest
    <2> QED
      BY <1>1, <1>3, <2>1, <2>2 DEF OneAtATime, LoopSaves, WebSaves, AtRest, Saving, Writing, WithCredentials
  <1> QED
    BY <1>4, <1>5, <1>6 DEF InOrder

(* What one key changes.                                                     *)
LEMMA KeyWritten ==
  ASSUME WifiTypes, NEW w \in Writers, WriteKey(w)
  PROVE  /\ at[w] \in {1, 2}
         /\ at[w] = 1 => /\ flash' = [flash EXCEPT !.wifi = Source(w).wifi]
                         /\ at' = [at EXCEPT ![w] = 2] /\ UNCHANGED <<config, next>>
         /\ at[w] = 2 => /\ flash' = [flash EXCEPT !.setting = Source(w).setting]
                         /\ at' = [at EXCEPT ![w] = 0] /\ config' = Source(w)
                         /\ next' = [next EXCEPT ![w] = {}]
         /\ UNCHANGED ordered
         /\ flash' \in Config /\ config' \in Config
         /\ at' \in [Writers -> 0..2] /\ next' \in [Writers -> Drafts]
  <1>1. at[w] \in {1, 2}
    BY DEF WriteKey, Saving, WifiTypes
  <1>2. Source(w) \in Config
    BY SourceInConfig
  <1>3. CASE at[w] = 1
    <2>1. ~Done(w) /\ Keys[at[w]] = "wifi"
      BY <1>3, TwoKeys DEF Done
    <2>2. /\ flash' = [flash EXCEPT !["wifi"] = Source(w)["wifi"]] /\ at' = [at EXCEPT ![w] = 2]
          /\ UNCHANGED <<config, next, ordered>>
      BY <1>3, <2>1 DEF WriteKey, WifiTypes
    <2>3. flash' \in Config
      BY <1>2, <2>2 DEF WifiTypes, Config
    <2>4. at' \in [Writers -> 0..2]
      BY <2>2, Progress, ADraft
    <2>5. at[w] # 2 /\ config' \in Config /\ next' \in [Writers -> Drafts]
      BY <1>3, <2>2 DEF WifiTypes
    <2>6. flash' = [flash EXCEPT !.wifi = Source(w).wifi]
      BY <2>2
    <2> QED
      BY <1>1, <1>3, <2>2, <2>3, <2>4, <2>5, <2>6
  <1>4. CASE at[w] = 2
    <2>1. Done(w) /\ Keys[at[w]] = "setting"
      BY <1>4, TwoKeys DEF Done
    <2>2. /\ flash' = [flash EXCEPT !["setting"] = Source(w)["setting"]] /\ at' = [at EXCEPT ![w] = 0]
          /\ config' = Source(w) /\ next' = [next EXCEPT ![w] = {}] /\ UNCHANGED ordered
      BY <1>4, <2>1 DEF WriteKey
    <2>3. flash' \in Config
      BY <1>2, <2>2 DEF WifiTypes, Config
    <2>4. at' \in [Writers -> 0..2] /\ next' \in [Writers -> Drafts]
      BY <2>2, Progress, ADraft
    <2>5. at[w] # 1 /\ config' \in Config
      BY <1>2, <1>4, <2>2
    <2>6. flash' = [flash EXCEPT !.setting = Source(w).setting]
      BY <2>2
    <2> QED
      BY <1>1, <1>4, <2>2, <2>3, <2>4, <2>5, <2>6
  <1> QED
    BY <1>1, <1>3, <1>4

LEMMA LoopWrites == ASSUME WifiInv, ApplyWrites PROVE WifiInv'
  <1> USE DEF WifiInv
  <1>w. "loop" \in Writers /\ "web" \in Writers
    BY DEF Writers
  <1>1. /\ applying # None /\ WriteKey("loop") /\ Saving("loop")
        /\ UNCHANGED <<control, ble, webVars>>
        /\ IF Done("loop") THEN credentials' = applying /\ applying' = None
           ELSE UNCHANGED <<credentials, applying>>
    BY DEF ApplyWrites, WriteKey
  <1>2. UNCHANGED <<pending, received, web, webNetwork>>
    BY <1>1 DEF control, ble, webVars
  <1>3. Done("loop") <=> at["loop"] = 2
    BY TwoKeys DEF Done
  <1>4. WifiTypes'
    BY <1>1, <1>2, <1>w, KeyWritten, ConfigAssumption DEF WifiTypes, Credentials
  <1>5. at'["web"] = at["web"] /\ (at["loop"] = 1 => at'["loop"] = 2) /\ (at["loop"] = 2 => at'["loop"] = 0)
    BY <1>1, <1>w, KeyWritten DEF WifiTypes
  <1>6. at["loop"] \in {1, 2}
    BY <1>1, <1>w, KeyWritten
  <1>7. TasksKnow'
    BY <1>1, <1>2, <1>3, <1>5, <1>6 DEF TasksKnow, Saving
  <1>8. ASSUME ordered' PROVE (OneAtATime /\ LoopSaves /\ WebSaves /\ AtRest)'
    <2>1. ordered
      BY <1>1, <1>8, <1>w, KeyWritten
    <2>2. ~Saving("web") /\ web \notin Writing
      BY <1>1, <2>1 DEF InOrder, OneAtATime, TasksKnow
    <2>3. ~Saving("web")' /\ web' \notin Writing
      BY <1>2, <1>5, <2>2 DEF Saving
    <2> DEFINE c == WithCredentials(config, applying)
    <2>4. next["loop"] = {c} /\ flash = IF at["loop"] = 1 THEN config ELSE c
      BY <1>1, <2>1 DEF InOrder, LoopSaves
    <2>5. Source("loop") = c
      BY <1>w, <2>4, SourceIs
    <2>6. c \in Config /\ c.wifi = applying /\ c.setting = config.setting
      BY Copies DEF WifiTypes
    <2>7. CASE at["loop"] = 1
      <3>1. /\ flash' = [flash EXCEPT !.wifi = Source("loop").wifi]
            /\ at' = [at EXCEPT !["loop"] = 2] /\ UNCHANGED <<config, next>>
        BY <1>1, <1>w, <2>7, KeyWritten
      <3>2. flash' = c /\ UNCHANGED <<config, next, applying>>
        BY <1>1, <1>3, <2>4, <2>5, <2>6, <2>7, <3>1 DEF WithCredentials
      <3> QED
        BY <1>5, <2>3, <2>4, <2>7, <3>2 DEF OneAtATime, LoopSaves, WebSaves, AtRest, Saving, Writing
    <2>8. CASE at["loop"] = 2
      <3>1. /\ flash' = [flash EXCEPT !.setting = Source("loop").setting] /\ config' = Source("loop")
        BY <1>1, <1>w, <2>8, KeyWritten
      <3>2. flash' = c /\ config' = c /\ credentials' = c.wifi
        <4> HIDE DEF c
        <4>1. flash = c
          BY <2>4, <2>8
        <4> QED
          BY <1>1, <1>3, <2>5, <2>6, <2>8, <3>1, <4>1 DEF Config
      <3>3. ~Saving("loop")'
        BY <1>5, <2>8 DEF Saving
      <3> QED
        BY <2>3, <3>2, <3>3 DEF OneAtATime, LoopSaves, WebSaves, AtRest, Writing
    <2> QED
      BY <1>6, <2>7, <2>8
  <1> QED
    BY <1>4, <1>7, <1>8 DEF InOrder

LEMMA SaveFails ==
  ASSUME WifiInv, NEW w \in Writers, WriteFails(w), UNCHANGED <<credentials, pending, received, webNetwork>>,
         applying' = IF w = "loop" THEN None ELSE applying,
         web' = IF w = "web" THEN "idle" ELSE web
  PROVE  WifiInv'
  <1> USE DEF WifiInv
  <1>1. /\ at' = [at EXCEPT ![w] = 0] /\ next' = [next EXCEPT ![w] = {}]
        /\ ~ordered' /\ UNCHANGED <<config, flash>>
    BY DEF WriteFails
  <1>2. WifiTypes'
    BY <1>1, ADraft DEF WifiTypes, Credentials
  <1>3. w \in {"loop", "web"} /\ at \in [{"loop", "web"} -> 0..2]
    BY DEF Writers, WifiTypes
  <1>4. TasksKnow'
    BY <1>1, <1>3 DEF TasksKnow, Saving, Writing
  <1> QED
    BY <1>1, <1>2, <1>4 DEF InOrder

-----------------------------------------------------------------------------
(* The saves of the web server's task.                                       *)

LEMMA WebClears == ASSUME WifiInv, clearCredentials PROVE WifiInv'
  <1> USE DEF WifiInv
  <1>1. /\ web = "idle" /\ web' = "clearing" /\ ~Saving("web")
        /\ at' = [at EXCEPT !["web"] = 1] /\ next' = [next EXCEPT !["web"] = {}]
        /\ config' = WithCredentials(config, None) /\ flash' = WithCredentials(flash, None)
        /\ ordered' = (ordered /\ \A v \in Writers : ~Saving(v))
        /\ UNCHANGED <<credentials, applying, pending, received, webNetwork>>
    BY DEF clearCredentials, clearWifiCredentials, BeginSave, machine, control, ble
  <1>2. WifiTypes'
    <2>1. at' \in [Writers -> 0..2] /\ next' \in [Writers -> Drafts]
      BY <1>1, Progress, ADraft DEF Writers
    <2>2. config' \in Config /\ flash' \in Config
      BY <1>1, Copies DEF WifiTypes, Credentials
    <2> QED
      BY <1>1, <2>1, <2>2 DEF WifiTypes
  <1>3. at'["web"] = 1 /\ at'["loop"] = at["loop"] /\ next'["web"] = {}
    BY <1>1 DEF WifiTypes, Writers
  <1>4. TasksKnow'
    BY <1>1, <1>3 DEF TasksKnow, Saving, Writing
  <1>5. ASSUME ordered' PROVE (OneAtATime /\ LoopSaves /\ WebSaves /\ AtRest)'
    <2>1. ordered /\ ~Saving("loop") /\ ~Saving("web")
      BY <1>1, <1>5 DEF Writers
    <2>2. config = flash
      BY <2>1 DEF InOrder, AtRest
    <2> QED
      BY <1>1, <1>3, <2>1, <2>2 DEF OneAtATime, LoopSaves, WebSaves, AtRest, Saving
  <1> QED
    BY <1>2, <1>4, <1>5 DEF InOrder

LEMMA WebSets == ASSUME WifiInv, saveSettings PROVE WifiInv'
  <1> USE DEF WifiInv
  <1> DEFINE c == [config EXCEPT !.setting = "changed"]
  <1>1. /\ web = "idle" /\ web' = "saving" /\ ~Saving("web")
        /\ at' = [at EXCEPT !["web"] = 1] /\ next' = [next EXCEPT !["web"] = {c}]
        /\ ordered' = (ordered /\ \A v \in Writers : ~Saving(v))
        /\ UNCHANGED <<config, flash, credentials, applying, pending, received, webNetwork>>
    BY DEF saveSettings, saveSetting, BeginSave, machine, control, ble
  <1>2. c \in Config /\ c.wifi = config.wifi
    BY DEF WifiTypes, Config, Settings
  <1> HIDE DEF c
  <1>3. WifiTypes'
    <2>1. at' \in [Writers -> 0..2] /\ next' \in [Writers -> Drafts]
      BY <1>1, <1>2, Progress, ADraft DEF Writers
    <2> QED
      BY <1>1, <2>1 DEF WifiTypes
  <1>4. at'["web"] = 1 /\ at'["loop"] = at["loop"] /\ next'["web"] = {c}
    BY <1>1 DEF WifiTypes, Writers
  <1>5. TasksKnow'
    BY <1>1, <1>4 DEF TasksKnow, Saving, Writing
  <1>6. ASSUME ordered' PROVE (OneAtATime /\ LoopSaves /\ WebSaves /\ AtRest)'
    <2>1. ordered /\ ~Saving("loop") /\ ~Saving("web")
      BY <1>1, <1>6 DEF Writers
    <2>2. config = flash /\ credentials = config.wifi
      BY <2>1 DEF InOrder, AtRest
    <2> QED
      BY <1>1, <1>2, <1>4, <2>1, <2>2 DEF OneAtATime, LoopSaves, WebSaves, AtRest, Saving
  <1> QED
    BY <1>3, <1>5, <1>6 DEF InOrder

LEMMA WebGoesOn == ASSUME WifiInv, WebWrites PROVE WifiInv'
  <1> USE DEF WifiInv
  <1>w. "loop" \in Writers /\ "web" \in Writers
    BY DEF Writers
  <1>1. /\ web \in Writing /\ WriteKey("web") /\ Saving("web")
        /\ web' = (IF Done("web") THEN "idle" ELSE web)
        /\ IF Done("web") /\ web = "clearing" THEN pending' = None /\ credentials' = config'.wifi
           ELSE UNCHANGED <<pending, credentials>>
        /\ UNCHANGED <<applying, received, webNetwork>>
    BY DEF WebWrites, WriteKey, ble, Writing
  <1>2. Done("web") <=> at["web"] = 2
    BY TwoKeys DEF Done
  <1>3. flash' \in Config /\ config' \in Config /\ UNCHANGED ordered /\ at["web"] \in {1, 2}
    BY <1>1, <1>w, KeyWritten
  <1>4. config'.wifi \in Credentials
    BY <1>3 DEF Config, Credentials
  <1>5. WifiTypes'
    BY <1>1, <1>4, <1>w, KeyWritten DEF WifiTypes, Credentials
  <1>6. at'["loop"] = at["loop"] /\ (at["web"] = 1 => at'["web"] = 2) /\ (at["web"] = 2 => at'["web"] = 0)
    BY <1>1, <1>w, KeyWritten DEF WifiTypes
  <1>7. TasksKnow'
    BY <1>1, <1>2, <1>3, <1>6 DEF TasksKnow, Saving, Writing
  <1>8. ASSUME ordered' PROVE (OneAtATime /\ LoopSaves /\ WebSaves /\ AtRest)'
    <2>1. ordered /\ ~Saving("loop")
      BY <1>1, <1>3, <1>8 DEF InOrder, OneAtATime
    <2>2. ~Saving("loop")'
      BY <1>6, <2>1 DEF Saving
    <2>3. flash = config
      BY <1>1, <2>1 DEF InOrder, WebSaves, Writing
    <2>4. CASE web = "clearing"
      <3>1. Source("web") = config
        BY <2>1, <2>4 DEF InOrder, WebSaves, Source
      <3>2. flash' = config /\ config' = config /\ (at["web"] = 1 => next' = next)
        BY <1>1, <1>3, <1>w, <2>3, <3>1, KeyWritten DEF WifiTypes, Config
      <3>3. next["web"] = {}
        BY <2>1, <2>4 DEF InOrder, WebSaves
      <3>4. CASE at["web"] = 1
        BY <1>1, <1>2, <1>6, <2>2, <2>4, <3>2, <3>3, <3>4 DEF OneAtATime, LoopSaves, WebSaves, AtRest, Saving
      <3>5. CASE at["web"] = 2
        BY <1>1, <1>2, <1>6, <2>2, <2>4, <3>2, <3>5 DEF OneAtATime, LoopSaves, WebSaves, AtRest, Saving
      <3> QED
        BY <1>3, <3>4, <3>5
    <2>5. CASE web = "saving"
      <3>1. PICK c \in Config : next["web"] = {c} /\ c.wifi = config.wifi
        BY <2>1, <2>5 DEF InOrder, WebSaves
      <3>2. Source("web") = c /\ credentials = config.wifi
        BY <1>w, <2>1, <2>5, <3>1, SourceIs DEF InOrder, WebSaves
      <3>3. CASE at["web"] = 1
        <4>1. flash' = [flash EXCEPT !.wifi = Source("web").wifi] /\ UNCHANGED <<config, next>>
          BY <1>1, <1>w, <3>3, KeyWritten
        <4>2. flash' = config /\ UNCHANGED <<config, next>>
          BY <2>3, <3>1, <3>2, <4>1 DEF WifiTypes, Config
        <4> QED
          BY <1>1, <1>2, <1>6, <2>2, <2>5, <3>1, <3>2, <3>3, <4>2
          DEF OneAtATime, LoopSaves, WebSaves, AtRest, Saving
      <3>4. CASE at["web"] = 2
        <4>1. flash' = [flash EXCEPT !.setting = Source("web").setting] /\ config' = c
          BY <1>1, <1>w, <3>2, <3>4, KeyWritten
        <4>2. flash' = c
          BY <2>3, <3>1, <3>2, <4>1 DEF WifiTypes, Config
        <4> QED
          BY <1>1, <1>2, <1>6, <2>2, <2>5, <3>1, <3>2, <3>4, <4>1, <4>2
          DEF OneAtATime, LoopSaves, WebSaves, AtRest, Saving
      <3> QED
        BY <1>3, <3>3, <3>4
    <2> QED
      BY <1>1, <2>4, <2>5 DEF Writing
  <1> QED
    BY <1>5, <1>7, <1>8 DEF InOrder

LEMMA Rebooting == ASSUME WifiInv, WifiReboot PROVE WifiInv'
  <1> USE DEF WifiInv
  <1>1. /\ config' = flash /\ flash' = flash /\ next' = [w \in Writers |-> {}] /\ at' = [w \in Writers |-> 0]
        /\ credentials' = config'.wifi /\ applying' = None /\ pending' = None /\ received' = None
        /\ web' = "idle" /\ webNetwork' = None
    BY DEF WifiReboot, ConfigReboot
  <1>2. ~Saving("loop")' /\ ~Saving("web")'
    BY <1>1 DEF Saving, Writers
  <1>3. credentials' \in Credentials
    BY <1>1 DEF WifiTypes, Config, Credentials
  <1>4. WifiTypes'
    BY <1>1, <1>3, ADraft DEF WifiTypes, Credentials
  <1> QED
    BY <1>1, <1>2, <1>4 DEF TasksKnow, InOrder, OneAtATime, LoopSaves, WebSaves, AtRest, Writing

-----------------------------------------------------------------------------
LEMMA Ticking ==
  ASSUME WifiInv, StepTick \/ \E expired \in BOOLEAN : WaitTick(expired)
  PROVE  WifiInv'
  <1>1. ASSUME \/ Idle \/ Connecting \/ StopBleConfig \/ DeinitBleConfig \/ ReturnFromBleConfig \/ SetupAp
               \/ \E started \in BOOLEAN : StartBleConfig(started)
               \/ \E expired \in BOOLEAN : WaitTick(expired)
        PROVE  Elsewhere
    <2>1. UNCHANGED <<configVars, credentials, applying, web, webNetwork, pending>>
      BY <1>1 DEF Idle, Connecting, StopBleConfig, DeinitBleConfig, ReturnFromBleConfig, SetupAp, StartBleConfig,
                  WaitTick, CheckConnection, RetryDelay, Connected, BleConfigRunning, WaitBleConfigStopped,
                  webVars, control
    <2>2. received' \in {received, None}
      BY <1>1 DEF Idle, Connecting, StopBleConfig, DeinitBleConfig, ReturnFromBleConfig, SetupAp, StartBleConfig,
                  WaitTick, CheckConnection, RetryDelay, Connected, BleConfigRunning, WaitBleConfigStopped, ble
    <2> QED
      BY <2>1, <2>2 DEF Elsewhere, WifiInv, WifiTypes, Credentials
  <1>2. CASE ApplyBleCredentials
    <2>1. CASE received = None
      BY <1>2, <2>1, Unsaved DEF ApplyBleCredentials, Elsewhere, WifiInv, WifiTypes, Credentials, control, webVars
    <2>2. CASE received # None
      BY <1>2, <2>2, LoopBegins DEF ApplyBleCredentials, WifiInv, WifiTypes, Credentials, control, webVars
    <2> QED
      BY <2>1, <2>2
  <1>3. CASE ApplySubmittedCredentials
    <2>1. CASE pending = None
      BY <1>3, <2>1, Unsaved DEF ApplySubmittedCredentials, Elsewhere, WifiInv, WifiTypes, Credentials, ble, webVars
    <2>2. CASE pending # None
      BY <1>3, <2>2, LoopBegins DEF ApplySubmittedCredentials, WifiInv, WifiTypes, Credentials, ble, webVars
    <2> QED
      BY <2>1, <2>2
  <1> QED
    BY <1>1, <1>2, <1>3, Unsaved DEF StepTick

LEMMA Asking ==
  ASSUME WifiInv,
         \/ \E n \in Networks : CheckSubmit(n) \/ CredentialsReceived(n)
         \/ trySavePendingSubmittedCredentials \/ requestBleConfig \/ LinkChanges \/ ProvisioningEnded
  PROVE  WifiInv'
  <1>1. UNCHANGED <<configVars, credentials, applying>>
    BY DEF CheckSubmit, CredentialsReceived, trySavePendingSubmittedCredentials, requestBleConfig, LinkChanges,
           ProvisioningEnded, machine
  <1>2. web' = web \/ {web, web'} \subseteq {"idle", "submitting"}
    BY DEF CheckSubmit, CredentialsReceived, trySavePendingSubmittedCredentials, requestBleConfig, LinkChanges,
           ProvisioningEnded, webVars
  <1>3. {pending', received', webNetwork'} \subseteq Credentials
    BY DEF CheckSubmit, CredentialsReceived, trySavePendingSubmittedCredentials, requestBleConfig, LinkChanges,
           ProvisioningEnded, webVars, control, ble, WifiInv, WifiTypes, Credentials
  <1> QED
    BY <1>1, <1>2, <1>3, Unsaved DEF Elsewhere

LEMMA WifiSteps == WifiInv /\ [WifiNext]_wifiVars => WifiInv'
  <1> SUFFICES ASSUME WifiInv, [WifiNext]_wifiVars PROVE WifiInv'
    OBVIOUS
  <1>1. CASE StepTick \/ \E expired \in BOOLEAN : WaitTick(expired)
    BY <1>1, Ticking
  <1>2. CASE ApplyWrites
    BY <1>2, LoopWrites
  <1>3. CASE ApplyFails
    <2>1. "loop" \in Writers /\ WriteFails("loop") /\ applying' = None
          /\ UNCHANGED <<credentials, pending, received, web, webNetwork>>
      BY <1>3 DEF ApplyFails, Writers, control, ble, webVars
    <2> QED
      BY <2>1, SaveFails
  <1>4. CASE WebFails
    <2>1. "web" \in Writers /\ WriteFails("web") /\ web' = "idle"
          /\ UNCHANGED <<credentials, pending, received, applying, webNetwork>>
      BY <1>4 DEF WebFails, Writers, machine, control, ble
    <2> QED
      BY <2>1, SaveFails
  <1>5. CASE WebWrites
    BY <1>5, WebGoesOn
  <1>6. CASE clearCredentials
    BY <1>6, WebClears
  <1>7. CASE saveSettings
    BY <1>7, WebSets
  <1>8. CASE \/ \E n \in Networks : CheckSubmit(n) \/ CredentialsReceived(n)
             \/ trySavePendingSubmittedCredentials \/ requestBleConfig \/ LinkChanges \/ ProvisioningEnded
    BY <1>8, Asking
  <1>9. CASE WifiReboot
    BY <1>9, Rebooting
  <1>10. CASE UNCHANGED wifiVars
    <2>1. Elsewhere
      BY <1>10 DEF wifiVars, Elsewhere, machine, control, ble, webVars, WifiInv, WifiTypes
    <2> QED
      BY <2>1, Unsaved
  <1> QED
    BY <1>1, <1>2, <1>3, <1>4, <1>5, <1>6, <1>7, <1>8, <1>9, <1>10 DEF WifiNext, WebStep, WebRequest, Radio

(* The main loop and the web server's task write config_, the flash and the  *)
(* credentials in use in different steps; between their saves all agree,     *)
(* unless a save was cut, failed or overlapped another.                      *)
THEOREM CredentialsKept == WifiSpec => []CredentialsSurviveReboot
  <1>1. WifiInv => CredentialsSurviveReboot
    BY DEF WifiInv, InOrder, AtRest, CredentialsSurviveReboot, Writers
  <1> QED
    BY <1>1, WifiInitially, WifiSteps, PTL DEF WifiSpec

------------------------------------------------------------------------------
(* One press, one request: for any debounce and hold time, any distance of   *)
(* the samples and any width of the clock that holds them.                   *)

(* The clock of the button and of the ring: once round at most.              *)
LEMMA Wrapped ==
  ASSUME NEW w \in Nat \ {0}, NEW x \in Nat, x < w + w
  PROVE  x % w = (IF x < w THEN x ELSE x - w) /\ x % w \in 0..(w - 1)
  OBVIOUS

ButtonClock == {now, rawChangedAt, pressedAt} \subseteq ButtonTime

LEMMA ElapsedIs ==
  ASSUME NEW t \in ButtonTime, NEW from \in ButtonTime
  PROVE  Since(t, from) = (IF from <= t THEN t - from ELSE t - from + ButtonWrap) /\ Since(t, from) \in Nat
  <1> DEFINE x == t + ButtonWrap - from
  <1>1. t \in Nat /\ from \in Nat /\ ButtonWrap \in Nat \ {0} /\ t < ButtonWrap /\ from < ButtonWrap
    BY ButtonAssumption DEF ButtonTime
  <1>2. x \in Nat /\ x < ButtonWrap + ButtonWrap /\ (x < ButtonWrap <=> t < from)
    BY <1>1
  <1>3. x - ButtonWrap = t - from /\ x = t - from + ButtonWrap
    BY <1>1
  <1>4. Since(t, from) = x % ButtonWrap
    BY DEF Since
  <1> HIDE DEF x
  <1>5. x % ButtonWrap = IF x < ButtonWrap THEN x ELSE x - ButtonWrap
    BY <1>1, <1>2, Wrapped
  <1> QED
    BY <1>1, <1>2, <1>3, <1>4, <1>5

(* A time d later is one of the clock, and no more than d has passed for it. *)
LEMMA TimePasses ==
  ASSUME NEW a \in ButtonTime, NEW d \in 1..MaxPass, NEW from \in ButtonTime
  PROVE  /\ (a + d) % ButtonWrap \in ButtonTime
         /\ Since((a + d) % ButtonWrap, from) <= Since(a, from) + d
  <1> DEFINE t == (a + d) % ButtonWrap
  <1>1. a \in Nat /\ d \in Nat \ {0} /\ ButtonWrap \in Nat \ {0} /\ a < ButtonWrap /\ d < ButtonWrap
        /\ from \in Nat /\ from < ButtonWrap
    BY ButtonAssumption DEF ButtonTime
  <1>2. t = (IF a + d < ButtonWrap THEN a + d ELSE a + d - ButtonWrap) /\ t \in ButtonTime
    <2> DEFINE x == a + d
    <2>1. x \in Nat /\ x < ButtonWrap + ButtonWrap
      BY <1>1
    <2> HIDE DEF x
    <2>2. /\ x % ButtonWrap = (IF x < ButtonWrap THEN x ELSE x - ButtonWrap)
          /\ x % ButtonWrap \in 0..(ButtonWrap - 1)
      BY <1>1, <2>1, Wrapped
    <2> QED
      BY <1>1, <2>2 DEF x, ButtonTime
  <1> HIDE DEF t
  <1>3. /\ Since(t, from) = IF from <= t THEN t - from ELSE t - from + ButtonWrap
        /\ Since(a, from) = IF from <= a THEN a - from ELSE a - from + ButtonWrap
    BY <1>2, ElapsedIs
  <1>4. Since(t, from) <= Since(a, from) + d
    BY <1>1, <1>2, <1>3
  <1> QED
    BY <1>2, <1>4 DEF t

(* The request of a press stands while the press lasts, and until the button *)
(* has rested up it stands.  The debounce never counts more time than the    *)
(* samples have found the button up.                                         *)
Counted(t, from, up) == up = DebounceTime \/ Since(t, from) <= up

PressInv ==
  /\ {rawPressed, stablePressed, activationSent, released} \subseteq BOOLEAN
  /\ ButtonClock
  /\ upFor \in 0..DebounceTime
  /\ activationSent => stablePressed
  /\ ~released => activationSent
  /\ ~rawPressed => Counted(now, rawChangedAt, upFor)

LEMMA CountGoesOn ==
  ASSUME PressInv, NEW d \in 1..MaxPass, NEW m, m = IF upFor + d < DebounceTime THEN upFor + d ELSE DebounceTime
  PROVE  m \in 0..DebounceTime /\ (~rawPressed => Counted((now + d) % ButtonWrap, rawChangedAt, m))
  <1> DEFINE t == (now + d) % ButtonWrap
             s == Since(now, rawChangedAt)
             l == Since(t, rawChangedAt)
             up == upFor
  <1>1. now \in ButtonTime /\ rawChangedAt \in ButtonTime /\ up \in 0..DebounceTime
    BY DEF PressInv, ButtonClock
  <1>2. t \in ButtonTime /\ l <= s + d
    BY <1>1, TimePasses
  <1>3. s \in Nat /\ l \in Nat
    BY <1>1, <1>2, ElapsedIs
  <1>4. ~rawPressed => up = DebounceTime \/ s <= up
    BY DEF PressInv, Counted
  <1>5. m = IF up + d < DebounceTime THEN up + d ELSE DebounceTime
    OBVIOUS
  <1>6. Counted(t, rawChangedAt, m) <=> (m = DebounceTime \/ l <= m)
    BY DEF Counted
  <1> HIDE DEF t, s, l, up
  <1>7. DebounceTime \in Nat /\ MaxPass \in Nat
    BY ButtonAssumption
  <1>8. m \in 0..DebounceTime
    BY <1>1, <1>5, <1>7
  <1>9. ~rawPressed => m = DebounceTime \/ l <= m
    BY <1>1, <1>2, <1>3, <1>4, <1>5, <1>7
  <1> QED
    BY <1>6, <1>8, <1>9 DEF t

LEMMA Sampling ==
  ASSUME PressInv, NEW d \in 1..MaxPass, NEW pressed \in BOOLEAN, Sample(d, pressed)
  PROVE  PressInv' /\ (activationSent' /\ ~activationSent => released)
  <1> DEFINE t == (now + d) % ButtonWrap
             m == IF upFor + d < DebounceTime THEN upFor + d ELSE DebounceTime
  <1>1. /\ now' = t
        /\ rawPressed' = pressed
        /\ rawChangedAt' = (IF pressed # rawPressed THEN t ELSE rawChangedAt)
        /\ stablePressed' = (IF Settles(t) THEN pressed ELSE stablePressed)
        /\ pressedAt' = (IF Settles(t) /\ pressed THEN t ELSE pressedAt)
        /\ activationSent' = Sent(t)
        /\ upFor' = (IF rawPressed \/ pressed THEN 0 ELSE m)
        /\ released' = (upFor' = DebounceTime \/ (released /\ ~Asks(t)))
    BY DEF Sample, RestsUp
  <1>2. m \in 0..DebounceTime /\ (~rawPressed => Counted(t, rawChangedAt, m))
    BY CountGoesOn
  <1>3. now \in ButtonTime /\ rawChangedAt \in ButtonTime /\ t \in ButtonTime
    BY TimePasses DEF PressInv, ButtonClock
  <1>4. Settles(t) <=> stablePressed # pressed /\ Since(t, rawChangedAt') >= DebounceTime
    BY <1>1 DEF Settles
  <1>5. Asks(t) => ~Settles(t) /\ stablePressed /\ ~activationSent
    BY DEF Asks
  <1>6. activationSent' <=> Asks(t) \/ (~Settles(t) /\ activationSent)
    BY <1>1 DEF Sent
  <1>7. activationSent' \in BOOLEAN /\ released' \in BOOLEAN
    BY <1>1 DEF Sent, Asks, Settles, PressInv
  <1> HIDE DEF t, m
  <1>8. DebounceTime \in Nat \ {0}
    BY ButtonAssumption
  <1>9. ButtonClock'
    BY <1>1, <1>3 DEF PressInv, ButtonClock
  <1>10. upFor' \in 0..DebounceTime
    BY <1>1, <1>2, <1>8
  <1>11. Since(t, t) = 0 /\ Since(t, rawChangedAt) \in Nat
    <2>1. t \in Nat
      BY <1>3, ButtonAssumption DEF ButtonTime
    <2>2. Since(t, t) = IF t <= t THEN t - t ELSE t - t + ButtonWrap
      BY <1>3, ElapsedIs
    <2>3. Since(t, rawChangedAt) \in Nat
      BY <1>3, ElapsedIs
    <2> QED
      BY <2>1, <2>2, <2>3
  <1>12. ~pressed => Counted(t, rawChangedAt', upFor')
    <2>1. CASE rawPressed
      <3>1. ~pressed => rawChangedAt' = t /\ upFor' = 0
        BY <1>1, <2>1
      <3>2. Counted(t, t, 0)
        BY <1>11 DEF Counted
      <3> QED
        BY <3>1, <3>2
    <2>2. CASE ~rawPressed
      <3>1. ~pressed => upFor' = m /\ rawChangedAt' = rawChangedAt
        BY <1>1, <2>2 DEF PressInv
      <3> QED
        BY <1>2, <2>2, <3>1
    <2> QED
      BY <2>1, <2>2
  <1>13. Settles(t) /\ ~pressed => upFor' = DebounceTime
    <2> DEFINE u == upFor'
               l == Since(t, rawChangedAt')
    <2>1. l \in Nat
      BY <1>1, <1>11
    <2>2. ~pressed => u = DebounceTime \/ l <= u
      BY <1>12 DEF Counted
    <2>3. Settles(t) => l >= DebounceTime
      BY <1>4
    <2>4. u \in 0..DebounceTime
      BY <1>10
    <2> HIDE DEF u, l
    <2>5. Settles(t) /\ ~pressed => u = DebounceTime
      BY <1>8, <2>1, <2>2, <2>3, <2>4
    <2> QED
      BY <2>5 DEF u
  <1>14. activationSent' => stablePressed'
    BY <1>1, <1>5, <1>6 DEF PressInv
  <1>15. ~released' => activationSent'
    <2> SUFFICES ASSUME ~released' PROVE activationSent'
      OBVIOUS
    <2>1. upFor' # DebounceTime /\ (~released \/ Asks(t))
      BY <1>1
    <2>2. CASE Asks(t)
      BY <1>6, <2>2
    <2>3. CASE ~released
      <3>1. activationSent /\ stablePressed
        BY <2>3 DEF PressInv
      <3>2. Settles(t) => ~pressed
        BY <1>4, <3>1 DEF PressInv
      <3> QED
        BY <1>6, <1>13, <2>1, <3>1, <3>2
    <2> QED
      BY <2>1, <2>2, <2>3
  <1>16. {rawPressed', stablePressed'} \subseteq BOOLEAN
    BY <1>1 DEF PressInv
  <1>17. PressInv'
    BY <1>1, <1>7, <1>9, <1>10, <1>12, <1>14, <1>15, <1>16 DEF PressInv
  <1>18. activationSent' /\ ~activationSent => released
    BY <1>5, <1>6 DEF PressInv
  <1> QED
    BY <1>17, <1>18

LEMMA Skipping ==
  ASSUME PressInv, NEW d \in 1..MaxPass, ReadFails(d)
  PROVE  PressInv' /\ (activationSent' /\ ~activationSent => released)
  <1> DEFINE t == (now + d) % ButtonWrap
             m == IF upFor + d < DebounceTime THEN upFor + d ELSE DebounceTime
  <1>1. /\ now' = t /\ upFor' = (IF rawPressed THEN 0 ELSE m)
        /\ UNCHANGED <<rawPressed, rawChangedAt, stablePressed, pressedAt, activationSent, released>>
    BY DEF ReadFails, RestsUp
  <1>2. m \in 0..DebounceTime /\ (~rawPressed => Counted(t, rawChangedAt, m))
    BY CountGoesOn
  <1>3. t \in ButtonTime
    BY TimePasses DEF PressInv, ButtonClock
  <1> HIDE DEF t, m
  <1>4. upFor' \in 0..DebounceTime
    BY <1>1, <1>2, ButtonAssumption
  <1> QED
    BY <1>1, <1>2, <1>3, <1>4 DEF PressInv, ButtonClock

LEMMA Pressing ==
  ASSUME PressInv, [ButtonNext]_buttonVars
  PROVE  PressInv' /\ (activationSent' /\ ~activationSent => released)
  <1>1. ASSUME NEW d \in 1..MaxPass, NEW pressed \in BOOLEAN, Sample(d, pressed)
        PROVE  PressInv' /\ (activationSent' /\ ~activationSent => released)
    BY <1>1, Sampling
  <1>2. ASSUME NEW d \in 1..MaxPass, ReadFails(d)
        PROVE  PressInv' /\ (activationSent' /\ ~activationSent => released)
    BY <1>2, Skipping
  <1>3. CASE UNCHANGED buttonVars
    BY <1>3 DEF buttonVars, PressInv, ButtonClock, Counted, Since
  <1> QED
    BY <1>1, <1>2, <1>3 DEF ButtonNext

LEMMA ButtonInitially == ButtonInit => PressInv
  <1> SUFFICES ASSUME ButtonInit PROVE PressInv
    OBVIOUS
  <1>1. ButtonClock
    BY ButtonAssumption DEF ButtonInit, ButtonClock, ButtonTime
  <1>2. Since(now, rawChangedAt) = 0
    <2>1. rawChangedAt = now /\ now \in ButtonTime
      BY <1>1 DEF ButtonInit, ButtonClock
    <2> QED
      BY <2>1, ElapsedIs, ButtonAssumption DEF ButtonTime
  <1>3. upFor = 0 /\ 0 \in 0..DebounceTime
    BY ButtonAssumption DEF ButtonInit
  <1>4. Counted(now, rawChangedAt, upFor)
    BY <1>2, <1>3 DEF Counted
  <1>5. {rawPressed, stablePressed, activationSent, released} \subseteq BOOLEAN /\ released /\ ~activationSent
    BY DEF ButtonInit
  <1> QED
    BY <1>1, <1>3, <1>4, <1>5 DEF PressInv

LEMMA PressAlways == ButtonSpec => []PressInv
  <1>1. PressInv /\ [ButtonNext]_buttonVars => PressInv'
    BY Pressing
  <1> QED
    BY <1>1, ButtonInitially, PTL DEF ButtonSpec

(* Between two requests for a Bluetooth session the samples have found the   *)
(* button up throughout some time as long as DebounceTime.                   *)
THEOREM PressAsksOnce == ButtonSpec => OneRequestPerPress
  <1>1. PressInv /\ [ButtonNext]_buttonVars => [activationSent' /\ ~activationSent => released]_buttonVars
    BY Pressing
  <1> QED
    BY <1>1, PressAlways, PTL DEF ButtonSpec, OneRequestPerPress

------------------------------------------------------------------------------
(* Home Assistant follows the registry: for any devices, length of the queue *)
(* and number of changes, faults and settings, however the pushes of the web *)
(* server's task, the pops of the loop and the sessions with the broker      *)
(* follow each other.                                                        *)

(* The events that are still to be handled: the ring holds as many as count_ *)
(* says, but for a change of it that is under way.                           *)
Used == IF pushing # {} THEN count + 1 ELSE IF popping # {} THEN count - 1 ELSE count
Firsts(ring, n) == {ring[i] : i \in 0..(n - 1)}
Waiting == Firsts(slots, Used)
InFlight == Waiting \cup {p.event : p \in popping}

Coming(d, kinds) == \E e \in InFlight : e.device = d /\ e.kind \in kinds

(* What the broker has of d is right, or an event that puts it right is on   *)
(* its way.                                                                  *)
Repaired(d) ==
  /\ registry[d] = "unborn" => ~broker[d].found
  /\ registry[d] = "gone" => ~broker[d].found \/ Coming(d, {"deleted"})
  /\ registry[d] = "hidden" => ~broker[d].found \/ Coming(d, {"created", "updated"})
  /\ registry[d] \in {"off", "on"} =>
       \/ Coming(d, {"created", "updated"})
       \/ broker[d].found /\ (broker[d].value = registry[d] \/ Coming(d, {"state"}))

Retained == [found : BOOLEAN, value : {"none", "off", "on"}]

(* What a pop may read is a slot, or parts of two.                           *)
Read == [kind : EventKinds \cup {"none"}, device : Devices \cup {NoDevice}]
Slot == Event \cup {NoEvent}

RingOK == slots \in [Places -> Slot] /\ tail \in Places /\ count \in 0..MaxEvents /\ raced \in BOOLEAN

QueueTypes ==
  /\ pushing \subseteq [count : 0..(MaxEvents - 1), over : Slot]
  /\ popping \subseteq [event : Read, count : 1..MaxEvents]
  /\ pushing # {} => pushing = {Pushed}
  /\ popping # {} => popping = {Popped}

(* The count and the indices agree as long as no push has met a pop.         *)
TailAt(n) == IF n = MaxEvents THEN 0 ELSE n

Counting ==
  /\ pushing = {} \/ popping = {}
  /\ pushing # {} => Pushed.count = count
  /\ popping # {} => Popped.count = count
  /\ tail = TailAt(Used)
  /\ Firsts(slots, Used) \subseteq Event

DeletedForGood == \A d \in Devices : Coming(d, {"deleted"}) => registry[d] = "gone"

Repairs == \A d \in Devices \ missed : Repaired(d)

InStep == Counting /\ DeletedForGood /\ Repairs

BridgeInv ==
  /\ MqttTypeOK /\ QueueTypes
  /\ raced => missed = Devices
  /\ ~raced => InStep

(* One place further round the ring, or back.                                *)
LEMMA RoundTheRing ==
  ASSUME NEW i \in Places
  PROVE  /\ After(i) \in Places /\ After(i) = TailAt(i + 1)
         /\ Before(i) \in Places /\ Before(i) = IF i = 0 THEN MaxEvents - 1 ELSE i - 1
  <1>1. MaxEvents \in Nat \ {0} /\ i \in Nat /\ i < MaxEvents
    BY QueueAssumption DEF Places
  <1> DEFINE up == i + 1
             back == i + MaxEvents - 1
  <1>2. /\ up \in Nat /\ up < MaxEvents + MaxEvents /\ (up < MaxEvents <=> i + 1 # MaxEvents)
        /\ back \in Nat /\ back < MaxEvents + MaxEvents /\ (back < MaxEvents <=> i = 0)
        /\ (i + 1 = MaxEvents => up - MaxEvents = 0) /\ (i = 0 => back = MaxEvents - 1)
        /\ back - MaxEvents = i - 1
    BY <1>1
  <1>3. After(i) = up % MaxEvents /\ Before(i) = back % MaxEvents
    BY DEF After, Before
  <1>4. up = i + 1
    OBVIOUS
  <1> HIDE DEF up, back
  <1>5. After(i) = (IF up < MaxEvents THEN up ELSE up - MaxEvents) /\ After(i) \in Places
    BY <1>1, <1>2, <1>3, Wrapped DEF Places
  <1>6. Before(i) = (IF back < MaxEvents THEN back ELSE back - MaxEvents) /\ Before(i) \in Places
    BY <1>1, <1>2, <1>3, Wrapped DEF Places
  <1>7. After(i) = TailAt(i + 1)
    BY <1>2, <1>4, <1>5 DEF TailAt
  <1>8. Before(i) = IF i = 0 THEN MaxEvents - 1 ELSE i - 1
    BY <1>2, <1>6
  <1> QED
    BY <1>5, <1>6, <1>7, <1>8

(* A ring with room for it that an event is added to.                        *)
LEMMA EventAdded ==
  ASSUME NEW e \in Event, NEW ring \in [Places -> Slot], NEW n \in Nat, n < MaxEvents
  PROVE  /\ TailAt(n) = n /\ n \in Places
         /\ Firsts([ring EXCEPT ![TailAt(n)] = e], n + 1) = Firsts(ring, n) \cup {e}
  <1> DEFINE added == [ring EXCEPT ![n] = e]
  <1>1. TailAt(n) = n /\ n \in Places
    BY QueueAssumption DEF TailAt, Places
  <1>2. added[n] = e /\ (\A i \in 0..(n - 1) : added[i] = ring[i])
    <2>1. \A i \in 0..(n - 1) : i \in Places /\ i # n
      BY QueueAssumption DEF Places
    <2> QED
      BY <1>1, <2>1
  <1>3. 0..((n + 1) - 1) = 0..(n - 1) \cup {n}
    OBVIOUS
  <1> HIDE DEF added
  <1>4. {added[i] : i \in 0..(n - 1) \cup {n}} = {ring[i] : i \in 0..(n - 1)} \cup {e}
    BY <1>2
  <1>5. Firsts(added, n + 1) = {added[i] : i \in 0..(n - 1) \cup {n}}
    BY <1>3 DEF Firsts
  <1>6. Firsts(added, n + 1) = Firsts(ring, n) \cup {e}
    BY <1>4, <1>5 DEF Firsts
  <1> QED
    BY <1>1, <1>6 DEF added

(* A ring with events that the first is taken from.                          *)
LEMMA EventTaken ==
  ASSUME NEW ring \in [Places -> Slot], NEW n \in 1..MaxEvents
  PROVE  /\ Firsts(ring, n) = {ring[0]} \cup Firsts([i \in Places |-> ring[After(i)]], n - 1)
         /\ Before(TailAt(n)) = TailAt(n - 1)
  <1> DEFINE turned == [i \in Places |-> ring[After(i)]]
  <1>1. MaxEvents \in Nat \ {0} /\ n \in Nat \ {0} /\ n <= MaxEvents
    BY QueueAssumption
  <1>2. \A i \in 0..((n - 1) - 1) : i \in Places /\ i + 1 \in 0..(n - 1) /\ TailAt(i + 1) = i + 1
    BY <1>1 DEF Places, TailAt
  <1>3. \A i \in 0..((n - 1) - 1) : turned[i] = ring[i + 1]
    BY <1>2, RoundTheRing
  <1> HIDE DEF turned
  <1>4. \A i \in 0..(n - 1) : i = 0 \/ (i - 1 \in 0..((n - 1) - 1) /\ (i - 1) + 1 = i)
    BY <1>1
  <1>5. \A i \in 0..(n - 1) : i = 0 \/ (i - 1 \in 0..((n - 1) - 1) /\ turned[i - 1] = ring[i])
    BY <1>3, <1>4
  <1>6. 0 \in 0..(n - 1)
    BY <1>1
  <1>7. Firsts(ring, n) \subseteq {ring[0]} \cup Firsts(turned, n - 1)
    BY <1>5 DEF Firsts
  <1>8. {ring[0]} \cup Firsts(turned, n - 1) \subseteq Firsts(ring, n)
    BY <1>2, <1>3, <1>6 DEF Firsts
  <1>9. Before(TailAt(n)) = TailAt(n - 1)
    <2>1. CASE n = MaxEvents
      <3>1. TailAt(n) = 0 /\ 0 \in Places
        BY <1>1, <2>1 DEF TailAt, Places
      <3> QED
        BY <1>1, <2>1, <3>1, RoundTheRing DEF TailAt
    <2>2. CASE n # MaxEvents
      <3>1. TailAt(n) = n /\ n \in Places
        BY <1>1, <2>2 DEF TailAt, Places
      <3>2. Before(n) = n - 1
        BY <1>1, <3>1, RoundTheRing
      <3> QED
        BY <1>1, <2>2, <3>1, <3>2 DEF TailAt
    <2> QED
      BY <2>1, <2>2
  <1> QED
    BY <1>7, <1>8, <1>9 DEF turned

LEMMA SlotRead == ASSUME NEW x \in Slot, NEW y \in Slot PROVE [kind |-> x.kind, device |-> y.device] \in Read
  BY DEF Slot, Read, Event, NoEvent, EventKinds

LEMMA KindsOf == \A old, new : KindOf(old, new) \in EventKinds
  BY DEF KindOf, EventKinds

LEMMA RingTyped == MqttTypeOK => RingOK
  BY DEF MqttTypeOK, RingOK, Slot

(* Neither the count nor an index ever leaves the ring: a push checks that   *)
(* the count it read is below MaxEvents, a pop that it is not 0.             *)
LEMMA PushTypes ==
  ASSUME RingOK, QueueTypes, missed \subseteq Devices, NEW e \in Event,
         PushBegin(e) \/ PushWhole(e)
  PROVE  RingOK' /\ QueueTypes' /\ missed' \subseteq Devices
  <1> USE DEF RingOK, QueueTypes
  <1>1. e.device \in Devices /\ e \in Slot
    BY DEF Event, Slot
  <1>2. Popped' = Popped /\ UNCHANGED popping
    BY DEF PushBegin, PushWhole, Popped
  <1>3. CASE full
    <2>1. missed' = missed \cup {e.device} /\ UNCHANGED <<slots, tail, count, pushing, popping, raced>>
      BY <1>3 DEF PushBegin, PushWhole, Dropped
    <2>2. Pushed' = Pushed
      BY <2>1 DEF Pushed
    <2> QED
      BY <1>1, <1>2, <2>1, <2>2
  <1>4. CASE ~full
    <2>1. slots' \in [Places -> Slot] /\ tail' \in Places
      BY <1>1, <1>4, RoundTheRing DEF PushBegin, PushWhole, Stored
    <2>2. count < MaxEvents /\ count \in 0..(MaxEvents - 1) /\ count + 1 \in 0..MaxEvents
      BY <1>4, QueueAssumption DEF full
    <2>3. raced' \in BOOLEAN /\ missed' \subseteq Devices
      BY <1>4 DEF PushBegin, PushWhole, Meets
    <2>4. CASE PushBegin(e)
      <3>1. slots[tail] \in Slot
        OBVIOUS
      <3> DEFINE p == [count |-> count, over |-> slots[tail]]
      <3>2. p \in [count : 0..(MaxEvents - 1), over : Slot]
        BY <2>2, <3>1
      <3>3. pushing' = {p} /\ UNCHANGED count
        BY <1>4, <2>4 DEF PushBegin
      <3> HIDE DEF p
      <3>4. Pushed' = p
        BY <3>3 DEF Pushed
      <3> QED
        BY <1>2, <2>1, <2>3, <3>2, <3>3, <3>4
    <2>5. CASE PushWhole(e)
      <3>1. count' = count + 1 /\ UNCHANGED pushing /\ pushing = {}
        BY <1>4, <2>5 DEF PushWhole
      <3> QED
        BY <1>2, <2>1, <2>2, <2>3, <3>1
    <2> QED
      BY <2>4, <2>5
  <1> QED
    BY <1>3, <1>4

LEMMA PushEndTypes ==
  ASSUME RingOK, QueueTypes, PushEnd
  PROVE  RingOK' /\ QueueTypes'
  <1> USE DEF RingOK, QueueTypes
  <1>1. Pushed.count \in 0..(MaxEvents - 1)
    BY DEF PushEnd
  <1>2. Pushed.count + 1 \in 0..MaxEvents
    BY <1>1, QueueAssumption
  <1>3. Popped' = Popped
    BY DEF PushEnd, Popped
  <1> QED
    BY <1>2, <1>3 DEF PushEnd

LEMMA PopTypes ==
  ASSUME RingOK, QueueTypes, missed \subseteq Devices, PopBegin
  PROVE  RingOK' /\ QueueTypes' /\ missed' \subseteq Devices
  <1> USE DEF RingOK, QueueTypes
  <1>1. slots' \in [Places -> Slot] /\ tail' \in Places
    BY RoundTheRing DEF PopBegin
  <1>2. raced' \in BOOLEAN /\ missed' \subseteq Devices
    BY DEF PopBegin, Meets
  <1>3. PICK e \in Found : popping' = {[event |-> e, count |-> count]}
    BY DEF PopBegin
  <1>4. e \in Read
    <2> DEFINE seen == {slots[0]} \cup IF tail = After(0) THEN {p.over : p \in pushing} ELSE {}
    <2>1. 0 \in Places
      BY QueueAssumption DEF Places
    <2>2. seen \subseteq Slot
      BY <2>1
    <2>3. PICK x \in seen, y \in seen : e = [kind |-> x.kind, device |-> y.device]
      BY <1>3 DEF Found
    <2> HIDE DEF seen
    <2> QED
      BY <2>2, <2>3, SlotRead
  <1>5. count \in 1..MaxEvents /\ UNCHANGED <<count, pushing>>
    BY QueueAssumption DEF PopBegin
  <1>6. Pushed' = Pushed
    BY <1>5 DEF Pushed
  <1> DEFINE p == [event |-> e, count |-> count]
  <1>7. p \in [event : Read, count : 1..MaxEvents] /\ popping' = {p}
    BY <1>3, <1>4, <1>5
  <1> HIDE DEF p
  <1>8. Popped' = p
    BY <1>7 DEF Popped
  <1> QED
    BY <1>1, <1>2, <1>5, <1>6, <1>7, <1>8

LEMMA PopEndTypes ==
  ASSUME RingOK, QueueTypes, PopEnd
  PROVE  RingOK' /\ QueueTypes' /\ Popped.event \in Read
  <1> USE DEF RingOK, QueueTypes
  <1>1. Popped \in [event : Read, count : 1..MaxEvents]
    BY DEF PopEnd
  <1>2. Popped.count \in 1..MaxEvents
    BY <1>1
  <1>3. Popped.count - 1 \in 0..MaxEvents
    BY <1>2, QueueAssumption
  <1>4. Pushed' = Pushed
    BY DEF PopEnd, Pushed
  <1> QED
    BY <1>1, <1>3, <1>4 DEF PopEnd

LEMMA BridgeInitially == MqttInit => BridgeInv
  <1> SUFFICES ASSUME MqttInit PROVE BridgeInv
    OBVIOUS
  <1>1. 0 \in Places /\ MaxEvents \in Nat \ {0} /\ 0 \in 0..MaxEvents
    BY QueueAssumption DEF Places
  <1>2. MqttTypeOK
    <2>1. slots \in [Places -> Event \cup {NoEvent}] /\ tail \in Places /\ count \in 0..MaxEvents
      BY <1>1 DEF MqttInit, QueueInit
    <2>2. registry \in [Devices -> DeviceStates] /\ missed \subseteq Devices /\ raced \in BOOLEAN
      BY DEF MqttInit, QueueInit, DeviceStates
    <2>3. broker \in [Devices -> [found : BOOLEAN, value : {"none", "off", "on"}]]
      BY DEF MqttInit
    <2> QED
      BY <2>1, <2>2, <2>3 DEF MqttInit, MqttTypeOK, MqttSettings, NoSession
  <1>3. QueueTypes /\ ~raced
    BY DEF MqttInit, QueueInit, QueueTypes
  <1>4. Used = 0 /\ tail = 0
    BY DEF MqttInit, QueueInit, Used
  <1>5. Firsts(slots, Used) = {}
    BY <1>4 DEF Firsts
  <1>6. Counting /\ InFlight = {}
    BY <1>1, <1>4, <1>5 DEF MqttInit, QueueInit, Counting, InFlight, Waiting, TailAt
  <1>7. DeletedForGood /\ Repairs
    BY <1>6 DEF MqttInit, DeletedForGood, Coming, Repairs, Repaired
  <1> QED
    BY <1>2, <1>3, <1>6, <1>7 DEF BridgeInv, InStep

(* Neither the events nor what the broker retains changes.                   *)
LEMMA BridgeAlone ==
  ASSUME BridgeInv, MqttTypeOK',
         UNCHANGED <<slots, tail, popping, registry, broker, missed, pushing, count, raced>>
  PROVE  BridgeInv'
  <1>1. InFlight' = InFlight /\ Popped' = Popped /\ Pushed' = Pushed /\ Used' = Used
    BY DEF InFlight, Waiting, Popped, Pushed, Used
  <1>2. \A d, kinds : Coming(d, kinds)' <=> Coming(d, kinds)
    BY <1>1 DEF Coming
  <1>3. InStep => InStep'
    BY <1>1, <1>2 DEF InStep, Counting, DeletedForGood, Repairs, Repaired
  <1> QED
    BY <1>1, <1>3 DEF BridgeInv, QueueTypes

(* A device changes and its event is queued, or dropped as the queue is full. *)
LEMMA ChangeRepaired ==
  ASSUME MqttTypeOK, DeletedForGood, Repairs,
         NEW d \in Devices, NEW new \in DeviceStates, Changes(d, new), UNCHANGED broker,
         NEW e \in Event, e = [kind |-> KindOf(registry[d], new), device |-> d],
         \/ missed' = missed \cup {d} /\ InFlight' = InFlight
         \/ UNCHANGED missed /\ InFlight' = InFlight \cup {e}
  PROVE  DeletedForGood' /\ Repairs'
  <1>1. /\ registry[d] \in DeviceStates \ {"gone"} /\ registry' = [registry EXCEPT ![d] = new]
        /\ registry \in [Devices -> DeviceStates] /\ new # "unborn" /\ new # registry[d]
    BY DEF Changes, MqttTypeOK, DeviceStates, ExistingStates
  <1>2. \A x, kinds : Coming(x, kinds) => Coming(x, kinds)'
    BY DEF Coming
  <1>3. e.device = d /\ e.kind = KindOf(registry[d], new)
    OBVIOUS
  <1>4. DeletedForGood'
    <2>1. e.kind = "deleted" => new = "gone"
      BY <1>3 DEF KindOf
    <2>2. ASSUME NEW x \in Devices, Coming(x, {"deleted"})' PROVE registry'[x] = "gone"
      <3>1. Coming(x, {"deleted"}) \/ (x = d /\ e.kind = "deleted")
        BY <1>3, <2>2 DEF Coming
      <3> QED
        BY <1>1, <2>1, <3>1 DEF DeletedForGood
    <2> QED
      BY <2>2 DEF DeletedForGood
  <1>5. Repairs'
    <2> SUFFICES ASSUME NEW x \in Devices \ missed' PROVE Repaired(x)'
      BY DEF Repairs
    <2>1. Repaired(x)
      BY DEF Repairs
    <2>2. CASE x # d
      BY <1>1, <1>2, <2>1, <2>2 DEF Repaired
    <2>3. CASE x = d
      <3>1. InFlight' = InFlight \cup {e}
        BY <2>3
      <3>2. Coming(d, {e.kind})'
        BY <1>3, <3>1 DEF Coming
      <3>3. registry'[d] = new
        BY <1>1
      <3>4. CASE e.kind \in {"created", "updated"}
        <4>1. new # "gone"
          <5>1. CASE registry[d] = "unborn"
            BY <5>1 DEF Changes, ExistingStates
          <5>2. CASE registry[d] # "unborn"
            <6>1. new = "gone" => KindOf(registry[d], new) = "deleted"
              BY <5>2 DEF KindOf
            <6> QED
              BY <1>3, <3>4, <6>1
          <5> QED
            BY <5>1, <5>2
        <4>2. Coming(d, {"created", "updated"})'
          BY <1>3, <3>1, <3>4 DEF Coming
        <4> QED
          BY <1>1, <2>3, <3>3, <4>1, <4>2 DEF Repaired
      <3>5. CASE e.kind = "deleted"
        <4>1. new = "gone"
          BY <1>3, <3>5 DEF KindOf
        <4> QED
          BY <2>3, <3>2, <3>3, <3>5, <4>1 DEF Repaired
      <3>6. CASE e.kind = "state"
        <4>1. registry[d] \in {"off", "on"} /\ new \in {"off", "on"}
          BY <1>1, <1>3, <3>6 DEF KindOf, DeviceStates, ExistingStates
        <4> QED
          BY <1>2, <2>1, <2>3, <3>2, <3>3, <3>6, <4>1 DEF Repaired
      <3> QED
        BY <3>4, <3>5, <3>6 DEF Event, EventKinds
    <2> QED
      BY <2>2, <2>3
  <1> QED
    BY <1>4, <1>5

LEMMA WebChanging ==
  ASSUME BridgeInv, NEW d \in Devices, NEW new \in DeviceStates, WebChanges(d, new)
  PROVE  BridgeInv'
  <1> DEFINE e == [kind |-> KindOf(registry[d], new), device |-> d]
  <1>1. e \in Event /\ e.device = d
    BY KindsOf DEF Event
  <1>2. /\ Changes(d, new) /\ PushBegin(e) /\ UNCHANGED <<broker, popping, count>>
        /\ registry' = [registry EXCEPT ![d] = new] /\ UNCHANGED sessionVars /\ pushing = {}
    BY DEF WebChanges, PushBegin, Changes
  <1> HIDE DEF e
  <1>3. MqttTypeOK' /\ QueueTypes'
    <2>1. MqttTypeOK /\ RingOK /\ QueueTypes /\ missed \subseteq Devices
      BY RingTyped DEF BridgeInv, MqttTypeOK
    <2>2. RingOK' /\ QueueTypes' /\ missed' \subseteq Devices
      BY <1>1, <1>2, <2>1, PushTypes
    <2> QED
      BY <1>2, <2>1, <2>2 DEF MqttTypeOK, RingOK, Slot, sessionVars
  <1>4. \/ missed' = missed \cup {d} /\ UNCHANGED <<slots, tail, pushing, raced>>
        \/ Stored(e) /\ (\E p : pushing' = {p} /\ p.count = count) /\ Meets(popping) /\ ~full
    <2>1. full => missed' = missed \cup {d} /\ UNCHANGED <<slots, tail, pushing, raced>>
      BY <1>1, <1>2 DEF PushBegin, Dropped
    <2>2. ~full => Stored(e) /\ pushing' = {[count |-> count, over |-> slots[tail]]} /\ Meets(popping)
      BY <1>2 DEF PushBegin
    <2>3. ~full => \E p : pushing' = {p} /\ p.count = count
      <3>1. [count |-> count, over |-> slots[tail]].count = count
        OBVIOUS
      <3> QED
        BY <2>2, <3>1
    <2> QED
      BY <2>1, <2>2, <2>3
  <1>5. raced' => missed' = Devices
    BY <1>3, <1>4 DEF BridgeInv, MqttTypeOK, Meets
  <1>6. ASSUME ~raced' PROVE InStep'
    <2>1. ~raced
      BY <1>4, <1>6 DEF Meets
    <2>2. InStep /\ MqttTypeOK /\ Popped' = Popped
      BY <1>2, <2>1 DEF BridgeInv, Popped
    <2>3. CASE missed' = missed \cup {d} /\ UNCHANGED <<slots, tail, pushing, raced>>
      <3>1. Used' = Used /\ Pushed' = Pushed
        BY <1>2, <2>3 DEF Used, Pushed
      <3>2. InFlight' = InFlight /\ Counting'
        BY <1>2, <2>2, <2>3, <3>1 DEF InFlight, Waiting, InStep, Counting
      <3> QED
        BY <1>1, <1>2, <2>2, <2>3, <3>2, ChangeRepaired DEF InStep, e
    <2>4. CASE Stored(e) /\ (\E p : pushing' = {p} /\ p.count = count) /\ Meets(popping) /\ ~full
      <3>1. popping = {} /\ popping' = {} /\ UNCHANGED missed /\ pushing' # {}
        BY <1>2, <1>6, <2>4 DEF Meets
      <3>2. Used = count /\ Used' = count + 1 /\ count \in Nat /\ count < MaxEvents
        BY <1>2, <2>2, <2>4, <3>1, QueueAssumption DEF Used, full, MqttTypeOK
      <3>3. tail = TailAt(count) /\ slots \in [Places -> Slot] /\ Firsts(slots, count) \subseteq Event
        BY <2>2, <3>2 DEF InStep, Counting, MqttTypeOK, Slot
      <3>4. /\ TailAt(count) = count /\ count \in Places
            /\ Firsts([slots EXCEPT ![TailAt(count)] = e], count + 1) = Firsts(slots, count) \cup {e}
        BY <1>1, <3>2, <3>3, EventAdded
      <3>5. Firsts(slots', count + 1) = Firsts(slots, count) \cup {e} /\ tail' = TailAt(count + 1)
        BY <2>4, <3>3, <3>4, RoundTheRing DEF Stored
      <3>6. InFlight' = InFlight \cup {e}
        BY <3>1, <3>2, <3>5 DEF InFlight, Waiting
      <3>7. Pushed'.count = count
        BY <2>4 DEF Pushed
      <3>8. Firsts(slots', Used') \subseteq Event /\ tail' = TailAt(Used')
        BY <1>1, <3>2, <3>3, <3>5
      <3>9. Counting'
        BY <1>2, <3>1, <3>7, <3>8 DEF Counting
      <3> QED
        BY <1>1, <1>2, <2>2, <3>1, <3>6, <3>9, ChangeRepaired DEF InStep, e
    <2> QED
      BY <1>4, <2>3, <2>4
  <1> QED
    BY <1>3, <1>5, <1>6 DEF BridgeInv

LEMMA LoopChanging ==
  ASSUME BridgeInv, NEW d \in Devices, NEW new \in DeviceStates, LoopChanges(d, new)
  PROVE  BridgeInv'
  <1> DEFINE e == [kind |-> KindOf(registry[d], new), device |-> d]
  <1>1. KindOf(registry[d], new) = "state" /\ e \in Event /\ e.device = d
    BY KindsOf DEF LoopChanges, KindOf, Event
  <1>2. /\ Changes(d, new) /\ PushWhole(e) /\ UNCHANGED <<broker, popping, pushing, raced>>
        /\ registry' = [registry EXCEPT ![d] = new] /\ UNCHANGED sessionVars
        /\ pushing = {} /\ popping = {}
    BY <1>1 DEF LoopChanges, PushWhole, Changes
  <1> HIDE DEF e
  <1>3. MqttTypeOK' /\ QueueTypes'
    <2>1. MqttTypeOK /\ RingOK /\ QueueTypes /\ missed \subseteq Devices
      BY RingTyped DEF BridgeInv, MqttTypeOK
    <2>2. RingOK' /\ QueueTypes' /\ missed' \subseteq Devices
      BY <1>1, <1>2, <2>1, PushTypes
    <2> QED
      BY <1>2, <2>1, <2>2 DEF MqttTypeOK, RingOK, Slot, sessionVars
  <1>4. \/ missed' = missed \cup {d} /\ UNCHANGED <<slots, tail, count>>
        \/ Stored(e) /\ count' = count + 1 /\ UNCHANGED missed /\ ~full
    BY <1>1, <1>2 DEF PushWhole, Dropped
  <1>5. raced' => missed' = Devices
    BY <1>2, <1>3, <1>4 DEF BridgeInv, MqttTypeOK
  <1>6. ASSUME ~raced' PROVE InStep'
    <2>1. ~raced /\ InStep /\ MqttTypeOK
      BY <1>2, <1>6 DEF BridgeInv
    <2>2. CASE missed' = missed \cup {d} /\ UNCHANGED <<slots, tail, count>>
      <3>1. Used' = Used
        BY <1>2, <2>2 DEF Used
      <3>2. InFlight' = InFlight /\ Counting'
        BY <1>2, <2>1, <2>2, <3>1 DEF InFlight, Waiting, InStep, Counting
      <3> QED
        BY <1>1, <1>2, <2>1, <2>2, <3>2, ChangeRepaired DEF InStep, e
    <2>3. CASE Stored(e) /\ count' = count + 1 /\ UNCHANGED missed /\ ~full
      <3>1. Used = count /\ Used' = count + 1 /\ count \in Nat /\ count < MaxEvents
        BY <1>2, <2>1, <2>3, QueueAssumption DEF Used, full, MqttTypeOK
      <3>2. tail = TailAt(count) /\ slots \in [Places -> Slot] /\ Firsts(slots, count) \subseteq Event
        BY <2>1, <3>1 DEF InStep, Counting, MqttTypeOK, Slot
      <3>3. /\ TailAt(count) = count /\ count \in Places
            /\ Firsts([slots EXCEPT ![TailAt(count)] = e], count + 1) = Firsts(slots, count) \cup {e}
        BY <1>1, <3>1, <3>2, EventAdded
      <3>4. Firsts(slots', count + 1) = Firsts(slots, count) \cup {e} /\ tail' = TailAt(count + 1)
        BY <2>3, <3>2, <3>3, RoundTheRing DEF Stored
      <3>5. InFlight' = InFlight \cup {e}
        BY <1>2, <3>1, <3>4 DEF InFlight, Waiting
      <3>6. Firsts(slots', Used') \subseteq Event /\ tail' = TailAt(Used')
        BY <1>1, <3>1, <3>2, <3>4
      <3>7. Counting'
        BY <1>2, <3>6 DEF Counting
      <3> QED
        BY <1>1, <1>2, <2>1, <2>3, <3>5, <3>7, ChangeRepaired DEF InStep, e
    <2> QED
      BY <1>4, <2>2, <2>3
  <1> QED
    BY <1>3, <1>5, <1>6 DEF BridgeInv

(* What an event, or a connect, makes of what the broker retains.            *)
LEMMA RefreshedIs ==
  ASSUME MqttTypeOK, NEW d \in Devices
  PROVE  /\ Refreshed(d) \in Retained
         /\ registry[d] \in {"off", "on"} => Refreshed(d).found /\ Refreshed(d).value = registry[d]
         /\ registry[d] = "hidden" => ~Refreshed(d).found
         /\ registry[d] \in {"unborn", "gone"} => Refreshed(d) = broker[d]
  BY DEF MqttTypeOK, Refreshed, Retained, DeviceStates, ExistingStates

LEMMA HandledIs ==
  ASSUME MqttTypeOK, NEW e \in Read, e.device \in Devices
  PROVE  /\ Handled(e) \in Retained
         /\ e.kind \in {"created", "updated"} => Handled(e) = Refreshed(e.device)
         /\ e.kind = "deleted" => ~Handled(e).found
         /\ e.kind = "state" => /\ Handled(e).found = broker[e.device].found
                                /\ registry[e.device] \in {"off", "on"} => Handled(e).value = registry[e.device]
  <1>1. e.kind \in EventKinds \cup {"none"} /\ broker[e.device] \in Retained
    BY DEF Read, MqttTypeOK, Retained
  <1>2. Refreshed(e.device) \in Retained
    BY <1>1, RefreshedIs
  <1> QED
    BY <1>1, <1>2 DEF Handled, EventKinds, Retained

LEMMA EventHandled ==
  ASSUME BridgeInv, HandleEvent
  PROVE  BridgeInv'
  <1> DEFINE e == Popped.event
  <1>1. MqttTypeOK /\ RingOK /\ QueueTypes /\ missed \subseteq Devices /\ broker \in [Devices -> Retained]
    BY RingTyped DEF BridgeInv, MqttTypeOK, Retained
  <1>2. RingOK' /\ QueueTypes' /\ e \in Read
    BY <1>1, PopEndTypes DEF HandleEvent
  <1>3. /\ count' = Popped.count - 1 /\ popping' = {} /\ UNCHANGED <<slots, tail, pushing, raced, registry>>
        /\ popping = {Popped} /\ UNCHANGED sessionVars
        /\ \/ broker' = [d \in Devices |-> IF d = e.device THEN Handled(e) ELSE broker[d]] /\ UNCHANGED missed
           \/ missed' = missed \cup ({e.device} \cap Devices) /\ UNCHANGED broker
    BY <1>1 DEF HandleEvent, PopEnd, QueueTypes, Misses
  <1>4. InFlight = Waiting \cup {e}
    <2>1. {p.event : p \in popping} = {e}
      BY <1>3
    <2> QED
      BY <2>1 DEF InFlight
  <1> HIDE DEF e
  <1>5. MqttTypeOK'
    <2>1. broker' \in [Devices -> Retained]
      BY <1>1, <1>2, <1>3, HandledIs
    <2>2. missed' \subseteq Devices
      BY <1>1, <1>3
    <2> QED
      BY <1>1, <1>2, <1>3, <2>1, <2>2 DEF MqttTypeOK, RingOK, Slot, Retained, sessionVars
  <1>6. raced' => missed' = Devices
    BY <1>1, <1>3 DEF BridgeInv
  <1>7. ASSUME ~raced' PROVE InStep'
    <2>1. ~raced /\ InStep /\ pushing = {} /\ Popped.count = count
      BY <1>3, <1>7 DEF BridgeInv, InStep, Counting
    <2>2. Used = count - 1 /\ Used' = count - 1
      BY <1>3, <2>1 DEF Used
    <2>3. Waiting' = Waiting /\ InFlight' = Waiting
      BY <1>3, <2>2 DEF InFlight, Waiting
    <2>4. Counting'
      BY <1>3, <2>1, <2>2 DEF InStep, Counting
    <2>5. DeletedForGood'
      BY <1>3, <1>4, <2>1, <2>3 DEF InStep, DeletedForGood, Coming
    <2>6. ASSUME NEW x \in Devices \ missed' PROVE Repaired(x)'
      <3>1. Repaired(x) /\ registry[x] \in DeviceStates
        BY <1>1, <1>3, <2>1 DEF InStep, Repairs, MqttTypeOK
      <3>2. \A kinds : Coming(x, kinds) => Coming(x, kinds)' \/ (e.device = x /\ e.kind \in kinds)
        BY <1>4, <2>3 DEF Coming
      <3>3. CASE x # e.device
        <4>1. broker'[x] = broker[x]
          BY <1>1, <1>3, <3>3
        <4> QED
          BY <1>3, <3>1, <3>2, <3>3, <4>1 DEF Repaired
      <3>4. CASE x = e.device
        <4>1. broker'[x] = Handled(e)
          BY <1>3, <2>6, <3>4
        <4>2. CASE e.kind \in {"created", "updated"}
          <5>1. broker'[x] = Refreshed(x)
            BY <1>1, <1>2, <2>6, <3>4, <4>1, <4>2, HandledIs
          <5>2. registry[x] = "gone" => ~broker[x].found \/ Coming(x, {"deleted"})'
            BY <3>1, <3>2, <4>2 DEF Repaired
          <5> QED
            BY <1>1, <1>3, <3>1, <5>1, <5>2, RefreshedIs DEF Repaired, DeviceStates, ExistingStates
        <4>3. CASE e.kind = "deleted"
          <5>1. registry[x] = "gone"
            BY <1>4, <2>1, <3>4, <4>3 DEF InStep, DeletedForGood, Coming
          <5> QED
            BY <1>1, <1>2, <1>3, <2>6, <3>4, <4>1, <4>3, <5>1, HandledIs DEF Repaired
        <4>4. CASE e.kind = "state"
          <5>1. broker'[x].found = broker[x].found
                /\ (registry[x] \in {"off", "on"} => broker'[x].value = registry[x])
            BY <1>1, <1>2, <2>6, <3>4, <4>1, <4>4, HandledIs
          <5> QED
            BY <1>3, <3>1, <3>2, <4>4, <5>1 DEF Repaired
        <4>5. CASE e.kind = "none"
          <5>1. broker'[x] = broker[x]
            BY <3>4, <4>1, <4>5 DEF Handled
          <5> QED
            BY <1>3, <3>1, <3>2, <4>5, <5>1 DEF Repaired
        <4> QED
          BY <1>2, <4>2, <4>3, <4>4, <4>5 DEF Read, EventKinds
      <3> QED
        BY <3>3, <3>4
    <2> QED
      BY <2>4, <2>5, <2>6 DEF InStep, Repairs
  <1> QED
    BY <1>2, <1>5, <1>6, <1>7 DEF BridgeInv

LEMMA EventTaking ==
  ASSUME BridgeInv, TakeEvent
  PROVE  BridgeInv'
  <1>1. /\ PopBegin /\ popping = {} /\ count # 0 /\ Meets(pushing)
        /\ slots' = [i \in Places |-> slots[After(i)]] /\ tail' = Before(tail)
        /\ UNCHANGED <<count, pushing, registry, broker, losses, sessionVars>>
    BY DEF TakeEvent, PopBegin
  <1>2. MqttTypeOK /\ RingOK /\ QueueTypes /\ missed \subseteq Devices
    BY RingTyped DEF BridgeInv, MqttTypeOK
  <1>3. RingOK' /\ QueueTypes' /\ missed' \subseteq Devices
    BY <1>1, <1>2, PopTypes
  <1>4. MqttTypeOK'
    BY <1>1, <1>2, <1>3 DEF MqttTypeOK, RingOK, Slot, sessionVars
  <1>5. raced' => missed' = Devices
    BY <1>1 DEF Meets
  <1>6. ASSUME ~raced' PROVE InStep'
    <2>1. ~raced /\ InStep /\ pushing = {} /\ UNCHANGED missed
      BY <1>1, <1>6 DEF BridgeInv, Meets
    <2>2. Used = count /\ count \in 1..MaxEvents /\ slots \in [Places -> Slot]
      BY <1>1, <1>2, <2>1, QueueAssumption DEF Used, RingOK
    <2>3. /\ Firsts(slots, count) = {slots[0]} \cup Firsts(slots', count - 1)
          /\ Before(TailAt(count)) = TailAt(count - 1)
      BY <1>1, <2>2, EventTaken
    <2>4. tail' = TailAt(count - 1) /\ Firsts(slots, count) \subseteq Event
      BY <1>1, <2>1, <2>2, <2>3 DEF InStep, Counting
    <2>5. slots[0] \in Event
      BY <2>3, <2>4
    <2>6. Found = {slots[0]}
      <3>1. {p.over : p \in pushing} = {}
        BY <2>1
      <3> DEFINE seen == {slots[0]} \cup IF tail = After(0) THEN {p.over : p \in pushing} ELSE {}
      <3>4. seen = {slots[0]}
        BY <3>1
      <3>5. Found = {[kind |-> x.kind, device |-> y.device] : x, y \in seen}
        BY DEF Found
      <3> HIDE DEF seen
      <3>2. Found = {[kind |-> slots[0].kind, device |-> slots[0].device]}
        BY <3>4, <3>5
      <3>3. \A e \in Event : [kind |-> e.kind, device |-> e.device] = e
        BY DEF Event
      <3> QED
        BY <2>5, <3>2, <3>3
    <2> DEFINE p == [event |-> slots[0], count |-> count]
    <2>7. popping' = {p} /\ p.event = slots[0] /\ p.count = count
      BY <1>1, <2>6 DEF PopBegin
    <2> HIDE DEF p
    <2>8. Popped' = p /\ Used' = count - 1
      BY <1>1, <2>1, <2>7 DEF Popped, Used
    <2>9. InFlight' = Firsts(slots', count - 1) \cup {slots[0]}
      BY <2>7, <2>8 DEF InFlight, Waiting
    <2>10. InFlight = Firsts(slots, count)
      BY <1>1, <2>2 DEF InFlight, Waiting
    <2>11. \A d, kinds : Coming(d, kinds)' <=> Coming(d, kinds)
      BY <2>3, <2>9, <2>10 DEF Coming
    <2>12. DeletedForGood' /\ Repairs'
      BY <1>1, <2>1, <2>11 DEF InStep, DeletedForGood, Repairs, Repaired
    <2>13. Firsts(slots', count - 1) \subseteq Event
      BY <2>3, <2>4
    <2>14. Counting'
      BY <1>1, <2>1, <2>4, <2>7, <2>8, <2>13 DEF Counting
    <2> QED
      BY <2>12, <2>14 DEF InStep
  <1> QED
    BY <1>3, <1>4, <1>5, <1>6 DEF BridgeInv

LEMMA PushFinishing ==
  ASSUME BridgeInv, WebPushed
  PROVE  BridgeInv'
  <1>1. /\ PushEnd /\ pushing # {} /\ count' = Pushed.count + 1 /\ pushing' = {}
        /\ UNCHANGED <<slots, tail, popping, missed, raced, registry, broker, losses, sessionVars>>
    BY DEF WebPushed, PushEnd
  <1>2. MqttTypeOK /\ RingOK /\ QueueTypes
    BY RingTyped DEF BridgeInv
  <1>3. RingOK' /\ QueueTypes'
    BY <1>1, <1>2, PushEndTypes
  <1>4. MqttTypeOK'
    BY <1>1, <1>2, <1>3 DEF MqttTypeOK, RingOK, Slot, sessionVars
  <1>5. ASSUME ~raced' PROVE InStep'
    <2>1. InStep /\ popping = {} /\ Pushed.count = count
      BY <1>1, <1>5 DEF BridgeInv, InStep, Counting
    <2>2. Used = count + 1 /\ Used' = count + 1
      BY <1>1, <2>1 DEF Used
    <2>3. InFlight' = InFlight
      BY <1>1, <2>2 DEF InFlight, Waiting
    <2>4. \A d, kinds : Coming(d, kinds)' <=> Coming(d, kinds)
      BY <2>3 DEF Coming
    <2>5. Counting'
      BY <1>1, <2>1, <2>2 DEF InStep, Counting
    <2> QED
      BY <1>1, <2>1, <2>4, <2>5 DEF InStep, DeletedForGood, Repairs, Repaired
  <1> QED
    BY <1>1, <1>3, <1>4, <1>5 DEF BridgeInv

(* Every device is announced at a connect, but for those a publish of which  *)
(* fails.                                                                    *)
LEMMA DialSucceeding ==
  ASSUME BridgeInv, NEW failed \in SUBSET Existing, DialSucceeds(failed)
  PROVE  BridgeInv'
  <1>1. /\ broker' = Announced(failed) /\ Heals(failed)
        /\ UNCHANGED <<slots, tail, count, pushing, popping, raced, registry>>
    BY DEF DialSucceeds, feedVars
  <1>2. MqttTypeOK /\ QueueTypes /\ InFlight' = InFlight /\ Popped' = Popped /\ Pushed' = Pushed /\ Used' = Used
    BY <1>1 DEF InFlight, Waiting, Popped, Pushed, Used, BridgeInv
  <1>3. \A d, kinds : Coming(d, kinds)' <=> Coming(d, kinds)
    BY <1>2 DEF Coming
  <1>4. failed \subseteq Existing /\ Existing \subseteq Devices
    BY DEF Existing
  <1>5. MqttTypeOK'
    <2>1. broker' \in [Devices -> Retained]
      BY <1>1, <1>2, RefreshedIs DEF Announced, MqttTypeOK, Retained
    <2>2. missed' \subseteq Devices
      BY <1>1, <1>2, <1>4 DEF Heals, MqttTypeOK
    <2> QED
      BY <1>1, <1>2, <2>1, <2>2
         DEF DialSucceeds, MqttTypeOK, Retained, settingsVars, MqttSettings, NoSession
  <1>6. QueueTypes' /\ (raced' => missed' = Devices)
    BY <1>1, <1>2 DEF QueueTypes, BridgeInv, Heals
  <1>7. ASSUME ~raced' PROVE InStep'
    <2>1. InStep /\ missed' = (missed \ Existing) \cup failed
      BY <1>1, <1>7 DEF BridgeInv, Heals
    <2>2. Counting' /\ DeletedForGood'
      BY <1>1, <1>2, <1>3, <2>1 DEF InStep, Counting, DeletedForGood
    <2>3. ASSUME NEW d \in Devices \ missed' PROVE Repaired(d)'
      <3>1. broker'[d] = Refreshed(d) /\ registry'[d] = registry[d] /\ registry[d] \in DeviceStates
        BY <1>1, <1>2, <2>1, <2>3 DEF Announced, MqttTypeOK
      <3>2. registry[d] \in {"unborn", "gone"} => Repaired(d)
        BY <2>1, <2>3 DEF InStep, Repairs, Existing, ExistingStates
      <3> QED
        BY <1>2, <1>3, <3>1, <3>2, RefreshedIs DEF Repaired, DeviceStates, ExistingStates
    <2> QED
      BY <2>2, <2>3 DEF InStep, Repairs
  <1> QED
    BY <1>5, <1>6, <1>7 DEF BridgeInv

LEMMA BridgeSteps == BridgeInv /\ [MqttNext]_mqttVars => BridgeInv'
  <1> SUFFICES ASSUME BridgeInv, [MqttNext]_mqttVars PROVE BridgeInv'
    OBVIOUS
  <1>1. CASE \/ MqttWaitingForStation \/ (\E late \in BOOLEAN : Dial(late)) \/ DialFails \/ MqttConnected
             \/ MqttFaulted \/ (\E s \in MqttSettings : applySettings(s))
             \/ StationComes \/ StationGoes \/ SessionLost \/ UNCHANGED mqttVars
    <2>1. UNCHANGED <<slots, tail, popping, registry, broker, missed, pushing, count, raced>>
      BY <1>1 DEF MqttWaitingForStation, Dial, DialFails, MqttConnected, MqttFaulted, applySettings,
           StationComes, StationGoes, SessionLost, mqttVars, queueVars, feedVars
    <2>2. /\ mqttState' \in {"WaitingForStation", "Connecting", "Connected", "Faulted"}
          /\ mqttSettings' \in MqttSettings /\ {session', dialing'} \subseteq MqttSettings \cup {NoSession}
          /\ {ready', connected', everAttempted', overlapped'} \subseteq BOOLEAN
      BY <1>1 DEF MqttWaitingForStation, Dial, DialFails, MqttConnected, MqttFaulted, applySettings,
           StationComes, StationGoes, SessionLost, mqttVars, sessionVars, settingsVars,
           BridgeInv, MqttTypeOK
    <2>3. MqttTypeOK'
      BY <2>1, <2>2 DEF BridgeInv, MqttTypeOK
    <2> QED
      BY <2>1, <2>3, BridgeAlone
  <1> QED
    BY <1>1, WebChanging, LoopChanging, EventHandled, EventTaking, PushFinishing, DialSucceeding
       DEF MqttNext, MqttTick, EventStep, Environment

LEMMA BridgeAlways == MqttSpec => []BridgeInv
  BY BridgeInitially, BridgeSteps, PTL DEF MqttSpec

(* Every variable of the bridge and of its queue keeps its type: neither the *)
(* count nor the indices leave the ring, also after any number of pushes and *)
(* pops that met, when the count is wrong and slots are read torn, twice or  *)
(* before they were written.                                                 *)
THEOREM MqttTypeCorrect == MqttSpec => []MqttTypeOK
  <1>1. BridgeInv => MqttTypeOK
    BY DEF BridgeInv
  <1> QED
    BY <1>1, BridgeAlways, PTL

(* With a live session and an empty queue, Home Assistant shows each device  *)
(* as the registry has it, but for those an event or the announcement of     *)
(* which was dropped or not published: all, once a push has met a pop.       *)
THEOREM BrokerMirrors == MqttSpec => []BrokerMirrorsRegistry
  <1>1. BridgeInv => BrokerMirrorsRegistry
    <2> SUFFICES ASSUME BridgeInv, Settled, NEW d \in Devices \ missed PROVE Mirrors(d)
      BY DEF BrokerMirrorsRegistry
    <2>1. InStep /\ MqttTypeOK
      BY DEF BridgeInv
    <2>2. Used = 0 /\ popping = {}
      BY DEF Settled, Used
    <2>3. InFlight = {}
      BY <2>2 DEF InFlight, Waiting, Firsts
    <2>4. ~Coming(d, {"deleted"}) /\ ~Coming(d, {"created", "updated"}) /\ ~Coming(d, {"state"})
      BY <2>3 DEF Coming
    <2>5. Repaired(d) /\ registry[d] \in DeviceStates
      BY <2>1 DEF InStep, Repairs, MqttTypeOK
    <2> QED
      BY <2>4, <2>5 DEF Repaired, Mirrors, DeviceStates, ExistingStates
  <1> QED
    BY <1>1, BridgeAlways, PTL
------------------------------------------------------------------------------
(* The types of the five units together.                                     *)

(* What WifiInv does not say of the types: the control of the machine.       *)
WifiControl ==
  /\ state \in States /\ {bleRequested, bleStopped, bleActive, link, ordered} \subseteq BOOLEAN
  /\ retryCount \in 0..MaxConnectRetries
  /\ web \in {"idle", "submitting", "clearing", "saving"}

LEMMA NoRetries == 0 \in 0..MaxConnectRetries
  BY WifiAssumption

LEMMA MachineTicks ==
  ASSUME WifiControl, StepTick \/ \E expired \in BOOLEAN : WaitTick(expired)
  PROVE  WifiControl'
  <1> USE DEF WifiControl, States, BleStates, Goto, Stay, control, ble, webVars, configVars
  <1>1. CASE Idle \/ Connecting \/ StopBleConfig \/ DeinitBleConfig \/ ReturnFromBleConfig \/ SetupAp
    BY <1>1 DEF Idle, Connecting, StopBleConfig, DeinitBleConfig, ReturnFromBleConfig, SetupAp
  <1>2. CASE ApplyBleCredentials \/ ApplySubmittedCredentials
    BY <1>2 DEF ApplyBleCredentials, ApplySubmittedCredentials, saveWifiCredentials, BeginSave
  <1>3. ASSUME NEW started \in BOOLEAN, StartBleConfig(started) PROVE WifiControl'
    BY <1>3 DEF StartBleConfig
  <1>4. ASSUME NEW expired \in BOOLEAN, CheckConnection(expired) PROVE WifiControl'
    <2>1. retryCount' \in 0..MaxConnectRetries
      BY <1>4, WifiAssumption DEF CheckConnection, retriesExhausted
    <2> QED
      BY <1>4, <2>1 DEF CheckConnection, afterFailure
  <1>5. ASSUME NEW expired \in BOOLEAN, RetryDelay(expired) \/ BleConfigRunning(expired) \/ WaitBleConfigStopped(expired)
        PROVE  WifiControl'
    BY <1>5 DEF RetryDelay, BleConfigRunning, WaitBleConfigStopped
  <1>6. CASE Connected
    BY <1>6, NoRetries DEF Connected
  <1> QED
    BY <1>1, <1>2, <1>3, <1>4, <1>5, <1>6 DEF StepTick, WaitTick

LEMMA WifiControlled == WifiControl /\ [WifiNext]_wifiVars => WifiControl'
  <1> SUFFICES ASSUME WifiControl, [WifiNext]_wifiVars PROVE WifiControl'
    OBVIOUS
  <1> USE DEF WifiControl, States, Goto, machine, control, ble, webVars, configVars
  <1>1. CASE StepTick \/ \E expired \in BOOLEAN : WaitTick(expired)
    BY <1>1, MachineTicks
  <1>2. CASE ApplyWrites \/ ApplyFails
    BY <1>2, NoRetries DEF ApplyWrites, ApplyFails, WriteKey, WriteFails, AfterApply, BleStates
  <1>3. CASE WebWrites \/ WebFails \/ trySavePendingSubmittedCredentials
    BY <1>3, NoRetries DEF WebWrites, WebFails, trySavePendingSubmittedCredentials, WriteKey, WriteFails
  <1>4. CASE requestBleConfig \/ clearCredentials \/ saveSettings
    BY <1>4 DEF requestBleConfig, clearCredentials, saveSettings, clearWifiCredentials, saveSetting, BeginSave
  <1>5. ASSUME NEW n \in Networks, CheckSubmit(n) \/ CredentialsReceived(n) PROVE WifiControl'
    BY <1>5 DEF CheckSubmit, CredentialsReceived
  <1>6. CASE LinkChanges \/ ProvisioningEnded
    BY <1>6 DEF LinkChanges, ProvisioningEnded
  <1>7. CASE WifiReboot
    BY <1>7, NoRetries DEF WifiReboot, ConfigReboot
  <1>8. CASE UNCHANGED wifiVars
    BY <1>8 DEF wifiVars
  <1> QED
    BY <1>1, <1>2, <1>3, <1>4, <1>5, <1>6, <1>7, <1>8 DEF WifiNext, WebStep, WebRequest, Radio

LEMMA WifiTypesWhole == WifiInv /\ WifiControl => WifiTypeOK
  BY TwoKeys DEF WifiInv, WifiTypes, WifiControl, WifiTypeOK, Drafts, Credentials

UnitsInv ==
  /\ WifiInv /\ WifiControl
  /\ PressInv
  /\ BridgeInv
  /\ NtpTypeOK /\ SocketClosed
  /\ RtcInv

LEMMA UnitsInitially == ConnectivityInit => UnitsInv
  <1> SUFFICES ASSUME ConnectivityInit PROVE UnitsInv
    OBVIOUS
  <1>1. WifiInit /\ ButtonInit /\ MqttInit /\ NtpInit /\ RtcInit
    BY DEF ConnectivityInit
  <1>2. WifiControl
    BY <1>1, NoRetries DEF WifiInit, ConfigInit, WifiControl, States
  <1> QED
    BY <1>1, <1>2, WifiInitially, ButtonInitially, BridgeInitially, NtpInitially, RtcInitially DEF UnitsInv

LEMMA UnitsStep == UnitsInv /\ [ConnectivityNext]_connectivityVars => UnitsInv'
  <1> SUFFICES ASSUME UnitsInv, [ConnectivityNext]_connectivityVars PROVE UnitsInv'
    OBVIOUS
  <1>1. /\ [WifiNext]_wifiVars /\ [ButtonNext]_buttonVars /\ [MqttNext]_mqttVars
        /\ [NtpNext]_ntpManagerVars /\ [RtcNext]_rtcVars
    BY DEF ConnectivityNext, WifiStep, ButtonStep, MqttStep, NtpStep, RtcStep, connectivityVars
  <1> QED
    BY <1>1, WifiSteps, WifiControlled, Pressing, BridgeSteps, NtpSteps, RtcSteps DEF UnitsInv

(* Whichever of the five units runs, every variable of each keeps its type:  *)
(* the retries of the Wi-Fi manager stay within their limit, the times of    *)
(* the button within the clock, the ring and its counter within the queue.   *)
THEOREM ConnectivityTypeCorrect == ConnectivitySpec => []ConnectivityTypeOK
  <1>1. UnitsInv => ConnectivityTypeOK
    <2>1. PressInv => ButtonTypeOK
      BY DEF PressInv, ButtonClock, ButtonTypeOK
    <2> QED
      BY <2>1, WifiTypesWhole DEF UnitsInv, BridgeInv, RtcInv, ConnectivityTypeOK
  <1> QED
    BY <1>1, UnitsInitially, UnitsStep, PTL DEF ConnectivitySpec
==============================================================================
