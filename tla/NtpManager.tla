------------------------------- MODULE NtpManager -------------------------------
(***************************************************************************)
(* How the board learns the time from the network (NtpManager over         *)
(* ArduinoNtpClient): wait for the station, resolve the server's name, ask *)
(* over UDP, and again after the sync interval, a change of the settings   *)
(* or a failure.  The resolver answers by a callback that may come after   *)
(* the query was given up.  A timeout may have passed at any tick.         *)
(***************************************************************************)
EXTENDS Naturals

CONSTANTS
  Servers,        \* ntpServer settings
  MaxSettings     \* bound: changes of the settings

ASSUME NtpAssumption == MaxSettings \in Nat /\ "none" \notin Servers

VARIABLES
  ntpState, stationReady,    \* current_, and ntpReady()
  ntpServer,                 \* config().time.ntpServer
  timeRevision, timeApplied, \* settingsRevision_, appliedRevision_
  entered,                   \* isStateUpdated() at the next tick of ResolveServer
  dns,                       \* resolveStatus_
  queries,                   \* external: names the resolver has not answered yet
  server,                    \* serverAddress_, as the name it was resolved from
  socketOpen,                \* external: udp_ is bound
  synced                     \* the server the clock was last set from

ntpVars == <<ntpState, timeApplied, entered, dns, server, socketOpen>>
external == <<stationReady, ntpServer, timeRevision, queries>>
ntpManagerVars == <<ntpVars, external, synced>>

NtpInit ==
  /\ ntpState = "WaitingForStation" /\ stationReady = FALSE
  /\ ntpServer \in Servers /\ server = "none" /\ synced = "none"
  /\ timeRevision = 0 /\ timeApplied = 0
  /\ dns = "idle" /\ entered = FALSE /\ queries = {} /\ socketOpen = FALSE
-------------------------------------------------------------------------------
(* NtpManager; every state first looks whether the station is still up. *)

NtpWaitingForStation ==
  /\ ntpState = "WaitingForStation" /\ stationReady
  /\ timeApplied' = timeRevision
  /\ ntpState' = "ResolveServer" /\ entered' = TRUE
  /\ UNCHANGED <<dns, server, socketOpen, external, synced>>

\* Mutant: an exchange that the station's loss ends keeps its socket.
LeaveWithSocketOpen ==
  /\ ~stationReady
  /\ ntpState # "WaitingForStation"
  /\ ntpState' = "WaitingForStation"
  /\ UNCHANGED <<timeApplied, entered, dns, server, socketOpen, external, synced>>

LeaveWhenStationGoes ==
  /\ ~stationReady
  /\ ntpState # "WaitingForStation"
  /\ ntpState' = "WaitingForStation"
  /\ socketOpen' = (socketOpen /\ ntpState # "CheckSynced")
  /\ UNCHANGED <<timeApplied, entered, dns, server, external, synced>>

\* The first tick in the state asks; the name may be known already or refused.
BeginResolve ==
  /\ ntpState = "ResolveServer" /\ stationReady /\ entered
  /\ entered' = FALSE
  /\ \/ dns' = "pending" /\ queries' = queries \cup {ntpServer} /\ UNCHANGED <<ntpState, server>>
     \/ /\ dns' = "resolved" /\ server' = ntpServer
        /\ ntpState' = "Syncing" /\ UNCHANGED queries
     \/ dns' = "failed" /\ ntpState' = "RetryDelay" /\ UNCHANGED <<server, queries>>
  /\ UNCHANGED <<timeApplied, socketOpen, stationReady, ntpServer, timeRevision, synced>>

AwaitResolve(expired) ==
  /\ ntpState = "ResolveServer" /\ stationReady /\ ~entered
  /\ \/ dns = "resolved" /\ ntpState' = "Syncing"
     \/ dns = "failed" /\ ntpState' = "RetryDelay"
     \/ dns = "pending" /\ expired /\ ntpState' = "RetryDelay"
  /\ UNCHANGED <<timeApplied, entered, dns, server, socketOpen, external, synced>>

Syncing(opened) ==
  /\ ntpState = "Syncing" /\ stationReady
  /\ socketOpen' = opened
  /\ ntpState' = IF opened THEN "CheckSynced" ELSE "RetryDelay"
  /\ UNCHANGED <<timeApplied, entered, dns, server, external, synced>>

CheckSynced(answered) ==
  /\ ntpState = "CheckSynced" /\ stationReady
  /\ socketOpen' = FALSE
  /\ IF answered THEN synced' = server /\ ntpState' = "Synced"
                 ELSE ntpState' = "RetryDelay" /\ UNCHANGED synced
  /\ UNCHANGED <<timeApplied, entered, dns, server, external>>

\* Mutant: only the interval leads to another exchange.
SyncedOnInterval(expired) ==
  /\ ntpState = "Synced" /\ stationReady
  /\ expired
  /\ ntpState' = "ResolveServer" /\ entered' = TRUE
  /\ UNCHANGED <<timeApplied, dns, server, socketOpen, external, synced>>

Synced(expired) ==
  /\ ntpState = "Synced" /\ stationReady
  /\ \/ timeApplied # timeRevision /\ timeApplied' = timeRevision
     \/ timeApplied = timeRevision /\ expired /\ UNCHANGED timeApplied
  /\ ntpState' = "ResolveServer" /\ entered' = TRUE
  /\ UNCHANGED <<dns, server, socketOpen, external, synced>>

NtpRetryDelay ==
  /\ ntpState = "RetryDelay" /\ stationReady
  /\ ntpState' = "WaitingForStation"
  /\ UNCHANGED <<timeApplied, entered, dns, server, socketOpen, external, synced>>
-------------------------------------------------------------------------------
(* The portal, the resolver and the network. *)

applyTimeSettings(s) ==
  /\ timeRevision < MaxSettings
  /\ timeRevision' = timeRevision + 1 /\ ntpServer' = s
  /\ UNCHANGED <<ntpVars, stationReady, queries, synced>>

\* handleDnsResult(), of the latest query or of one given up long ago.
DnsAnswers(name, found) ==
  /\ name \in queries /\ queries' = queries \ {name}
  /\ dns' = IF found THEN "resolved" ELSE "failed"
  /\ server' = IF found THEN name ELSE server
  /\ UNCHANGED <<ntpState, timeApplied, entered, socketOpen, stationReady, ntpServer, timeRevision, synced>>

StationChanges ==
  /\ stationReady' = ~stationReady
  /\ UNCHANGED <<ntpVars, ntpServer, timeRevision, queries, synced>>

NtpTick ==
  \/ NtpWaitingForStation \/ LeaveWhenStationGoes \/ BeginResolve \/ AwaitResolve(TRUE)
  \/ \E ok \in BOOLEAN : Syncing(ok) \/ CheckSynced(ok)
  \/ Synced(TRUE) \/ NtpRetryDelay

NtpEnvironment ==
  \/ \E s \in Servers : applyTimeSettings(s)
  \/ \E n \in Servers, found \in BOOLEAN : DnsAnswers(n, found)
  \/ StationChanges

NtpNext == NtpTick \/ Synced(FALSE) \/ NtpEnvironment

\* The main loop ticks and timeouts pass.
NtpSpec == NtpInit /\ [][NtpNext]_ntpManagerVars /\ WF_ntpManagerVars(NtpTick)
-------------------------------------------------------------------------------
\* Every variable holds a value of its type.
NtpTypeOK ==
  /\ ntpState \in {"WaitingForStation", "ResolveServer", "Syncing", "CheckSynced", "Synced", "RetryDelay"}
  /\ dns \in {"idle", "pending", "resolved", "failed"}
  /\ ntpServer \in Servers /\ {server, synced} \subseteq Servers \cup {"none"}
  /\ queries \subseteq Servers /\ {stationReady, socketOpen, entered} \subseteq BOOLEAN
  /\ {timeRevision, timeApplied} \subseteq 0..MaxSettings

\* The socket of an exchange never outlives it, whatever ends it.
SocketClosed == socketOpen => ntpState = "CheckSynced"

\* A change of the settings leads to a new exchange while the station is up.
ResyncAfterSettings == timeApplied # timeRevision ~> timeApplied = timeRevision \/ ~stationReady
================================================================================
