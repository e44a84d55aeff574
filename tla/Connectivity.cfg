CONSTANTS
  Networks = {n1}
  None = None
  MaxFaults = 1
  MaxConnectRetries = 2
  DebounceTime = 2
  HoldTime = 4
  MaxPass = 3
  ButtonWrap = 16
  Devices = {d1}
  MaxEvents = 2
  MaxPuts = 1
  MaxLosses = 1
  Servers = {a, b}
  MaxSettings = 1
  WriteBackInterval = 2
  StalenessThreshold = 4
  ReseedInterval = 1
  BootRetry = 1
  MaxDrift = 10
SPECIFICATION ConnectivitySpec
INVARIANTS ConnectivityTypeOK CredentialsSurviveReboot BrokerMirrorsRegistry RtcKeepsTime
PROPERTIES SubmissionSettles BoardReachable OneRequestPerPress SettingsTakeEffect ResyncAfterSettings SyncReachesRtc
CHECK_DEADLOCK FALSE
