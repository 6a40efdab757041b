SPECIFICATION Spec
CONSTANTS
  a = a
  b = b
  off = off
  NoSession = NoSession
  OFFLINE_UID = off
  Uids <- TwoUids
  Keys <- TwoKeys
  ClientOf <- MCClientOf
  CallingUid <- MCCallingUid
  MtpUids <- AllMtp
  BurstCountQuota = 1
  BurstTimeQuota = 1
  Events = {"uid", "gone", "watchdog", "resource", "thermal"}
SYMMETRY UidSymmetry
INVARIANTS
  TypeOK
  QueuesMatchMap
  ListMatchesQueues
  MonitoredUidsHaveQueues
  FrontUidIsServed
  OnlyCurrentRuns
  RunningIsWatched
