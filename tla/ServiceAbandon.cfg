SPECIFICATION ServiceSpec
CONSTANTS
  a = a
  off = off
  NoSession = NoSession
  OFFLINE_UID = off
  Uids <- OneUid
  Keys <- TwoKeys
  ClientOf <- MCClientOf
  CallingUid <- MCCallingUid
  MtpUids <- AllMtp
  BurstCountQuota = 1
  BurstTimeQuota = 1
  Events = {"watchdog"}
  MaxQueue = 2
  MaxWrappers = 2
  MaxPosts = 1
INVARIANTS
  RunningIsTranscoded
