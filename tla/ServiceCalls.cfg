SPECIFICATION FairServiceSpec
CONSTANTS
  a = a
  off = off
  NoSession = NoSession
  OFFLINE_UID = off
  Uids <- OneUid
  Keys <- TwoKeys
  ClientOf <- MCClientOf
  CallingUid <- MCCallingUid
  MtpUids <- AllMtp
  BurstCountQuota = 1
  BurstTimeQuota = 1
  Events = {"thermal"}
  MaxQueue = 2
  MaxWrappers = 1
  MaxPosts = 1
INVARIANTS
  RunningIsTranscoded
  PausedCanResume
PROPERTIES
  RunningEnds
