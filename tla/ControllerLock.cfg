SPECIFICATION FairSpec
CONSTANTS
  a = a
  b = b
  off = off
  NoSession = NoSession
  OFFLINE_UID = off
  Uids <- OneUid
  Keys <- ThreeKeys
  ClientOf <- MCClientOf
  CallingUid <- MCCallingUid
  MtpUids <- NoMtp
  BurstCountQuota = 1
  BurstTimeQuota = 1
  Events = {"uid", "gone"}
INVARIANTS
  NoLeakedActivity
PROPERTIES
  LockIsReleased
