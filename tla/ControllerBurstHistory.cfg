SPECIFICATION Spec
CONSTANTS
  a = a
  b = b
  off = off
  NoSession = NoSession
  OFFLINE_UID = off
  Uids <- OneUid
  Keys <- TwoKeys
  ClientOf <- MCClientOf
  CallingUid <- MCCallingUid
  MtpUids <- NoMtp
  BurstCountQuota = 1
  BurstTimeQuota = 1
  Events = {}
PROPERTIES
  IdleClearsBurstHistory
