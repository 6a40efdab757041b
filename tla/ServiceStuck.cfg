SPECIFICATION StuckServiceSpec
CONSTANTS
  a = a
  off = off
  NoSession = NoSession
  OFFLINE_UID = off
  Uids <- OneUid
  Keys <- TwoKeys
  ClientOf <- MCClientOf
  CallingUid <- MCCallingUid
  MtpUids <- AllMtp
  BurstCountQuota = 1
  BurstTimeQuota = 0
  Events = {"thermal", "resource", "watchdog"}
  MaxQueue = 1
  MaxWrappers = 3
  MaxPosts = 0
PROPERTIES
  StuckIsFoundOut
