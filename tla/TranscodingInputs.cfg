SPECIFICATION InputsSpec
CONSTANTS
  u1 = u1
  u2 = u2
  b1 = b1
  b2 = b2
  t1 = t1
  t2 = t2
  o1 = o1
  o2 = o2
  Callbacks <- TwoBinders
  Threads <- TwoThreads
  NoClient = 0
  MaxClients = 2
  MaxSessions = 2
  Uids <- TwoUids
  Importances = {1, 2, 9}
  GONE = 9
  IMPORTANCE_UNKNOWN = 10
  MaxEvents = 2
  Pids = {1, 2}
  Observers <- TwoObservers
  Statuses = {1, 3, 4}
  MaxStatuses = 3
INVARIANTS
  RegistriesAgree
  TeardownIsExclusive
  MapsAgree
  SettledIsTrue
  ThrottlingSettles
PROPERTIES
  DeadIsForgotten
  ImplementsTopUids
  LossEndsIfPidGiven
CHECK_DEADLOCK FALSE
