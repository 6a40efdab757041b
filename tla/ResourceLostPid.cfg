SPECIFICATION InputsSpec
CONSTANTS
  u1 = u1
  u2 = u2
  b1 = b1
  b2 = b2
  t1 = t1
  t2 = t2
  o1 = o1
  o2 = o2
  Callbacks <- TwoBinders
  Threads <- TwoThreads
  NoClient = 0
  MaxClients = 1
  MaxSessions = 1
  Uids <- TwoUids
  Importances = {1, 9}
  GONE = 9
  IMPORTANCE_UNKNOWN = 10
  MaxEvents = 1
  Pids = {1, 2}
  Observers <- TwoObservers
  Statuses = {1, 3}
  MaxStatuses = 1
PROPERTIES
  LossEnds
CHECK_DEADLOCK FALSE
