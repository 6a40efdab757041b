------------------------------ MODULE MCInputs ------------------------------
(* Small instances of the components around the session controller for TLC.   *)
(* They share no state: each behaviour is one of one component, the others    *)
(* stay as they were constructed.                                             *)
EXTENDS TranscodingClientManager, TranscodingUidPolicy, TranscodingResourcePolicy,
        TranscodingThermalPolicy

CONSTANTS u1, u2, b1, b2, t1, t2, o1, o2

TwoUids    == {u1, u2}
TwoBinders == {b1, b2}
TwoThreads == {t1, t2}
TwoObservers == {o1, o2}

VARIABLE component   \* the one that moves

vars == <<clientVars, uidVars, resourceVars, thermalVars, component>>

Init ==
  /\ component \in {"clients", "uids", "resources", "thermal"}
  /\ ClientsInit /\ UidInit /\ ResourceInit /\ ThermalInit
  /\ component # "uids" => ~mRegistered /\ importance = [u \in Uids |-> GONE]
  /\ component # "resources" => ~serviceUp
  /\ component # "thermal" => status = CHOOSE s \in Statuses : TRUE

OnlyClients ==
  component = "clients" /\ UNCHANGED <<uidVars, resourceVars, thermalVars, component>>
OnlyUids ==
  component = "uids" /\ UNCHANGED <<clientVars, resourceVars, thermalVars, component>>
OnlyResources ==
  component = "resources" /\ UNCHANGED <<clientVars, uidVars, thermalVars, component>>
OnlyThermal ==
  component = "thermal" /\ UNCHANGED <<clientVars, uidVars, resourceVars, component>>

Next ==
  \/ OnlyClients /\ ClientsNext
  \/ OnlyUids /\ UidNext
  \/ OnlyResources /\ ResourceNext
  \/ OnlyThermal /\ ThermalNext

(* A call that has begun goes on; binder threads take up waiting death notices, *)
(* though not before other calls; a report of the observer service is handled   *)
(* and mLock is released.                                                       *)
Fairness ==
  /\ \A t \in Threads : WF_vars(OnlyClients /\ Continue(t))
  /\ \A c \in 1..MaxClients :
       SF_vars(OnlyClients /\ c \in DOMAIN clients /\ \E t \in Threads : binderDied(t, c))
  /\ WF_vars(OnlyResources /\ recordLoss)
  /\ \A o \in Observers : WF_vars(OnlyResources /\ (takeLoss(o) \/ onResourceAvailable(o)))

InputsSpec == Init /\ [][Next]_vars /\ Fairness
=============================================================================
