---------------------- MODULE TranscodingThermalPolicy ----------------------
(* TranscodingThermalPolicy from its construction on: it listens to the        *)
(* thermal service, the session controller is constructed with the status it   *)
(* has by then, and only after that the policy is given the controller to call *)
(* back.  The thermal service is external: it hands its status changes to the  *)
(* listener one at a time and late.                                            *)
EXTENDS Integers, Sequences

CONSTANTS
  Statuses,     \* AThermalStatus values, at both sides of SEVERE
  MaxStatuses   \* status changes on their way

ASSUME StatusAssumption == Statuses \subseteq Int   \* ATHERMAL_STATUS_ERROR is -1

ATHERMAL_STATUS_SEVERE == 3

VARIABLES
  startup,             \* the next step of the service's constructor
  listening,           \* the status listener is registered
  status,              \* the thermal service's status
  statusEvents,        \* changes queued for the listener
  mIsThrottling,
  change,              \* what onStatusChange still has to call back with
  throttlesController, \* the controller's mThermalThrottling
  unheard              \* a change was dropped for want of a callback

thermalVars == <<startup, listening, status, statusEvents, mIsThrottling, change,
                 throttlesController, unheard>>

needThrottling(s) == s >= ATHERMAL_STATUS_SEVERE

ThermalInit ==
  /\ startup = "listen" /\ listening = FALSE
  /\ status \in Statuses /\ statusEvents = << >>
  /\ mIsThrottling = FALSE
  /\ change = "none"
  /\ throttlesController = FALSE /\ unheard = FALSE

(* registerSelf, with mRegisteredLock held: the listener first ... *)
registerListener ==
  /\ startup = "listen"
  /\ listening' \in BOOLEAN
  /\ startup' = IF listening' THEN "read" ELSE "construct"
  /\ UNCHANGED <<status, statusEvents, mIsThrottling, change, throttlesController, unheard>>

(* Variant: only changes count. *)
InitialThrottling == FALSE

CurrentThrottling == needThrottling(status)

(* ... and then the current status. *)
readStatus ==
  /\ startup = "read"
  /\ mIsThrottling' = CurrentThrottling
  /\ startup' = "construct"
  /\ UNCHANGED <<listening, status, statusEvents, change, throttlesController, unheard>>

(* The constructor of the session controller: getThrottlingStatus. *)
constructController ==
  /\ startup = "construct"
  /\ throttlesController' = mIsThrottling /\ startup' = "setCallback"
  /\ unheard' = FALSE
  /\ UNCHANGED <<listening, status, statusEvents, mIsThrottling, change>>

setCallback ==
  /\ startup = "setCallback"
  /\ startup' = "done"
  /\ UNCHANGED <<listening, status, statusEvents, mIsThrottling, change,
                 throttlesController, unheard>>

(* onStatusChange, the part under mRegisteredLock. *)
onStatusChange ==
  /\ statusEvents # << >> /\ change = "none" /\ startup # "read"
  /\ LET isThrottling == needThrottling(Head(statusEvents))
     IN  IF isThrottling = mIsThrottling THEN UNCHANGED <<mIsThrottling, change>>
         ELSE /\ mIsThrottling' = isThrottling
              /\ change' = IF isThrottling THEN "started" ELSE "stopped"
  /\ statusEvents' = Tail(statusEvents)
  /\ UNCHANGED <<startup, listening, status, throttlesController, unheard>>

(* Under mCallbackLock: onThrottlingStarted or onThrottlingStopped of the      *)
(* controller, if the callback is set by now.                                  *)
callThrottling ==
  /\ change # "none"
  /\ IF startup = "done"
       THEN throttlesController' = (change = "started") /\ unheard' = FALSE
       ELSE unheard' = TRUE /\ UNCHANGED throttlesController
  /\ change' = "none"
  /\ UNCHANGED <<startup, listening, status, statusEvents, mIsThrottling>>

(* External: the status changes. *)
statusChanges(s) ==
  /\ s # status /\ Len(statusEvents) < MaxStatuses
  /\ status' = s
  /\ statusEvents' = IF listening THEN Append(statusEvents, s) ELSE statusEvents
  /\ UNCHANGED <<startup, listening, mIsThrottling, change, throttlesController, unheard>>

ThermalNext ==
  \/ registerListener \/ readStatus \/ constructController \/ setCallback
  \/ onStatusChange \/ callThrottling
  \/ \E s \in Statuses : statusChanges(s)

ThermalSpec == ThermalInit /\ [][ThermalNext]_thermalVars

-----------------------------------------------------------------------------
(* When every change has been delivered, the controller throttles if and only  *)
(* if the device is hot, although the status was read, and the callback set,   *)
(* at other times than the listener was registered.  A change that is handled  *)
(* between the controller's construction and setCallback is missed until the   *)
(* next one.                                                                   *)
ThrottlingSettles ==
  startup = "done" /\ listening /\ statusEvents = << >> /\ change = "none" /\ ~unheard =>
    throttlesController = needThrottling(status)
=============================================================================
