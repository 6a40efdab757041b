--------------------- MODULE TranscodingResourcePolicy ---------------------
(* TranscodingResourcePolicy between the media resource observer service,     *)
(* which reports codecs that become idle, and the session controller, which   *)
(* tells it of a lost codec with mLock held and is called back without the    *)
(* policy's lock.  Of the controller only mResourceLost and the session that  *)
(* lost its codec are kept; the observer service is external.                 *)
EXTENDS Integers

CONSTANTS
  Pids,       \* processes, positive numbers
  Observers   \* binder threads the observer service's reports come in on

VARIABLES
  mObserverRegistered,  \* mRegistered
  serviceUp,            \* the observer service runs
  mResourceLostPid,
  lossStep,             \* onResourceLost in progress, with mLock held
  mResourceLost,        \* the controller waits for a codec
  lostSession,          \* the session that lost its codec last
  observer              \* what each of the Observers is doing

resourceVars == <<mObserverRegistered, serviceUp, mResourceLostPid, lossStep, mResourceLost,
                  lostSession, observer>>

USE_CALLING_PID == -1
NobodyLost == -1

(* The request.clientPid of a session: submitRequest looks up the calling pid  *)
(* for a request with USE_CALLING_PID, but submits the request as it came.     *)
submittedPid(in_clientPid, callingPid) == in_clientPid

(* registerSelf, which the constructor calls, fails when there is no service   *)
(* or it refuses the observer.                                                 *)
ResourceInit ==
  /\ serviceUp \in BOOLEAN
  /\ mObserverRegistered \in IF serviceUp THEN BOOLEAN ELSE {FALSE}
  /\ mResourceLostPid = NobodyLost
  /\ lossStep = "none" /\ mResourceLost = FALSE
  /\ lostSession = [pid |-> 0, clientPid |-> 0]
  /\ observer = [o \in Observers |-> [pc |-> "idle", pid |-> 0]]

(* onResourceLost of the controller for the RUNNING session of process pid:    *)
(* setPidResourceLost takes and releases mCallbackLock ...                     *)
onResourceLost(pid, in_clientPid) ==
  /\ lossStep = "none" /\ ~mResourceLost
  /\ mResourceLostPid' = submittedPid(in_clientPid, pid)
  /\ lostSession' = [pid |-> pid, clientPid |-> submittedPid(in_clientPid, pid)]
  /\ lossStep' = "record"
  /\ UNCHANGED <<mObserverRegistered, serviceUp, mResourceLost, observer>>

(* ... before mResourceLost is set and mLock released. *)
recordLoss ==
  /\ lossStep = "record"
  /\ mResourceLost' = TRUE /\ lossStep' = "none"
  /\ UNCHANGED <<mObserverRegistered, serviceUp, mResourceLostPid, lostSession, observer>>

(* ResourceObserver::onStatusChanged for an idle video codec of process pid. *)
onStatusChanged(o, pid) ==
  /\ mObserverRegistered /\ serviceUp /\ observer[o].pc = "idle"
  /\ observer' = [observer EXCEPT ![o] = [pc |-> "take", pid |-> pid]]
  /\ UNCHANGED <<mObserverRegistered, serviceUp, mResourceLostPid, lossStep, mResourceLost,
                 lostSession>>

(* Variant: codecs of other processes are the ones that are ignored. *)
IsForSame(pid) == mResourceLostPid = pid

(* The resource is released by another process than the one that lost it. *)
IsForOther(pid) == mResourceLostPid \notin {NobodyLost, pid}

PidAfter(pid) == IF IsForOther(pid) THEN NobodyLost ELSE mResourceLostPid

(* onResourceAvailable, the part under mCallbackLock. *)
takeLoss(o) ==
  /\ observer[o].pc = "take"
  /\ mResourceLostPid' = PidAfter(observer[o].pid)
  /\ observer' = [observer EXCEPT ![o].pc =
                    IF IsForOther(observer[o].pid) THEN "callback" ELSE "idle"]
  /\ UNCHANGED <<mObserverRegistered, serviceUp, lossStep, mResourceLost, lostSession>>

(* The callback: onResourceAvailable of the controller, which needs mLock. *)
onResourceAvailable(o) ==
  /\ observer[o].pc = "callback" /\ lossStep = "none"
  /\ mResourceLost' = FALSE
  /\ observer' = [observer EXCEPT ![o].pc = "idle"]
  /\ UNCHANGED <<mObserverRegistered, serviceUp, mResourceLostPid, lossStep, lostSession>>

(* External: the observer service dies. *)
serviceDies ==
  /\ serviceUp
  /\ serviceUp' = FALSE
  /\ UNCHANGED <<mObserverRegistered, mResourceLostPid, lossStep, mResourceLost,
                 lostSession, observer>>

(* BinderDiedCallback: unregisterSelf, and no attempt to register again. *)
observerServiceDied ==
  /\ ~serviceUp /\ mObserverRegistered
  /\ mObserverRegistered' = FALSE
  /\ UNCHANGED <<serviceUp, mResourceLostPid, lossStep, mResourceLost, lostSession, observer>>

ResourceNext ==
  \/ \E pid \in Pids : \E in_clientPid \in {pid, USE_CALLING_PID} :
       onResourceLost(pid, in_clientPid)
  \/ recordLoss
  \/ \E o \in Observers :
       \/ \E pid \in Pids : onStatusChanged(o, pid)
       \/ takeLoss(o) \/ onResourceAvailable(o)
  \/ serviceDies \/ observerServiceDied

ResourceSpec == ResourceInit /\ [][ResourceNext]_resourceVars

-----------------------------------------------------------------------------
(* A report of an idle codec of a process other than the one that lost its own. *)
OtherFrees(o) ==
  /\ mResourceLost /\ lossStep = "none"
  /\ observer[o].pc = "take" /\ observer[o].pid # lostSession.pid

(* Such a report ends the wait, if the session was submitted with its pid. *)
LossEndsIfPidGiven ==
  \A o \in Observers :
    (OtherFrees(o) /\ lostSession.clientPid # USE_CALLING_PID) ~> ~mResourceLost

(* TranscoderCallbackInterface::onResourceLost: the loss is temporary, and when *)
(* the contention is solved the controller starts or resumes a session.  So a   *)
(* report of an idle codec of another process ends the wait, whatever pid the   *)
(* session was submitted with.                                                  *)
LossEnds == \A o \in Observers : OtherFrees(o) ~> ~mResourceLost
=============================================================================
