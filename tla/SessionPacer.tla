---------------------------- MODULE SessionPacer ----------------------------
(***************************************************************************)
(* TranscodingSessionController::Pacer: the per-uid burst quota.           *)
(*                                                                         *)
(* The history of a uid is a record of mUidHistoryMap.  Counters are only  *)
(* ever compared with their quota, so they saturate there.  The time since *)
(* lastCompletedTime matters only as "within pacerBurstThresholdMs or      *)
(* not": recent says it is, and TimePasses(h, u) lets the threshold elapse. *)
(* A uid that never completed a session has the epoch as its               *)
(* lastCompletedTime, hence recent = FALSE.                                *)
(***************************************************************************)
EXTENDS Naturals

CONSTANTS
  Uids,            \* uids of client applications
  OFFLINE_UID,     \* the pseudo uid of the offline queue
  MtpUids,         \* uids that hold android.permission.ACCESS_MTP
  BurstCountQuota, \* mBurstCountQuota
  BurstTimeQuota   \* mBurstTimeQuotaSec, in abstract units of running time

AllUids == Uids \cup {OFFLINE_UID}

ASSUME PacerAssumption ==
  /\ OFFLINE_UID \notin Uids
  /\ MtpUids \subseteq AllUids
  /\ BurstCountQuota \in Nat
  /\ BurstTimeQuota \in Nat

UidHistoryEntry ==
  [sessionActive : BOOLEAN,
   burstCount    : 0..BurstCountQuota,
   burstDuration : 0..BurstTimeQuota,
   recent        : BOOLEAN]

AtMost(n, bound) == IF n > bound THEN bound ELSE n

isSubjectToQuota(uid, callingUid) == uid # callingUid /\ uid \notin MtpUids

OverQuota(e) == e.burstCount >= BurstCountQuota /\ e.burstDuration >= BurstTimeQuota

(* The verdict of onSessionStarted for one uid. *)
StartAllowed(h, uid, callingUid) ==
  isSubjectToQuota(uid, callingUid) /\ uid \in DOMAIN h => ~OverQuota(h[uid])

(* The entry onSessionStarted leaves behind for a uid it tracks. *)
StartedEntry(h, uid) ==
  IF uid \notin DOMAIN h
    THEN [sessionActive |-> TRUE, burstCount |-> 0, burstDuration |-> 0, recent |-> FALSE]
  ELSE IF OverQuota(h[uid]) THEN h[uid]
  ELSE [sessionActive |-> TRUE,
        burstCount    |-> IF h[uid].recent THEN h[uid].burstCount ELSE 0,
        burstDuration |-> IF h[uid].recent THEN h[uid].burstDuration ELSE 0,
        recent        |-> h[uid].recent]

(* onSessionStarted for every uid of a session. *)
onSessionStarted(h, uids, callingUid) ==
  LET tracked == {u \in uids : isSubjectToQuota(u, callingUid)}
  IN  [u \in DOMAIN h \cup tracked |-> IF u \in tracked THEN StartedEntry(h, u) ELSE h[u]]

(* onSessionCompleted for every uid of a session that ran for runningTime. *)
onSessionCompleted(h, uids, runningTime) ==
  [u \in DOMAIN h |->
     IF u \in uids /\ h[u].sessionActive
       THEN [sessionActive |-> FALSE,
             burstCount    |-> AtMost(h[u].burstCount + 1, BurstCountQuota),
             burstDuration |-> AtMost(h[u].burstDuration + runningTime, BurstTimeQuota),
             recent        |-> TRUE]
       ELSE h[u]]

(* onSessionCancelled for a set of uids. *)
onSessionCancelled(h, uids) ==
  [u \in DOMAIN h |-> IF u \in uids THEN [h[u] EXCEPT !.sessionActive = FALSE] ELSE h[u]]

(* More than pacerBurstThresholdMs elapse since the last completion of uid. *)
TimePasses(h, uid) == [h EXCEPT ![uid].recent = FALSE]
=============================================================================
