-------------------- MODULE TranscodingSessionController --------------------
(***************************************************************************)
(* The session controller of the media transcoding service                 *)
(* (libmediatranscoding/TranscodingSessionController.cpp) with its nested   *)
(* Watchdog and Pacer.                                                      *)
(*                                                                         *)
(* Every entry point runs under mLock.  A handler that loops (over the     *)
(* sessions it removes, over the sessions the pacer drops while it looks   *)
(* for one to run) is one action for its entry and one per iteration; job  *)
(* is what the lock holder has left to do, and while job.pc # "idle" no     *)
(* other handler of the controller is enabled.                              *)
(*                                                                         *)
(* A std::list<uid_t> without duplicates is modelled by its order: the set *)
(* of pairs <<u, v>> such that u is v or comes before v.                   *)
(***************************************************************************)
EXTENDS SessionPacer, Sequences, Functions

CONSTANTS
  Keys,        \* session keys <<clientId, sessionId>>, numbered in map order
  ClientOf,    \* the clientId of a key
  CallingUid,  \* the callingUid a session is submitted with
  NoSession,   \* nullptr
  Events       \* the kinds of outside events that happen: see EventKinds

EventKinds == {"watchdog", "uid", "gone", "thermal", "resource"}

ASSUME KeysAssumption ==
  /\ Keys \subseteq Nat
  /\ NoSession \notin Keys
  /\ CallingUid \in [Keys -> AllUids]
  /\ Events \subseteq EventKinds

VARIABLES
  mSessionMap,        \* live key -> [state, allClientUids, paced]
  mSessionQueues,     \* uid -> queue of keys
  mUidSortedList,     \* order of the uids, the next to be served first
  mCurrentSession,
  mResourceLost,
  mThermalThrottling,
  mUidHistoryMap,     \* the pacer's history
  watchdog,           \* [mActive, mSessionToWatch, pc, sessionKey]
  calls,              \* the calls on mTranscoder the last step made
  monitored,          \* uids registered with the uid policy
  topUids,            \* the uid policy's current top uids
  notice,             \* the uid policy's callback that is under way
  job                 \* what the holder of mLock has left to do

queueVars == <<mSessionQueues, mUidSortedList, monitored, topUids>>
pauseVars == <<mResourceLost, mThermalThrottling>>
vars == <<mSessionMap, queueVars, mCurrentSession, pauseVars, mUidHistoryMap,
          watchdog, calls, notice, job>>

LiveStates == {"NOT_STARTED", "RUNNING", "PAUSED"}
SessionRecords == [state : LiveStates, allClientUids : SUBSET AllUids, paced : SUBSET AllUids]
WatchdogStates ==
  [mActive : BOOLEAN, mSessionToWatch : Keys \cup {NoSession},
   pc : {"wait", "timed", "report"}, sessionKey : Keys \cup {NoSession}]
JobStates ==
  [pc : {"idle", "remove", "update"}, drop : SUBSET Keys, strip : SUBSET Keys,
   keep : SUBSET AllUids]
live == DOMAIN mSessionMap
State(k) == mSessionMap[k].state
UidsOf(k) == mSessionMap[k].allClientUids

NoNotice == [top |-> {}, gone |-> {}]
Idle == [pc |-> "idle", drop |-> {}, strip |-> {}, keep |-> {}]
Update == [Idle EXCEPT !.pc = "update"]
locked == job.pc # "idle"

-----------------------------------------------------------------------------
(* mUidSortedList as an order.                                             *)
ListUids(l) == {u \in AllUids : <<u, u>> \in l}
IsListOf(l, us) ==
  /\ l \subseteq us \X us
  /\ \A u, v \in us : <<u, v>> \in l \/ <<v, u>> \in l
  /\ \A u, v \in us : <<u, v>> \in l /\ <<v, u>> \in l => u = v
IsFront(l, u) == u \in ListUids(l) /\ \A v \in ListUids(l) : <<u, v>> \in l
ListRemove(l, gone) == {p \in l : p[1] \notin gone /\ p[2] \notin gone}
PushFront(l, u) == l \cup {<<u, v>> : v \in ListUids(l) \cup {u}}
InsertBeforeOffline(l, u) ==
  l \cup {<<u, u>>}
    \cup {<<u, v>> : v \in {w \in ListUids(l) : <<OFFLINE_UID, w>> \in l}}
    \cup {<<v, u>> : v \in {w \in ListUids(l) : <<OFFLINE_UID, w>> \notin l}}

(* moveUidsToTop_l walks the list once and pushes each uid of the set to the *)
(* front as it meets it, which reverses their relative order; the front uid  *)
(* it preserves is pushed last.                                              *)
moveUidsToTop_l(l, uids, preserveTopUid) ==
  LET moved == (uids \cap ListUids(l)) \ {OFFLINE_UID}
      kept(u) == preserveTopUid /\ IsFront(l, u)
  IN  {p \in ListUids(l) \X ListUids(l) :
         \/ p[1] \in moved /\ p[2] \notin moved
         \/ p[1] \notin moved /\ p[2] \notin moved /\ p \in l
         \/ /\ p[1] \in moved /\ p[2] \in moved
            /\ kept(p[1]) \/ (~kept(p[2]) /\ <<p[2], p[1]>> \in l)}

(* sessionQueue.erase(std::find(..., sessionKey)) *)
Erase(q, k) ==
  IF \E i \in 1..Len(q) : q[i] = k
    THEN LET i == CHOOSE j \in 1..Len(q) : q[j] = k
         IN  SubSeq(q, 1, i - 1) \o SubSeq(q, i + 1, Len(q))
    ELSE q

-----------------------------------------------------------------------------
(* The uid policy, as the controller sees it: the set of monitored uids with *)
(* the best (lowest) known importance.  Registering a uid may leave the set  *)
(* alone, join it or replace it; unregistering the last top uid exposes the  *)
(* next best ones.                                                           *)
TopAfterRegister(u) == {topUids, topUids \cup {u}, {u}}
TopAfterUnregister(gone) ==
  IF topUids \ gone # {} \/ topUids = {}
    THEN {topUids \ gone}
    ELSE SUBSET (monitored \ gone)
TopAfterChange(u) ==
  {topUids \cup {u}, {u}} \cup
    IF topUids \ {u} # {} THEN {topUids \ {u}} ELSE (SUBSET monitored) \ {{}}

(* The set a new top set is compared with: while no uid has a known importance *)
(* it is the set of the unknown ones.                                          *)
ComparedTop == IF topUids = {} THEN monitored ELSE topUids

-----------------------------------------------------------------------------
(* Mutated: a start while the thread reports a timeout is lost. *)
WatchdogStartLost(w, k) ==
  IF w.mActive \/ w.pc = "report" THEN w
  ELSE [w EXCEPT !.mActive = TRUE, !.mSessionToWatch = k]

(* Watchdog::start / stop as setSessionState_l calls them.  A stopped          *)
(* watchdog keeps mSessionToWatch; only a thread still in its timed wait can   *)
(* read it again, otherwise the model forgets it.                              *)
WatchdogStart(w, k) ==
  IF w.mActive THEN w ELSE [w EXCEPT !.mActive = TRUE, !.mSessionToWatch = k]
WatchdogStop(w) ==
  [w EXCEPT !.mActive = FALSE,
            !.mSessionToWatch = IF w.pc = "timed" THEN @ ELSE NoSession]
WatchdogStopIf(w, wasRunning) == IF wasRunning THEN WatchdogStop(w) ELSE w

(* Calls on mTranscoder.  "abandon" is stop(..., abandon = true) followed by   *)
(* the replacement of the transcoder object.                                   *)
CallOps == {"start", "pause", "resume", "stop", "abandon"}
noCalls == calls' = << >>

-----------------------------------------------------------------------------
Init ==
  /\ mSessionMap = << >>
  /\ mSessionQueues = [u \in {OFFLINE_UID} |-> << >>]
  /\ mUidSortedList = {<<OFFLINE_UID, OFFLINE_UID>>}
  /\ mCurrentSession = NoSession
  /\ mResourceLost = FALSE
  /\ mThermalThrottling \in IF "thermal" \in Events THEN BOOLEAN ELSE {FALSE}
  /\ mUidHistoryMap = << >>
  /\ watchdog = [mActive |-> FALSE, mSessionToWatch |-> NoSession,
                 pc |-> "wait", sessionKey |-> NoSession]
  /\ calls = << >>
  /\ monitored = {}
  /\ topUids = {}
  /\ notice = NoNotice
  /\ job = Idle

(* addUidToSession_l *)
addUidToSession_l(u, k) ==
  IF u \in DOMAIN mSessionQueues
    THEN /\ mUidSortedList' =
              IF u # OFFLINE_UID /\ ~IsFront(mUidSortedList, u) /\ u \in topUids
                THEN PushFront(ListRemove(mUidSortedList, {u}), u)
                ELSE mUidSortedList
         /\ mSessionQueues' = [mSessionQueues EXCEPT ![u] = Append(@, k)]
         /\ UNCHANGED <<monitored, topUids>>
    ELSE /\ monitored' = monitored \cup {u}
         /\ \E top \in TopAfterRegister(u) :
              /\ topUids' = top
              /\ mUidSortedList' = IF u \in top THEN PushFront(mUidSortedList, u)
                                   ELSE InsertBeforeOffline(mUidSortedList, u)
         /\ mSessionQueues' = [v \in DOMAIN mSessionQueues \cup {u} |->
                                 IF v = u THEN <<k>> ELSE mSessionQueues[v]]

(* Mutated: the offline queue counts as well, or no queue does. *)
EmptiedOfflineToo(k, uids) == {u \in uids : mSessionQueues[u] = <<k>>}
EmptiedNever(k, uids) == {}

(* The real-time queues that have only k left. *)
Emptied(k, uids) == {u \in uids \ {OFFLINE_UID} : mSessionQueues[u] = <<k>>}

(* Mutated: the uid policy goes on monitoring. *)
KeepMonitoring(gone) == UNCHANGED <<monitored, topUids>>

unregisterMonitorUids(gone) ==
  /\ monitored' = monitored \ gone
  /\ topUids' \in IF gone = {} THEN {topUids} ELSE TopAfterUnregister(gone)

(* The part of removeSession_l that takes k out of the queues of uids. *)
leaveQueues(k, uids) ==
  LET emptied == Emptied(k, uids)
  IN  /\ mSessionQueues' =
           [u \in DOMAIN mSessionQueues \ emptied |->
              IF u \in uids THEN Erase(mSessionQueues[u], k) ELSE mSessionQueues[u]]
      /\ unregisterMonitorUids(emptied)
      /\ mUidSortedList' =
           IF emptied = {} THEN mUidSortedList
           ELSE moveUidsToTop_l(ListRemove(mUidSortedList, emptied), topUids', FALSE)

(* Mutated: mCurrentSession is left pointing to the removed session. *)
DanglingSession(k) == mCurrentSession
CurrentWithout(k) == IF mCurrentSession = k THEN NoSession ELSE mCurrentSession

(* removeSession_l without a keepUid filter: the session ends.  m is the     *)
(* session map at the call; a session that never started ran for no time.    *)
removeSession_l(m, k) ==
  /\ leaveQueues(k, m[k].allClientUids)
  /\ mSessionMap' = Restrict(m, DOMAIN m \ {k})
  /\ mCurrentSession' = CurrentWithout(k)
  /\ \E runningTime \in IF m[k].state = "NOT_STARTED" THEN {0} ELSE 0..BurstTimeQuota :
       mUidHistoryMap' = onSessionCompleted(mUidHistoryMap, m[k].allClientUids, runningTime)

(* Mutated: the uids that leave the queues stay in allClientUids. *)
stripSessionKeepsUids(k, keepUid) ==
  /\ leaveQueues(k, UidsOf(k) \ keepUid)
  /\ mUidHistoryMap' = onSessionCancelled(mUidHistoryMap, UidsOf(k) \ keepUid)
  /\ UNCHANGED mSessionMap

(* Mutated: the pacer is not told of a uid that leaves a session. *)
stripSessionNoCancel(k, keepUid) ==
  /\ leaveQueues(k, UidsOf(k) \ keepUid)
  /\ mSessionMap' = [mSessionMap EXCEPT ![k].allClientUids = @ \cap keepUid]
  /\ UNCHANGED mUidHistoryMap

(* removeSession_l with a keepUid filter: only the other uids leave. *)
stripSession_l(k, keepUid) ==
  /\ leaveQueues(k, UidsOf(k) \ keepUid)
  /\ mSessionMap' = [mSessionMap EXCEPT ![k].allClientUids = @ \cap keepUid]
  /\ mUidHistoryMap' = onSessionCancelled(mUidHistoryMap, UidsOf(k) \ keepUid)

-----------------------------------------------------------------------------
(* ControllerClientInterface                                               *)

(* Session ids are never used twice; the model reuses a key once nothing      *)
(* refers to the session that had it.                                         *)
unusedKey(k) == k \notin live /\ k \notin {watchdog.mSessionToWatch, watchdog.sessionKey}

(* submit: uid is OFFLINE_UID for a request of unspecified priority. *)
submit(k, uid) ==
  /\ ~locked
  /\ unusedKey(k)
  /\ mSessionMap' = [j \in live \cup {k} |->
                       IF j = k THEN [state |-> "NOT_STARTED", allClientUids |-> {uid},
                                      paced |-> {}]
                       ELSE mSessionMap[j]]
  /\ addUidToSession_l(uid, k)
  /\ job' = Update
  /\ noCalls
  /\ UNCHANGED <<mCurrentSession, pauseVars, mUidHistoryMap, watchdog, notice>>

addClientUid(k, uid) ==
  /\ ~locked
  /\ k \in live
  /\ uid \notin UidsOf(k)
  /\ mSessionMap' = [mSessionMap EXCEPT ![k].allClientUids = @ \cup {uid}]
  /\ addUidToSession_l(uid, k)
  /\ job' = Update
  /\ noCalls
  /\ UNCHANGED <<mCurrentSession, pauseVars, mUidHistoryMap, watchdog, notice>>

Remove(drop, strip, keep) ==
  [pc |-> IF drop \cup strip = {} THEN "update" ELSE "remove",
   drop |-> drop, strip |-> strip, keep |-> keep]

untouched == <<mSessionMap, queueVars, mCurrentSession, pauseVars, mUidHistoryMap,
               watchdog>>

(* cancel with a session id. *)
cancel(k) ==
  /\ ~locked
  /\ k \in live
  /\ job' = Remove({k}, {}, {})
  /\ noCalls
  /\ UNCHANGED <<untouched, notice>>

(* cancel with sessionId < 0: all of a client's sessions, except that one    *)
(* with an offline request stays for the offline queue.                      *)
cancelAll(clientId) ==
  /\ ~locked
  /\ LET mine == {k \in live : ClientOf[k] = clientId}
         offline == {k \in mine : OFFLINE_UID \in UidsOf(k)}
     IN  job' = Remove(mine \ offline, offline, {OFFLINE_UID})
  /\ noCalls
  /\ UNCHANGED <<untouched, notice>>

-----------------------------------------------------------------------------
(* UidPolicyCallbackInterface                                              *)

onTopUidsChanged ==
  /\ ~locked
  /\ notice.top # {}
  /\ mUidSortedList' = moveUidsToTop_l(mUidSortedList, notice.top, TRUE)
  /\ notice' = [notice EXCEPT !.top = {}]
  /\ job' = Update
  /\ noCalls
  /\ UNCHANGED <<mSessionMap, mSessionQueues, monitored, topUids, mCurrentSession, pauseVars,
                 mUidHistoryMap, watchdog>>

onUidGone(uid) ==
  /\ ~locked
  /\ notice.top = {} /\ uid \in notice.gone
  /\ LET its == {k \in live : uid \in UidsOf(k)}
         shared == {k \in its : UidsOf(k) # {uid}}
     IN  job' = Remove(its \ shared, shared, AllUids \ {uid})
  /\ notice' = NoNotice
  /\ noCalls
  /\ UNCHANGED untouched

-----------------------------------------------------------------------------
(* The loops over sessionsToRemove and then over the sessions that stay for   *)
(* other uids, each in map order.                                             *)
First(k, ks) == k \in ks /\ \A j \in ks : k <= j

dropNext(k) ==
  /\ job.pc = "remove"
  /\ First(k, job.drop)
  /\ calls' = IF State(k) # "NOT_STARTED" THEN <<<<"stop", k>>>> ELSE << >>
  /\ watchdog' = WatchdogStopIf(watchdog, State(k) = "RUNNING")
  /\ removeSession_l(mSessionMap, k)
  /\ job' = Remove(job.drop \ {k}, job.strip, job.keep)
  /\ UNCHANGED <<pauseVars, notice>>

(* Mutated: the loop does not advance. *)
stripNextAgain(k) ==
  /\ job.pc = "remove"
  /\ job.drop = {} /\ First(k, job.strip)
  /\ stripSession_l(k, job.keep)
  /\ noCalls
  /\ UNCHANGED <<mCurrentSession, pauseVars, watchdog, notice, job>>

stripNext(k) ==
  /\ job.pc = "remove"
  /\ job.drop = {} /\ First(k, job.strip)
  /\ stripSession_l(k, job.keep)
  /\ job' = Remove({}, job.strip \ {k}, job.keep)
  /\ noCalls
  /\ UNCHANGED <<mCurrentSession, pauseVars, watchdog, notice>>

-----------------------------------------------------------------------------
(* getTopSession_l and the iterations of updateCurrentSession_l            *)

IsTopSession(s) ==
  IF live = {} \/ mResourceLost \/ mThermalThrottling
    THEN s = NoSession
    ELSE \E topUid \in AllUids :
           /\ IsFront(mUidSortedList, topUid)
           /\ s = IF /\ mCurrentSession # NoSession
                     /\ State(mCurrentSession) = "RUNNING"
                     /\ topUid \in UidsOf(mCurrentSession)
                    THEN mCurrentSession
                    ELSE Head(mSessionQueues[topUid])

(* The current session is paused when another one, or none, takes over. *)
curRunning == mCurrentSession # NoSession /\ State(mCurrentSession) = "RUNNING"
MapPaused == IF curRunning THEN [mSessionMap EXCEPT ![mCurrentSession].state = "PAUSED"]
             ELSE mSessionMap
(* Mutated: the watchdog is not stopped for the session that is paused. *)
WatchdogNotStopped == watchdog
WatchdogPaused == WatchdogStopIf(watchdog, curRunning)
CallPause == IF curRunning THEN <<<<"pause", mCurrentSession>>>> ELSE << >>

updating(top) == job.pc = "update" /\ IsTopSession(top)

(* Mutated: a paused session at the top is left alone. *)
mustSwitchAway(top) == top # mCurrentSession

mustSwitch(top) == top # mCurrentSession \/ (top # NoSession /\ State(top) # "RUNNING")

(* The top session is the current one and in the right state. *)
updateDone(top) ==
  /\ updating(top)
  /\ ~mustSwitch(top)
  /\ job' = Idle
  /\ noCalls
  /\ UNCHANGED <<untouched, notice>>

(* No session, or paused globally. *)
updateNothingToRun ==
  /\ updating(NoSession)
  /\ mustSwitch(NoSession)
  /\ mSessionMap' = MapPaused
  /\ watchdog' = WatchdogPaused
  /\ calls' = CallPause
  /\ mCurrentSession' = NoSession
  /\ job' = Idle
  /\ UNCHANGED <<queueVars, pauseVars, mUidHistoryMap, notice>>

(* Every client of the top session is out of quota: drop it and look again. *)
updateDropByPacer(top) ==
  /\ updating(top)
  /\ top # NoSession /\ mustSwitch(top)
  /\ State(top) = "NOT_STARTED"
  /\ \A u \in UidsOf(top) : ~StartAllowed(mUidHistoryMap, u, CallingUid[top])
  /\ removeSession_l(MapPaused, top)
  /\ watchdog' = WatchdogPaused
  /\ calls' = CallPause
  /\ UNCHANGED <<pauseVars, notice, job>>

(* Start the top session; paced are the uids whose start the pacer noted. *)
updateStart(top) ==
  /\ updating(top)
  /\ top # NoSession /\ mustSwitch(top)
  /\ State(top) = "NOT_STARTED"
  /\ \E u \in UidsOf(top) : StartAllowed(mUidHistoryMap, u, CallingUid[top])
  /\ mUidHistoryMap' = onSessionStarted(mUidHistoryMap, UidsOf(top), CallingUid[top])
  /\ mSessionMap' =
       [MapPaused EXCEPT
          ![top].state = "RUNNING",
          ![top].paced = {u \in UidsOf(top) : /\ isSubjectToQuota(u, CallingUid[top])
                                              /\ StartAllowed(mUidHistoryMap, u, CallingUid[top])}]
  /\ watchdog' = WatchdogStart(WatchdogPaused, top)
  /\ calls' = Append(CallPause, <<"start", top>>)
  /\ mCurrentSession' = top
  /\ job' = Idle
  /\ UNCHANGED <<queueVars, pauseVars, notice>>

updateResume(top) ==
  /\ updating(top)
  /\ top # NoSession /\ mustSwitch(top)
  /\ State(top) = "PAUSED"
  /\ mSessionMap' = [MapPaused EXCEPT ![top].state = "RUNNING"]
  /\ watchdog' = WatchdogStart(WatchdogPaused, top)
  /\ calls' = Append(CallPause, <<"resume", top>>)
  /\ mCurrentSession' = top
  /\ job' = Idle
  /\ UNCHANGED <<queueVars, pauseVars, mUidHistoryMap, notice>>
-----------------------------------------------------------------------------
(* TranscoderCallbackInterface.  A callback may concern any session: it is   *)
(* posted by the transcoder's thread and may arrive late (notifyClient).     *)
notifiable(k) == ~locked /\ k \in live /\ State(k) # "NOT_STARTED"

sessionEnds(k) ==
  /\ watchdog' = WatchdogStopIf(watchdog, State(k) = "RUNNING")
  /\ removeSession_l(mSessionMap, k)
  /\ job' = Update
  /\ UNCHANGED <<pauseVars, notice>>

onFinish(k) ==
  /\ notifiable(k)
  /\ noCalls
  /\ sessionEnds(k)

onError(k) ==
  /\ notifiable(k)
  /\ noCalls
  /\ sessionEnds(k)

(* onError(..., kWatchdogTimeout), called by the watchdog thread: the         *)
(* transcoder object is abandoned and replaced.                               *)
onWatchdogTimeout(k) ==
  /\ watchdog.pc = "report" /\ watchdog.sessionKey = k
  /\ notifiable(k)
  /\ calls' = <<<<"abandon", k>>>>
  /\ removeSession_l(mSessionMap, k)
  /\ watchdog' = [WatchdogStopIf(watchdog, State(k) = "RUNNING")
                    EXCEPT !.pc = "wait", !.sessionKey = NoSession]
  /\ job' = Update
  /\ UNCHANGED <<pauseVars, notice>>

(* The same call when notifyClient ignores it. *)
onStaleWatchdogTimeout(k) ==
  /\ watchdog.pc = "report" /\ watchdog.sessionKey = k
  /\ ~locked
  /\ ~notifiable(k)
  /\ watchdog' = [watchdog EXCEPT !.pc = "wait", !.sessionKey = NoSession]
  /\ noCalls
  /\ UNCHANGED <<mSessionMap, queueVars, mCurrentSession, pauseVars, mUidHistoryMap,
                 notice, job>>

onResourceLost(k) ==
  /\ notifiable(k)
  /\ "resource" \in Events
  /\ ~mResourceLost
  /\ State(k) = "RUNNING"
  /\ mSessionMap' = [mSessionMap EXCEPT ![k].state = "PAUSED"]
  /\ watchdog' = WatchdogStop(watchdog)
  /\ noCalls
  /\ mResourceLost' = TRUE
  /\ UNCHANGED <<queueVars, mCurrentSession, mThermalThrottling, mUidHistoryMap, notice, job>>

-----------------------------------------------------------------------------
(* ResourcePolicyCallbackInterface and ThermalPolicyCallbackInterface      *)

onResourceAvailable ==
  /\ ~locked
  /\ mResourceLost
  /\ mResourceLost' = FALSE
  /\ job' = Update
  /\ noCalls
  /\ UNCHANGED <<mSessionMap, queueVars, mCurrentSession, mThermalThrottling, mUidHistoryMap,
                 watchdog, notice>>

onThrottling(started) ==
  /\ ~locked
  /\ "thermal" \in Events
  /\ mThermalThrottling # started
  /\ mThermalThrottling' = started
  /\ job' = Update
  /\ noCalls
  /\ UNCHANGED <<mSessionMap, queueVars, mCurrentSession, mResourceLost, mUidHistoryMap,
                 watchdog, notice>>

-----------------------------------------------------------------------------
(* Watchdog::threadLoop.  The clock is abstracted: a timed wait may expire at *)
(* any time.  wait_until returns timeout when the deadline has passed by the  *)
(* time the thread holds the lock again, whether or not stop() came in        *)
(* between; the loop does not look at mActive again.                          *)
watchdogWait ==
  /\ "watchdog" \in Events
  /\ \/ /\ watchdog.pc = "wait" /\ watchdog.mActive
        /\ watchdog' = [watchdog EXCEPT !.pc = "timed"]
     \/ /\ watchdog.pc = "timed" /\ ~watchdog.mActive
        /\ watchdog' = WatchdogStop([watchdog EXCEPT !.pc = "wait"])
  /\ noCalls
  /\ UNCHANGED <<mSessionMap, queueVars, mCurrentSession, pauseVars, mUidHistoryMap,
                 notice, job>>

watchdogExpires ==
  /\ "watchdog" \in Events
  /\ watchdog.pc = "timed"
  /\ watchdog' = WatchdogStop([watchdog EXCEPT !.pc = "report",
                                               !.sessionKey = watchdog.mSessionToWatch])
  /\ noCalls
  /\ UNCHANGED <<mSessionMap, queueVars, mCurrentSession, pauseVars, mUidHistoryMap,
                 notice, job>>

-----------------------------------------------------------------------------
(* The environment: the uid policy's state changes (one callback at a time,   *)
(* delivered after its lock is released) and the passing of time.             *)
uidStateChanged(uid, isUidGone) ==
  /\ "uid" \in Events /\ (isUidGone => "gone" \in Events)
  /\ notice = NoNotice
  /\ uid \in monitored
  /\ \E top \in TopAfterChange(uid) :
       /\ topUids' = top
       /\ notice' = [top  |-> IF top = ComparedTop THEN {} ELSE top,
                     gone |-> IF isUidGone THEN {uid} ELSE {}]
  /\ <<topUids', notice'>> # <<topUids, notice>>
  /\ noCalls
  /\ UNCHANGED <<mSessionMap, mSessionQueues, mUidSortedList, monitored, mCurrentSession,
                 pauseVars, mUidHistoryMap, watchdog, job>>

burstThresholdPasses(u) ==
  /\ u \in DOMAIN mUidHistoryMap /\ mUidHistoryMap[u].recent
  /\ mUidHistoryMap' = TimePasses(mUidHistoryMap, u)
  /\ noCalls
  /\ UNCHANGED <<mSessionMap, queueVars, mCurrentSession, pauseVars, watchdog,
                 notice, job>>

-----------------------------------------------------------------------------
ClientStep ==
  \/ \E k \in Keys, u \in AllUids : submit(k, u)
  \/ \E k \in Keys, u \in Uids : addClientUid(k, u)
  \/ \E k \in Keys : cancel(k)
  \/ \E k \in Keys : cancelAll(ClientOf[k])

PolicyStep ==
  \/ onTopUidsChanged
  \/ \E u \in Uids : onUidGone(u)
  \/ onResourceAvailable
  \/ \E b \in BOOLEAN : onThrottling(b)
  \/ \E u \in Uids, isUidGone \in BOOLEAN : uidStateChanged(u, isUidGone)

TranscoderStep == \E k \in Keys : onFinish(k) \/ onError(k) \/ onResourceLost(k)

WatchdogStep ==
  \/ watchdogWait
  \/ watchdogExpires
  \/ \E k \in Keys : onWatchdogTimeout(k) \/ onStaleWatchdogTimeout(k)

(* The holder of mLock goes on. *)
LockedStep ==
  \/ \E k \in Keys : dropNext(k) \/ stripNext(k)
  \/ updateNothingToRun
  \/ \E top \in Keys \cup {NoSession} :
       updateDone(top) \/ updateDropByPacer(top) \/ updateStart(top) \/ updateResume(top)

Next ==
  \/ ClientStep
  \/ PolicyStep
  \/ TranscoderStep
  \/ WatchdogStep
  \/ LockedStep
  \/ \E u \in AllUids : burstThresholdPasses(u)

Spec == Init /\ [][Next]_vars

(* A thread that holds mLock does not block: it makes no blocking call. *)
FairSpec == Spec /\ WF_vars(LockedStep)

-----------------------------------------------------------------------------
(* Correctness properties                                                  *)

(* Every variable has its type. *)
TypeOK ==
  /\ live \subseteq Keys
  /\ mSessionMap \in [live -> SessionRecords]
  /\ DOMAIN mSessionQueues \subseteq AllUids
  /\ mSessionQueues \in [DOMAIN mSessionQueues -> Seq(Keys)]
  /\ mUidSortedList \subseteq AllUids \X AllUids
  /\ mCurrentSession \in Keys \cup {NoSession}
  /\ mResourceLost \in BOOLEAN /\ mThermalThrottling \in BOOLEAN
  /\ DOMAIN mUidHistoryMap \subseteq AllUids
  /\ mUidHistoryMap \in [DOMAIN mUidHistoryMap -> UidHistoryEntry]
  /\ watchdog \in WatchdogStates
  /\ calls \in Seq(CallOps \X Keys)
  /\ monitored \subseteq Uids /\ topUids \subseteq Uids
  /\ notice \in [top : SUBSET Uids, gone : SUBSET Uids]
  /\ job \in JobStates

(* What validateState_l asserts, in the form it is meant: a session is in the *)
(* queue of a uid exactly when the uid is among its clients, once, and every   *)
(* live session has a client.                                                  *)
QueuesMatchMap ==
  /\ \A k \in Keys, u \in AllUids :
       (u \in DOMAIN mSessionQueues /\ k \in Range(mSessionQueues[u]))
         <=> (k \in live /\ u \in UidsOf(k))
  /\ \A u \in DOMAIN mSessionQueues : IsInjective(mSessionQueues[u])
  /\ \A k \in live : UidsOf(k) # {}

(* validateState_l again: mUidSortedList is a list of exactly the uids with a  *)
(* queue, real-time queues are not empty, and the offline uid is the last.     *)
ListMatchesQueues ==
  /\ IsListOf(mUidSortedList, DOMAIN mSessionQueues)
  /\ OFFLINE_UID \in DOMAIN mSessionQueues
  /\ \A u \in DOMAIN mSessionQueues : <<u, OFFLINE_UID>> \in mUidSortedList
  /\ \A u \in DOMAIN mSessionQueues \ {OFFLINE_UID} : mSessionQueues[u] # << >>

(* The uid policy monitors exactly the uids that have a real-time queue, so a  *)
(* uid that leaves foreground or dies is noticed as long as it has sessions.   *)
MonitoredUidsHaveQueues == monitored = DOMAIN mSessionQueues \ {OFFLINE_UID}

(* setSessionState_l relies on "we only have 1 running session": whatever is   *)
(* RUNNING is mCurrentSession, and mCurrentSession never dangles.              *)
OnlyCurrentRuns ==
  /\ \A k \in live : State(k) = "RUNNING" => k = mCurrentSession
  /\ mCurrentSession # NoSession =>
       mCurrentSession \in live /\ State(mCurrentSession) # "NOT_STARTED"

(* A RUNNING session is watched: the watchdog is active for it, or its         *)
(* timeout is being reported.  A transcoder that hangs is always found out.    *)
RunningIsWatched ==
  \A k \in live : State(k) = "RUNNING" =>
    \/ watchdog.mActive /\ watchdog.mSessionToWatch = k
    \/ watchdog.pc = "report" /\ watchdog.sessionKey = k

(* When no handler runs, the front uid is served: unless paused globally, the  *)
(* service is never idle with sessions waiting, and it runs a session of the   *)
(* uid at the front of the list.  Paused globally, it runs nothing.            *)
FrontUidIsServed ==
  ~locked =>
    IF mResourceLost \/ mThermalThrottling
      THEN \A k \in live : State(k) # "RUNNING"
      ELSE live # {} =>
             /\ mCurrentSession # NoSession /\ State(mCurrentSession) = "RUNNING"
             /\ \E u \in UidsOf(mCurrentSession) : IsFront(mUidSortedList, u)

(* mLock is always released: the loops of cancel, onUidGone and                *)
(* updateCurrentSession_l end, also when the pacer drops one session after     *)
(* another.                                                                    *)
LockIsReleased == locked ~> ~locked

(* The pacer leaks no activity: a uid that is marked sessionActive has a       *)
(* started session whose start the pacer noted for it.                         *)
NoLeakedActivity ==
  \A u \in DOMAIN mUidHistoryMap : mUidHistoryMap[u].sessionActive =>
    \E k \in live : /\ State(k) # "NOT_STARTED"
                    /\ u \in UidsOf(k) \cap mSessionMap[k].paced

-----------------------------------------------------------------------------
(* What the repository says of the controller and the code does not do.    *)

(* "Idle to clear out burst history": the pacer drops a session only if one of *)
(* its uids completed a session within the burst threshold.                    *)
IdleClearsBurstHistory ==
  [][\A k \in Keys : updateDropByPacer(k) =>
        \E u \in UidsOf(k) : mUidHistoryMap[u].recent]_vars
=============================================================================
