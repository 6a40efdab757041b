------------------------ MODULE TranscodingUidPolicy ------------------------
(* TranscodingUidPolicy: the importance of the monitored uids, kept in two    *)
(* maps and a cached best state, fed by the activity manager's listener and   *)
(* read by the session controller.                                            *)
(*                                                                            *)
(* The activity manager is external: it changes the importance of a uid and   *)
(* queues an event, which its listener thread hands to onUidStateChanged one  *)
(* at a time and later than the change.                                       *)
EXTENDS Naturals, Sequences, FiniteSets

CONSTANTS
  Uids,
  Importances,         \* the importances there are; a lower one is more visible
  GONE,                \* AACTIVITYMANAGER_IMPORTANCE_GONE
  IMPORTANCE_UNKNOWN,
  MaxEvents            \* events on their way

ASSUME ImportanceAssumption ==
  /\ Importances \subseteq Nat /\ GONE \in Importances
  /\ IMPORTANCE_UNKNOWN \notin Importances

VARIABLES
  mUidStateMap,  \* monitored uid -> its state
  mStateUidMap,  \* state -> the uids in it; entries may be empty
  mTopUidState,
  mRegistered,
  told,          \* what onUidStateChanged has still to call back
  importance,    \* the activity manager's view
  events         \* <<uid, importance>> pairs queued for the listener

uidVars == <<mUidStateMap, mStateUidMap, mTopUidState, mRegistered, told, importance, events>>

NothingToTell == [top |-> {}, gone |-> {}]

States == Importances \cup {IMPORTANCE_UNKNOWN}

UidInit ==
  /\ mUidStateMap = [u \in {} |-> IMPORTANCE_UNKNOWN] /\ mStateUidMap = [s \in {} |-> {}]
  /\ mTopUidState = IMPORTANCE_UNKNOWN
  /\ mRegistered \in BOOLEAN
  /\ told = NothingToTell
  /\ importance \in [Uids -> Importances]
  /\ events = << >>

(* mStateUidMap[s], which makes the entry when there is none. *)
entry(m, s) == IF s \in DOMAIN m THEN m[s] ELSE {}

store(m, s, uids) == [x \in DOMAIN m \cup {s} |-> IF x = s THEN uids ELSE m[x]]

(* The lowest known state with a uid in it. *)
updateTopUid_l(m) ==
  LET used == {s \in DOMAIN m : s # IMPORTANCE_UNKNOWN /\ m[s] # {}}
  IN  IF used = {} THEN IMPORTANCE_UNKNOWN
      ELSE CHOOSE s \in used : \A x \in used : s <= x

(* getTopUids; the entry is there whenever a state is the top one. *)
getTopUids ==
  IF mTopUidState = IMPORTANCE_UNKNOWN THEN {} ELSE mStateUidMap[mTopUidState]

(* What isUidActive and, for an active uid, getUidImportance give.  A uid that *)
(* is not gone may be idle, which is not active.  The two are two calls: a uid *)
(* that was active at the first may be gone, with the event queued, at the     *)
(* second.                                                                     *)
ReadStates(u) ==
  {IMPORTANCE_UNKNOWN} \cup
    {s \in Importances :
       /\ mRegistered /\ s = importance[u]
       /\ s = GONE => \E i \in DOMAIN events : events[i] = <<u, GONE>>}

registerMonitorUid(u) ==
  /\ u \notin DOMAIN mUidStateMap
  /\ \E state \in ReadStates(u) :
       /\ mUidStateMap' = [v \in DOMAIN mUidStateMap \cup {u} |->
                             IF v = u THEN state ELSE mUidStateMap[v]]
       /\ mStateUidMap' = store(mStateUidMap, state, entry(mStateUidMap, state) \cup {u})
  /\ mTopUidState' = updateTopUid_l(mStateUidMap')
  /\ UNCHANGED <<mRegistered, told, importance, events>>

(* Variant: the best state is left as it was. *)
unregisterKeepsTop(u) ==
  /\ u \in DOMAIN mUidStateMap
  /\ LET s    == mUidStateMap[u]
         left == mStateUidMap[s] \ {u}
     IN  mStateUidMap' = [x \in IF left = {} THEN DOMAIN mStateUidMap \ {s}
                                ELSE DOMAIN mStateUidMap |->
                            IF x = s THEN left ELSE mStateUidMap[x]]
  /\ mUidStateMap' = [v \in DOMAIN mUidStateMap \ {u} |-> mUidStateMap[v]]
  /\ UNCHANGED <<mTopUidState, mRegistered, told, importance, events>>

unregisterMonitorUid(u) ==
  /\ u \in DOMAIN mUidStateMap
  /\ LET s    == mUidStateMap[u]
         left == mStateUidMap[s] \ {u}
     IN  mStateUidMap' = [x \in IF left = {} THEN DOMAIN mStateUidMap \ {s}
                                ELSE DOMAIN mStateUidMap |->
                            IF x = s THEN left ELSE mStateUidMap[x]]
  /\ mUidStateMap' = [v \in DOMAIN mUidStateMap \ {u} |-> mUidStateMap[v]]
  /\ mTopUidState' = updateTopUid_l(mStateUidMap')
  /\ UNCHANGED <<mRegistered, told, importance, events>>

(* The maps after uid moves to procState; reading the old and the new top     *)
(* entry makes the ones that are missing.                                     *)
moved(u, procState) ==
  LET touched == store(mStateUidMap, mTopUidState, entry(mStateUidMap, mTopUidState))
      without == store(touched, mUidStateMap[u], touched[mUidStateMap[u]] \ {u})
  IN  store(without, procState, entry(without, procState) \cup {u})

(* Variant: only a change of the best state counts as a change of the set. *)
ChangedTopState(old, new) == IF mTopUidState' = mTopUidState THEN {} ELSE new

(* What to call back with: the new top set if it is a different one. *)
ChangedTop(old, new) == IF new = old THEN {} ELSE new

(* Variant: a uid that is gone is not followed any more. *)
isMonitoredAlive(u) == u \in DOMAIN mUidStateMap /\ mUidStateMap[u] # GONE

isMonitored(u) == u \in DOMAIN mUidStateMap

(* The listener thread, up to the release of mUidLock.  It is busy until it   *)
(* has called back.                                                           *)
onUidStateChanged ==
  /\ events # << >> /\ told = NothingToTell
  /\ LET u         == Head(events)[1]
         procState == Head(events)[2]
         old       == entry(mStateUidMap, mTopUidState)
     IN  IF isMonitored(u) /\ mUidStateMap[u] # procState
           THEN /\ mUidStateMap' = [mUidStateMap EXCEPT ![u] = procState]
                /\ mStateUidMap' = moved(u, procState)
                /\ mTopUidState' = updateTopUid_l(mStateUidMap')
                /\ told' = [top  |-> ChangedTop(old, mStateUidMap'[mTopUidState']),
                            gone |-> IF procState = GONE THEN {u} ELSE {}]
           ELSE UNCHANGED <<mUidStateMap, mStateUidMap, mTopUidState, told>>
  /\ events' = Tail(events)
  /\ UNCHANGED <<mRegistered, importance>>

(* onTopUidsChanged, then onUidGone, outside the lock. *)
callBack ==
  /\ told # NothingToTell
  /\ told' = IF told.top # {} THEN [told EXCEPT !.top = {}] ELSE NothingToTell
  /\ UNCHANGED <<mUidStateMap, mStateUidMap, mTopUidState, mRegistered, importance, events>>

(* External: the activity manager changes the importance of a uid. *)
importanceChanges(u, s) ==
  /\ s # importance[u] /\ Len(events) < MaxEvents
  /\ importance' = [importance EXCEPT ![u] = s]
  /\ events' = IF mRegistered THEN Append(events, <<u, s>>) ELSE events
  /\ UNCHANGED <<mUidStateMap, mStateUidMap, mTopUidState, mRegistered, told>>

UidNext ==
  \/ \E u \in Uids : registerMonitorUid(u) \/ unregisterMonitorUid(u)
  \/ \E u \in Uids, s \in Importances : importanceChanges(u, s)
  \/ onUidStateChanged
  \/ callBack

UidSpec == UidInit /\ [][UidNext]_uidVars

-----------------------------------------------------------------------------
(* The two maps describe the same uids, and mTopUidState is the lowest known  *)
(* state in use: the entry getTopUids looks up with at() is always there.     *)
MapsAgree ==
  /\ \A u \in DOMAIN mUidStateMap : u \in entry(mStateUidMap, mUidStateMap[u])
  /\ \A s \in DOMAIN mStateUidMap : \A u \in mStateUidMap[s] :
       u \in DOMAIN mUidStateMap /\ mUidStateMap[u] = s
  /\ mTopUidState = updateTopUid_l(mStateUidMap)

(* However late the events come, and whatever registerMonitorUid read between *)
(* them: when none is on its way for a monitored uid, a state that the policy *)
(* knows is the activity manager's importance of the uid.  (It does not know  *)
(* a uid that was idle or gone when it was registered and has not changed     *)
(* since.)                                                                    *)
SettledIsTrue ==
  mRegistered =>
    \A u \in DOMAIN mUidStateMap :
      \/ \E i \in DOMAIN events : events[i][1] = u
      \/ mUidStateMap[u] \in {importance[u], IMPORTANCE_UNKNOWN}

Top == INSTANCE TopUids WITH monitored <- DOMAIN mUidStateMap,
                             topUids   <- getTopUids,
                             notice    <- told

(* registerMonitorUid, unregisterMonitorUid and onUidStateChanged change the  *)
(* top uids, and call back, only in the ways the session controller allows    *)
(* for.                                                                       *)
ImplementsTopUids == Top!TopSpec
=============================================================================
