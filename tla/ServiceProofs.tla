--------------------------- MODULE ServiceProofs ----------------------------
(***************************************************************************)
(* The controller keeps its specification when it is run with its wrappers: *)
(* what TranscodingService adds restricts when the transcoder's callbacks   *)
(* come and never lets the controller do anything else.  What is proved of   *)
(* the controller therefore holds of the service.                           *)
(***************************************************************************)
EXTENDS TranscodingService, ControllerProofs

(* A callback of a wrapper that the controller acts on is one of the           *)
(* transcoder's events: notifyClient knows the session.                        *)
LEMMA CallbackIsTranscoderStep ==
  ASSUME IInv, NEW c, Callback(c)
  PROVE  TranscoderStep
<1>1. live \subseteq Keys
  BY Zenon DEF IInv, SessionTypes
<1>2. c.key \in Keys
  BY <1>1, Zenon DEF Callback, onFinish, onError, onResourceLost, notifiable
<1> QED
  BY <1>2, Zenon DEF Callback, TranscoderStep

(* Every step of the service is a step of the controller or leaves it alone:   *)
(* the runnables of the wrappers, their MediaTranscoders and the callbacks     *)
(* that notifyClient ignores.                                                  *)
LEMMA ServiceStepRefines ==
  ASSUME IInv, [ServiceNext]_serviceVars
  PROVE  [Next]_vars
<1>1. CASE ControllerStep
  BY <1>1, Zenon DEF ControllerStep, Next
<1>2. ASSUME NEW g \in 1..cur, wrapperCalls(g)
      PROVE  [Next]_vars
  BY <1>2, CallbackIsTranscoderStep, Zenon DEF wrapperCalls, Next
<1>3. ASSUME NEW g \in 1..cur, wrapperStep(g)
      PROVE  [Next]_vars
  BY <1>3, Zenon DEF wrapperStep
<1>4. CASE UNCHANGED serviceVars
  BY <1>4, Zenon DEF serviceVars
<1> QED
  BY <1>1, <1>2, <1>3, <1>4, Zenon DEF ServiceNext

(* The controller's inductive invariant is one of the service. *)
LEMMA ServiceInvariant == ServiceSpec => []IInv
<1>1. ServiceInit => IInv
  BY InitInv, Zenon DEF ServiceInit
<1>2. IInv /\ [ServiceNext]_serviceVars => IInv'
  BY ServiceStepRefines, NextInv, Zenon
<1> QED
  BY <1>1, <1>2, PTL DEF ServiceSpec

(* The service implements the controller's specification, with any number of   *)
(* wrappers, queued events and late callbacks of MediaTranscoders: none of     *)
(* them makes the controller take a step its own handlers do not have.         *)
THEOREM ServiceImplementsController == ServiceSpec => Spec
<1>1. ServiceInit => Init
  BY Zenon DEF ServiceInit
<1>2. IInv /\ [ServiceNext]_serviceVars => [Next]_vars
  BY ServiceStepRefines, Zenon
<1> QED
  BY <1>1, <1>2, ServiceInvariant, PTL DEF ServiceSpec, Spec

(* In the service too at most one session is RUNNING, it is mCurrentSession,   *)
(* and mCurrentSession never dangles, whatever callbacks arrive late.          *)
THEOREM OneSessionRunsInService == ServiceSpec => []OnlyCurrentRuns
BY ServiceImplementsController, OneSessionRuns, PTL

(* In the service too the RUNNING session is always watched: this is what      *)
(* lets the watchdog find out a wrapper that is stuck.                         *)
THEOREM RunningSessionIsWatchedInService == ServiceSpec => []RunningIsWatched
BY ServiceImplementsController, RunningSessionIsWatched, PTL

-----------------------------------------------------------------------------
(* What the controller has asked of its wrapper                            *)

(* The calls that decide which session the wrapper works on. *)
Ctl == {"Start", "Pause", "Resume"}
NoCtl(q) == \A i \in 1..Len(q) : q[i].type \notin Ctl

(* The last such call is to run k; none to run k comes after the i-th event. *)
RunsLast(q, k) ==
  \E i \in 1..Len(q) : /\ q[i].key = k /\ q[i].type \in {"Start", "Resume"}
                       /\ \A j \in (i + 1)..Len(q) : q[j].type \notin Ctl
NoRunAfter(q, i, k) == \A j \in (i + 1)..Len(q) : q[j].key = k => q[j].type \notin {"Start", "Resume"}

(* The wrapper has something to report of k. *)
Reports(w, k) ==
  \/ w.pending.key = k
  \/ \E i \in 1..Len(w.mQueue) : w.mQueue[i].key = k /\ w.mQueue[i].type \in W!AllPostTypes
  \/ \E i \in 1..Len(w.posts) : w.posts[i].key = k

(* What the wrapper owes a session that the controller calls RUNNING, and one  *)
(* that it calls PAUSED.                                                       *)
WillRun(w, k) ==
  \/ RunsLast(w.mQueue, k)
  \/ Reports(w, k)
  \/ w.mCurrent = k /\ NoCtl(w.mQueue)
WillPause(w, k) ==
  \/ \E i \in 1..Len(w.mQueue) : /\ w.mQueue[i] = W!Event("Pause", k)
                                 /\ NoRunAfter(w.mQueue, i, k)
  \/ Reports(w, k)
  \/ k \in w.mPausedStateMap /\ NoRunAfter(w.mQueue, 0, k)

NoStop(q, k) == \A i \in 1..Len(q) : q[i] # W!Event("Stop", k)
NoAbandon(q) == \A i \in 1..Len(q) : q[i].type # "Abandon"

CallInv ==
  /\ NoAbandon(Wrapper.mQueue)
  /\ \A k \in live : NoStop(Wrapper.mQueue, k)
  /\ \A k \in live : State(k) = "RUNNING" => WillRun(Wrapper, k)

(* Without resource events no wrapper reports a lost resource. *)
NoLoss(w) ==
  /\ w.pending.type # "onResourceLost"
  /\ \A i \in 1..Len(w.mQueue) : w.mQueue[i].type # "Lost"
  /\ \A i \in 1..Len(w.posts) : w.posts[i].type # "Lost"
PauseInv ==
  /\ NoLoss(Wrapper)
  /\ \A k \in live : State(k) = "PAUSED" => WillPause(Wrapper, k)

HasTranscoder(w) == w.status = "none" <=> w.mCurrent = NoSession
WrapperTypes ==
  /\ wrappers \in Seq(W!WrapperStates) /\ cur # 0
  /\ \A g \in 1..cur : HasTranscoder(wrappers[g])

-----------------------------------------------------------------------------
(* Events in a queue                                                       *)

(* A wrapper's queue after an event was queued, for the sessions it runs,      *)
(* pauses or stops.                                                            *)
LEMMA EventQueued ==
  ASSUME NEW w \in W!WrapperStates, NEW e \in W!QueuedEvents, NEW k \in Keys,
         NEW v, v = W!queueEvent(w, e)
  PROVE  /\ v \in W!WrapperStates /\ (HasTranscoder(w) => HasTranscoder(v))
         /\ e.type \notin Ctl /\ WillRun(w, k) => WillRun(v, k)
         /\ e.key = k /\ e.type \in {"Start", "Resume"} => WillRun(v, k)
         /\ WillPause(w, k) /\ ~(e.key = k /\ e.type \in {"Start", "Resume"}) => WillPause(v, k)
         /\ e = W!Event("Pause", k) => WillPause(v, k)
         /\ NoStop(w.mQueue, k) /\ e # W!Event("Stop", k) => NoStop(v.mQueue, k)
         /\ NoAbandon(w.mQueue) /\ e.type # "Abandon" => NoAbandon(v.mQueue)
         /\ NoLoss(w) /\ e.type # "Lost" => NoLoss(v)
<1> DEFINE q == w.mQueue
           n == Len(q)
           a == Append(q, e)
<1>1. /\ q \in Seq(W!QueuedEvents) /\ a \in Seq(W!QueuedEvents) /\ n \in Nat /\ Len(a) = n + 1
      /\ \A i \in 1..n : a[i] = q[i]
      /\ a[n + 1] = e
  BY DEF W!WrapperStates
<1>2. /\ v = [w EXCEPT !.mQueue = a] /\ v \in W!WrapperStates
      /\ v.mQueue = a /\ v.posts = w.posts /\ v.pending = w.pending
      /\ v.mCurrent = w.mCurrent /\ v.mPausedStateMap = w.mPausedStateMap
      /\ (HasTranscoder(w) => HasTranscoder(v))
  BY <1>1, Zenon DEF W!queueEvent, W!WrapperStates, HasTranscoder
<1> HIDE DEF a, n, q
<1>3. /\ 1..Len(a) = 1..n \cup {n + 1}
      /\ \A i \in 1..n : (i + 1)..Len(a) = (i + 1)..n \cup {n + 1}
      /\ (n + 1 + 1)..Len(a) = {}
      /\ (0 + 1)..Len(a) = 1..n \cup {n + 1}
      /\ (0 + 1)..n = 1..n
      /\ \A i \in 1..n : (i + 1)..n \subseteq 1..n
  BY <1>1
<1>4. Reports(w, k) => Reports(v, k)
  BY <1>1, <1>2, <1>3 DEF Reports, q, n
<1>5. ASSUME e.type \notin Ctl, WillRun(w, k) PROVE WillRun(v, k)
  <2>1. CASE RunsLast(q, k)
    <3>1. PICK i \in 1..n : /\ q[i].key = k /\ q[i].type \in {"Start", "Resume"}
                            /\ \A j \in (i + 1)..n : q[j].type \notin Ctl
      BY <2>1, Zenon DEF RunsLast, n
    <3>2. \A j \in (i + 1)..Len(a) : a[j].type \notin Ctl
      BY <3>1, <1>1, <1>3, <1>5
    <3>3. RunsLast(a, k)
      BY <3>1, <3>2, <1>1, <1>3, Zenon DEF RunsLast
    <3> QED
      BY <3>3, <1>2, Zenon DEF WillRun
  <2>2. CASE w.mCurrent = k /\ NoCtl(q)
    <3>1. NoCtl(a)
      BY <2>2, <1>1, <1>3, <1>5, Zenon DEF NoCtl, n
    <3> QED
      BY <3>1, <2>2, <1>2, Zenon DEF WillRun
  <2> QED
    BY <2>1, <2>2, <1>2, <1>4, <1>5, Zenon DEF WillRun, q
<1>6. ASSUME e.key = k, e.type \in {"Start", "Resume"} PROVE WillRun(v, k)
  <2>1. RunsLast(a, k)
    BY <1>1, <1>3, <1>6, Zenon DEF RunsLast
  <2> QED
    BY <2>1, <1>2, Zenon DEF WillRun
<1>7. ASSUME WillPause(w, k), ~(e.key = k /\ e.type \in {"Start", "Resume"}) PROVE WillPause(v, k)
  <2>1. ASSUME NEW i \in 0..n, NoRunAfter(q, i, k) PROVE NoRunAfter(a, i, k)
    <3>1. (i + 1)..Len(a) = (i + 1)..n \cup {n + 1} /\ (i + 1)..n \subseteq 1..n
      BY <1>1
    <3> QED
      BY <3>1, <2>1, <1>1, <1>7, Zenon DEF NoRunAfter, n
  <2>2. ASSUME NEW i \in 1..n, q[i] = W!Event("Pause", k), NoRunAfter(q, i, k) PROVE WillPause(v, k)
    <3>1. i \in 0..n
      BY <1>1
    <3>2. NoRunAfter(a, i, k)
      BY <2>1, <2>2, <3>1, Zenon
    <3> QED
      BY <2>2, <3>2, <1>1, <1>2, <1>3, Zenon DEF WillPause
  <2>3. CASE k \in w.mPausedStateMap /\ NoRunAfter(q, 0, k)
    <3>1. 0 \in 0..n
      BY <1>1
    <3>2. NoRunAfter(a, 0, k)
      BY <2>1, <2>3, <3>1, Zenon
    <3> QED
      BY <2>3, <3>2, <1>2, Zenon DEF WillPause
  <2> QED
    BY <2>2, <2>3, <1>2, <1>4, <1>7, Zenon DEF WillPause, q, n
<1>8. ASSUME e = W!Event("Pause", k) PROVE WillPause(v, k)
  <2>1. NoRunAfter(a, n + 1, k)
    BY <1>1, <1>3, Zenon DEF NoRunAfter
  <2> QED
    BY <2>1, <1>1, <1>2, <1>3, <1>8, Zenon DEF WillPause
<1>9. /\ NoStop(q, k) /\ e # W!Event("Stop", k) => NoStop(a, k)
      /\ NoAbandon(q) /\ e.type # "Abandon" => NoAbandon(a)
  BY <1>1, <1>3, Zenon DEF NoStop, NoAbandon, n
<1>10. NoLoss(w) /\ e.type # "Lost" => NoLoss(v)
  BY <1>1, <1>2, <1>3 DEF NoLoss, q, n
<1> QED
  BY <1>2, <1>5, <1>6, <1>7, <1>8, <1>9, <1>10, Zenon DEF q

-----------------------------------------------------------------------------
(* The runnables                                                           *)

(* What handling an event other than Abandon may do: w is the wrapper with the *)
(* event taken off its queue, v the wrapper afterwards.                        *)
Effect(w, e, v) ==
  /\ v.mQueue = w.mQueue
  /\ \/ v.posts = w.posts
     \/ \E type \in PostTypes : /\ w.mCurrent \in Keys
                                /\ v.posts = Append(w.posts, W!Event(type, w.mCurrent))
  /\ e.type \in {"Start", "Resume"} =>
       /\ v.pending.key = e.key \/ (v.mCurrent = e.key /\ v.pending = w.pending)
       /\ w.mPausedStateMap \ {e.key} \subseteq v.mPausedStateMap
  /\ e.type = "Pause" =>
       /\ v.pending.key = e.key \/ e.key \in v.mPausedStateMap
       /\ w.mPausedStateMap \subseteq v.mPausedStateMap
  /\ e.type = "Stop" =>
       /\ w.mCurrent # e.key => v.mCurrent = w.mCurrent
       /\ w.mPausedStateMap \ {e.key} \subseteq v.mPausedStateMap
  /\ e.type \in W!AllPostTypes =>
       /\ v.pending.key = e.key
       /\ w.mCurrent # e.key => v.mCurrent = w.mCurrent
       /\ w.mPausedStateMap \subseteq v.mPausedStateMap
  /\ v.pending.type = "onResourceLost" =>
       w.pending.type = "onResourceLost" \/ e.type = "Lost" \/ "Lost" \in PostTypes

(* cleanup releases the MediaTranscoder and leaves the rest alone. *)
LEMMA CleanedUp ==
  ASSUME NEW w \in W!WrapperStates
  PROVE  /\ W!cleanup(w) \in W!WrapperStates
         /\ W!cleanup(w).mQueue = w.mQueue /\ W!cleanup(w).posts = w.posts
         /\ W!cleanup(w).mPausedStateMap = w.mPausedStateMap
         /\ W!cleanup(w).pending = w.pending
         /\ W!cleanup(w).mCurrent = NoSession /\ W!cleanup(w).status = "none"
BY Zenon DEF W!cleanup, W!WrapperStates

(* reportError leaves its call pending. *)
IsReported(w, k, lost, v) ==
  /\ v \in W!WrapperStates
  /\ v.mQueue = w.mQueue /\ v.posts = w.posts
  /\ v.mCurrent = w.mCurrent /\ v.status = w.status
  /\ v.pending.key = k
  /\ v.pending.type = "onResourceLost" => lost
  /\ w.mPausedStateMap \subseteq v.mPausedStateMap

(* What reportError leaves of the wrapper. *)
LEMMA ReportedError ==
  ASSUME NEW w \in W!WrapperStates, NEW k \in Keys, NEW lost \in BOOLEAN
  PROVE  IsReported(w, k, lost, W!reportError(w, k, lost))
BY Zenon DEF W!reportError, W!call, W!WrapperStates, W!Callbacks, IsReported

(* setupTranscoder. *)
LEMMA SetUp ==
  ASSUME NEW w \in W!WrapperStates, NEW k \in Keys, NEW v \in W!SetupOutcomes(w, k)
  PROVE  /\ v \in W!WrapperStates /\ HasTranscoder(v)
         /\ v.mQueue = w.mQueue /\ v.posts = w.posts
         /\ w.mPausedStateMap \subseteq v.mPausedStateMap
         /\ v.pending.key = k \/ (v.mCurrent = k /\ v.pending = w.pending)
         /\ v.pending.type = "onResourceLost" =>
              w.pending.type = "onResourceLost" \/ "Lost" \in PostTypes
<1> DEFINE c == W!cleanup(w)
<1>1. /\ c \in W!WrapperStates /\ c.mQueue = w.mQueue /\ c.posts = w.posts
      /\ c.mPausedStateMap = w.mPausedStateMap
      /\ c.mCurrent = NoSession /\ c.status = "none"
  BY CleanedUp, Zenon
<1>2. CASE v = [w EXCEPT !.mCurrent = k, !.status = "running"]
  BY <1>2, KeysAssumption, Zenon DEF W!WrapperStates, HasTranscoder
<1>3. ASSUME NEW lost \in BOOLEAN, v = W!reportError(c, k, lost), lost => "Lost" \in PostTypes
      PROVE  /\ v \in W!WrapperStates /\ HasTranscoder(v)
             /\ v.mQueue = w.mQueue /\ v.posts = w.posts
             /\ w.mPausedStateMap \subseteq v.mPausedStateMap
             /\ v.pending.key = k
             /\ v.pending.type = "onResourceLost" => "Lost" \in PostTypes
  <2> HIDE DEF c
  <2>1. IsReported(c, k, lost, v)
    BY <1>1, <1>3, ReportedError, Zenon
  <2> QED
    BY <2>1, <1>1, <1>3, Zenon DEF HasTranscoder, IsReported
<1>4. \/ v = [w EXCEPT !.mCurrent = k, !.status = "running"]
      \/ \E lost \in BOOLEAN : v = W!reportError(c, k, lost) /\ (lost => "Lost" \in PostTypes)
  BY Zenon DEF W!SetupOutcomes
<1> QED
  BY <1>2, <1>3, <1>4, Zenon

(* What may happen while pause or cancel wait. *)
LEMMA StoppedEffect ==
  ASSUME NEW w \in W!WrapperStates, NEW v \in W!Stopped(w),
         w.mCurrent \in Keys
  PROVE  /\ v \in W!WrapperStates
         /\ v.mQueue = w.mQueue /\ v.mPausedStateMap = w.mPausedStateMap
         /\ v.pending = w.pending /\ v.mCurrent = w.mCurrent
         /\ \/ v.posts = w.posts
            \/ \E type \in PostTypes : v.posts = Append(w.posts, W!Event(type, w.mCurrent))
<1>1. CASE v = w
  BY <1>1, Zenon
<1>2. ASSUME NEW type \in PostTypes,
             v = [w EXCEPT !.posts = Append(@, W!Event(type, w.mCurrent))]
      PROVE  /\ v \in W!WrapperStates
             /\ v.mQueue = w.mQueue /\ v.mPausedStateMap = w.mPausedStateMap
             /\ v.pending = w.pending /\ v.mCurrent = w.mCurrent
             /\ v.posts = Append(w.posts, W!Event(type, w.mCurrent))
  <2>1. W!Event(type, w.mCurrent) \in [type : W!AllPostTypes, key : Keys]
    BY Zenon DEF W!Event, W!AllPostTypes, PostTypes
  <2>2. w.posts \in Seq([type : W!AllPostTypes, key : Keys])
    BY Zenon DEF W!WrapperStates
  <2>3. Append(w.posts, W!Event(type, w.mCurrent)) \in Seq([type : W!AllPostTypes, key : Keys])
    BY <2>1, <2>2
  <2> QED
    BY <1>2, <2>3, Zenon DEF W!WrapperStates
<1> QED
  BY <1>1, <1>2, Zenon DEF W!Stopped

(* threadLoop runs one event. *)
LEMMA HandledEffect ==
  ASSUME NEW w \in W!WrapperStates, HasTranscoder(w), NEW e \in W!QueuedEvents,
         NEW v \in W!Handled(w, e)
  PROVE  /\ v \in W!WrapperStates /\ HasTranscoder(v)
         /\ e.type # "Abandon" => Effect(w, e, v)
<1>1. CASE e.type = "Abandon"
  <2>1. v = [W!NewWrapper EXCEPT !.exited = TRUE]
    BY <1>1, Zenon DEF W!Handled
  <2>2. << >> \in Seq(W!QueuedEvents) /\ << >> \in Seq([type : W!AllPostTypes, key : Keys])
    OBVIOUS
  <2> QED
    BY <1>1, <2>1, <2>2, Zenon DEF W!NewWrapper, W!WrapperStates, HasTranscoder
<1>2. ASSUME e.type # "Abandon" PROVE e.key \in Keys /\ e.type \in W!EventTypes
  BY <1>2 DEF W!QueuedEvents
<1>3. CASE e.type = "Start"
  <2>1. v \in W!SetupOutcomes(w, e.key) /\ e.key \in Keys
    BY <1>2, <1>3, Zenon DEF W!Handled
  <2> QED
    BY <1>3, <2>1, SetUp DEF Effect, W!AllPostTypes
<1>4. CASE e.type = "Resume"
  <2> DEFINE r == [w EXCEPT !.mPausedStateMap = @ \ {e.key}]
             c == W!cleanup(w)
  <2>1. v \in W!handleResume(w, e.key) /\ e.key \in Keys
    BY <1>2, <1>4, Zenon DEF W!Handled
  <2>2. CASE e.key \in w.mPausedStateMap
    <3>1. v \in W!SetupOutcomes(r, e.key)
      BY <2>1, <2>2, Zenon DEF W!handleResume
    <3>2. /\ r \in W!WrapperStates /\ r.mQueue = w.mQueue /\ r.posts = w.posts
          /\ r.pending = w.pending /\ r.mPausedStateMap = w.mPausedStateMap \ {e.key}
          /\ HasTranscoder(r)
      BY Zenon DEF W!WrapperStates, HasTranscoder
    <3> HIDE DEF r
    <3>3. /\ v \in W!WrapperStates /\ HasTranscoder(v)
          /\ v.mQueue = r.mQueue /\ v.posts = r.posts
          /\ r.mPausedStateMap \subseteq v.mPausedStateMap
          /\ v.pending.key = e.key \/ (v.mCurrent = e.key /\ v.pending = r.pending)
          /\ v.pending.type = "onResourceLost" =>
               r.pending.type = "onResourceLost" \/ "Lost" \in PostTypes
      BY <2>1, <3>1, <3>2, SetUp, Zenon
    <3> QED
      BY <1>4, <3>2, <3>3, Zenon DEF Effect, W!AllPostTypes
  <2>3. CASE e.key \notin w.mPausedStateMap
    <3>1. v = W!reportError(c, e.key, FALSE)
      BY <2>1, <2>3, Zenon DEF W!handleResume
    <3>2. /\ c \in W!WrapperStates /\ c.mQueue = w.mQueue /\ c.posts = w.posts
          /\ c.mPausedStateMap = w.mPausedStateMap /\ HasTranscoder(c)
      BY Zenon DEF W!cleanup, W!WrapperStates, HasTranscoder
    <3> HIDE DEF c
    <3>3. IsReported(c, e.key, FALSE, v)
      BY <2>1, <3>1, <3>2, ReportedError, Zenon
    <3>4. HasTranscoder(v)
      BY <3>2, <3>3, Zenon DEF HasTranscoder, IsReported
    <3> QED
      BY <1>4, <3>2, <3>3, <3>4, Zenon DEF Effect, IsReported, W!AllPostTypes
  <2> QED
    BY <2>2, <2>3, Zenon
<1>5. CASE e.type = "Pause"
  <2>1. v \in W!handlePause(w, e.key) /\ e.key \in Keys
    BY <1>2, <1>5, Zenon DEF W!Handled
  <2>2. CASE w.mCurrent = NoSession \/ w.status = "failed"
    <3> DEFINE c == W!cleanup(w)
    <3>1. v = W!reportError(c, e.key, FALSE)
      BY <2>1, <2>2, Zenon DEF W!handlePause
    <3>2. /\ c \in W!WrapperStates /\ c.mQueue = w.mQueue /\ c.posts = w.posts
          /\ c.mPausedStateMap = w.mPausedStateMap /\ HasTranscoder(c)
      BY Zenon DEF W!cleanup, W!WrapperStates, HasTranscoder
    <3> HIDE DEF c
    <3>3. IsReported(c, e.key, FALSE, v)
      BY <2>1, <3>1, <3>2, ReportedError, Zenon
    <3>4. HasTranscoder(v)
      BY <3>2, <3>3, Zenon DEF HasTranscoder, IsReported
    <3> QED
      BY <1>5, <3>2, <3>3, <3>4, Zenon DEF Effect, IsReported, W!AllPostTypes
  <2>3. CASE ~(w.mCurrent = NoSession \/ w.status = "failed")
    <3>1. PICK s \in W!Stopped(w) : v = [W!cleanup(s) EXCEPT !.mPausedStateMap = @ \cup {e.key}]
      BY <2>1, <2>3, Zenon DEF W!handlePause
    <3>2. w.mCurrent \in Keys
      BY <2>3, Zenon DEF W!WrapperStates
    <3>3. /\ s \in W!WrapperStates /\ s.mQueue = w.mQueue
          /\ s.mPausedStateMap = w.mPausedStateMap /\ s.pending = w.pending
          /\ \/ s.posts = w.posts
             \/ \E type \in PostTypes : s.posts = Append(w.posts, W!Event(type, w.mCurrent))
      BY <3>2, StoppedEffect, Zenon
    <3>4. /\ v \in W!WrapperStates /\ v.mQueue = s.mQueue /\ v.posts = s.posts
          /\ v.mPausedStateMap = s.mPausedStateMap \cup {e.key} /\ v.pending = s.pending
          /\ HasTranscoder(v)
      BY <2>1, <3>1, <3>3, Zenon DEF W!cleanup, W!WrapperStates, HasTranscoder
    <3> QED
      BY <1>5, <3>2, <3>3, <3>4, Zenon DEF Effect, W!AllPostTypes
  <2> QED
    BY <2>2, <2>3, Zenon
<1>6. CASE e.type = "Stop"
  <2>1. v \in W!handleStop(w, e.key) /\ e.key \in Keys
    BY <1>2, <1>6, Zenon DEF W!Handled
  <2>2. CASE w.mCurrent = e.key
    <3>1. PICK s \in W!Stopped(w) : v = W!cleanup(s)
      BY <2>1, <2>2, Zenon DEF W!handleStop
    <3>2. /\ s \in W!WrapperStates /\ s.mQueue = w.mQueue
          /\ s.mPausedStateMap = w.mPausedStateMap /\ s.pending = w.pending
          /\ \/ s.posts = w.posts
             \/ \E type \in PostTypes : s.posts = Append(w.posts, W!Event(type, w.mCurrent))
      BY <2>1, <2>2, StoppedEffect, Zenon
    <3>3. /\ v \in W!WrapperStates /\ v.mQueue = s.mQueue /\ v.posts = s.posts
          /\ v.mPausedStateMap = s.mPausedStateMap /\ v.pending = s.pending
          /\ HasTranscoder(v)
      BY <3>1, <3>2, Zenon DEF W!cleanup, W!WrapperStates, HasTranscoder
    <3> QED
      BY <1>6, <2>1, <2>2, <3>2, <3>3, Zenon DEF Effect, W!AllPostTypes
  <2>3. CASE w.mCurrent # e.key
    <3>1. v = [w EXCEPT !.mPausedStateMap = @ \ {e.key}]
      BY <2>1, <2>3, Zenon DEF W!handleStop
    <3> QED
      BY <1>6, <3>1, Zenon DEF Effect, W!AllPostTypes, W!WrapperStates, HasTranscoder
  <2> QED
    BY <2>2, <2>3, Zenon
<1>7. CASE e.type \in W!AllPostTypes
  <2> DEFINE c == W!CleanupIfCurrent(w, e.key)
  <2>1. e.key \in Keys
    BY <1>2, <1>7, Zenon DEF W!AllPostTypes
  <2>2. /\ c \in W!WrapperStates /\ c.mQueue = w.mQueue /\ c.posts = w.posts
        /\ c.mPausedStateMap = w.mPausedStateMap /\ HasTranscoder(c)
        /\ w.mCurrent # e.key => c.mCurrent = w.mCurrent
    BY Zenon DEF W!CleanupIfCurrent, W!cleanup, W!WrapperStates, HasTranscoder
  <2>3. \/ e.type = "Finish" /\ v = W!call(c, "onFinish", e.key)
        \/ e.type = "Error" /\ v = W!reportError(c, e.key, FALSE)
        \/ e.type = "Lost" /\ v = W!reportError(c, e.key, TRUE)
    BY <1>7, Zenon DEF W!Handled, W!AllPostTypes
  <2> HIDE DEF c
  <2>4. /\ v \in W!WrapperStates
        /\ v.mQueue = c.mQueue /\ v.posts = c.posts
        /\ v.mCurrent = c.mCurrent /\ v.status = c.status
        /\ v.pending.key = e.key /\ c.mPausedStateMap \subseteq v.mPausedStateMap
        /\ v.pending.type = "onResourceLost" => e.type = "Lost"
    <3>1. CASE e.type = "Finish"
      BY <3>1, <2>1, <2>2, <2>3 DEF W!call, W!WrapperStates, W!Callbacks
    <3>2. CASE e.type = "Error"
      <4>1. v = W!reportError(c, e.key, FALSE)
        BY <3>2, <2>3, Zenon
      <4>2. IsReported(c, e.key, FALSE, v)
        BY <4>1, <2>1, <2>2, ReportedError, Zenon
      <4> QED
        BY <4>2, <3>2, Zenon DEF IsReported
    <3>3. CASE e.type = "Lost"
      <4>1. v = W!reportError(c, e.key, TRUE)
        BY <3>3, <2>3, Zenon
      <4>2. IsReported(c, e.key, TRUE, v)
        BY <4>1, <2>1, <2>2, ReportedError, Zenon
      <4> QED
        BY <4>2, <3>3, Zenon DEF IsReported
    <3> QED
      BY <1>7, <3>1, <3>2, <3>3, Zenon DEF W!AllPostTypes
  <2>5. HasTranscoder(v)
    BY <2>2, <2>4, Zenon DEF HasTranscoder
  <2> QED
    BY <1>7, <2>2, <2>4, <2>5, Zenon DEF Effect, W!AllPostTypes
<1> QED
  BY <1>1, <1>2, <1>3, <1>4, <1>5, <1>6, <1>7, Zenon DEF W!EventTypes

(* An event taken off the queue does what the wrapper owes the sessions, or     *)
(* leaves a call pending about the session it failed.                          *)
LEMMA EventRun ==
  ASSUME NEW w \in W!WrapperStates, w.pending = W!NoCall, w.mQueue # << >>,
         NEW e, e = Head(w.mQueue), e.type # "Abandon",
         NEW t, t = [w EXCEPT !.mQueue = Tail(@)],
         NEW v \in W!WrapperStates, Effect(t, e, v),
         NEW k \in Keys
  PROVE  /\ e # W!Event("Stop", k) /\ WillRun(w, k) => WillRun(v, k)
         /\ e # W!Event("Stop", k) /\ WillPause(w, k) => WillPause(v, k)
         /\ NoStop(w.mQueue, k) => NoStop(v.mQueue, k)
         /\ NoAbandon(w.mQueue) => NoAbandon(v.mQueue)
         /\ NoLoss(w) /\ "Lost" \notin PostTypes => NoLoss(v)
<1> DEFINE q == w.mQueue
           n == Len(q)
           r == Tail(q)
<1>1. /\ q \in Seq(W!QueuedEvents) /\ n \in Nat /\ n # 0
      /\ r \in Seq(W!QueuedEvents) /\ Len(r) = n - 1
      /\ \A i \in 1..Len(r) : r[i] = q[i + 1]
      /\ e = q[1] /\ e \in W!QueuedEvents
  BY DEF W!WrapperStates
<1>2. /\ e.key \in Keys /\ e.type \in W!EventTypes
      /\ \A type : e = W!Event(type, k) <=> e.type = type /\ e.key = k
  BY <1>1 DEF W!QueuedEvents, W!Event
<1>3. /\ t.mQueue = r /\ t.posts = w.posts /\ t.mCurrent = w.mCurrent
      /\ t.mPausedStateMap = w.mPausedStateMap /\ t.pending = w.pending
  BY Zenon DEF W!WrapperStates
<1>4. Effect(t, e, v)
  OBVIOUS
<1>5. w.posts \in Seq([type : W!AllPostTypes, key : Keys])
  BY Zenon DEF W!WrapperStates
<1> HIDE DEF q, n, r
<1>6. /\ v.mQueue = r
      /\ Len(v.posts) \in Nat /\ Len(w.posts) \in Nat /\ Len(w.posts) <= Len(v.posts)
      /\ \A i \in 1..Len(w.posts) : i \in 1..Len(v.posts) /\ v.posts[i] = w.posts[i]
      /\ \A i \in 1..Len(v.posts) : i \notin 1..Len(w.posts) => v.posts[i].type \in PostTypes
  <2> DEFINE p == w.posts
             p2 == v.posts
             m == Len(p)
  <2>1. v.mQueue = r /\ m \in Nat
    <3>1. v.mQueue = t.mQueue
      BY <1>4, Zenon DEF Effect
    <3> QED
      BY <3>1, <1>3, <1>5
  <2>2. ASSUME p2 = p
        PROVE  /\ Len(p2) \in Nat /\ m <= Len(p2)
               /\ \A i \in 1..m : i \in 1..Len(p2) /\ p2[i] = p[i]
               /\ \A i \in 1..Len(p2) : i \notin 1..m => p2[i].type \in PostTypes
    <3>1. Len(p2) = m
      BY <2>2, Zenon
    <3> HIDE DEF p, p2, m
    <3> QED
      BY <3>1, <2>1, <2>2
  <2>3. ASSUME NEW type \in PostTypes, p2 = Append(p, W!Event(type, w.mCurrent))
        PROVE  /\ Len(p2) \in Nat /\ m <= Len(p2)
               /\ \A i \in 1..m : i \in 1..Len(p2) /\ p2[i] = p[i]
               /\ \A i \in 1..Len(p2) : i \notin 1..m => p2[i].type \in PostTypes
    <3>1. /\ Len(p2) = m + 1 /\ p2[m + 1] = W!Event(type, w.mCurrent)
          /\ \A i \in 1..m : p2[i] = p[i]
      BY <2>3, <1>5
    <3>2. p2[m + 1].type = type
      BY <3>1 DEF W!Event
    <3> HIDE DEF p, p2, m
    <3>3. \A i \in 1..Len(p2) : i \notin 1..m => i = m + 1
      BY <3>1, <2>1
    <3> QED
      BY <3>1, <3>2, <3>3, <2>1
  <2> QED
    BY <2>1, <2>2, <2>3, <1>3, <1>4, Zenon DEF Effect
<1>7. \A i \in 1..n : i = 1 \/ (i - 1 \in 1..Len(r) /\ r[i - 1] = q[i])
  BY <1>1
<1>8. ASSUME Reports(w, k) PROVE Reports(v, k)
  <2>1. w.pending.key # k
    BY KeysAssumption DEF W!NoCall
  <2>2. ASSUME NEW i \in 1..n, q[i].key = k, q[i].type \in W!AllPostTypes PROVE Reports(v, k)
    <3>1. CASE i = 1
      BY <3>1, <2>2, <1>1, <1>4, Zenon DEF Effect, Reports
    <3>2. CASE i # 1
      BY <3>2, <2>2, <1>6, <1>7, Zenon DEF Reports
    <3> QED
      BY <3>1, <3>2, Zenon
  <2>3. ASSUME NEW i \in 1..Len(w.posts), w.posts[i].key = k PROVE Reports(v, k)
    BY <2>3, <1>6, Zenon DEF Reports
  <2> QED
    BY <2>1, <2>2, <2>3, <1>8, Zenon DEF Reports, q, n
<1>9. ASSUME e # W!Event("Stop", k), WillRun(w, k) PROVE WillRun(v, k)
  <2>1. ASSUME NEW i \in 1..n, q[i].key = k, q[i].type \in {"Start", "Resume"},
               \A j \in (i + 1)..n : q[j].type \notin Ctl
        PROVE  WillRun(v, k)
    <3>1. CASE i = 1
      <4>1. \A j \in 1..Len(r) : j + 1 \in (i + 1)..n
        BY <3>1, <1>1
      <4>2. NoCtl(r)
        BY <4>1, <2>1, <1>1, Zenon DEF NoCtl
      <4>3. v.pending.key = k \/ v.mCurrent = k
        BY <3>1, <2>1, <1>1, <1>4, Zenon DEF Effect
      <4> QED
        BY <4>2, <4>3, <1>6, Zenon DEF WillRun, Reports
    <3>2. CASE i # 1
      <4>1. i - 1 \in 1..Len(r) /\ r[i - 1] = q[i]
        BY <3>2, <1>7, Zenon
      <4>2. \A j \in (i - 1 + 1)..Len(r) : j + 1 \in (i + 1)..n /\ j \in 1..Len(r)
        BY <1>1
      <4>3. RunsLast(r, k)
        BY <4>1, <4>2, <2>1, <1>1, Zenon DEF RunsLast
      <4> QED
        BY <4>3, <1>6, Zenon DEF WillRun
    <3> QED
      BY <3>1, <3>2, Zenon
  <2>2. CASE w.mCurrent = k /\ NoCtl(q)
    <3>1. NoCtl(r)
      <4>1. \A j \in 1..Len(r) : j + 1 \in 1..n
        BY <1>1
      <4> QED
        BY <4>1, <2>2, <1>1, Zenon DEF NoCtl, n
    <3>2. e.type \notin Ctl
      BY <2>2, <1>1 DEF NoCtl, n
    <3>3. CASE e.type = "Stop"
      <4>1. e.key # k
        BY <3>3, <1>2, <1>9, Zenon
      <4>2. v.mCurrent = k
        BY <3>3, <4>1, <2>2, <1>3, <1>4, Zenon DEF Effect
      <4> QED
        BY <4>2, <3>1, <1>6, Zenon DEF WillRun
    <3>4. CASE e.type \in W!AllPostTypes
      <4>1. v.pending.key = k \/ v.mCurrent = k
        BY <3>4, <2>2, <1>3, <1>4, Zenon DEF Effect
      <4> QED
        BY <4>1, <3>1, <1>6, Zenon DEF WillRun, Reports
    <3> QED
      BY <3>2, <3>3, <3>4, <1>2, Zenon DEF W!EventTypes, Ctl
  <2> QED
    BY <2>1, <2>2, <1>8, <1>9, Zenon DEF WillRun, RunsLast, Reports, q, n
<1>10. ASSUME e # W!Event("Stop", k), WillPause(w, k) PROVE WillPause(v, k)
  <2>1. ASSUME NEW i \in 1..n, NoRunAfter(q, i, k) PROVE NoRunAfter(r, i - 1, k)
    <3>1. \A j \in (i - 1 + 1)..Len(r) : j + 1 \in (i + 1)..n /\ j \in 1..Len(r)
      BY <1>1
    <3> QED
      BY <3>1, <2>1, <1>1, Zenon DEF NoRunAfter, n
  <2>2. ASSUME NEW i \in 1..n, q[i] = W!Event("Pause", k), NoRunAfter(q, i, k)
        PROVE  WillPause(v, k)
    <3>1. NoRunAfter(r, i - 1, k)
      BY <2>1, <2>2, Zenon
    <3>2. CASE i = 1
      <4>1. e.type = "Pause" /\ e.key = k /\ i - 1 = 0
        BY <3>2, <2>2, <1>1, <1>2
      <4>2. v.pending.key = k \/ k \in v.mPausedStateMap
        BY <4>1, <1>4, Zenon DEF Effect
      <4> QED
        BY <3>1, <4>1, <4>2, <1>6, Zenon DEF WillPause, Reports
    <3>3. CASE i # 1
      BY <3>1, <3>3, <2>2, <1>6, <1>7, Zenon DEF WillPause
    <3> QED
      BY <3>2, <3>3, Zenon
  <2>3. CASE k \in w.mPausedStateMap /\ NoRunAfter(q, 0, k)
    <3>1. NoRunAfter(r, 0, k)
      <4>1. \A j \in (0 + 1)..Len(r) : j + 1 \in (0 + 1)..n /\ j \in 1..Len(r)
        BY <1>1
      <4> QED
        BY <4>1, <2>3, <1>1, Zenon DEF NoRunAfter, n
    <3>2. ~(e.key = k /\ e.type \in {"Start", "Resume"})
      <4>1. 1 \in (0 + 1)..n
        BY <1>1
      <4> QED
        BY <4>1, <2>3, <1>1, Zenon DEF NoRunAfter, n
    <3>3. ~(e.key = k /\ e.type = "Stop")
      BY <1>2, <1>10, Zenon
    <3>4. k \in v.mPausedStateMap
      BY <3>2, <3>3, <2>3, <1>2, <1>3, <1>4, Zenon DEF Effect, W!EventTypes
    <3> QED
      BY <3>1, <3>4, <1>6, Zenon DEF WillPause
  <2> QED
    BY <2>2, <2>3, <1>8, <1>10, Zenon DEF WillPause, q, n
<1>11. \A j \in 1..Len(r) : j + 1 \in 1..n /\ r[j] = q[j + 1]
  BY <1>1
<1>12. /\ NoStop(q, k) => NoStop(r, k)
       /\ NoAbandon(q) => NoAbandon(r)
  BY <1>11, Zenon DEF NoStop, NoAbandon, n
<1>13. ASSUME NoLoss(w), "Lost" \notin PostTypes PROVE NoLoss(v)
  <2>1. e.type # "Lost" /\ w.pending.type # "onResourceLost"
    <3>1. 1 \in 1..n
      BY <1>1
    <3>2. q[1].type # "Lost"
      BY <3>1, <1>13, Zenon DEF NoLoss, q, n
    <3> QED
      BY <3>2, <1>1, <1>13, Zenon DEF NoLoss
  <2>2. v.pending.type # "onResourceLost"
    BY <2>1, <1>3, <1>4, <1>13, Zenon DEF Effect
  <2>3. \A i \in 1..Len(r) : r[i].type # "Lost"
    BY <1>11, <1>13, Zenon DEF NoLoss, q, n
  <2>4. \A i \in 1..Len(v.posts) : v.posts[i].type # "Lost"
    BY <1>6, <1>13, Zenon DEF NoLoss
  <2> QED
    BY <2>2, <2>3, <2>4, <1>6, Zenon DEF NoLoss
<1> QED
  BY <1>6, <1>9, <1>10, <1>12, <1>13, Zenon DEF q

(* Without takes one callback out of those under way. *)
LEMMA PostsWithout ==
  ASSUME NEW S, NEW p \in Seq(S), NEW i \in 1..Len(p)
  PROVE  /\ W!Without(p, i) \in Seq(S)
         /\ \A j \in 1..Len(p) : j # i =>
              \E h \in 1..Len(W!Without(p, i)) : W!Without(p, i)[h] = p[j]
         /\ \A h \in 1..Len(W!Without(p, i)) :
              \E j \in 1..Len(p) : W!Without(p, i)[h] = p[j]
<1> DEFINE a == SubSeq(p, 1, i - 1)
           b == SubSeq(p, i + 1, Len(p))
           n == Len(p)
<1>1. W!Without(p, i) = a \o b
  BY Zenon DEF W!Without
<1>2. /\ n \in Nat /\ i \in Nat /\ 1 <= i /\ i <= n
      /\ a \in Seq(S) /\ b \in Seq(S) /\ Len(a) = i - 1 /\ Len(b) = n - i
      /\ \A j \in 1..(i - 1) : a[j] = p[j]
      /\ \A j \in 1..(n - i) : b[j] = p[i + j]
  OBVIOUS
<1> HIDE DEF a, b, n
<1>3. /\ a \o b \in Seq(S) /\ Len(a \o b) = n - 1
      /\ \A j \in 1..(i - 1) : (a \o b)[j] = p[j]
      /\ \A j \in i..(n - 1) : (a \o b)[j] = p[j + 1]
  <2>1. Len(a \o b) = n - 1 /\ a \o b \in Seq(S)
    <3>1. a \in Seq(S) /\ b \in Seq(S)
      BY <1>2, Zenon
    <3>2. Len(a \o b) = Len(a) + Len(b)
      BY <3>1
    <3>3. a \o b \in Seq(S)
      BY <3>1
    <3>4. i - 1 + (n - i) = n - 1
      BY <1>2
    <3> QED
      BY <3>2, <3>3, <3>4, <1>2, Zenon
  <2>2. ASSUME NEW j \in 1..(i - 1) PROVE (a \o b)[j] = a[j]
    <3>1. j \in 1..Len(a)
      BY <1>2, Zenon
    <3> QED
      BY <3>1, <1>2
  <2>3. ASSUME NEW j \in i..(n - 1) PROVE (a \o b)[j] = p[j + 1]
    <3>1. (a \o b)[j] = b[j - Len(a)]
      BY <1>2
    <3>2. j - Len(a) = j - i + 1 /\ j - i + 1 \in 1..(n - i) /\ i + (j - i + 1) = j + 1
      BY <1>2
    <3> QED
      BY <3>1, <3>2, <1>2, Zenon
  <2> QED
    BY <2>1, <2>2, <2>3, <1>2, Zenon
<1>4. ASSUME NEW j \in 1..n, j # i PROVE \E h \in 1..(n - 1) : (a \o b)[h] = p[j]
  <2>1. CASE j < i
    <3>1. j \in 1..(n - 1) /\ j \in 1..(i - 1)
      BY <2>1, <1>2
    <3> QED
      BY <3>1, <1>3, Zenon
  <2>2. CASE j > i
    <3>1. j - 1 \in 1..(n - 1) /\ j - 1 \in i..(n - 1) /\ j - 1 + 1 = j
      BY <2>2, <1>2
    <3> QED
      BY <3>1, <1>3, Zenon
  <2> QED
    BY <2>1, <2>2, <1>2, <1>4
<1>5. ASSUME NEW h \in 1..(n - 1) PROVE \E j \in 1..n : (a \o b)[h] = p[j]
  <2>1. CASE h < i
    <3>1. h \in 1..n /\ h \in 1..(i - 1)
      BY <2>1, <1>2
    <3> QED
      BY <3>1, <1>3, Zenon
  <2>2. CASE h >= i
    <3>1. h + 1 \in 1..n /\ h \in i..(n - 1)
      BY <2>2, <1>2
    <3> QED
      BY <3>1, <1>3, Zenon
  <2> QED
    BY <2>1, <2>2, <1>2
<1> QED
  BY <1>1, <1>3, <1>4, <1>5 DEF n

(* A callback of a MediaTranscoder joins the queue. *)
LEMMA CallbackQueued ==
  ASSUME NEW w \in W!WrapperStates, NEW i \in 1..Len(w.posts), NEW k \in Keys,
         NEW u, u = [w EXCEPT !.posts = W!Without(w.posts, i)],
         NEW v, v = W!queueEvent(u, w.posts[i])
  PROVE  /\ v \in W!WrapperStates /\ (HasTranscoder(w) => HasTranscoder(v))
         /\ WillRun(w, k) => WillRun(v, k)
         /\ WillPause(w, k) => WillPause(v, k)
         /\ NoStop(w.mQueue, k) => NoStop(v.mQueue, k)
         /\ NoAbandon(w.mQueue) => NoAbandon(v.mQueue)
         /\ NoLoss(w) => NoLoss(v)
<1> DEFINE p == w.posts
           e == p[i]
           r == W!Without(p, i)
           Posted == [type : W!AllPostTypes, key : Keys]
<1>1. p \in Seq(Posted) /\ e \in Posted
  <2>1. p \in Seq(Posted)
    BY Zenon DEF W!WrapperStates
  <2> HIDE DEF Posted
  <2> QED
    BY <2>1
<1>2. /\ r \in Seq(Posted)
      /\ \A j \in 1..Len(p) : j # i => \E h \in 1..Len(r) : r[h] = p[j]
      /\ \A h \in 1..Len(r) : \E j \in 1..Len(p) : r[h] = p[j]
  BY <1>1, PostsWithout, Zenon
<1>3. e \in W!QueuedEvents /\ e.type \in W!AllPostTypes
  BY <1>1, Zenon DEF W!QueuedEvents, W!EventTypes
<1>4. e.type \notin Ctl /\ e.type \notin {"Start", "Resume", "Stop", "Abandon"} /\ e # W!Event("Stop", k)
  BY <1>3 DEF W!AllPostTypes, Ctl, W!Event
<1>5. /\ u \in W!WrapperStates /\ u.mQueue = w.mQueue /\ u.posts = r /\ u.pending = w.pending
      /\ u.mCurrent = w.mCurrent /\ u.mPausedStateMap = w.mPausedStateMap /\ u.status = w.status
  BY <1>2, Zenon DEF W!WrapperStates
<1>6. /\ v.mQueue = Append(u.mQueue, e) /\ v.posts = u.posts /\ v.pending = u.pending
      /\ v.mCurrent = u.mCurrent /\ v.mPausedStateMap = u.mPausedStateMap /\ v.status = u.status
  BY <1>5, Zenon DEF W!queueEvent, W!WrapperStates
<1>7. v = W!queueEvent(u, e)
  OBVIOUS
<1> HIDE DEF p, e, r, Posted
<1>8. /\ v \in W!WrapperStates
      /\ WillRun(u, k) => WillRun(v, k)
      /\ WillPause(u, k) => WillPause(v, k)
      /\ NoStop(u.mQueue, k) => NoStop(v.mQueue, k)
      /\ NoAbandon(u.mQueue) => NoAbandon(v.mQueue)
      /\ NoLoss(u) /\ e.type # "Lost" => NoLoss(v)
  BY <1>3, <1>4, <1>5, <1>7, EventQueued, Zenon
<1>9. w.posts = p /\ w.mQueue \in Seq(W!QueuedEvents)
  BY Zenon DEF p, W!WrapperStates
<1>10. ASSUME Reports(w, k) PROVE Reports(u, k) \/ e.key = k
  <2>1. ASSUME NEW j \in 1..Len(p), p[j].key = k PROVE Reports(u, k) \/ e.key = k
    <3>1. CASE j = i
      BY <3>1, <2>1, Zenon DEF e
    <3>2. CASE j # i
      <4>1. PICK h \in 1..Len(r) : r[h] = p[j]
        BY <3>2, <1>2, Zenon
      <4> QED
        BY <4>1, <2>1, <1>5, Zenon DEF Reports
    <3> QED
      BY <3>1, <3>2, Zenon
  <2>2. \/ w.pending.key = k
        \/ \E j \in 1..Len(w.mQueue) : w.mQueue[j].key = k /\ w.mQueue[j].type \in W!AllPostTypes
        \/ \E j \in 1..Len(p) : p[j].key = k
    BY <1>9, <1>10, Zenon DEF Reports
  <2> QED
    BY <2>1, <2>2, <1>5, Zenon DEF Reports
<1>11. ASSUME e.key = k PROVE Reports(v, k)
  <2>1. Len(v.mQueue) \in 1..Len(v.mQueue) /\ v.mQueue[Len(v.mQueue)] = e
    BY <1>5, <1>6, <1>9
  <2> QED
    BY <2>1, <1>3, <1>11, Zenon DEF Reports
<1>12. WillRun(w, k) => WillRun(v, k)
  BY <1>5, <1>8, <1>10, <1>11, Zenon DEF WillRun
<1>13. WillPause(w, k) => WillPause(v, k)
  BY <1>5, <1>8, <1>10, <1>11, Zenon DEF WillPause
<1>14. ASSUME NoLoss(w) PROVE NoLoss(v)
  <2>1. e.type # "Lost"
    BY <1>9, <1>14, Zenon DEF NoLoss, e
  <2>2. \A h \in 1..Len(r) : r[h].type # "Lost"
    BY <1>2, <1>9, <1>14 DEF NoLoss
  <2>3. NoLoss(u)
    BY <2>2, <1>5, <1>14, Zenon DEF NoLoss
  <2> QED
    BY <2>1, <2>3, <1>8, Zenon
<1>15. HasTranscoder(w) => HasTranscoder(v)
  BY <1>5, <1>6, Zenon DEF HasTranscoder
<1> QED
  BY <1>5, <1>8, <1>12, <1>13, <1>14, <1>15, Zenon

-----------------------------------------------------------------------------
(* The steps of the wrappers                                               *)

(* One wrapper changes. *)
LEMMA WrapperReplaced ==
  ASSUME WrapperTypes, NEW g \in 1..cur, NEW v \in W!WrapperStates, HasTranscoder(v),
         wrappers' = [wrappers EXCEPT ![g] = v]
  PROVE  /\ WrapperTypes' /\ cur' = cur
         /\ wrappers[g] \in W!WrapperStates /\ HasTranscoder(wrappers[g])
         /\ Wrapper' = IF g = cur THEN v ELSE Wrapper
         /\ Wrapper \in W!WrapperStates
<1>1. /\ wrappers \in Seq(W!WrapperStates) /\ cur \in Nat /\ cur \in 1..cur
      /\ \A h \in 1..cur : wrappers[h] \in W!WrapperStates /\ HasTranscoder(wrappers[h])
  BY DEF WrapperTypes, cur
<1>2. /\ wrappers' \in Seq(W!WrapperStates) /\ cur' = cur
      /\ \A h \in 1..cur : wrappers'[h] = IF h = g THEN v ELSE wrappers[h]
  BY <1>1 DEF cur
<1>3. \A h \in 1..cur : HasTranscoder(wrappers'[h])
  BY <1>1, <1>2, Zenon
<1>4. WrapperTypes'
  BY <1>1, <1>2, <1>3, Zenon DEF WrapperTypes, HasTranscoder
<1>5. Wrapper' = IF g = cur THEN v ELSE Wrapper
  BY <1>1, <1>2, Zenon DEF Wrapper
<1> QED
  BY <1>1, <1>2, <1>4, <1>5, Zenon DEF Wrapper

(* The runnables, the MediaTranscoders and their callbacks leave the           *)
(* controller alone, and what the current wrapper owes a session it owes it    *)
(* afterwards.                                                                 *)
Owes(w, v) ==
  \A k \in Keys :
    /\ NoStop(w.mQueue, k) /\ WillRun(w, k) => WillRun(v, k)
    /\ NoStop(w.mQueue, k) /\ WillPause(w, k) => WillPause(v, k)
    /\ NoStop(w.mQueue, k) => NoStop(v.mQueue, k)
KeepsCalls(w, v) ==
  /\ Owes(w, v)
  /\ NoAbandon(w.mQueue) => NoAbandon(v.mQueue)
  /\ NoLoss(w) /\ "resource" \notin Events => NoLoss(v)

(* threadLoop. *)
LEMMA ThreadLoopKeeps ==
  ASSUME WrapperTypes, NEW g \in 1..cur, W!threadLoop(g)
  PROVE  \E v \in W!WrapperStates :
           /\ wrappers' = [wrappers EXCEPT ![g] = v] /\ HasTranscoder(v)
           /\ NoAbandon(wrappers[g].mQueue) => KeepsCalls(wrappers[g], v)
<1> DEFINE w == wrappers[g]
           t == [w EXCEPT !.mQueue = Tail(@)]
           e == Head(w.mQueue)
<1>1. w \in W!WrapperStates /\ HasTranscoder(w)
  BY DEF WrapperTypes, cur
<1>2. w.pending = W!NoCall /\ w.mQueue # << >>
  BY Zenon DEF W!threadLoop
<1>3. PICK v \in W!Handled(t, e) : wrappers' = [wrappers EXCEPT ![g] = v]
  BY Zenon DEF W!threadLoop
<1>4. /\ w.mQueue \in Seq(W!QueuedEvents) /\ Tail(w.mQueue) \in Seq(W!QueuedEvents)
      /\ e \in W!QueuedEvents /\ e = w.mQueue[1] /\ 1 \in 1..Len(w.mQueue)
  BY <1>1, <1>2 DEF W!WrapperStates
<1>5. t \in W!WrapperStates /\ HasTranscoder(t)
  BY <1>1, <1>4, Zenon DEF W!WrapperStates, HasTranscoder
<1> HIDE DEF w
<1>6. /\ v \in W!WrapperStates /\ HasTranscoder(v)
      /\ e.type # "Abandon" => Effect(t, e, v)
  <2> HIDE DEF t, e
  <2> QED
    BY <1>3, <1>4, <1>5, HandledEffect, Zenon
<1>7. ASSUME NoAbandon(w.mQueue) PROVE KeepsCalls(w, v)
  <2>1. e.type # "Abandon"
    BY <1>4, <1>7, Zenon DEF NoAbandon
  <2>2. t = [w EXCEPT !.mQueue = Tail(@)] /\ e = Head(w.mQueue) /\ Effect(t, e, v)
    BY <2>1, <1>6, Zenon
  <2>3. \A k \in Keys : NoStop(w.mQueue, k) => e # W!Event("Stop", k)
    BY <1>4, Zenon DEF NoStop
  <2>4. "resource" \notin Events => "Lost" \notin PostTypes
    BY Zenon DEF PostTypes
  <2> HIDE DEF t, e
  <2>5. ASSUME NEW k \in Keys
        PROVE  /\ e # W!Event("Stop", k) /\ WillRun(w, k) => WillRun(v, k)
               /\ e # W!Event("Stop", k) /\ WillPause(w, k) => WillPause(v, k)
               /\ NoStop(w.mQueue, k) => NoStop(v.mQueue, k)
    BY <2>1, <2>2, <1>1, <1>2, <1>6, EventRun
  <2>6. /\ NoAbandon(w.mQueue) => NoAbandon(v.mQueue)
        /\ NoLoss(w) /\ "Lost" \notin PostTypes => NoLoss(v)
    <3>1. e.key \in Keys
      BY <2>1, <1>4 DEF W!QueuedEvents
    <3> QED
      BY <3>1, <2>1, <2>2, <1>1, <1>2, <1>6, EventRun
  <2> QED
    BY <2>3, <2>4, <2>5, <2>6, Zenon DEF KeepsCalls, Owes
<1> QED
  BY <1>3, <1>6, <1>7, Zenon DEF w

(* The callback of a MediaTranscoder. *)
LEMMA CallbackArrivesKeeps ==
  ASSUME WrapperTypes, NEW g \in 1..cur, W!callbackArrives(g)
  PROVE  \E v \in W!WrapperStates :
           /\ wrappers' = [wrappers EXCEPT ![g] = v] /\ HasTranscoder(v)
           /\ KeepsCalls(wrappers[g], v)
<1> DEFINE w == wrappers[g]
<1>1. w \in W!WrapperStates /\ HasTranscoder(w)
  BY DEF WrapperTypes, cur
<1>2. PICK i \in 1..Len(w.posts) :
        wrappers' = [wrappers EXCEPT ![g] =
                       W!queueEvent([w EXCEPT !.posts = W!Without(w.posts, i)], w.posts[i])]
  BY Zenon DEF W!callbackArrives
<1> DEFINE u == [w EXCEPT !.posts = W!Without(w.posts, i)]
           v == W!queueEvent(u, w.posts[i])
<1>3. wrappers' = [wrappers EXCEPT ![g] = v]
  BY <1>2, Zenon
<1>4. w.posts[i].key \in Keys
  <2> DEFINE Posted == [type : W!AllPostTypes, key : Keys]
  <2>1. w.posts \in Seq(Posted)
    BY <1>1, Zenon DEF W!WrapperStates
  <2>2. w.posts[i] \in Posted
    <3> HIDE DEF Posted
    <3> QED
      BY <2>1
  <2> QED
    BY <2>2, Zenon
<1>5. ASSUME NEW k \in Keys
      PROVE  /\ v \in W!WrapperStates /\ HasTranscoder(v)
             /\ WillRun(w, k) => WillRun(v, k)
             /\ WillPause(w, k) => WillPause(v, k)
             /\ NoStop(w.mQueue, k) => NoStop(v.mQueue, k)
             /\ NoAbandon(w.mQueue) => NoAbandon(v.mQueue)
             /\ NoLoss(w) => NoLoss(v)
  <2>1. u = [w EXCEPT !.posts = W!Without(w.posts, i)] /\ v = W!queueEvent(u, w.posts[i])
    OBVIOUS
  <2> HIDE DEF w, u, v
  <2> QED
    BY <2>1, <1>1, CallbackQueued
<1> HIDE DEF w, u, v
<1>6. /\ v \in W!WrapperStates /\ HasTranscoder(v)
      /\ NoAbandon(w.mQueue) => NoAbandon(v.mQueue)
      /\ NoLoss(w) => NoLoss(v)
  BY <1>4, <1>5, Zenon
<1>7. KeepsCalls(w, v)
  BY <1>5, <1>6, Zenon DEF KeepsCalls, Owes
<1> QED
  BY <1>3, <1>6, <1>7, Zenon DEF w

(* A MediaTranscoder ends. *)
LEMMA TranscoderEndsKeeps ==
  ASSUME WrapperTypes, NEW g \in 1..cur, NEW type \in PostTypes, W!transcoderEnds(g, type)
  PROVE  \E v \in W!WrapperStates :
           /\ wrappers' = [wrappers EXCEPT ![g] = v] /\ HasTranscoder(v)
           /\ KeepsCalls(wrappers[g], v)
<1> DEFINE w == wrappers[g]
           e == W!Event(type, w.mCurrent)
           s == IF type = "Finish" THEN "finished" ELSE "failed"
           p == Append(w.posts, e)
           v == [w EXCEPT !.status = s, !.posts = p]
           Posted == [type : W!AllPostTypes, key : Keys]
<1>1. w \in W!WrapperStates /\ HasTranscoder(w) /\ w.status = "running"
  BY DEF WrapperTypes, cur, W!transcoderEnds
<1>2. wrappers \in Seq(W!WrapperStates) /\ wrappers' = [wrappers EXCEPT ![g] = v]
  BY <1>1, Zenon DEF WrapperTypes, cur, W!transcoderEnds, W!WrapperStates
<1>3. w.mCurrent \in Keys
  BY <1>1, Zenon DEF HasTranscoder, W!WrapperStates
<1>4. w.posts \in Seq(Posted) /\ e \in Posted /\ e.type = type
  BY <1>1, <1>3, Zenon DEF W!WrapperStates, W!Event, PostTypes, W!AllPostTypes
<1>5. /\ p \in Seq(Posted) /\ Len(w.posts) \in Nat /\ Len(p) = Len(w.posts) + 1
      /\ \A i \in 1..Len(w.posts) : p[i] = w.posts[i]
      /\ p[Len(p)] = e
  <2> HIDE DEF Posted, e
  <2> QED
    BY <1>4
<1>6. /\ v \in W!WrapperStates /\ v.mQueue = w.mQueue /\ v.posts = p /\ v.pending = w.pending
      /\ v.mCurrent = w.mCurrent /\ v.mPausedStateMap = w.mPausedStateMap /\ v.status # "none"
  <2>1. s \in {"none", "running", "finished", "failed"} /\ s # "none"
    OBVIOUS
  <2> HIDE DEF p, s
  <2> QED
    BY <2>1, <1>1, <1>5, Zenon DEF W!WrapperStates
<1> HIDE DEF w, e, s, p, v, Posted
<1>7. HasTranscoder(v)
  BY <1>3, <1>6, KeysAssumption, Zenon DEF HasTranscoder
<1>8. \A i \in 1..Len(p) : i \in 1..Len(w.posts) \/ i = Len(p)
  BY <1>5
<1>9. \A i \in 1..Len(w.posts) : i \in 1..Len(p)
  BY <1>5
<1>10. \A k \in Keys : Reports(w, k) => Reports(v, k)
  BY <1>5, <1>6, <1>9, Zenon DEF Reports
<1>11. Owes(w, v)
  BY <1>6, <1>10, Zenon DEF Owes, WillRun, WillPause
<1>12. ASSUME NoLoss(w), "resource" \notin Events PROVE NoLoss(v)
  <2>1. e.type # "Lost"
    BY <1>4, <1>12, Zenon DEF PostTypes
  <2> QED
    BY <2>1, <1>5, <1>6, <1>8, <1>12, Zenon DEF NoLoss
<1>13. KeepsCalls(w, v)
  BY <1>6, <1>11, <1>12, Zenon DEF KeepsCalls
<1> QED
  BY <1>2, <1>6, <1>7, <1>13, Zenon DEF w

(* What the wrappers do between two calls of the controller. *)
LEMMA WrapperStepInv ==
  ASSUME IInv, WrapperTypes, CallInv, NEW g \in 1..cur, wrapperStep(g)
  PROVE  /\ WrapperTypes' /\ CallInv'
         /\ "resource" \notin Events /\ PauseInv => PauseInv'
<1>1. PICK v \in W!WrapperStates :
        /\ wrappers' = [wrappers EXCEPT ![g] = v] /\ HasTranscoder(v)
        /\ NoAbandon(wrappers[g].mQueue) => KeepsCalls(wrappers[g], v)
  BY ThreadLoopKeeps, CallbackArrivesKeeps, TranscoderEndsKeeps, Zenon DEF wrapperStep
<1>2. /\ WrapperTypes' /\ cur' = cur
      /\ Wrapper' = IF g = cur THEN v ELSE Wrapper
  BY <1>1, WrapperReplaced, Zenon
<1>3. /\ live' = live
      /\ \A k : State(k)' = State(k)
      /\ live \subseteq Keys
  BY Zenon DEF wrapperStep, vars, live, State, IInv, SessionTypes
<1>4. CASE g = cur
  <2>1. Wrapper' = v /\ KeepsCalls(Wrapper, v)
    BY <1>1, <1>2, <1>4, Zenon DEF Wrapper, CallInv
  <2>2. CallInv'
    BY <2>1, <1>3, Zenon DEF CallInv, KeepsCalls, Owes
  <2>3. "resource" \notin Events /\ PauseInv => PauseInv'
    BY <2>1, <1>2, <1>3, Zenon DEF PauseInv, CallInv, KeepsCalls, Owes
  <2> QED
    BY <2>2, <2>3, <1>2, Zenon
<1>5. CASE g # cur
  <2>1. Wrapper' = Wrapper
    BY <1>2, <1>5, Zenon
  <2> QED
    BY <2>1, <1>2, <1>3, Zenon DEF CallInv, PauseInv
<1> QED
  BY <1>4, <1>5, Zenon

(* The controller hears of the session: it is no longer RUNNING, and unless it *)
(* lost its resource it is gone or never started.                              *)
LEMMA CallbackHeard ==
  ASSUME IInv, FrontUidIsServed, ~locked, NEW c,
         Callback(c) \/ (Ignored(c) /\ UNCHANGED vars)
  PROVE  /\ live' \subseteq live
         /\ c.key \in live' => State(c.key)' # "RUNNING"
         /\ c.key \in live' /\ c.type # "onResourceLost" => State(c.key)' # "PAUSED"
         /\ \A k \in live' : k # c.key => State(k)' = State(k)
         /\ "resource" \notin Events /\ c.key \in live' => State(c.key)' = State(c.key)
<1>1. /\ mSessionMap \in [live -> SessionRecords] /\ live \subseteq Keys
      /\ \A j \in live : mSessionMap[j].allClientUids = UidsOf(j)
  BY Zenon DEF IInv, SessionTypes, UidsOf
<1>2. ASSUME notifiable(c.key), sessionEnds(c.key)
      PROVE  live' = live \ {c.key} /\ \A k \in live' : State(k)' = State(k)
  <2>1. c.key \in live /\ removeSession_l(mSessionMap, c.key)
    BY <1>2, Zenon DEF notifiable, sessionEnds
  <2>2. live' = live \ {c.key} /\ \A k \in live' : mSessionMap'[k] = mSessionMap[k]
    BY <1>1, <2>1, SessionRemoved, Zenon
  <2> QED
    BY <2>2, Zenon DEF State
<1>3. CASE c.type \in {"onFinish", "onError"} /\ Callback(c)
  BY <1>2, <1>3, Zenon DEF Callback, onFinish, onError
<1>4. CASE c.type = "onResourceLost" /\ onResourceLost(c.key)
  <2>1. /\ live' = live /\ c.key \in live /\ "resource" \in Events
        /\ \A j \in live : State(j)' = IF j = c.key THEN "PAUSED" ELSE State(j)
    BY <1>1, <1>4, Zenon DEF onResourceLost, notifiable, live, State, SessionRecords
  <2> QED
    BY <1>4, <2>1, Zenon
<1>5. CASE Ignored(c) /\ UNCHANGED vars
  <2>1. live' = live /\ \A j : State(j)' = State(j)
    BY <1>5, Zenon DEF vars, live, State
  <2>2. CASE ~notifiable(c.key)
    BY <2>1, <2>2, Zenon DEF notifiable
  <2>3. CASE c.type = "onResourceLost" /\ (mResourceLost \/ State(c.key) # "RUNNING")
    BY <2>1, <2>3, Zenon DEF FrontUidIsServed
  <2> QED
    BY <1>5, <2>2, <2>3, Zenon DEF Ignored
<1> QED
  BY <1>3, <1>4, <1>5, Zenon DEF Callback

(* A pending call is made: its session is not RUNNING afterwards, and the      *)
(* wrapper owes the others what it owed them.                                  *)
LEMMA WrapperCallsInv ==
  ASSUME IInv, FrontUidIsServed, WrapperTypes, CallInv, NEW g \in 1..cur, wrapperCalls(g)
  PROVE  /\ WrapperTypes' /\ CallInv'
         /\ "resource" \notin Events /\ PauseInv => PauseInv'
<1>0. PICK w : w = wrappers[g]
  OBVIOUS
<1> DEFINE c == w.pending
           v == [w EXCEPT !.pending = W!NoCall]
<1>1. /\ ~locked
      /\ Callback(c) \/ (Ignored(c) /\ UNCHANGED vars)
      /\ W!callMade(g) /\ c # W!NoCall
  BY <1>0, Zenon DEF wrapperCalls
<1>2. wrappers \in Seq(W!WrapperStates) /\ w \in W!WrapperStates /\ HasTranscoder(w)
  BY <1>0 DEF WrapperTypes, cur
<1>3. /\ wrappers' = [wrappers EXCEPT ![g] = v]
      /\ v \in W!WrapperStates /\ HasTranscoder(v)
      /\ v.mQueue = w.mQueue /\ v.posts = w.posts /\ v.mCurrent = w.mCurrent
      /\ v.mPausedStateMap = w.mPausedStateMap /\ v.pending = W!NoCall
  BY <1>0, <1>1, <1>2, Zenon DEF W!callMade, W!WrapperStates, HasTranscoder
<1>4. /\ WrapperTypes' /\ cur' = cur
      /\ Wrapper' = IF g = cur THEN v ELSE Wrapper
  BY <1>3, WrapperReplaced, Zenon
<1>5. /\ live' \subseteq live /\ live \subseteq Keys
      /\ c.key \in live' => State(c.key)' # "RUNNING"
      /\ c.key \in live' /\ c.type # "onResourceLost" => State(c.key)' # "PAUSED"
      /\ \A k \in live' : k # c.key => State(k)' = State(k)
      /\ "resource" \notin Events /\ c.key \in live' => State(c.key)' = State(c.key)
  BY <1>1, CallbackHeard, Zenon DEF IInv, SessionTypes
<1> HIDE DEF c, v
<1>6. ASSUME NEW k \in Keys, k # c.key
      PROVE  /\ WillRun(w, k) => WillRun(v, k)
             /\ WillPause(w, k) => WillPause(v, k)
  BY <1>3, <1>6, Zenon DEF WillRun, WillPause, Reports, c
<1>7. CASE g = cur
  <2>1. Wrapper = w /\ Wrapper' = v
    BY <1>0, <1>4, <1>7, Zenon DEF Wrapper
  <2>2. CallInv'
    <3>1. NoAbandon(v.mQueue)
      BY <2>1, <1>3, Zenon DEF CallInv
    <3>2. ASSUME NEW k \in live'
          PROVE  NoStop(v.mQueue, k) /\ (State(k)' = "RUNNING" => WillRun(v, k))
      BY <2>1, <3>2, <1>3, <1>5, <1>6, Zenon DEF CallInv
    <3> QED
      BY <2>1, <3>1, <3>2, Zenon DEF CallInv
  <2>3. ASSUME "resource" \notin Events, PauseInv PROVE PauseInv'
    <3>1. NoLoss(w) /\ c.type # "onResourceLost"
      BY <2>1, <2>3, Zenon DEF PauseInv, NoLoss, c
    <3>2. NoLoss(v)
      BY <3>1, <1>3 DEF NoLoss, W!NoCall
    <3>3. ASSUME NEW k \in live', State(k)' = "PAUSED" PROVE WillPause(v, k)
      <4>1. k # c.key
        BY <3>1, <3>3, <1>5, Zenon
      <4>2. State(k) = "PAUSED" /\ k \in live /\ k \in Keys
        BY <4>1, <3>3, <1>5, Zenon
      <4> QED
        BY <4>1, <4>2, <2>1, <2>3, <1>6, Zenon DEF PauseInv
    <3> QED
      BY <2>1, <2>3, <3>2, <3>3, <1>4, <1>5, Zenon DEF PauseInv
  <2> QED
    BY <2>2, <2>3, <1>4, Zenon
<1>8. CASE g # cur
  <2>1. Wrapper' = Wrapper
    BY <1>4, <1>8, Zenon
  <2>2. CallInv'
    BY <2>1, <1>5, Zenon DEF CallInv
  <2>3. ASSUME "resource" \notin Events, PauseInv PROVE PauseInv'
    <3>1. \A k \in live' : State(k)' = State(k)
      BY <1>5, <2>3, Zenon
    <3> QED
      BY <2>1, <2>3, <3>1, <1>4, <1>5, Zenon DEF PauseInv
  <2> QED
    BY <2>2, <2>3, <1>4, Zenon
<1> QED
  BY <1>7, <1>8, Zenon

-----------------------------------------------------------------------------
(* The steps of the controller                                             *)

(* What a step of the controller does to the states of the sessions, by the    *)
(* calls it makes.                                                             *)
StatesKept == \A k \in live' : State(k)' = State(k)
PausedState(k) == IF State(k) = "RUNNING" THEN "PAUSED" ELSE State(k)

callsNothing ==
  /\ calls' = << >>
  /\ \A k \in live' : IF k \in live THEN State(k)' = State(k) ELSE State(k)' = "NOT_STARTED"
callsStop(k) == calls' = <<<<"stop", k>>>> /\ live' = live \ {k} /\ StatesKept
callsPause ==
  /\ calls' = CallPause /\ live' \subseteq live
  /\ \A k \in live' : State(k)' = PausedState(k)
callsRun(op, top) ==
  /\ calls' = Append(CallPause, <<op, top>>)
  /\ top \in live /\ State(top) # "RUNNING" /\ live' = live
  /\ \A k \in live : State(k)' = IF k = top THEN "RUNNING" ELSE PausedState(k)
callsAbandon(k) ==
  /\ onWatchdogTimeout(k)
  /\ calls' = <<<<"abandon", k>>>> /\ live' = live \ {k} /\ StatesKept

(* The holder of mLock and the watchdog add no session. *)
AddsNoSession == live' \subseteq live

(* The handlers that leave the sessions and the transcoder alone. *)
LEMMA StatesUnchanged ==
  ASSUME UNCHANGED mSessionMap, calls' = << >>
  PROVE  callsNothing /\ AddsNoSession
BY Zenon DEF callsNothing, AddsNoSession, live, State

(* The entries of the clients and of the policies make no call. *)
LEMMA EntryCalls ==
  ASSUME IInv, ClientStep \/ PolicyStep
  PROVE  callsNothing
<1>1. ASSUME NEW k \in Keys, NEW u \in AllUids, submit(k, u) PROVE callsNothing
  <2>1. /\ live' = live \cup {k} /\ calls' = << >>
        /\ \A j \in live' : mSessionMap'[j] =
             IF j = k THEN [state |-> "NOT_STARTED", allClientUids |-> {u}, paced |-> {}]
             ELSE mSessionMap[j]
    BY <1>1, Zenon DEF submit, noCalls, live
  <2>2. k \notin live
    BY <1>1, Zenon DEF submit, unusedKey
  <2> QED
    BY <2>1, <2>2 DEF callsNothing, State
<1>2. ASSUME NEW k \in Keys, NEW u \in Uids, addClientUid(k, u) PROVE callsNothing
  <2>1. /\ calls' = << >> /\ k \in live
        /\ mSessionMap' = [mSessionMap EXCEPT ![k].allClientUids = @ \cup {u}]
    BY <1>2, Zenon DEF addClientUid, noCalls
  <2>2. live' = live /\ \A j \in live : mSessionMap'[j].state = mSessionMap[j].state
    BY <2>1, Zenon DEF IInv, SessionTypes, SessionRecords, live
  <2> QED
    BY <2>1, <2>2, Zenon DEF callsNothing, State
<1>3. ASSUME NEW k \in Keys, cancel(k) \/ cancelAll(ClientOf[k]) PROVE callsNothing
  BY <1>3, StatesUnchanged, Zenon DEF cancel, cancelAll, untouched, noCalls
<1>4. ASSUME PolicyStep PROVE callsNothing
  BY <1>4, StatesUnchanged, Zenon DEF PolicyStep, onTopUidsChanged, onUidGone,
     onResourceAvailable, onThrottling, uidStateChanged, untouched, noCalls
<1> QED
  BY <1>1, <1>2, <1>3, <1>4, Zenon DEF ClientStep

(* The watchdog abandons the transcoder or does nothing to it. *)
LEMMA WatchdogCalls ==
  ASSUME IInv, WatchdogStep
  PROVE  AddsNoSession /\ (callsNothing \/ \E k \in Keys : callsAbandon(k))
<1>1. ASSUME watchdogWait \/ watchdogExpires \/ \E k \in Keys : onStaleWatchdogTimeout(k)
      PROVE  callsNothing /\ AddsNoSession
  BY <1>1, StatesUnchanged, Zenon DEF watchdogWait, watchdogExpires,
     onStaleWatchdogTimeout, noCalls
<1>2. ASSUME NEW k \in Keys, onWatchdogTimeout(k) PROVE AddsNoSession /\ callsAbandon(k)
  <2>1. k \in live /\ removeSession_l(mSessionMap, k) /\ calls' = <<<<"abandon", k>>>>
    BY <1>2, Zenon DEF onWatchdogTimeout, notifiable
  <2>2. /\ mSessionMap \in [live -> SessionRecords]
        /\ \A j \in live : mSessionMap[j].allClientUids = UidsOf(j)
    BY Zenon DEF IInv, SessionTypes, UidsOf
  <2>3. live' = live \ {k} /\ \A j \in live' : mSessionMap'[j] = mSessionMap[j]
    BY <2>1, <2>2, SessionRemoved, Zenon
  <2> QED
    BY <1>2, <2>1, <2>3, Zenon DEF AddsNoSession, callsAbandon, StatesKept, State
<1> QED
  BY <1>1, <1>2, Zenon DEF WatchdogStep

(* The loops under mLock stop the sessions they drop, pause the current one    *)
(* and run the top one.                                                        *)
LEMMA LockedCalls ==
  ASSUME IInv, LockedStep
  PROVE  /\ AddsNoSession
         /\ \/ callsNothing \/ callsPause
            \/ \E k \in live : callsStop(k)
            \/ \E top \in live, op \in {"start", "resume"} : callsRun(op, top)
<1>1. /\ mSessionMap \in [live -> SessionRecords] /\ live \subseteq Keys
      /\ \A j \in live : mSessionMap[j].allClientUids = UidsOf(j)
  BY Zenon DEF IInv, SessionTypes, UidsOf
<1>2. /\ MapPaused \in [live -> SessionRecords]
      /\ \A j \in live : /\ MapPaused[j].allClientUids = UidsOf(j)
                         /\ MapPaused[j].state = PausedState(j)
  BY PausedFacts, Zenon DEF PausedState
<1>3. ASSUME NEW k \in Keys, dropNext(k)
      PROVE  AddsNoSession /\ (callsNothing \/ \E j \in live : callsStop(j))
  <2>1. /\ k \in live /\ removeSession_l(mSessionMap, k)
        /\ calls' = IF State(k) # "NOT_STARTED" THEN <<<<"stop", k>>>> ELSE << >>
    BY <1>3, Zenon DEF dropNext, First, IInv, JobInv
  <2>2. live' = live \ {k} /\ \A j \in live' : mSessionMap'[j] = mSessionMap[j]
    BY <1>1, <2>1, SessionRemoved, Zenon
  <2>3. AddsNoSession /\ StatesKept
    BY <2>2, Zenon DEF AddsNoSession, StatesKept, State
  <2>4. CASE State(k) # "NOT_STARTED"
    BY <2>1, <2>2, <2>3, <2>4, Zenon DEF callsStop
  <2>5. CASE State(k) = "NOT_STARTED"
    BY <2>1, <2>2, <2>3, <2>5, Zenon DEF callsNothing, StatesKept, AddsNoSession
  <2> QED
    BY <2>3, <2>4, <2>5, Zenon
<1>4. ASSUME NEW k \in Keys, stripNext(k) PROVE AddsNoSession /\ callsNothing
  <2>1. /\ calls' = << >> /\ k \in live
        /\ mSessionMap' = [mSessionMap EXCEPT ![k].allClientUids = @ \cap job.keep]
    BY <1>4, Zenon DEF stripNext, stripSession_l, First, noCalls, IInv, JobInv
  <2>2. live' = live /\ \A j \in live : mSessionMap'[j].state = mSessionMap[j].state
    BY <1>1, <2>1, Zenon DEF SessionRecords, live
  <2> QED
    BY <2>1, <2>2, Zenon DEF AddsNoSession, callsNothing, State
<1>5. ASSUME NEW top, updateDone(top) PROVE AddsNoSession /\ callsNothing
  BY <1>5, StatesUnchanged, Zenon DEF updateDone, untouched, noCalls
<1>6. ASSUME updateNothingToRun PROVE AddsNoSession /\ callsPause
  <2>1. mSessionMap' = MapPaused /\ calls' = CallPause
    BY <1>6, Zenon DEF updateNothingToRun
  <2>2. live' = live
    BY <1>2, <2>1, Zenon DEF live
  <2> QED
    BY <1>2, <2>1, <2>2, Zenon DEF AddsNoSession, callsPause, State
<1>7. ASSUME NEW top, updateDropByPacer(top) PROVE AddsNoSession /\ callsPause
  <2>1. top \in live /\ removeSession_l(MapPaused, top) /\ calls' = CallPause
    BY <1>7, TopSessionIsLive, Zenon DEF updateDropByPacer, updating
  <2>2. live' = live \ {top} /\ \A j \in live' : mSessionMap'[j] = MapPaused[j]
    BY <1>2, <2>1, SessionRemoved, Zenon
  <2> QED
    BY <1>2, <2>1, <2>2, Zenon DEF AddsNoSession, callsPause, State
<1>8. ASSUME NEW top, updateStart(top)
      PROVE  AddsNoSession /\ top \in live /\ callsRun("start", top)
  <2> DEFINE noted == {u \in UidsOf(top) : /\ isSubjectToQuota(u, CallingUid[top])
                                           /\ StartAllowed(mUidHistoryMap, u, CallingUid[top])}
  <2>1. /\ top \in live /\ calls' = Append(CallPause, <<"start", top>>)
        /\ State(top) # "RUNNING"
        /\ mSessionMap' = [MapPaused EXCEPT ![top].state = "RUNNING", ![top].paced = noted]
    BY <1>8, TopSessionIsLive, Zenon DEF updateStart, updating
  <2> HIDE DEF noted
  <2>2. /\ live' = live
        /\ \A j \in live : mSessionMap'[j].state = IF j = top THEN "RUNNING" ELSE MapPaused[j].state
    BY <1>2, <2>1, Zenon DEF SessionRecords, live
  <2> QED
    BY <1>2, <2>1, <2>2, Zenon DEF AddsNoSession, callsRun, State
<1>9. ASSUME NEW top, updateResume(top)
      PROVE  AddsNoSession /\ top \in live /\ callsRun("resume", top)
  <2>1. /\ top \in live /\ calls' = Append(CallPause, <<"resume", top>>)
        /\ State(top) # "RUNNING"
        /\ mSessionMap' = [MapPaused EXCEPT ![top].state = "RUNNING"]
    BY <1>9, TopSessionIsLive, Zenon DEF updateResume, updating
  <2>2. /\ live' = live
        /\ \A j \in live : mSessionMap'[j].state = IF j = top THEN "RUNNING" ELSE MapPaused[j].state
    BY <1>2, <2>1, Zenon DEF SessionRecords, live
  <2> QED
    BY <1>2, <2>1, <2>2, Zenon DEF AddsNoSession, callsRun, State
<1> QED
  BY <1>3, <1>4, <1>5, <1>6, <1>7, <1>8, <1>9, Zenon DEF LockedStep

(* mTranscoder->pause(mCurrentSession), if it is RUNNING: afterwards every      *)
(* session that was RUNNING or PAUSED is one the wrapper will pause.           *)
LEMMA PauseQueued ==
  ASSUME IInv, WrapperTypes, NEW w, w = Wrapper, NEW p, p = AllQueued(w, CallPause)
  PROVE  /\ p \in W!WrapperStates /\ HasTranscoder(p)
         /\ \A k \in Keys :
              /\ WillPause(w, k) => WillPause(p, k)
              /\ k \in live /\ State(k) = "RUNNING" => WillPause(p, k)
              /\ NoStop(w.mQueue, k) => NoStop(p.mQueue, k)
         /\ NoAbandon(w.mQueue) => NoAbandon(p.mQueue)
         /\ NoLoss(w) => NoLoss(p)
         /\ \A op, k :
              AllQueued(w, Append(CallPause, <<op, k>>)) = Queued(p, <<op, k>>)
         /\ \A op, k : op # "abandon" => ~Abandons(Append(CallPause, <<op, k>>))
         /\ ~Abandons(CallPause)
<1>1. w \in W!WrapperStates /\ HasTranscoder(w)
  <2>1. cur \in 1..cur
    BY DEF WrapperTypes, cur
  <2> QED
    BY <2>1 DEF WrapperTypes, Wrapper, cur
<1>2. CASE curRunning
  <2> DEFINE m == mCurrentSession
             e == W!Event("Pause", m)
  <2>1. CallPause = <<<<"pause", m>>>> /\ m \in Keys
    BY <1>2, Zenon DEF CallPause, curRunning, IInv, SessionTypes
  <2>2. p = W!queueEvent(w, e)
    BY <2>1 DEF AllQueued, Queued, W!pause
  <2>3. e \in W!QueuedEvents /\ e.key = m /\ e.type = "Pause"
    BY <2>1, Zenon DEF W!Event, W!QueuedEvents, W!EventTypes
  <2>4. \A k \in live : State(k) = "RUNNING" => k = m
    BY Zenon DEF IInv, OnlyCurrentRuns
  <2>5. \A k : e # W!Event("Stop", k)
    BY <2>3, Zenon DEF W!Event
  <2>6. /\ \A op, k : AllQueued(w, Append(CallPause, <<op, k>>)) = Queued(p, <<op, k>>)
        /\ \A op, k : op # "abandon" => ~Abandons(Append(CallPause, <<op, k>>))
        /\ ~Abandons(CallPause)
    <3>1. <<<<"pause", m>>>> \in Seq({<<"pause", m>>})
      OBVIOUS
    <3>2. ASSUME NEW op, NEW k
          PROVE  /\ Len(Append(CallPause, <<op, k>>)) = 2
                 /\ Append(CallPause, <<op, k>>)[1] = <<"pause", m>>
                 /\ Append(CallPause, <<op, k>>)[2] = <<op, k>>
      BY <2>1, <3>1
    <3>3. p = Queued(w, <<"pause", m>>)
      BY <2>1 DEF AllQueued
    <3> QED
      BY <2>1, <3>2, <3>3 DEF AllQueued, Abandons
  <2> HIDE DEF m, e
  <2>7. ASSUME NEW k \in Keys
        PROVE  /\ p \in W!WrapperStates /\ HasTranscoder(p)
               /\ WillPause(w, k) => WillPause(p, k)
               /\ e = W!Event("Pause", k) => WillPause(p, k)
               /\ NoStop(w.mQueue, k) => NoStop(p.mQueue, k)
               /\ NoAbandon(w.mQueue) => NoAbandon(p.mQueue)
               /\ NoLoss(w) => NoLoss(p)
    BY <1>1, <2>2, <2>3, <2>5, EventQueued, Zenon
  <2>8. \A k \in Keys : k \in live /\ State(k) = "RUNNING" => WillPause(p, k)
    BY <2>4, <2>7, Zenon DEF e
  <2> QED
    BY <2>1, <2>6, <2>7, <2>8, Zenon
<1>3. CASE ~curRunning
  <2>1. CallPause = << >> /\ p = w
    BY <1>3 DEF CallPause, AllQueued
  <2>2. \A k \in live : State(k) # "RUNNING"
    BY <1>3, KeysAssumption, Zenon DEF IInv, OnlyCurrentRuns, SessionTypes, curRunning
  <2>3. \A op, k : Append(CallPause, <<op, k>>) = <<<<op, k>>>>
    BY <2>1
  <2>4. /\ \A op, k : AllQueued(w, Append(CallPause, <<op, k>>)) = Queued(p, <<op, k>>)
        /\ \A op, k : op # "abandon" => ~Abandons(Append(CallPause, <<op, k>>))
        /\ ~Abandons(CallPause)
    BY <2>1, <2>3 DEF AllQueued, Abandons
  <2> QED
    BY <1>1, <2>1, <2>2, <2>4, Zenon
<1> QED
  BY <1>2, <1>3, Zenon

(* A timeout is reported for a session that is no longer RUNNING: the          *)
(* transcoder it abandons may be working on another session.                   *)
StaleAbandon == \E k \in Keys : onWatchdogTimeout(k) /\ State(k) # "RUNNING"

(* A step of the controller queues its calls: the wrapper owes each session    *)
(* what the controller's new state says.                                       *)
LEMMA ControllerStepInv ==
  ASSUME IInv, WrapperTypes, CallInv, ControllerStep, ~StaleAbandon
  PROVE  /\ WrapperTypes' /\ CallInv'
         /\ PauseInv /\ (\A k \in Keys : ~onWatchdogTimeout(k)) => PauseInv'
<1>0. PICK w : w = Wrapper
  OBVIOUS
<1>1. /\ cur \in 1..cur /\ wrappers \in Seq(W!WrapperStates) /\ cur \in Nat
      /\ w \in W!WrapperStates /\ HasTranscoder(w) /\ live \subseteq Keys
  <2>1. cur \in 1..cur /\ cur \in Nat
    BY DEF WrapperTypes, cur
  <2> QED
    BY <1>0, <2>1 DEF WrapperTypes, Wrapper, cur, IInv, SessionTypes
<1>2. /\ \/ callsNothing \/ callsPause
         \/ \E k \in live : callsStop(k)
         \/ \E top \in live, op \in {"start", "resume"} : callsRun(op, top)
         \/ \E k \in Keys : callsAbandon(k)
      /\ \A k \in live' \ live : k \in Keys => NoStop(w.mQueue, k)
  <2>1. ASSUME NEW k \in Keys, ~Mentions(w, k) PROVE NoStop(w.mQueue, k)
    BY <2>1 DEF Mentions, NoStop, W!Event
  <2>2. CASE ClientStep \/ PolicyStep
    <3>1. callsNothing
      BY <2>2, EntryCalls, Zenon
    <3>2. \A k \in live' \ live : ~Mentions(wrappers[cur], k)
      <4>1. CASE \A k \in live' \ live, g \in 1..cur : ~Mentions(wrappers[g], k)
        BY <4>1, <1>1, Zenon
      <4>2. CASE WatchdogStep \/ LockedStep \/ \E u \in AllUids : burstThresholdPasses(u)
        <5>1. live' \subseteq live
          BY <4>2, WatchdogCalls, LockedCalls, StatesUnchanged, Zenon DEF AddsNoSession,
             burstThresholdPasses, noCalls
        <5> QED
          BY <5>1, Zenon
      <4> QED
        BY <4>1, <4>2, Zenon DEF ControllerStep
    <3> QED
      BY <1>0, <2>1, <3>1, <3>2, Zenon DEF Wrapper
  <2>3. CASE WatchdogStep
    BY <2>3, WatchdogCalls, Zenon DEF AddsNoSession
  <2>4. CASE LockedStep
    BY <2>4, LockedCalls, Zenon DEF AddsNoSession
  <2>5. CASE \E u \in AllUids : burstThresholdPasses(u)
    BY <2>5, StatesUnchanged, Zenon DEF AddsNoSession, burstThresholdPasses, noCalls
  <2> QED
    BY <2>2, <2>3, <2>4, <2>5, Zenon DEF ControllerStep
<1>3. callsQueued
  BY Zenon DEF ControllerStep
<1>4. ASSUME NEW v \in W!WrapperStates, HasTranscoder(v), ~Abandons(calls'),
             v = AllQueued(w, calls')
      PROVE  WrapperTypes' /\ Wrapper' = v
  <2>1. wrappers' = [wrappers EXCEPT ![cur] = v]
    BY <1>0, <1>1, <1>3, <1>4, Zenon DEF callsQueued, Wrapper
  <2> QED
    BY <1>1, <1>4, <2>1, WrapperReplaced, Zenon
<1>5. live' \subseteq Keys
  <2>1. [Next]_vars
    BY Zenon DEF ControllerStep, Next
  <2>2. IInv'
    BY <2>1, NextInv, Zenon
  <2> QED
    BY <2>2, Zenon DEF IInv, SessionTypes
<1>6. CASE callsNothing
  <2>1. w = AllQueued(w, calls') /\ ~Abandons(calls')
    BY <1>6 DEF callsNothing, AllQueued, Abandons
  <2>2. WrapperTypes' /\ Wrapper' = w
    BY <1>1, <1>4, <2>1, Zenon
  <2>3. CallInv'
    BY <1>0, <1>2, <1>5, <1>6, <2>2, Zenon DEF CallInv, callsNothing
  <2>4. PauseInv => PauseInv'
    BY <1>0, <1>6, <2>2, Zenon DEF PauseInv, callsNothing
  <2> QED
    BY <2>2, <2>3, <2>4, Zenon
<1>7. ASSUME NEW k \in live, callsStop(k)
      PROVE  WrapperTypes' /\ CallInv' /\ (PauseInv => PauseInv')
  <2>1. PICK e : e = W!Event("Stop", k)
    OBVIOUS
  <2>2. PICK v : v = W!queueEvent(w, e)
    OBVIOUS
  <2>3. v = AllQueued(w, calls') /\ ~Abandons(calls')
    BY <1>7, <2>1, <2>2 DEF callsStop, AllQueued, Abandons, Queued, W!stop
  <2>4. /\ k \in Keys /\ e \in W!QueuedEvents /\ e.type = "Stop" /\ e.key = k
        /\ \A j : j # k => e # W!Event("Stop", j)
    BY <1>1, <2>1, Zenon DEF W!Event, W!QueuedEvents, W!EventTypes
  <2>5. ASSUME NEW j \in Keys
        PROVE  /\ v \in W!WrapperStates /\ HasTranscoder(v)
               /\ WillRun(w, j) => WillRun(v, j)
               /\ WillPause(w, j) => WillPause(v, j)
               /\ NoStop(w.mQueue, j) /\ j # k => NoStop(v.mQueue, j)
               /\ NoAbandon(w.mQueue) => NoAbandon(v.mQueue)
               /\ NoLoss(w) => NoLoss(v)
    <3>1. e.type \notin Ctl
      BY <2>4, Zenon DEF Ctl
    <3> QED
      BY <1>1, <2>2, <2>4, <3>1, EventQueued, Zenon
  <2>6. WrapperTypes' /\ Wrapper' = v
    BY <1>4, <2>3, <2>4, <2>5, Zenon
  <2>7. \A j \in live' : j \in live /\ j # k /\ State(j)' = State(j)
    BY <1>7, Zenon DEF callsStop, StatesKept
  <2>8. CallInv'
    BY <1>0, <1>1, <2>4, <2>5, <2>6, <2>7, Zenon DEF CallInv
  <2>9. PauseInv => PauseInv'
    BY <1>0, <1>1, <2>4, <2>5, <2>6, <2>7, Zenon DEF PauseInv
  <2> QED
    BY <2>6, <2>8, <2>9, Zenon
<1>8. PICK p : p = AllQueued(w, CallPause)
  OBVIOUS
<1>9. /\ p \in W!WrapperStates /\ HasTranscoder(p)
      /\ \A k \in Keys :
           /\ WillPause(w, k) => WillPause(p, k)
           /\ k \in live /\ State(k) = "RUNNING" => WillPause(p, k)
           /\ NoStop(w.mQueue, k) => NoStop(p.mQueue, k)
      /\ NoAbandon(w.mQueue) => NoAbandon(p.mQueue)
      /\ NoLoss(w) => NoLoss(p)
      /\ \A op, k : AllQueued(w, Append(CallPause, <<op, k>>)) = Queued(p, <<op, k>>)
      /\ \A op, k : op # "abandon" => ~Abandons(Append(CallPause, <<op, k>>))
      /\ ~Abandons(CallPause)
  BY <1>0, <1>8, PauseQueued
<1>10. CASE callsPause
  <2>1. p = AllQueued(w, calls') /\ ~Abandons(calls')
    BY <1>8, <1>9, <1>10, Zenon DEF callsPause
  <2>2. WrapperTypes' /\ Wrapper' = p
    BY <1>4, <1>9, <2>1, Zenon
  <2>3. /\ live' \subseteq live
        /\ \A k \in live' : State(k)' = IF State(k) = "RUNNING" THEN "PAUSED" ELSE State(k)
    BY <1>10, Zenon DEF callsPause, PausedState
  <2>4. CallInv'
    BY <1>0, <1>1, <1>9, <2>2, <2>3, Zenon DEF CallInv
  <2>5. PauseInv => PauseInv'
    BY <1>0, <1>1, <1>9, <2>2, <2>3, Zenon DEF PauseInv
  <2> QED
    BY <2>2, <2>4, <2>5, Zenon
<1>11. ASSUME NEW top \in live, NEW op \in {"start", "resume"}, callsRun(op, top)
       PROVE  WrapperTypes' /\ CallInv' /\ (PauseInv => PauseInv')
  <2>1. PICK e : e = W!Event(IF op = "start" THEN "Start" ELSE "Resume", top)
    OBVIOUS
  <2>2. PICK v : v = W!queueEvent(p, e)
    OBVIOUS
  <2>3. v = AllQueued(w, calls') /\ ~Abandons(calls')
    <3>1. v = Queued(p, <<op, top>>)
      BY <2>1, <2>2, Zenon DEF Queued, W!start, W!resume
    <3> QED
      BY <1>9, <1>11, <3>1, Zenon DEF callsRun
  <2>4. /\ top \in Keys /\ e \in W!QueuedEvents /\ e.type \in {"Start", "Resume"} /\ e.key = top
        /\ \A j : e # W!Event("Stop", j)
    BY <1>1, <2>1, Zenon DEF W!Event, W!QueuedEvents, W!EventTypes
  <2>5. ASSUME NEW j \in Keys
        PROVE  /\ v \in W!WrapperStates /\ HasTranscoder(v)
               /\ j = top => WillRun(v, j)
               /\ WillPause(p, j) /\ j # top => WillPause(v, j)
               /\ NoStop(p.mQueue, j) => NoStop(v.mQueue, j)
               /\ NoAbandon(p.mQueue) => NoAbandon(v.mQueue)
               /\ NoLoss(p) => NoLoss(v)
    BY <1>9, <2>2, <2>4, EventQueued, Zenon
  <2>6. WrapperTypes' /\ Wrapper' = v
    BY <1>4, <2>3, <2>4, <2>5, Zenon
  <2>7. /\ live' = live
        /\ \A j \in live : State(j)' = IF j = top THEN "RUNNING"
                                       ELSE IF State(j) = "RUNNING" THEN "PAUSED" ELSE State(j)
    BY <1>11, Zenon DEF callsRun, PausedState
  <2>8. CallInv'
    <3>1. NoAbandon(v.mQueue)
      BY <1>0, <1>9, <2>4, <2>5, Zenon DEF CallInv
    <3>2. ASSUME NEW j \in live PROVE NoStop(v.mQueue, j) /\ (State(j)' = "RUNNING" => WillRun(v, j))
      BY <1>0, <1>1, <1>9, <2>5, <2>7, <3>2, Zenon DEF CallInv
    <3> QED
      BY <2>6, <2>7, <3>1, <3>2, Zenon DEF CallInv
  <2>9. ASSUME PauseInv PROVE PauseInv'
    <3>1. NoLoss(v)
      BY <1>0, <1>9, <2>4, <2>5, <2>9, Zenon DEF PauseInv
    <3>2. ASSUME NEW j \in live, State(j)' = "PAUSED" PROVE WillPause(v, j)
      <4>1. j # top /\ (State(j) = "RUNNING" \/ State(j) = "PAUSED")
        BY <2>7, <3>2, Zenon
      <4>2. WillPause(p, j)
        BY <1>0, <1>1, <1>9, <2>9, <4>1, Zenon DEF PauseInv
      <4> QED
        BY <1>1, <2>5, <4>1, <4>2, Zenon
    <3> QED
      BY <2>6, <2>7, <3>1, <3>2, Zenon DEF PauseInv
  <2> QED
    BY <2>6, <2>8, <2>9, Zenon
<1>12. ASSUME NEW k \in Keys, callsAbandon(k)
       PROVE  WrapperTypes' /\ CallInv'
  <2>1. PICK s : s = W!queueEvent(w, W!Event("Stop", k))
    OBVIOUS
  <2>2. PICK a : a = W!queueEvent(s, W!Event("Abandon", NoSession))
    OBVIOUS
  <2>3. a = AllQueued(w, calls') /\ Abandons(calls')
    BY <1>12, <2>1, <2>2 DEF callsAbandon, AllQueued, Abandons, Queued, W!abandon, W!stop
  <2>4. /\ W!Event("Stop", k) \in W!QueuedEvents
        /\ W!Event("Abandon", NoSession) \in W!QueuedEvents
    BY Zenon DEF W!Event, W!QueuedEvents, W!EventTypes
  <2>5. s \in W!WrapperStates /\ HasTranscoder(s)
    BY <1>1, <2>1, <2>4, EventQueued, Zenon
  <2>6. a \in W!WrapperStates /\ HasTranscoder(a)
    BY <2>2, <2>4, <2>5, EventQueued, Zenon
  <2>7. PICK new : new = W!NewWrapper
    OBVIOUS
  <2>8. /\ new \in W!WrapperStates /\ HasTranscoder(new)
        /\ NoAbandon(new.mQueue) /\ \A j : NoStop(new.mQueue, j)
    <3>1. << >> \in Seq(W!QueuedEvents) /\ << >> \in Seq([type : W!AllPostTypes, key : Keys])
      OBVIOUS
    <3> QED
      BY <2>7, <3>1 DEF W!NewWrapper, W!WrapperStates, HasTranscoder, NoAbandon, NoStop
  <2>9. PICK q : q = [wrappers EXCEPT ![cur] = a]
    OBVIOUS
  <2>10. wrappers' = Append(q, new)
    BY <1>0, <1>1, <1>3, <2>3, <2>7, <2>9, Zenon DEF callsQueued, Wrapper
  <2>11. /\ q \in Seq(W!WrapperStates) /\ Len(q) = cur
         /\ \A g \in 1..cur : q[g] = IF g = cur THEN a ELSE wrappers[g]
    BY <1>1, <2>6, <2>9 DEF cur
  <2>12. \A g \in 1..cur : HasTranscoder(q[g])
    BY <2>6, <2>11, Zenon DEF WrapperTypes
  <2>13. /\ wrappers' \in Seq(W!WrapperStates) /\ cur' = cur + 1
         /\ wrappers'[cur + 1] = new /\ \A g \in 1..cur : wrappers'[g] = q[g]
    BY <1>1, <2>8, <2>10, <2>11 DEF cur
  <2>14. \A g \in 1..cur' : HasTranscoder(wrappers'[g])
    <3>1. \A g \in 1..cur' : g \in 1..cur \/ g = cur + 1
      BY <1>1, <2>13
    <3> QED
      BY <3>1, <2>8, <2>12, <2>13, Zenon
  <2>15. WrapperTypes'
    <3>1. cur' # 0
      BY <1>1, <2>13
    <3> QED
      BY <3>1, <2>13, <2>14, Zenon DEF WrapperTypes, HasTranscoder
  <2>16. Wrapper' = new
    <3>1. Wrapper' = wrappers'[cur']
      BY Zenon DEF Wrapper
    <3> QED
      BY <3>1, <2>13, Zenon
  <2>17. \A j \in live' : State(j)' # "RUNNING"
    <3>1. State(k) = "RUNNING" /\ k \in live
      BY <1>12, Zenon DEF callsAbandon, StaleAbandon, onWatchdogTimeout, notifiable
    <3>2. \A j \in live' : j \in live /\ j # k /\ State(j)' = State(j)
      BY <1>12, Zenon DEF callsAbandon, StatesKept
    <3> QED
      BY <3>1, <3>2, Zenon DEF IInv, OnlyCurrentRuns
  <2> QED
    BY <2>8, <2>15, <2>16, <2>17, Zenon DEF CallInv
<1>13. \A k \in Keys : callsAbandon(k) => onWatchdogTimeout(k)
  BY Zenon DEF callsAbandon
<1> QED
  BY <1>2, <1>6, <1>7, <1>10, <1>11, <1>12, <1>13, Zenon

-----------------------------------------------------------------------------
(* What the service promises its sessions                                  *)

(* A new wrapper owes nothing. *)
LEMMA ServiceCallsInit == ServiceInit => WrapperTypes /\ CallInv /\ PauseInv
<1> SUFFICES ASSUME ServiceInit PROVE WrapperTypes /\ CallInv /\ PauseInv
  OBVIOUS
<1>1. wrappers = <<W!NewWrapper>> /\ live = {}
  BY DEF ServiceInit, W!Init, Init, live
<1>2. << >> \in Seq(W!QueuedEvents) /\ << >> \in Seq([type : W!AllPostTypes, key : Keys])
  OBVIOUS
<1>3. W!NewWrapper \in W!WrapperStates /\ HasTranscoder(W!NewWrapper)
  BY <1>2, Zenon DEF W!NewWrapper, W!WrapperStates, HasTranscoder
<1>4. cur = 1 /\ Wrapper = W!NewWrapper
  BY <1>1, Zenon DEF cur, Wrapper
<1>5. WrapperTypes
  BY <1>1, <1>3, <1>4 DEF WrapperTypes, cur
<1>6. CallInv /\ PauseInv
  BY <1>1, <1>4 DEF CallInv, PauseInv, NoAbandon, NoLoss, W!NewWrapper, W!NoCall
<1> QED
  BY <1>5, <1>6, Zenon

(* Every step of the service that is no late timeout keeps the invariants. *)
LEMMA ServiceCallsNext ==
  ASSUME IInv, FrontUidIsServed, WrapperTypes, CallInv, [ServiceNext]_serviceVars,
         [~StaleAbandon]_serviceVars
  PROVE  /\ WrapperTypes' /\ CallInv'
         /\ "resource" \notin Events /\ PauseInv /\ watchdog.pc = "wait" => PauseInv'
<1>1. CASE UNCHANGED serviceVars
  BY <1>1, Zenon DEF serviceVars, vars, WrapperTypes, CallInv, PauseInv, Wrapper, cur,
     live, State
<1>2. CASE ControllerStep /\ ~StaleAbandon
  <2>1. watchdog.pc = "wait" => \A k \in Keys : ~onWatchdogTimeout(k)
    BY Zenon DEF onWatchdogTimeout
  <2> QED
    BY <1>2, <2>1, ControllerStepInv, Zenon
<1>3. ASSUME NEW g \in 1..cur, wrapperCalls(g) \/ wrapperStep(g)
      PROVE  /\ WrapperTypes' /\ CallInv'
             /\ "resource" \notin Events /\ PauseInv => PauseInv'
  BY <1>3, WrapperCallsInv, WrapperStepInv, Zenon
<1> QED
  BY <1>1, <1>2, <1>3, Zenon DEF ServiceNext

(* In the service too the uid at the front of the list is served whenever no    *)
(* handler runs.                                                               *)
THEOREM FrontUidServedInService == ServiceSpec => []FrontUidIsServed
BY ServiceImplementsController, FrontUidAlwaysServed, PTL

(* What the wrapper owes a RUNNING session is what RunningIsTranscoded asks. *)
LEMMA OwedIsExpected == WrapperTypes /\ CallInv => RunningIsTranscoded
<1> SUFFICES ASSUME WrapperTypes, CallInv, NEW k \in live, State(k) = "RUNNING"
             PROVE  \E g \in 1..cur : Expected(k, g)
  BY Zenon DEF RunningIsTranscoded
<1>1. cur \in 1..cur
  BY DEF WrapperTypes, cur
<1>2. WillRun(Wrapper, k)
  BY Zenon DEF CallInv
<1>3. Expected(k, cur)
  BY <1>2, Zenon DEF WillRun, RunsLast, Reports, Expected, Wrapper, W!AllPostTypes
<1> QED
  BY <1>1, <1>3, Zenon

(* As long as no timeout is reported late, for a session that is no longer     *)
(* RUNNING, every RUNNING session is worked on, about to be, or reported:      *)
(* wrappers replaced after a timeout, lost resources, late callbacks and any   *)
(* number of queued events included.                                           *)
THEOREM RunningSessionIsTranscoded ==
  ServiceSpec /\ [][~StaleAbandon]_serviceVars => []RunningIsTranscoded
<1>1. IInv /\ FrontUidIsServed /\ WrapperTypes /\ CallInv
        /\ [ServiceNext]_serviceVars /\ [~StaleAbandon]_serviceVars
      => WrapperTypes' /\ CallInv'
  BY ServiceCallsNext, Zenon
<1> QED
  BY <1>1, ServiceCallsInit, ServiceInvariant, FrontUidServedInService, OwedIsExpected, PTL
     DEF ServiceSpec

(* Without "watchdog" among the events the thread never leaves its wait. *)
Asleep == watchdog.pc = "wait"

(* No handler wakes it, and it does not wake by itself. *)
LEMMA WatchdogAsleep ==
  ASSUME "watchdog" \notin Events
  PROVE  ServiceSpec => []Asleep
<1>1. ServiceInit => Asleep
  BY DEF ServiceInit, Init, Asleep
<1>2. ASSUME IInv, Asleep, [Next]_vars PROVE Asleep'
  <2> USE DEF Asleep
  <2>1. watchdog \in WatchdogStates
    BY <1>2, Zenon DEF IInv, SessionTypes
  <2>2. \A b, k : /\ WatchdogStopIf(watchdog, b).pc = "wait"
                  /\ WatchdogStop(watchdog).pc = "wait"
                  /\ WatchdogStart(WatchdogStopIf(watchdog, b), k).pc = "wait"
    BY <1>2, <2>1, Zenon DEF WatchdogStopIf, WatchdogStop, WatchdogStart, WatchdogStates
  <2>3. CASE UNCHANGED vars
    BY <1>2, <2>3, Zenon DEF vars
  <2>4. CASE ClientStep
    BY <1>2, <2>4, Zenon DEF ClientStep, submit, addClientUid, cancel, cancelAll,
       untouched
  <2>5. CASE PolicyStep
    BY <1>2, <2>5, Zenon DEF PolicyStep, onTopUidsChanged, onUidGone,
       onResourceAvailable, onThrottling, uidStateChanged, untouched
  <2>6. CASE TranscoderStep
    BY <2>2, <2>6, Zenon DEF TranscoderStep, onFinish, onError, sessionEnds,
       onResourceLost
  <2>7. CASE WatchdogStep
    BY <1>2, <2>7, Zenon DEF WatchdogStep, watchdogWait, watchdogExpires,
       onWatchdogTimeout, onStaleWatchdogTimeout
  <2>8. CASE LockedStep
    <3>1. ASSUME NEW k \in Keys, dropNext(k) \/ stripNext(k) PROVE Asleep'
      BY <1>2, <2>2, <3>1, Zenon DEF dropNext, stripNext
    <3>2. ASSUME updateNothingToRun PROVE Asleep'
      BY <2>2, <3>2, Zenon DEF updateNothingToRun, WatchdogPaused
    <3>3. ASSUME NEW top, updateDone(top) PROVE Asleep'
      BY <1>2, <3>3, Zenon DEF updateDone, untouched
    <3>4. ASSUME NEW top, updateDropByPacer(top) PROVE Asleep'
      BY <2>2, <3>4, Zenon DEF updateDropByPacer, WatchdogPaused
    <3>5. ASSUME NEW top, updateStart(top) \/ updateResume(top) PROVE Asleep'
      BY <2>2, <3>5 DEF updateStart, updateResume, WatchdogPaused
    <3> QED
      BY <2>8, <3>1, <3>2, <3>3, <3>4, <3>5, Zenon DEF LockedStep
  <2>9. CASE \E u \in AllUids : burstThresholdPasses(u)
    BY <1>2, <2>9, Zenon DEF burstThresholdPasses
  <2> QED
    BY <1>2, <2>3, <2>4, <2>5, <2>6, <2>7, <2>8, <2>9, Zenon DEF Next
<1>3. IInv /\ Asleep /\ [ServiceNext]_serviceVars => Asleep'
  BY <1>2, ServiceStepRefines, Zenon
<1> QED
  BY <1>1, <1>3, ServiceInvariant, PTL DEF ServiceSpec

(* While no transcoder is stuck, every RUNNING session is worked on, about to  *)
(* be, or reported, in every state.                                            *)
THEOREM RunningSessionIsTranscodedUnlessStuck ==
  ASSUME "watchdog" \notin Events
  PROVE  ServiceSpec => []RunningIsTranscoded
<1>1. Asleep /\ [ServiceNext]_serviceVars => [~StaleAbandon]_serviceVars
  BY Zenon DEF StaleAbandon, onWatchdogTimeout, Asleep
<1>2. ServiceSpec => []Asleep
  BY WatchdogAsleep, Zenon
<1>3. ServiceSpec => [][~StaleAbandon]_serviceVars
  BY <1>1, <1>2, PTL DEF ServiceSpec
<1> QED
  BY <1>3, RunningSessionIsTranscoded, PTL

(* Once the wrapper has caught up it has the paused state of every session the *)
(* controller has PAUSED, so that each can be resumed: pauses, failed starts   *)
(* and callbacks that cross on the way included.  (A transcoder that is stuck  *)
(* is replaced by one without paused states, and a resource lost while a       *)
(* resume is queued leaves none: hence the two assumptions.)                   *)
THEOREM PausedSessionCanResume ==
  ASSUME "watchdog" \notin Events, "resource" \notin Events
  PROVE  ServiceSpec => []PausedCanResume
<1>1. Asleep /\ [ServiceNext]_serviceVars => [~StaleAbandon]_serviceVars
  BY Zenon DEF StaleAbandon, onWatchdogTimeout, Asleep
<1>2. ServiceSpec => []Asleep
  BY WatchdogAsleep, Zenon
<1>3. IInv /\ FrontUidIsServed /\ WrapperTypes /\ CallInv /\ PauseInv /\ Asleep
        /\ [ServiceNext]_serviceVars
      => WrapperTypes' /\ CallInv' /\ PauseInv'
  BY <1>1, ServiceCallsNext, Zenon DEF Asleep
<1>4. IInv /\ PauseInv => PausedCanResume
  <2> SUFFICES ASSUME IInv, PauseInv, quiet, NEW k \in live, State(k) = "PAUSED"
               PROVE  k \in Wrapper.mPausedStateMap
    BY Zenon DEF PausedCanResume
  <2>1. WillPause(Wrapper, k) /\ k \in Keys
    BY Zenon DEF PauseInv, IInv, SessionTypes
  <2>2. /\ Wrapper.mQueue = << >> /\ Wrapper.posts = << >> /\ Wrapper.pending.key = NoSession
    BY DEF quiet, W!NoCall
  <2> QED
    BY <2>1, <2>2, KeysAssumption DEF WillPause, Reports
<1> QED
  BY <1>2, <1>3, <1>4, ServiceCallsInit, ServiceInvariant, FrontUidServedInService, PTL
     DEF ServiceSpec
=============================================================================
