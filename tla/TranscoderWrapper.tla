------------------------- MODULE TranscoderWrapper --------------------------
(***************************************************************************)
(* libmediatranscoding/TranscoderWrapper.cpp: the thread that performs the *)
(* controller's calls on a MediaTranscoder, one queued event at a time, and *)
(* reports back.                                                           *)
(*                                                                         *)
(* wrappers is the sequence of wrapper objects: the last one is the         *)
(* controller's mTranscoder, the others were abandoned after a timeout and  *)
(* live until their thread reads Event::Abandon.                            *)
(*                                                                         *)
(* A runnable changes the wrapper's own state and then calls the controller *)
(* back, which waits for the controller's lock: the call it is about to     *)
(* make is pending in between, while the controller may queue more events.  *)
(* Callbacks that only inform the client (onStarted, onPaused, onResumed,   *)
(* progress, heartbeats) are left out.                                      *)
(***************************************************************************)
EXTENDS Naturals, Sequences

CONSTANTS
  Keys,        \* session keys
  NoSession,   \* no session: mCurrentSessionId = -1, mTranscoder = nullptr
  MaxPosts,    \* how many late callbacks of MediaTranscoders may be under way
  PostTypes    \* how a MediaTranscoder may end: a subset of AllPostTypes

VARIABLE wrappers

(* Finish, Error and Lost are posted by a MediaTranscoder; Lost is an Error    *)
(* with a resource error code.                                                 *)
AllPostTypes == {"Finish", "Error", "Lost"}
EventTypes == {"Start", "Pause", "Resume", "Stop"} \cup AllPostTypes
QueuedEvents == [type : EventTypes, key : Keys] \cup {[type |-> "Abandon", key |-> NoSession]}
Event(type, k) == [type |-> type, key |-> k]

NoCall == [type |-> "none", key |-> NoSession]
Callbacks == [type : {"onFinish", "onError", "onResourceLost"}, key : Keys]

WrapperStates ==
  [mQueue : Seq(QueuedEvents),
   mCurrent : Keys \cup {NoSession},                  \* the session of mTranscoder
   status : {"none", "running", "finished", "failed"}, \* of mTranscoder
   mPausedStateMap : SUBSET Keys,
   posts : Seq([type : AllPostTypes, key : Keys]),     \* callbacks not yet queued
   pending : Callbacks \cup {NoCall},
   exited : BOOLEAN]

NewWrapper ==
  [mQueue |-> << >>, mCurrent |-> NoSession, status |-> "none", mPausedStateMap |-> {},
   posts |-> << >>, pending |-> NoCall, exited |-> FALSE]

-----------------------------------------------------------------------------
(* queueEvent, and what a call of the controller queues. *)
queueEvent(w, e) == [w EXCEPT !.mQueue = Append(@, e)]

start(w, k) == queueEvent(w, Event("Start", k))
pause(w, k) == queueEvent(w, Event("Pause", k))
resume(w, k) == queueEvent(w, Event("Resume", k))
stop(w, k) == queueEvent(w, Event("Stop", k))
abandon(w, k) == queueEvent(stop(w, k), Event("Abandon", NoSession))

-----------------------------------------------------------------------------
(* The runnables.  Each operator gives the wrapper after its runnable.       *)
cleanup(w) == [w EXCEPT !.mCurrent = NoSession, !.status = "none"]

call(w, type, k) == [w EXCEPT !.pending = [type |-> type, key |-> k]]

reportError(w, k, isResourceError) ==
  IF isResourceError
    THEN call([w EXCEPT !.mPausedStateMap = @ \cup {k}], "onResourceLost", k)
    ELSE call(w, "onError", k)

(* setupTranscoder and MediaTranscoder::start: all goes well, or some step of *)
(* it fails, for want of a resource or otherwise.                             *)
SetupOutcomes(w, k) ==
  IF w.mCurrent # NoSession
    THEN {reportError(cleanup(w), k, FALSE)}
    ELSE {[w EXCEPT !.mCurrent = k, !.status = "running"]} \cup
         {reportError(cleanup(w), k, isResourceError) :
            isResourceError \in {type = "Lost" : type \in PostTypes \ {"Finish"}}}

handleResume(w, k) ==
  IF k \in w.mPausedStateMap
    THEN SetupOutcomes([w EXCEPT !.mPausedStateMap = @ \ {k}], k)
    ELSE {reportError(cleanup(w), k, FALSE)}

(* While pause or cancel wait for the MediaTranscoder's threads, the threads  *)
(* stop, or one fails, or they all reach the end: then a callback follows.    *)
Stopped(w) ==
  {w} \cup
  IF w.status = "running" /\ Len(w.posts) < MaxPosts
    THEN {[w EXCEPT !.posts = Append(@, Event(type, w.mCurrent))] : type \in PostTypes}
    ELSE {}

(* Mutated: the paused state is not kept. *)
handlePauseNoState(w, k) ==
  IF w.mCurrent = NoSession \/ w.status = "failed"
    THEN {reportError(cleanup(w), k, FALSE)}
    ELSE {cleanup(v) : v \in Stopped(w)}

(* MediaTranscoder::pause refuses a transcoder that has already failed. *)
handlePause(w, k) ==
  IF w.mCurrent = NoSession \/ w.status = "failed"
    THEN {reportError(cleanup(w), k, FALSE)}
    ELSE {[cleanup(v) EXCEPT !.mPausedStateMap = @ \cup {k}] : v \in Stopped(w)}

handleStop(w, k) ==
  IF w.mCurrent = k
    THEN {cleanup(v) : v \in Stopped(w)}
    ELSE {[w EXCEPT !.mPausedStateMap = @ \ {k}]}

(* Mutated: any transcoder is released, whichever session the event is about. *)
CleanupAny(w, k) == cleanup(w)

CleanupIfCurrent(w, k) == IF w.mCurrent = k THEN cleanup(w) ELSE w

(* threadLoop: what running event e may lead to. *)
Handled(w, e) ==
  CASE e.type = "Start"   -> SetupOutcomes(w, e.key)
    [] e.type = "Pause"   -> handlePause(w, e.key)
    [] e.type = "Resume"  -> handleResume(w, e.key)
    [] e.type = "Stop"    -> handleStop(w, e.key)
    [] e.type = "Finish"  -> {call(CleanupIfCurrent(w, e.key), "onFinish", e.key)}
    [] e.type = "Error"   -> {reportError(CleanupIfCurrent(w, e.key), e.key, FALSE)}
    [] e.type = "Lost"    -> {reportError(CleanupIfCurrent(w, e.key), e.key, TRUE)}
    [] e.type = "Abandon" -> {[NewWrapper EXCEPT !.exited = TRUE]}

-----------------------------------------------------------------------------
Init == wrappers = <<NewWrapper>>

threadLoop(g) ==
  LET w == wrappers[g]
  IN  /\ ~w.exited
      /\ w.pending = NoCall
      /\ w.mQueue # << >>
      /\ \E v \in Handled([w EXCEPT !.mQueue = Tail(@)], Head(w.mQueue)) :
           wrappers' = [wrappers EXCEPT ![g] = v]

(* The MediaTranscoder ends by itself: its notification thread will call back. *)
transcoderEnds(g, type) ==
  LET w == wrappers[g]
  IN  /\ w.status = "running"
      /\ Len(w.posts) < MaxPosts
      /\ wrappers' = [wrappers EXCEPT
           ![g].status = IF type = "Finish" THEN "finished" ELSE "failed",
           ![g].posts = Append(@, Event(type, w.mCurrent))]

(* The callbacks under way without the ith. *)
Without(posts, i) == SubSeq(posts, 1, i - 1) \o SubSeq(posts, i + 1, Len(posts))

(* Mutated: CallbackImpl finds that its mOwner is gone, and queues nothing. *)
callbackIsLost(g) ==
  LET w == wrappers[g]
  IN  /\ ~w.exited
      /\ \E i \in 1..Len(w.posts) :
           wrappers' = [wrappers EXCEPT ![g].posts = Without(w.posts, i)]

(* onFinish / onError of the wrapper: a notification thread, any of those     *)
(* under way, queues its event.                                               *)
callbackArrives(g) ==
  LET w == wrappers[g]
  IN  /\ ~w.exited
      /\ \E i \in 1..Len(w.posts) :
           wrappers' = [wrappers EXCEPT ![g] =
                          queueEvent([w EXCEPT !.posts = Without(w.posts, i)], w.posts[i])]

(* The pending call on the controller is made. *)
callMade(g) == wrappers' = [wrappers EXCEPT ![g].pending = NoCall]

(* Every wrapper has its type, and between two runnables mTranscoder is null   *)
(* exactly when there is no current session, as stop, onFinish and onError     *)
(* assume when they compare the session with the current one.                  *)
TypeOK ==
  /\ wrappers \in Seq(WrapperStates)
  /\ \A g \in 1..Len(wrappers) : wrappers[g].status = "none" <=> wrappers[g].mCurrent = NoSession
=============================================================================
