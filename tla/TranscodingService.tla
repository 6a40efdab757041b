------------------------- MODULE TranscodingService -------------------------
(***************************************************************************)
(* The session controller together with its transcoder wrappers.           *)
(*                                                                         *)
(* A step of the controller queues the calls it makes on mTranscoder in the *)
(* same step (queueEvent only takes the wrapper's own lock); the wrapper's  *)
(* thread runs the events on its own and calls the controller back, which   *)
(* waits for mLock.  The transcoder's events, which the controller module   *)
(* lets happen at any time, happen here when a wrapper reports them.        *)
(***************************************************************************)
EXTENDS TranscodingSessionController

CONSTANTS
  MaxQueue,     \* no outside event reaches the controller while this many events wait
  MaxWrappers,  \* no timeout abandons the last of so many wrappers
  MaxPosts      \* late callbacks of MediaTranscoders under way

VARIABLE wrappers

PostTypes == {"Finish", "Error"} \cup IF "resource" \in Events THEN {"Lost"} ELSE {}

W == INSTANCE TranscoderWrapper

serviceVars == <<vars, wrappers>>

cur == Len(wrappers)
Wrapper == wrappers[cur]

ServiceInit == Init /\ W!Init

-----------------------------------------------------------------------------
(* The wrapper after call c. *)
Queued(w, c) ==
  CASE c[1] = "start"   -> W!start(w, c[2])
    [] c[1] = "pause"   -> W!pause(w, c[2])
    [] c[1] = "resume"  -> W!resume(w, c[2])
    [] c[1] = "stop"    -> W!stop(w, c[2])
    [] c[1] = "abandon" -> W!abandon(w, c[2])

(* A step of the controller makes at most two calls. *)
AllQueued(w, cs) ==
  CASE Len(cs) = 0 -> w
    [] Len(cs) = 1 -> Queued(w, cs[1])
    [] Len(cs) = 2 -> Queued(Queued(w, cs[1]), cs[2])

Abandons(cs) == Len(cs) = 1 /\ cs[1][1] = "abandon"

(* The calls of the current step are queued, and "abandon" is followed by a    *)
(* new transcoder.                                                            *)
callsQueued ==
  LET queued == [wrappers EXCEPT ![cur] = AllQueued(@, calls')]
  IN  wrappers' = IF Abandons(calls') THEN Append(queued, W!NewWrapper) ELSE queued

(* A key is used again only when no wrapper knows it. *)
Mentions(w, k) ==
  \/ k = w.mCurrent \/ k \in w.mPausedStateMap \/ k = w.pending.key
  \/ \E i \in 1..Len(w.mQueue) : w.mQueue[i].key = k
  \/ \E i \in 1..Len(w.posts) : w.posts[i].key = k

-----------------------------------------------------------------------------
(* Everything but the transcoder's callbacks. *)
ControllerStep ==
  /\ \/ /\ Len(Wrapper.mQueue) < MaxQueue
        /\ ClientStep \/ PolicyStep
        /\ \A k \in live' \ live, g \in 1..cur : ~Mentions(wrappers[g], k)
     \/ WatchdogStep
     \/ LockedStep
     \/ \E u \in AllUids : burstThresholdPasses(u)
  /\ callsQueued
  /\ Len(wrappers') <= MaxWrappers

(* The controller's handler for a callback c. *)
Callback(c) ==
  \/ c.type = "onFinish" /\ onFinish(c.key)
  \/ c.type = "onError" /\ onError(c.key)
  \/ c.type = "onResourceLost" /\ onResourceLost(c.key)

(* What a handler ignores: notifyClient knows no such session, or             *)
(* onResourceLost finds it no longer RUNNING.                                 *)
Ignored(c) ==
  \/ ~notifiable(c.key)
  \/ c.type = "onResourceLost" /\ notifiable(c.key) /\ (mResourceLost \/ State(c.key) # "RUNNING")

wrapperCalls(g) ==
  LET c == wrappers[g].pending
  IN  /\ c # W!NoCall
      /\ ~locked
      /\ \/ Callback(c) /\ W!callMade(g)
         \/ Ignored(c) /\ UNCHANGED vars /\ W!callMade(g)

(* Steps of a wrapper's thread and of the threads of its MediaTranscoders. *)
wrapperStep(g) ==
  /\ \/ W!threadLoop(g)
     \/ W!callbackArrives(g)
     \/ \E type \in PostTypes : W!transcoderEnds(g, type)
  /\ UNCHANGED vars

ServiceNext ==
  \/ ControllerStep
  \/ \E g \in 1..cur : wrapperCalls(g) \/ wrapperStep(g)

ServiceSpec == ServiceInit /\ [][ServiceNext]_serviceVars

(* A thread that holds mLock lets go of it (it makes no blocking call, and     *)
(* LockIsReleased shows that its loops end) and one that waits for it gets it  *)
(* in the end; a wrapper's thread, and the threads that call it back, go on; a *)
(* MediaTranscoder that is not stuck ends.                                     *)
FairServiceSpec ==
  /\ ServiceSpec
  /\ []<>~locked
  /\ \A g \in 1..MaxWrappers :
       /\ WF_serviceVars(g <= cur /\ W!threadLoop(g) /\ UNCHANGED vars)
       /\ WF_serviceVars(g <= cur /\ W!callbackArrives(g) /\ UNCHANGED vars)
       /\ WF_serviceVars(g <= cur /\ \E type \in PostTypes : W!transcoderEnds(g, type) /\ UNCHANGED vars)
       /\ []<>(g <= cur => wrappers[g].pending = W!NoCall)

(* mLock is let go of, and the watchdog's thread is scheduled: it sees that a  *)
(* session is to be watched or no longer to be, a timed wait ends, and its     *)
(* report gets mLock.  Nothing is assumed of the wrappers' threads and the     *)
(* MediaTranscoders: any may be stuck.                                         *)
StuckServiceSpec ==
  /\ ServiceSpec
  /\ []<>~locked
  /\ []<>(watchdog.pc # (IF watchdog.mActive THEN "wait" ELSE "timed"))
  /\ []<>(watchdog.pc # "timed")
  /\ []<>(watchdog.pc # "report")

-----------------------------------------------------------------------------
(* A session the controller will hear of: its transcoder works on it or is    *)
(* about to, or a callback about it is under way.                             *)
Expected(k, g) ==
  \/ wrappers[g].mCurrent = k
  \/ wrappers[g].pending.key = k
  \/ \E i \in 1..Len(wrappers[g].mQueue) : /\ wrappers[g].mQueue[i].key = k
                                           /\ wrappers[g].mQueue[i].type \notin {"Stop", "Pause"}
  \/ \E i \in 1..Len(wrappers[g].posts) : wrappers[g].posts[i].key = k

(* "Take some actions to ensure it's correct": what the controller calls       *)
(* RUNNING, a transcoder runs.  A RUNNING session's transcoder works on it, or *)
(* will when it gets to the event, or its report is under way.                 *)
RunningIsTranscoded ==
  \A k \in live : State(k) = "RUNNING" => \E g \in 1..cur : Expected(k, g)

quiet == ~locked /\ Wrapper.mQueue = << >> /\ Wrapper.pending = W!NoCall /\ Wrapper.posts = << >>

(* A session the controller has PAUSED can be resumed: once the wrapper has    *)
(* caught up, it has the paused state that handleResume asks for.              *)
PausedCanResume ==
  quiet => \A k \in live : State(k) = "PAUSED" => k \in Wrapper.mPausedStateMap

(* The controller is not left waiting: every RUNNING session ends, or is paused *)
(* for another one, because some event about it reaches the controller.        *)
RunningEnds ==
  \A k \in Keys : (k \in live /\ State(k) = "RUNNING") ~> ~(k \in live /\ State(k) = "RUNNING")

(* A transcoder that is stuck is found out: a RUNNING session does not stay     *)
(* RUNNING, even if no wrapper ever reports anything.  (The bound: a wrapper    *)
(* is left to abandon.)                                                         *)
StuckIsFoundOut ==
  \A k \in Keys :
    (k \in live /\ State(k) = "RUNNING")
      ~> (~(k \in live /\ State(k) = "RUNNING") \/ cur = MaxWrappers)
=============================================================================
