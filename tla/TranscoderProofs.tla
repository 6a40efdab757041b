------------------------- MODULE TranscoderProofs ---------------------------
(*****************************************************************************)
(* The thread protocol of MediaTranscoder is correct for any tracks, any number *)
(* of samples and buffers, and whatever fails: the inductive invariant, what the *)
(* operations that the steps are built from change of the tracks and of the      *)
(* writer, the steps of a track's thread, the steps of the other threads, and    *)
(* what follows.                                                                 *)
(*****************************************************************************)
EXTENDS MediaTranscoder, TLAPS

-----------------------------------------------------------------------------
(* The inductive invariant                                                 *)

Adding == {"added", "addFailed", "addReport"}
Added == {"added", "checkStop", "run", "stopped", "ended", "report", "gone"}
Over == {"ended", "report", "gone"}
Waiters == {"pausing", "cancelling", "paused", "cancelled"}

(* mTracksAddedMutex is held by the thread that adds its track; a track that    *)
(* is not yet added has output nothing to the writer.                           *)
AddInv ==
  /\ \A t \in Tracks : adding = t <=> tracks[t].pc \in Adding
  /\ \A t \in mTracksAdded : tracks[t].pc \in Added
  /\ \A t \in mTracksAdded : tracks[t].mSampleQueue = 0
  /\ \A t \in Tracks : tracks[t].eosQueued # {} => tracks[t].pc \in Over

(* mThreadStates says which threads are running.  A writer that was started    *)
(* was so by the last of the tracks.                                            *)
StateInv ==
  /\ \A t \in Tracks : mThreadStates[t] = "DONE" <=> tracks[t].pc = "gone"
  /\ mThreadStates[Writer] = "RUNNING" <=> writer.pc \notin {"none", "gone"}
  /\ writer.pc # "none" => mTracksAdded = Tracks /\ \A t \in Tracks : tracks[t].pc # "added"
  /\ writer.pc = "none" <=> writer.mState = "INITIALIZED"
  /\ writer.pc = "none" => writer.result = "OK" /\ writer.reachedEos = {}
  /\ writer.pc # "none" => client # "configured"

(* After mThreadsDone nothing runs. *)
DoneInv ==
  /\ mThreadsDone => DoneMeansIdle
  /\ mThreadsDone <=> notification.type # "none"
  /\ mCallbackSent = mThreadsDone

(* A stop was requested by a caller that waits for it, or by an error that is  *)
(* recorded or about to be.                                                     *)
ErrorPending ==
  \/ \E t \in Tracks : tracks[t].pc = "addReport"
  \/ \E t \in Tracks : tracks[t].pc = "report" /\ tracks[t].result = "ERROR"
  \/ writer.pc = "report" /\ writer.result = "ERROR"
StopInv ==
  /\ mCancelled => client \in Waiters \/ mTranscoderStatus = "ERROR" \/ ErrorPending
  /\ mTranscoderStopped => mCancelled
  /\ writer.mState = "STOPPED" \/ writer.result = "STOPPED" => mCancelled
  /\ \A t \in Tracks : tracks[t].mStopRequest # "NONE" \/ tracks[t].result = "STOPPED" => mCancelled
  /\ mSampleWriterStopped => mCancelled /\ \A t \in Tracks : tracks[t].mStopRequest = "STOP_NOW"
  /\ \A t \in Tracks : tracks[t].mState = "CONFIGURED" <=> client = "configured"
  /\ \A t \in Tracks : tracks[t].mState = "STARTED" => ~mCancelled
  /\ \A t \in Tracks : tracks[t].mState = "STOPPED" => mCancelled
  /\ \A t \in Tracks : tracks[t].pc = "none" <=> client = "configured"
  /\ mCancelled => client # "configured"

(* A pause leaves the writer running and stops a track behind a sync sample. *)
PauseInv ==
  /\ client \in {"pausing", "paused"} => mCancelled /\ ~mSampleWriterStopped
  /\ ~mSampleWriterStopped =>
       /\ writer.mState # "STOPPED" /\ writer.result # "STOPPED"
       /\ \A t \in Tracks : /\ tracks[t].mStopRequest # "STOP_NOW"
                            /\ tracks[t].result = "STOPPED" => tracks[t].last = "SYNC"

(* What a thread reported is recorded, and what is recorded is called back. *)
RecordInv ==
  /\ \A t \in Tracks : tracks[t].pc = "gone" =>
       /\ tracks[t].result = "ERROR" => mTranscoderStatus = "ERROR"
       /\ tracks[t].result = "STOPPED" => mTranscoderStopped
  /\ writer.pc = "gone" =>
       /\ writer.result = "ERROR" => mTranscoderStatus = "ERROR"
       /\ writer.result = "STOPPED" => mTranscoderStopped
  /\ notification.type \in {"none", Callback(mTranscoderStatus, mTranscoderStopped)}
  /\ \A t \in Tracks : tracks[t].pc \notin {"stopped"} \cup Over => tracks[t].result = "OK"
  /\ \A t \in Tracks : tracks[t].pc = "stopped" => tracks[t].result = "STOPPED"
  /\ \A t \in Tracks : tracks[t].pc = "report" => tracks[t].result = "ERROR"
  /\ writer.pc = "report" => writer.result = "ERROR"
  /\ writer.pc \in {"start", "loop"} => writer.result = "OK"

(* Samples are neither lost nor duplicated on their way to the file, but for   *)
(* those of a track that was told its end before them.                          *)
InFlight(t) == tracks[t].mSampleQueue + writer.mSampleQueue[t]
CountInv ==
  \A t \in Tracks :
    /\ tracks[t].left + tracks[t].lost + InFlight(t) + writer.written[t] <= NumSamples
    /\ writer.result # "ERROR" =>
         tracks[t].left + tracks[t].lost + InFlight(t) + writer.written[t] = NumSamples

(* The end of a stream comes last, and a writer that finished has seen all. *)
EosInv ==
  /\ \A t \in writer.eosQueued \cup writer.reachedEos : tracks[t].pc \in Over
  /\ \A t \in writer.reachedEos : writer.mSampleQueue[t] = 0
  /\ \A t \in Tracks : tracks[t].pc \in Over /\ tracks[t].result = "OK" => tracks[t].left = 0
  /\ writer.pc \in {"stop", "ended", "gone"} /\ writer.result = "OK" => allEos

(* Without a writer not all tracks can reach their end: one was not added and  *)
(* failed or was stopped, or the last one finds that everything is stopped.     *)
NoWriterInv ==
  /\ \A t \in Tracks \ mTracksAdded :
       tracks[t].pc \in Added => mTranscoderStatus = "ERROR" \/ tracks[t].result # "OK"
  /\ writer.pc = "none" /\ mTracksAdded = Tracks /\ adding = Writer /\ Tracks # {} =>
       \E t \in Tracks : /\ tracks[t].mStopRequest = "STOP_NOW"
                         /\ tracks[t].pc \in {"checkStop", "run"} \/ tracks[t].result # "OK"

(* A stop makes the reader tell a track its end too early only if the writer    *)
(* was started.  Unless the stop was a pause it has stopped the writer first,    *)
(* which then never sees the end of that track.                                  *)
Hit(t) == t \in reader.woken \/ tracks[t].lost > 0
ReaderInv ==
  /\ reader.mEnforceSequentialAccess => ~mCancelled /\ writer.pc # "none"
  /\ \A t \in Tracks : Hit(t) =>
       /\ mCancelled /\ writer.pc # "none"
       /\ mSampleWriterStopped => writer.mState = "STOPPED" /\ t \notin writer.reachedEos
  /\ client \in {"cancelling", "cancelled"} => mSampleWriterStopped

IInv ==
  /\ TypeOK /\ AddInv /\ StateInv /\ DoneInv /\ StopInv /\ PauseInv /\ RecordInv
  /\ CountInv /\ EosInv /\ NoWriterInv /\ ReaderInv

-----------------------------------------------------------------------------
(* What a step changes, field by field                                       *)

Pcs == {"none", "new", "run", "checkStop", "added", "addFailed", "addReport", "stopped",
        "ended", "report", "gone"}

(* What a step leaves alone of a track and of the writer. *)
OtherTracks(t) == \A u \in Tracks \ {t} : tracks'[u] = tracks[u]
SameStop(t) ==
  tracks'[t].mState = tracks[t].mState /\ tracks'[t].mStopRequest = tracks[t].mStopRequest
SameSamples(t) ==
  /\ tracks'[t].left = tracks[t].left /\ tracks'[t].mSampleQueue = tracks[t].mSampleQueue
  /\ tracks'[t].eosQueued = tracks[t].eosQueued /\ tracks'[t].last = tracks[t].last
  /\ tracks'[t].lost = tracks[t].lost

(* A thread that only moves on. *)
Moves(t, pc, result) ==
  /\ tracks' \in [Tracks -> TrackStates]
  /\ OtherTracks(t) /\ SameStop(t) /\ SameSamples(t)
  /\ tracks'[t].pc = pc /\ tracks'[t].result = result

(* A new pc and result of one track change nothing else of it.            *)
LEMMA MovesOn ==
  ASSUME tracks \in [Tracks -> TrackStates], NEW t \in Tracks,
         NEW pc \in Pcs, NEW result \in {"OK", "STOPPED", "ERROR"},
         \/ tracks' = [tracks EXCEPT ![t].pc = pc, ![t].result = result]
         \/ tracks' = [tracks EXCEPT ![t].pc = pc] /\ tracks[t].result = result
  PROVE  Moves(t, pc, result)
<1> DEFINE tr == [tracks[t] EXCEPT !.pc = pc, !.result = result]
<1>1. tracks[t] \in TrackStates
  OBVIOUS
<1>2. tr \in TrackStates
  BY <1>1, Zenon DEF TrackStates, Pcs
<1>3. /\ tr.pc = pc /\ tr.result = result /\ tr.mState = tracks[t].mState
      /\ tr.mStopRequest = tracks[t].mStopRequest /\ tr.left = tracks[t].left
      /\ tr.mSampleQueue = tracks[t].mSampleQueue /\ tr.eosQueued = tracks[t].eosQueued
      /\ tr.last = tracks[t].last /\ tr.lost = tracks[t].lost
  BY <1>1, Zenon DEF TrackStates
<1>4. tracks' = [tracks EXCEPT ![t] = tr]
  <2>1. CASE tracks' = [tracks EXCEPT ![t].pc = pc, ![t].result = result]
    BY Zenon
  <2>2. CASE tracks' = [tracks EXCEPT ![t].pc = pc] /\ tracks[t].result = result
    <3>1. [tracks[t] EXCEPT !.pc = pc] = tr
      BY <2>2, Zenon
    <3> QED
      BY Zenon
  <2> QED
    BY Zenon
<1> HIDE DEF tr
<1> QED
  BY <1>2, <1>3, <1>4, Zenon DEF Moves, OtherTracks, SameStop, SameSamples

(* A step that only moves the writer's thread on. *)
SameQueue ==
  /\ writer'.mSampleQueue = writer.mSampleQueue /\ writer'.eosQueued = writer.eosQueued
  /\ writer'.reachedEos = writer.reachedEos /\ writer'.written = writer.written
WriterMoves(pc, result) ==
  /\ writer' \in WriterStates /\ SameQueue
  /\ writer'.mState = writer.mState
  /\ writer'.pc = pc /\ writer'.result = result

(* A new pc and result of the writer change nothing else of it.           *)
LEMMA WriterMovesOn ==
  ASSUME writer \in WriterStates,
         NEW pc \in {"loop", "stop", "ended", "report", "gone"},
         NEW result \in {"OK", "STOPPED", "ERROR"},
         \/ writer' = [writer EXCEPT !.pc = pc, !.result = result]
         \/ writer' = [writer EXCEPT !.pc = pc] /\ writer.result = result
  PROVE  WriterMoves(pc, result)
  BY Zenon DEF WriterStates, WriterMoves, SameQueue

(* Facts of the type invariant that the steps use. *)
LEMMA Basics ==
  ASSUME IInv
  PROVE  /\ \A t \in Tracks : t # Writer /\ t \in Threads /\ tracks[t] \in TrackStates
         /\ Writer \in Threads /\ writer \in WriterStates
         /\ \A t \in Tracks : tracks[t].lost \in Nat
         /\ reader \in ReaderStates /\ mTracksAdded \subseteq Tracks
         /\ writer.eosQueued \subseteq Tracks /\ writer.reachedEos \subseteq Tracks
<1>1. \A t \in Tracks : t # Writer /\ t \in Threads /\ tracks[t] \in TrackStates
  BY TranscoderAssumption, Zenon DEF IInv, TypeOK, Threads
<1>2. \A t \in Tracks : tracks[t].lost \in Nat
  BY <1>1 DEF TrackStates
<1> QED
  BY <1>1, <1>2, Zenon DEF IInv, TypeOK, Threads, WriterStates

(* A step that the reader may take part in: it stands at its end, or a thread     *)
(* that was woken has looked at it.                                                *)
ReaderMoves ==
  /\ reader' \in ReaderStates
  /\ reader'.mEnforceSequentialAccess = reader.mEnforceSequentialAccess
  /\ reader'.woken \subseteq reader.woken

(* Looking at the reader, or leaving it alone.                            *)
LEMMA ReaderMovesOn ==
  ASSUME IInv,
         \/ reader' = reader
         \/ reader' = [reader EXCEPT !.mEosReached = TRUE]
         \/ \E t \in Tracks : reader' = [reader EXCEPT !.woken = @ \ {t}]
  PROVE  ReaderMoves
  BY Basics, Zenon DEF ReaderStates, ReaderMoves

(* What requestStop does to tracks trs and a writer w that have the old mState  *)
(* and mStopRequest.                                                             *)
Stops(trs, w, stopOnSync) ==
  /\ tracks' \in [Tracks -> TrackStates]
  /\ \A u \in Tracks :
       /\ tracks'[u].pc = trs[u].pc /\ tracks'[u].result = trs[u].result
       /\ tracks'[u].left = trs[u].left /\ tracks'[u].mSampleQueue = trs[u].mSampleQueue
       /\ tracks'[u].eosQueued = trs[u].eosQueued /\ tracks'[u].last = trs[u].last
       /\ tracks'[u].lost = trs[u].lost
       /\ mCancelled => tracks'[u].mState = tracks[u].mState
                         /\ tracks'[u].mStopRequest = tracks[u].mStopRequest
       /\ ~mCancelled => tracks'[u].mState = "STOPPED"
       /\ ~mCancelled /\ stopOnSync => tracks'[u].mStopRequest = "STOP_ON_SYNC"
       /\ ~mCancelled /\ ~stopOnSync => tracks'[u].mStopRequest = "STOP_NOW"
  /\ writer' \in WriterStates
  /\ SameQueue /\ writer'.pc = w.pc /\ writer'.result = w.result
  /\ writer'.mState = writer.mState \/ (writer.mState = "STARTED" /\ writer'.mState = "STOPPED")
  /\ mCancelled \/ stopOnSync => writer'.mState = writer.mState
  /\ ~mCancelled /\ ~stopOnSync /\ writer.mState = "STARTED" => writer'.mState = "STOPPED"
  /\ reader' \in ReaderStates /\ ~reader'.mEnforceSequentialAccess
  /\ \A u \in reader'.woken :
       \/ u \in reader.woken
       \/ ~mCancelled /\ reader.mEnforceSequentialAccess /\ tracks[u].pc = "run"
  /\ mCancelled' = TRUE
  /\ mSampleWriterStopped' <=> mSampleWriterStopped \/ (~mCancelled /\ ~stopOnSync)
  /\ mSampleWriterStopped' \in BOOLEAN

(* requestStop stops every track that runs, and the writer unless it pauses. *)
LEMMA StopStops ==
  ASSUME IInv, client # "configured", NEW stopOnSync \in BOOLEAN,
         NEW trs \in [Tracks -> TrackStates], NEW w \in WriterStates,
         \A u \in Tracks : /\ trs[u].mState = tracks[u].mState
                           /\ trs[u].mStopRequest = tracks[u].mStopRequest,
         w.mState = writer.mState, w.mSampleQueue = writer.mSampleQueue,
         w.eosQueued = writer.eosQueued, w.reachedEos = writer.reachedEos,
         w.written = writer.written,
         tracks' = Stopping(trs, stopOnSync), writer' = StoppingWriter(w, stopOnSync),
         stopRequested(stopOnSync)
  PROVE  Stops(trs, w, stopOnSync)
<1>1. mCancelled \in BOOLEAN /\ mSampleWriterStopped \in BOOLEAN
  BY Zenon DEF IInv, TypeOK
<1>2. /\ mCancelled' = TRUE
      /\ mSampleWriterStopped' <=> mSampleWriterStopped \/ (~mCancelled /\ ~stopOnSync)
      /\ mSampleWriterStopped' \in BOOLEAN
  BY Zenon DEF stopRequested
<1>3. /\ writer' \in WriterStates
      /\ SameQueue /\ writer'.pc = w.pc /\ writer'.result = w.result
      /\ writer'.mState = writer.mState \/ (writer.mState = "STARTED" /\ writer'.mState = "STOPPED")
      /\ mCancelled \/ stopOnSync => writer'.mState = writer.mState
      /\ ~mCancelled /\ ~stopOnSync /\ writer.mState = "STARTED" => writer'.mState = "STOPPED"
  BY Zenon DEF StoppingWriter, WriterStop, WriterStates, SameQueue
<1>6. /\ reader' \in ReaderStates /\ ~reader'.mEnforceSequentialAccess
      /\ \A u \in reader'.woken :
           \/ u \in reader.woken
           \/ ~mCancelled /\ reader.mEnforceSequentialAccess /\ tracks[u].pc = "run"
  <2>1. reader \in ReaderStates /\ reader' \in ReaderReleased
    BY Zenon DEF IInv, TypeOK, stopRequested
  <2>2. CASE mCancelled \/ ~reader.mEnforceSequentialAccess
    <3>1. reader' = reader
      BY <2>1, <2>2, Zenon DEF ReaderReleased
    <3> QED
      BY <2>1, <2>2, <3>1, Zenon DEF IInv, ReaderInv
  <2>3. CASE ~mCancelled /\ reader.mEnforceSequentialAccess
    <3>1. PICK w0 \in {{}} \cup UNION {SUBSET Waiting(x) : x \in Awaited} :
            reader' = [mEnforceSequentialAccess |-> FALSE, woken |-> w0, mEosReached |-> FALSE]
      BY <2>1, <2>3, Zenon DEF ReaderReleased
    <3>2. \A u \in w0 : u \in Tracks /\ tracks[u].pc = "run"
      BY <3>1, Zenon DEF Waiting
    <3>3. w0 \in SUBSET Tracks
      BY <3>2, Zenon
    <3>4. /\ reader' \in ReaderStates /\ reader'.mEnforceSequentialAccess = FALSE
          /\ reader'.woken = w0
      BY <3>1, <3>3, Zenon DEF ReaderStates
    <3> QED
      BY <2>3, <3>2, <3>4, Zenon
  <2> QED
    BY <2>2, <2>3, Zenon
<1>4. CASE mCancelled
  <2>1. tracks' = trs
    BY <1>4, Zenon DEF Stopping
  <2> QED
    BY <1>2, <1>3, <1>4, <1>6, <2>1, Zenon DEF Stops
<1>5. CASE ~mCancelled
  <2> DEFINE req == IF stopOnSync THEN "STOP_ON_SYNC" ELSE "STOP_NOW"
             new(u) == [trs[u] EXCEPT !.mStopRequest = req, !.mState = "STOPPED"]
  <2>1. ASSUME NEW u \in Tracks PROVE trs[u].mState = "STARTED" /\ trs[u] \in TrackStates
    <3>1. tracks[u] \in TrackStates
      BY Zenon DEF IInv, TypeOK
    <3>2. tracks[u].mState \in {"CONFIGURED", "STARTED", "STOPPED"}
      BY Zenon DEF TrackStates
    <3> QED
      BY <1>5, <3>2, Zenon DEF IInv, StopInv
  <2>2. tracks' = [u \in Tracks |-> new(u)]
    BY <1>5, <2>1, Zenon DEF Stopping, TrackStop
  <2>3. ASSUME NEW u \in Tracks
        PROVE  /\ new(u) \in TrackStates
               /\ new(u).pc = trs[u].pc /\ new(u).result = trs[u].result
               /\ new(u).left = trs[u].left /\ new(u).mSampleQueue = trs[u].mSampleQueue
               /\ new(u).eosQueued = trs[u].eosQueued /\ new(u).last = trs[u].last
               /\ new(u).lost = trs[u].lost
               /\ new(u).mState = "STOPPED"
               /\ new(u).mStopRequest = req
    <3>1. req \in {"NONE", "STOP_ON_SYNC", "STOP_NOW"}
      OBVIOUS
    <3>2. trs[u] \in TrackStates
      BY Zenon
    <3> HIDE DEF req
    <3>3. new(u) \in TrackStates
      BY <3>1, <3>2, Zenon DEF TrackStates
    <3>4. /\ new(u).pc = trs[u].pc /\ new(u).result = trs[u].result
          /\ new(u).left = trs[u].left /\ new(u).mSampleQueue = trs[u].mSampleQueue
          /\ new(u).eosQueued = trs[u].eosQueued /\ new(u).last = trs[u].last
          /\ new(u).lost = trs[u].lost
          /\ new(u).mState = "STOPPED" /\ new(u).mStopRequest = req
      BY <3>2, Zenon DEF TrackStates
    <3> QED
      BY <3>3, <3>4, Zenon
  <2> HIDE DEF new
  <2> QED
    BY <1>2, <1>3, <1>5, <1>6, <2>2, <2>3 DEF Stops
<1> QED
  BY <1>4, <1>5, Zenon

(* What it wakes is told its end too early only by a pause, or when the writer   *)
(* is stopped.                                                                     *)
LEMMA StopsReader ==
  ASSUME IInv, NEW stopOnSync \in BOOLEAN, NEW trs, NEW w, Stops(trs, w, stopOnSync),
         \A u \in Tracks : trs[u].lost = tracks[u].lost,
         writer.pc # "none" => w.pc # "none",
         \/ client' = client
         \/ client' = IF mCancelled THEN "refused"
                      ELSE IF stopOnSync THEN "pausing" ELSE "cancelling"
  PROVE  ReaderInv'
<1>1. ~reader'.mEnforceSequentialAccess /\ mCancelled'
  BY Zenon DEF Stops
<1>2. client' \in {"cancelling", "cancelled"} => mSampleWriterStopped'
  BY Zenon DEF Stops, IInv, ReaderInv
<1>3. ASSUME NEW t \in Tracks, Hit(t)'
      PROVE  /\ writer'.pc # "none"
             /\ mSampleWriterStopped' => writer'.mState = "STOPPED" /\ t \notin writer'.reachedEos
  <2>1. tracks'[t].lost = tracks[t].lost
    BY Zenon DEF Stops
  <2>2. Hit(t) \/ (~mCancelled /\ reader.mEnforceSequentialAccess /\ tracks[t].pc = "run")
    BY <1>3, <2>1, Zenon DEF Hit, Stops
  <2>3. CASE Hit(t)
    BY <2>3, Zenon DEF Stops, SameQueue, IInv, ReaderInv
  <2>4. CASE ~mCancelled /\ reader.mEnforceSequentialAccess /\ tracks[t].pc = "run"
    <3>1. writer.pc # "none" /\ ~mSampleWriterStopped
      BY <2>4, Zenon DEF IInv, ReaderInv, StopInv
    <3>2. t \notin writer.reachedEos
      BY <2>4, Zenon DEF IInv, EosInv, Over
    <3>3. writer.mState \in {"STARTED", "STOPPED"}
      BY <3>1, Basics, Zenon DEF IInv, StateInv, WriterStates
    <3>4. mSampleWriterStopped' => ~mCancelled /\ ~stopOnSync
      BY <3>1, Zenon DEF Stops
    <3>5. mSampleWriterStopped' => writer'.mState = "STOPPED"
      BY <3>3, <3>4, Zenon DEF Stops
    <3> QED
      BY <3>1, <3>2, <3>5, Zenon DEF Stops, SameQueue
  <2> QED
    BY <2>2, <2>3, <2>4, Zenon
<1> QED
  BY <1>1, <1>2, <1>3, Zenon DEF ReaderInv

(* What onThreadFinished does while some thread is not done. *)
Finishes(x, result) ==
  /\ mThreadStates' \in [Threads -> {"PENDING", "RUNNING", "DONE"}]
  /\ mThreadStates'[x] = "DONE"
  /\ \A y \in Threads \ {x} : mThreadStates'[y] = mThreadStates[y]
  /\ result = "ERROR" => mTranscoderStatus' = "ERROR"
  /\ result # "ERROR" => mTranscoderStatus' = mTranscoderStatus
  /\ mTranscoderStopped' <=> (mTranscoderStopped \/ result = "STOPPED")
  /\ mThreadsDone' <=> (mThreadStates'[Writer] # "RUNNING"
                         /\ \A t \in Tracks : mThreadStates'[t] = "DONE")
  /\ mCallbackSent' = mThreadsDone'
  /\ mTranscoderStopped' \in BOOLEAN /\ mThreadsDone' \in BOOLEAN
  /\ notification' \in [type : Notifications, sent : BOOLEAN]
  /\ mThreadsDone' => notification'.type = Callback(mTranscoderStatus', mTranscoderStopped')
  /\ ~mThreadsDone' => notification'.type = "none"

(* onThreadFinished records the outcome and decides on the callback.      *)
LEMMA FinishedThread ==
  ASSUME IInv, ~mThreadsDone, NEW x \in Threads, NEW result \in {"OK", "STOPPED", "ERROR"},
         onThreadFinished(x, result)
  PROVE  Finishes(x, result)
<1>1. /\ mThreadStates \in [Threads -> {"PENDING", "RUNNING", "DONE"}]
      /\ mTranscoderStopped \in BOOLEAN /\ mCallbackSent = FALSE /\ mThreadsDone = FALSE
      /\ notification.type = "none" /\ notification \in [type : Notifications, sent : BOOLEAN]
  BY Zenon DEF IInv, TypeOK, DoneInv
<1>2. /\ mThreadStates' = [mThreadStates EXCEPT ![x] = "DONE"]
      /\ mTranscoderStatus' = NewStatus(result)
      /\ mTranscoderStopped' = (mTranscoderStopped \/ result = "STOPPED")
      /\ mThreadsDone' = AllDone(mThreadStates') /\ mCallbackSent' = AllDone(mThreadStates')
      /\ notification' = IF AllDone(mThreadStates')
                           THEN [type |-> Callback(mTranscoderStatus', mTranscoderStopped'),
                                 sent |-> FALSE]
                           ELSE notification
  BY <1>1, Zenon DEF onThreadFinished, AllDone
<1>3. Callback(mTranscoderStatus', mTranscoderStopped') \in Notifications
  BY Zenon DEF Callback, Notifications
<1>4. AllDone(mThreadStates') \in BOOLEAN
  BY Zenon DEF AllDone
<1>5. /\ AllDone(mThreadStates') =>
           notification'.type = Callback(mTranscoderStatus', mTranscoderStopped')
      /\ ~AllDone(mThreadStates') => notification'.type = "none"
      /\ notification' \in [type : Notifications, sent : BOOLEAN]
  BY <1>1, <1>2, <1>3, Zenon
<1>6. mTranscoderStopped' \in BOOLEAN
  BY <1>2, Zenon
<1>7. /\ mThreadStates' \in [Threads -> {"PENDING", "RUNNING", "DONE"}]
      /\ mThreadStates'[x] = "DONE"
      /\ \A y \in Threads \ {x} : mThreadStates'[y] = mThreadStates[y]
  BY <1>1, <1>2, Zenon
<1>8. AllDone(mThreadStates') <=> (mThreadStates'[Writer] # "RUNNING"
                         /\ \A t \in Tracks : mThreadStates'[t] = "DONE")
  BY Zenon DEF AllDone, TracksDone
<1>9. /\ result = "ERROR" => mTranscoderStatus' = "ERROR"
      /\ result # "ERROR" => mTranscoderStatus' = mTranscoderStatus
  BY <1>2, Zenon DEF NewStatus
<1>10. mTranscoderStopped' <=> (mTranscoderStopped \/ result = "STOPPED")
  BY <1>2, Zenon
<1> QED
  BY <1>2, <1>4, <1>5, <1>7, <1>8, <1>9, Zenon DEF Finishes

(* The tracks with one moved on, before requestStop is applied to them.   *)
LEMMA MovedTracks ==
  ASSUME IInv, NEW t \in Tracks, NEW pc \in Pcs
  PROVE  LET trs == [tracks EXCEPT ![t].pc = pc]
         IN  /\ trs \in [Tracks -> TrackStates] /\ trs[t].pc = pc
             /\ \A u \in Tracks \ {t} : trs[u].pc = tracks[u].pc
             /\ \A u \in Tracks :
                  /\ trs[u].mState = tracks[u].mState
                  /\ trs[u].mStopRequest = tracks[u].mStopRequest
                  /\ trs[u].result = tracks[u].result /\ trs[u].left = tracks[u].left
                  /\ trs[u].mSampleQueue = tracks[u].mSampleQueue
                  /\ trs[u].eosQueued = tracks[u].eosQueued /\ trs[u].last = tracks[u].last
                  /\ trs[u].lost = tracks[u].lost
<1> DEFINE tr == [tracks[t] EXCEPT !.pc = pc]
           trs == [tracks EXCEPT ![t].pc = pc]
<1>1. tracks[t] \in TrackStates /\ tracks \in [Tracks -> TrackStates]
  BY Zenon DEF IInv, TypeOK
<1>2. tr \in TrackStates
  BY <1>1, Zenon DEF TrackStates, Pcs
<1>3. /\ tr.pc = pc /\ tr.result = tracks[t].result /\ tr.mState = tracks[t].mState
      /\ tr.mStopRequest = tracks[t].mStopRequest /\ tr.left = tracks[t].left
      /\ tr.mSampleQueue = tracks[t].mSampleQueue /\ tr.eosQueued = tracks[t].eosQueued
      /\ tr.last = tracks[t].last /\ tr.lost = tracks[t].lost
  BY <1>1, Zenon DEF TrackStates
<1>4. trs = [tracks EXCEPT ![t] = tr]
  BY Zenon
<1> HIDE DEF tr
<1> QED
  BY <1>1, <1>2, <1>3, <1>4, Zenon

(* What an output of n samples, and of the end of stream of the tracks in eos,  *)
(* does to the queues of track t and of the writer.                              *)
Outputs(t, n, eos) ==
  /\ tracks' \in [Tracks -> TrackStates] /\ OtherTracks(t) /\ SameStop(t)
  /\ tracks'[t].result = tracks[t].result
  /\ writer' \in WriterStates
  /\ writer'.mState = writer.mState /\ writer'.pc = writer.pc
  /\ writer'.result = writer.result
  /\ writer'.reachedEos = writer.reachedEos /\ writer'.written = writer.written
  /\ \A u \in Tracks \ {t} : writer'.mSampleQueue[u] = writer.mSampleQueue[u]
  /\ t \in mTracksAdded =>
       /\ tracks'[t].mSampleQueue = tracks[t].mSampleQueue
       /\ tracks'[t].eosQueued = tracks[t].eosQueued
       /\ writer'.mSampleQueue[t] = writer.mSampleQueue[t] + n
       /\ writer'.eosQueued = writer.eosQueued \cup eos
  /\ t \notin mTracksAdded =>
       /\ tracks'[t].mSampleQueue = tracks[t].mSampleQueue + n
       /\ tracks'[t].eosQueued = tracks[t].eosQueued \cup eos
       /\ writer'.mSampleQueue[t] = writer.mSampleQueue[t]
       /\ writer'.eosQueued = writer.eosQueued

(* The step of a thread that outputs them, with its new pc and what it leaves. *)
OutputStep(t, n, eos, pc, l, d, last) ==
  /\ n \in {0, 1} /\ n <= tracks[t].left /\ eos \subseteq Tracks
  /\ pc \in Pcs /\ l \in 0..NumSamples /\ d \in 0..NumSamples /\ last \in {"SYNC", "OTHER"}
  /\ tracks' = [tracks EXCEPT ![t] =
       [OutputTrack(t, n, eos) EXCEPT !.pc = pc, !.left = l, !.lost = d, !.last = last]]
  /\ writer' = OutputWriter(t, n, eos)

(* onOutputSampleAvailable keeps the counters in range: a sample that is output *)
(* was left in the source.                                                      *)
LEMMA TrackOutputs ==
  ASSUME IInv, NEW t \in Tracks, NEW n, NEW eos, NEW pc, NEW l, NEW d, NEW last,
         OutputStep(t, n, eos, pc, l, d, last)
  PROVE  /\ Outputs(t, n, eos)
         /\ tracks'[t].pc = pc /\ tracks'[t].left = l /\ tracks'[t].lost = d
         /\ tracks'[t].last = last
<1>1. n \in {0, 1} /\ n <= tracks[t].left
  BY Zenon DEF OutputStep
<1>2. /\ eos \subseteq Tracks /\ pc \in Pcs /\ last \in {"SYNC", "OTHER"}
      /\ l \in 0..NumSamples /\ d \in 0..NumSamples
  BY Zenon DEF OutputStep
<1>3. /\ tracks[t] \in TrackStates /\ writer \in WriterStates
      /\ tracks \in [Tracks -> TrackStates]
      /\ writer.mSampleQueue \in [Tracks -> 0..NumSamples] /\ writer.mSampleQueue[t] \in Nat
      /\ writer.written[t] \in Nat /\ tracks[t].left \in Nat /\ tracks[t].mSampleQueue \in Nat
      /\ NumSamples \in Nat /\ tracks[t].left <= NumSamples
      /\ writer.eosQueued \subseteq Tracks /\ tracks[t].eosQueued \subseteq Tracks
  BY TranscoderAssumption DEF IInv, TypeOK, WriterStates, TrackStates
<1>4. /\ tracks[t].mSampleQueue + n \in 0..NumSamples
      /\ writer.mSampleQueue[t] + n \in 0..NumSamples
  BY <1>3, <1>1, Basics DEF IInv, CountInv, InFlight
<1>5. CASE t \in mTracksAdded
  <2> DEFINE tr == [tracks[t] EXCEPT !.pc = pc, !.left = l, !.lost = d, !.last = last]
             q == [writer.mSampleQueue EXCEPT ![t] = @ + n]
             e == writer.eosQueued \cup eos
  <2>1. tracks' = [tracks EXCEPT ![t] = tr]
    BY <1>5, Zenon DEF OutputStep, OutputTrack
  <2>2. writer' = [writer EXCEPT !.mSampleQueue = q, !.eosQueued = e]
    BY <1>5, Zenon DEF OutputStep, OutputWriter
  <2>3. /\ q \in [Tracks -> 0..NumSamples] /\ q[t] = writer.mSampleQueue[t] + n
        /\ \A u \in Tracks \ {t} : q[u] = writer.mSampleQueue[u]
        /\ e \subseteq Tracks
    BY <1>3, <1>4, <1>2, Zenon
  <2> HIDE DEF q
  <2>4. tr \in TrackStates
    <3>1. tracks[t] \in TrackStates
      BY <1>3, Zenon
    <3> QED
      BY <1>2, <3>1, Zenon DEF TrackStates, Pcs
  <2>5. /\ tr.pc = pc /\ tr.left = l /\ tr.lost = d /\ tr.last = last
        /\ tr.result = tracks[t].result
        /\ tr.mState = tracks[t].mState /\ tr.mStopRequest = tracks[t].mStopRequest
        /\ tr.mSampleQueue = tracks[t].mSampleQueue /\ tr.eosQueued = tracks[t].eosQueued
    BY <1>3, Zenon DEF TrackStates
  <2> HIDE DEF e, tr
  <2>6. /\ writer' \in WriterStates /\ writer'.mState = writer.mState
        /\ writer'.pc = writer.pc /\ writer'.result = writer.result
        /\ writer'.reachedEos = writer.reachedEos /\ writer'.written = writer.written
        /\ writer'.mSampleQueue = q /\ writer'.eosQueued = e
    BY <1>3, <2>2, <2>3, Zenon DEF WriterStates
  <2>7. /\ tracks' \in [Tracks -> TrackStates] /\ tracks'[t] = tr
        /\ \A u \in Tracks \ {t} : tracks'[u] = tracks[u]
    BY <1>3, <2>1, <2>4, Zenon
  <2> QED
    BY <1>5, <2>3, <2>5, <2>6, <2>7, Zenon DEF Outputs, OtherTracks, SameStop, e
<1>6. CASE t \notin mTracksAdded
  <2> DEFINE q == tracks[t].mSampleQueue + n
             e == tracks[t].eosQueued \cup eos
             tr == [tracks[t] EXCEPT !.mSampleQueue = q, !.eosQueued = e, !.pc = pc, !.left = l,
                                     !.lost = d, !.last = last]
  <2>1. tracks' = [tracks EXCEPT ![t] = tr]
    BY <1>6, Zenon DEF OutputStep, OutputTrack
  <2>2. writer' = writer
    BY <1>6, Zenon DEF OutputStep, OutputWriter
  <2>3. e \subseteq Tracks /\ q \in 0..NumSamples
    BY <1>3, <1>4, <1>2, Zenon
  <2> HIDE DEF q, e
  <2>4. tr \in TrackStates
    <3>1. tracks[t] \in TrackStates /\ e \in SUBSET Tracks
      BY <1>3, <2>3, Zenon
    <3> QED
      BY <1>2, <2>3, <3>1, Zenon DEF TrackStates, Pcs
  <2>5. /\ tr.pc = pc /\ tr.left = l /\ tr.lost = d /\ tr.last = last
        /\ tr.result = tracks[t].result
        /\ tr.mState = tracks[t].mState /\ tr.mStopRequest = tracks[t].mStopRequest
        /\ tr.mSampleQueue = q /\ tr.eosQueued = e
    BY <1>3, Zenon DEF TrackStates
  <2> HIDE DEF tr
  <2>7. /\ tracks' \in [Tracks -> TrackStates] /\ tracks'[t] = tr
        /\ \A u \in Tracks \ {t} : tracks'[u] = tracks[u]
    BY <1>3, <2>1, <2>4, Zenon
  <2> QED
    BY <1>3, <1>6, <2>2, <2>5, <2>7, Zenon DEF Outputs, OtherTracks, SameStop, e, q
<1> QED
  BY <1>5, <1>6, Zenon

-----------------------------------------------------------------------------
(* The steps of a track's thread                                            *)

(* The outcome of a track is recorded with the end of its thread.         *)
LEMMA trackFinishedStep ==
  ASSUME IInv, NEW t \in Tracks, trackFinished(t)
  PROVE  IInv'
<1>1. /\ tracks[t].pc \in {"ended", "report"}
      /\ tracks[t].pc # "report" => tracks[t].result # "ERROR"
  BY Zenon DEF trackFinished, at
<1>2. UNCHANGED <<mSampleWriterStopped, mCancelled, reader, mTracksAdded, adding, writer, client>>
  BY Zenon DEF trackFinished, stopFlags
<1>3. Moves(t, "gone", tracks[t].result)
  <2>1. tracks[t].result \in {"OK", "STOPPED", "ERROR"} /\ "gone" \in Pcs
    BY Basics, Zenon DEF TrackStates, Pcs
  <2>2. tracks' = [tracks EXCEPT ![t].pc = "gone"] /\ tracks \in [Tracks -> TrackStates]
    BY Zenon DEF trackFinished, goto, IInv, TypeOK
  <2> QED
    BY <2>1, <2>2, MovesOn, Zenon
<1>4. ~mThreadsDone
  BY <1>1, Zenon DEF IInv, DoneInv, DoneMeansIdle, Idle
<1>5. Finishes(t, tracks[t].result)
  BY <1>4, Basics, FinishedThread, Zenon DEF trackFinished, TrackStates
<1>6. TypeOK'
  BY <1>2, <1>3, <1>5, Zenon DEF IInv, Moves, Finishes, TypeOK
<1>7. AddInv'
  BY <1>1, <1>2, <1>3, Basics DEF IInv, Moves, OtherTracks, SameSamples, AddInv, Adding,
     Added, Over
<1>8. StateInv'
  BY <1>2, <1>3, <1>5, Basics DEF IInv, Moves, OtherTracks, Finishes, StateInv
<1>9. DoneInv'
  BY <1>2, <1>3, <1>5, Basics DEF IInv, Moves, OtherTracks, Finishes, DoneInv,
     DoneMeansIdle, Idle, WriterIdle, StateInv, Callback
<1>10. StopInv'
  BY <1>1, <1>2, <1>3, <1>5 DEF IInv, Moves, OtherTracks, SameStop, Finishes, StopInv,
     ErrorPending
<1>11. PauseInv'
  BY <1>2, <1>3 DEF IInv, Moves, OtherTracks, SameStop, SameSamples, PauseInv
<1>12. RecordInv'
  BY <1>2, <1>3, <1>5 DEF IInv, Moves, OtherTracks, Finishes, RecordInv, Over
<1>13. CountInv'
  BY <1>2, <1>3, Zenon DEF IInv, Moves, OtherTracks, SameSamples, CountInv, InFlight
<1>14. EosInv'
  BY <1>1, <1>2, <1>3, Basics DEF IInv, Moves, OtherTracks, SameSamples, EosInv, Over,
     allEos
<1>15. NoWriterInv'
  BY <1>1, <1>2, <1>3, <1>5 DEF IInv, Moves, OtherTracks, SameStop, Finishes,
     NoWriterInv, Added
<1>16. ReaderInv'
  BY <1>2, <1>3, Basics, Zenon DEF IInv, Moves, OtherTracks, SameSamples, ReaderInv, Hit
<1> QED
  BY <1>6, <1>7, <1>8, <1>9, <1>10, <1>11, <1>12, <1>13, <1>14, <1>15, <1>16, Zenon DEF IInv

(* A track that was not yet added hands its samples to the writer.        *)
LEMMA formatAvailableStep ==
  ASSUME IInv, NEW t \in Tracks, formatAvailable(t)
  PROVE  IInv'
<1>1. /\ tracks[t].pc = "new" /\ adding = Writer /\ adding' = t
      /\ writer.mState = "INITIALIZED" /\ mTracksAdded' = mTracksAdded \cup {t}
  BY Zenon DEF formatAvailable, formatReady, at
<1>2. UNCHANGED <<mThreadStates, mTranscoderStatus, mTranscoderStopped, mThreadsDone,
                  mCallbackSent, mSampleWriterStopped, mCancelled, reader, notification, client>>
  BY Zenon DEF formatAvailable, flags, stopFlags
<1>3. /\ tracks[t].left \in Nat /\ tracks[t].mSampleQueue \in Nat
      /\ writer.mSampleQueue[t] \in Nat /\ writer.written[t] \in Nat
  BY Basics DEF TrackStates, WriterStates
<1>4. /\ tracks[t].eosQueued = {} /\ t \notin mTracksAdded /\ writer.pc = "none"
      /\ tracks[t].result = "OK"
  BY <1>1, Zenon DEF IInv, AddInv, Added, Over, StateInv, RecordInv
<1>5. /\ tracks' \in [Tracks -> TrackStates] /\ OtherTracks(t) /\ SameStop(t)
      /\ tracks'[t].pc = "added" /\ tracks'[t].result = tracks[t].result
      /\ tracks'[t].left = tracks[t].left /\ tracks'[t].last = tracks[t].last
      /\ tracks'[t].mSampleQueue = 0 /\ tracks'[t].eosQueued = {}
      /\ tracks'[t].lost = tracks[t].lost
  <2> DEFINE tr == [tracks[t] EXCEPT !.pc = "added", !.mSampleQueue = 0, !.eosQueued = {}]
  <2>1. tracks \in [Tracks -> TrackStates] /\ tracks[t] \in TrackStates
    BY Zenon DEF IInv, TypeOK
  <2>2. tracks' = [tracks EXCEPT ![t].pc = "added", ![t].mSampleQueue = 0, ![t].eosQueued = {}]
    BY Zenon DEF formatAvailable
  <2>3. tracks' = [tracks EXCEPT ![t] = tr]
    BY <2>2, Zenon
  <2>4. 0 \in 0..NumSamples
    BY TranscoderAssumption
  <2>5. tr \in TrackStates
    BY <2>1, <2>4, Zenon DEF TrackStates
  <2>6. /\ tr.pc = "added" /\ tr.result = tracks[t].result /\ tr.mState = tracks[t].mState
        /\ tr.mStopRequest = tracks[t].mStopRequest /\ tr.left = tracks[t].left
        /\ tr.mSampleQueue = 0 /\ tr.eosQueued = {} /\ tr.last = tracks[t].last
        /\ tr.lost = tracks[t].lost
    OBVIOUS
  <2> HIDE DEF tr
  <2> QED
    BY <2>1, <2>3, <2>5, <2>6, Zenon DEF OtherTracks, SameStop
<1>6. /\ writer' \in WriterStates /\ writer'.mState = writer.mState
      /\ writer'.pc = writer.pc /\ writer'.result = writer.result
      /\ writer'.eosQueued = writer.eosQueued
      /\ writer'.reachedEos = writer.reachedEos /\ writer'.written = writer.written
      /\ writer'.mSampleQueue[t] = writer.mSampleQueue[t] + tracks[t].mSampleQueue
      /\ \A u \in Tracks \ {t} : writer'.mSampleQueue[u] = writer.mSampleQueue[u]
  <2> DEFINE n == tracks[t].mSampleQueue
             q == [writer.mSampleQueue EXCEPT ![t] = @ + n]
             e == writer.eosQueued \cup tracks[t].eosQueued
  <2>1. writer' = [writer EXCEPT !.mSampleQueue = q, !.eosQueued = e]
    BY Zenon DEF formatAvailable, HandedOver
  <2>2. writer.mSampleQueue[t] + n \in 0..NumSamples
    BY <1>3, Basics, TranscoderAssumption DEF IInv, CountInv, InFlight
  <2>3. /\ q \in [Tracks -> 0..NumSamples] /\ q[t] = writer.mSampleQueue[t] + n
        /\ \A u \in Tracks \ {t} : q[u] = writer.mSampleQueue[u]
    BY <2>2, Basics, Zenon DEF WriterStates
  <2>4. e = writer.eosQueued
    BY <1>4, Zenon
  <2> HIDE DEF q, e
  <2>5. /\ writer' \in WriterStates /\ writer'.mState = writer.mState
        /\ writer'.pc = writer.pc /\ writer'.result = writer.result
        /\ writer'.reachedEos = writer.reachedEos /\ writer'.written = writer.written
        /\ writer'.mSampleQueue = q /\ writer'.eosQueued = e
    BY <2>1, <2>3, <2>4, Basics, Zenon DEF WriterStates
  <2> QED
    BY <2>3, <2>4, <2>5, Zenon
<1>7. TypeOK'
  BY <1>1, <1>2, <1>5, <1>6, Basics DEF IInv, TypeOK
<1>8. AddInv'
  BY <1>1, <1>5, Basics DEF IInv, OtherTracks, AddInv, Adding, Added
<1>9. StateInv'
  BY <1>1, <1>2, <1>5, <1>6 DEF IInv, OtherTracks, StateInv
<1>10. DoneInv'
  BY <1>1, <1>2, Zenon DEF IInv, DoneInv, DoneMeansIdle, Idle
<1>11. StopInv'
  BY <1>1, <1>2, <1>5, <1>6 DEF IInv, OtherTracks, SameStop, StopInv, ErrorPending
<1>12. PauseInv'
  BY <1>2, <1>5, <1>6 DEF IInv, OtherTracks, SameStop, PauseInv
<1>13. RecordInv'
  BY <1>2, <1>4, <1>5, <1>6 DEF IInv, OtherTracks, RecordInv
<1>14. CountInv'
  BY <1>3, <1>5, <1>6 DEF IInv, OtherTracks, CountInv, InFlight
<1>15. EosInv'
  BY <1>1, <1>5, <1>6, Basics DEF IInv, OtherTracks, EosInv, Over, allEos
<1>16. NoWriterInv'
  BY <1>1, <1>2, <1>5, Basics DEF IInv, OtherTracks, NoWriterInv
<1>17. ReaderInv'
  BY <1>2, <1>5, <1>6, Basics DEF IInv, OtherTracks, ReaderInv, Hit
<1> QED
  BY <1>7, <1>8, <1>9, <1>10, <1>11, <1>12, <1>13, <1>14, <1>15, <1>16, <1>17, Zenon DEF IInv

(* The last track starts the writer, unless everything was stopped by then. *)
LEMMA startWriterStep ==
  ASSUME IInv, NEW t \in Tracks, startWriter(t)
  PROVE  IInv'
<1>1. tracks[t].pc = "added" /\ adding' = Writer
  BY Zenon DEF startWriter, at
<1>2. UNCHANGED <<mTranscoderStatus, mTranscoderStopped, mThreadsDone, mCallbackSent,
                  mSampleWriterStopped, mCancelled, mTracksAdded, notification, client>>
  BY Zenon DEF startWriter, flags
<1>3. Moves(t, "checkStop", "OK")
  BY <1>1, MovesOn, Zenon DEF startWriter, IInv, TypeOK, Pcs, goto, RecordInv, Over
<1>4. writer.pc = "none" /\ t \in mTracksAdded \cup Tracks /\ adding = t /\ client # "configured"
  BY <1>1, Zenon DEF IInv, StateInv, AddInv, Adding, StopInv
<1>5. \/ /\ writer' = writer /\ mThreadStates' = mThreadStates /\ reader' = reader
         /\ mTracksAdded # Tracks \/ mSampleWriterStopped
      \/ /\ mTracksAdded = Tracks /\ ~mSampleWriterStopped
         /\ writer' \in WriterStates /\ SameQueue /\ writer'.result = writer.result
         /\ writer'.mState = "STARTED" /\ writer'.pc = "start"
         /\ mThreadStates' \in [Threads -> {"PENDING", "RUNNING", "DONE"}]
         /\ mThreadStates'[Writer] = "RUNNING"
         /\ \A u \in Tracks : mThreadStates'[u] = mThreadStates[u]
         /\ reader' \in ReaderStates /\ reader'.woken = reader.woken
         /\ reader'.mEnforceSequentialAccess = ~mCancelled
  <2>1. CASE mTracksAdded = Tracks /\ ~mSampleWriterStopped
    <3>1. /\ writer' = [writer EXCEPT !.mState = "STARTED", !.pc = "start"]
          /\ mThreadStates' = [mThreadStates EXCEPT ![Writer] = "RUNNING"]
      BY <2>1, Zenon DEF startWriter
    <3>2. /\ writer' \in WriterStates /\ SameQueue /\ writer'.result = writer.result
          /\ writer'.mState = "STARTED" /\ writer'.pc = "start"
      BY <3>1, Basics, Zenon DEF WriterStates, SameQueue
    <3>3. /\ mThreadStates' \in [Threads -> {"PENDING", "RUNNING", "DONE"}]
          /\ mThreadStates'[Writer] = "RUNNING"
          /\ \A u \in Tracks : mThreadStates'[u] = mThreadStates[u]
      BY <3>1, Basics, Zenon DEF IInv, TypeOK
    <3>4. /\ reader' \in ReaderStates /\ reader'.woken = reader.woken
          /\ reader'.mEnforceSequentialAccess = ~mCancelled
      <4>1. reader' = [reader EXCEPT !.mEnforceSequentialAccess = ~mCancelled]
        BY <2>1, Zenon DEF startWriter
      <4> QED
        BY <4>1, Basics, Zenon DEF ReaderStates
    <3> QED
      BY <2>1, <3>2, <3>3, <3>4, Zenon
  <2>2. CASE ~(mTracksAdded = Tracks /\ ~mSampleWriterStopped)
    BY <2>2, Zenon DEF startWriter
  <2> QED
    BY <2>1, <2>2, Zenon
<1>6. TypeOK'
  BY <1>1, <1>2, <1>3, <1>5, Basics DEF IInv, Moves, TypeOK
<1>7. AddInv'
  BY <1>1, <1>2, <1>3, Basics DEF IInv, Moves, OtherTracks, SameSamples, AddInv, Adding,
     Added, Over
<1>8. StateInv'
  BY <1>2, <1>3, <1>4, <1>5 DEF IInv, Moves, OtherTracks, StateInv, AddInv, Adding
<1>9. DoneInv'
  BY <1>1, <1>2, Zenon DEF IInv, DoneInv, DoneMeansIdle, Idle
<1>10. StopInv'
  BY <1>1, <1>2, <1>3, <1>4, <1>5 DEF IInv, Moves, OtherTracks, SameStop, StopInv,
     ErrorPending
<1>11. PauseInv'
  BY <1>2, <1>3, <1>5 DEF IInv, Moves, OtherTracks, SameStop, PauseInv
<1>12. RecordInv'
  BY <1>2, <1>3, <1>4, <1>5 DEF IInv, Moves, OtherTracks, RecordInv, StateInv
<1>13. CountInv'
  BY <1>3, <1>5 DEF IInv, Moves, OtherTracks, SameSamples, SameQueue, CountInv, InFlight
<1>14. EosInv'
  BY <1>1, <1>3, <1>5, Basics DEF IInv, Moves, OtherTracks, SameQueue, EosInv, Over,
     allEos
<1>15. NoWriterInv'
  <2>1. \A u \in Tracks \ mTracksAdded :
          tracks'[u].pc \in Added => mTranscoderStatus = "ERROR" \/ tracks'[u].result # "OK"
    BY <1>1, <1>3 DEF IInv, NoWriterInv, Added, RecordInv, Over, Moves, OtherTracks
  <2>2. ASSUME writer'.pc = "none", mTracksAdded = Tracks
        PROVE  /\ tracks'[t].mStopRequest = "STOP_NOW"
               /\ tracks'[t].pc \in {"checkStop", "run"}
    BY <1>3, <1>5, <2>2, Zenon DEF IInv, StopInv, Moves, SameStop
  <2> QED
    BY <1>2, <2>1, <2>2, Zenon DEF NoWriterInv
<1>16. ReaderInv'
  BY <1>2, <1>3, <1>4, <1>5 DEF IInv, Moves, OtherTracks, SameSamples, ReaderInv, Hit
<1> QED
  BY <1>6, <1>7, <1>8, <1>9, <1>10, <1>11, <1>12, <1>13, <1>14, <1>15, <1>16, Zenon DEF IInv

(* The muxer refuses the track: nothing but the mutex changes hands.      *)
LEMMA addTrackFailsStep ==
  ASSUME IInv, NEW t \in Tracks, addTrackFails(t)
  PROVE  IInv'
<1>1. /\ tracks[t].pc = "new" /\ adding = Writer /\ adding' = t
  BY Zenon DEF addTrackFails, formatReady, at
<1>2. UNCHANGED <<mThreadStates, mTranscoderStatus, mTranscoderStopped, mThreadsDone,
                  mCallbackSent, mSampleWriterStopped, mCancelled, reader, mTracksAdded, writer,
                  notification, client>>
  BY Zenon DEF addTrackFails, flags, stopFlags
<1>3. Moves(t, "addFailed", "OK")
  BY <1>1, MovesOn, Zenon DEF addTrackFails, IInv, TypeOK, Pcs, goto, RecordInv, Over
<1>4. TypeOK'
  BY <1>1, <1>2, <1>3, Basics DEF IInv, Moves, TypeOK
<1>5. AddInv'
  BY <1>1, <1>2, <1>3, Basics DEF IInv, Moves, OtherTracks, SameSamples, AddInv, Adding,
     Added, Over
<1>6. StateInv'
  BY <1>1, <1>2, <1>3, Zenon DEF IInv, Moves, OtherTracks, StateInv
<1>7. DoneInv'
  BY <1>1, <1>2, Zenon DEF IInv, DoneInv, DoneMeansIdle, Idle
<1>8. StopInv'
  BY <1>1, <1>2, <1>3 DEF IInv, Moves, OtherTracks, SameStop, StopInv, ErrorPending
<1>9. PauseInv'
  BY <1>2, <1>3, Zenon DEF IInv, Moves, OtherTracks, SameStop, PauseInv
<1>10. RecordInv'
  BY <1>2, <1>3 DEF IInv, Moves, OtherTracks, RecordInv
<1>11. CountInv'
  BY <1>2, <1>3, Zenon DEF IInv, Moves, OtherTracks, SameSamples, CountInv, InFlight
<1>12. EosInv'
  BY <1>1, <1>2, <1>3, Basics, Zenon DEF IInv, Moves, OtherTracks, EosInv, Over, allEos
<1>13. NoWriterInv'
  BY <1>1, <1>2, <1>3, Basics, Zenon DEF IInv, Moves, OtherTracks, NoWriterInv, Added
<1>14. ReaderInv'
  BY <1>2, <1>3, Basics, Zenon DEF IInv, Moves, OtherTracks, SameSamples, ReaderInv, Hit
<1> QED
  BY <1>4, <1>5, <1>6, <1>7, <1>8, <1>9, <1>10, <1>11, <1>12, <1>13, <1>14, Zenon DEF IInv

(* A failed track, or a refused one, stops all threads before its error is recorded. *)
LEMMA ErrorStops ==
  ASSUME IInv, NEW t \in Tracks, NEW pc \in Pcs,
         errorStopsAll([tracks EXCEPT ![t].pc = pc], writer),
         \/ tracks[t].pc = "addFailed" /\ pc = "addReport"
         \/ tracks[t].pc = "ended" /\ tracks[t].result = "ERROR" /\ pc = "report",
         UNCHANGED <<mThreadStates, mTranscoderStatus, mTranscoderStopped, mThreadsDone,
                     mCallbackSent, mTracksAdded, adding, notification, client>>
  PROVE  IInv'
<1>1. client # "configured"
  BY Zenon DEF IInv, StopInv
<1>2. LET trs == [tracks EXCEPT ![t].pc = pc]
      IN  /\ Stops(trs, writer, FALSE)
          /\ trs[t].pc = pc /\ \A u \in Tracks \ {t} : trs[u].pc = tracks[u].pc
          /\ \A u \in Tracks :
               /\ trs[u].result = tracks[u].result /\ trs[u].left = tracks[u].left
               /\ trs[u].mSampleQueue = tracks[u].mSampleQueue
               /\ trs[u].eosQueued = tracks[u].eosQueued /\ trs[u].last = tracks[u].last
               /\ trs[u].lost = tracks[u].lost
  <2> DEFINE trs == [tracks EXCEPT ![t].pc = pc]
  <2>1. /\ tracks' = Stopping(trs, FALSE) /\ writer' = StoppingWriter(writer, FALSE)
        /\ stopRequested(FALSE)
    BY Zenon DEF errorStopsAll
  <2>2. /\ trs \in [Tracks -> TrackStates] /\ trs[t].pc = pc
        /\ \A u \in Tracks \ {t} : trs[u].pc = tracks[u].pc
        /\ \A u \in Tracks :
             /\ trs[u].mState = tracks[u].mState
             /\ trs[u].mStopRequest = tracks[u].mStopRequest
             /\ trs[u].result = tracks[u].result /\ trs[u].left = tracks[u].left
             /\ trs[u].mSampleQueue = tracks[u].mSampleQueue
             /\ trs[u].eosQueued = tracks[u].eosQueued /\ trs[u].last = tracks[u].last
             /\ trs[u].lost = tracks[u].lost
    BY MovedTracks
  <2> HIDE DEF trs
  <2>3. Stops(trs, writer, FALSE)
    BY <1>1, <2>1, <2>2, Basics, StopStops, Zenon
  <2>4. /\ Stops(trs, writer, FALSE)
        /\ trs[t].pc = pc /\ \A u \in Tracks \ {t} : trs[u].pc = tracks[u].pc
        /\ \A u \in Tracks :
             /\ trs[u].result = tracks[u].result /\ trs[u].left = tracks[u].left
             /\ trs[u].mSampleQueue = tracks[u].mSampleQueue
             /\ trs[u].eosQueued = tracks[u].eosQueued /\ trs[u].last = tracks[u].last
             /\ trs[u].lost = tracks[u].lost
    BY <2>2, <2>3, Zenon
  <2> QED
    BY <2>4, Zenon DEF trs
<1>3. TypeOK'
  BY <1>2, Zenon DEF IInv, Stops, TypeOK
<1>4. AddInv'
  BY <1>2, Basics DEF IInv, Stops, AddInv, Adding, Added, Over
<1>5. StateInv'
  BY <1>2 DEF IInv, Stops, SameQueue, StateInv
<1>6. DoneInv'
  BY Zenon DEF IInv, DoneInv, DoneMeansIdle, Idle
<1>7. StopInv'
  BY <1>2 DEF IInv, Stops, StopInv, ErrorPending
<1>8. PauseInv'
  BY <1>2 DEF IInv, Stops, PauseInv
<1>9. RecordInv'
  BY <1>2 DEF IInv, Stops, RecordInv, Over
<1>10. CountInv'
  BY <1>2 DEF IInv, Stops, SameQueue, CountInv, InFlight
<1>11. EosInv'
  BY <1>2, Basics DEF IInv, Stops, SameQueue, EosInv, Over, allEos
<1>12. NoWriterInv'
  BY <1>2 DEF IInv, Stops, NoWriterInv, Added
<1>13. ReaderInv'
  BY <1>2, StopsReader, Zenon
<1> QED
  BY <1>3, <1>4, <1>5, <1>6, <1>7, <1>8, <1>9, <1>10, <1>11, <1>12, <1>13, Zenon DEF IInv

(* ... onTrackFormatAvailable does so for a refused track,                *)
LEMMA addTrackErrorStep ==
  ASSUME IInv, NEW t \in Tracks, addTrackError(t)
  PROVE  IInv'
<1>1. "addReport" \in Pcs
  BY Zenon DEF Pcs
<1> QED
  BY <1>1, ErrorStops, Zenon DEF addTrackError, at, flags

(* ... onTrackError for a failed one.                                     *)
LEMMA trackErrorStep ==
  ASSUME IInv, NEW t \in Tracks, trackError(t)
  PROVE  IInv'
<1>1. "report" \in Pcs
  BY Zenon DEF Pcs
<1> QED
  BY <1>1, ErrorStops, Zenon DEF trackError, at, flags

(* The refusal is recorded as the writer's error; the track itself is still *)
(* running, so that the transcoder is not done.                             *)
LEMMA addTrackReportStep ==
  ASSUME IInv, NEW t \in Tracks, addTrackReport(t)
  PROVE  IInv'
<1>1. /\ tracks[t].pc = "addReport" /\ adding' = Writer
  BY Zenon DEF addTrackReport, at
<1>2. UNCHANGED <<mSampleWriterStopped, mCancelled, reader, mTracksAdded, writer, client>>
  BY Zenon DEF addTrackReport, stopFlags
<1>3. Moves(t, "checkStop", "OK")
  BY <1>1, MovesOn, Zenon DEF addTrackReport, IInv, TypeOK, Pcs, goto, RecordInv, Over
<1>4. ~mThreadsDone
  BY <1>1, Zenon DEF IInv, DoneInv, DoneMeansIdle, Idle
<1>5. Finishes(Writer, "ERROR")
  BY <1>4, Basics, FinishedThread, Zenon DEF addTrackReport
<1>6. tracks[t].result = "OK" /\ t \notin mTracksAdded /\ writer.pc = "none" /\ mThreadStates[t] # "DONE"
  BY <1>1, Zenon DEF IInv, AddInv, Added, StateInv, RecordInv, Over
<1>7. TypeOK'
  BY <1>1, <1>2, <1>3, <1>5, Basics, Zenon DEF IInv, Moves, Finishes, TypeOK
<1>8. AddInv'
  BY <1>1, <1>2, <1>3, Basics DEF IInv, Moves, OtherTracks, SameSamples, AddInv, Adding,
     Added, Over
<1>9. StateInv'
  BY <1>2, <1>3, <1>5, <1>6, Basics DEF IInv, Moves, OtherTracks, Finishes, StateInv
<1>10. DoneInv'
  BY <1>5, <1>6, Basics, Zenon DEF Finishes, DoneInv
<1>11. StopInv'
  BY <1>1, <1>2, <1>3, <1>5 DEF IInv, Moves, OtherTracks, SameStop, Finishes, StopInv
<1>12. PauseInv'
  BY <1>2, <1>3, Zenon DEF IInv, Moves, OtherTracks, SameStop, PauseInv
<1>13. RecordInv'
  BY <1>2, <1>3, <1>5 DEF IInv, Moves, OtherTracks, Finishes, RecordInv
<1>14. CountInv'
  BY <1>2, <1>3, Zenon DEF IInv, Moves, OtherTracks, SameSamples, CountInv, InFlight
<1>15. EosInv'
  BY <1>1, <1>2, <1>3, Basics, Zenon DEF IInv, Moves, OtherTracks, EosInv, Over, allEos
<1>16. NoWriterInv'
  BY <1>2, <1>5, <1>6, Zenon DEF Finishes, NoWriterInv
<1>17. ReaderInv'
  BY <1>2, <1>3, Basics, Zenon DEF IInv, Moves, OtherTracks, SameSamples, ReaderInv, Hit
<1> QED
  BY <1>7, <1>8, <1>9, <1>10, <1>11, <1>12, <1>13, <1>14, <1>15, <1>16, <1>17, Zenon DEF IInv

(* An output changes nothing else of the track.                           *)
LEMMA OutputTrackSame ==
  ASSUME IInv, NEW t \in Tracks, NEW n \in {0, 1}, NEW eos
  PROVE  LET tr == OutputTrack(t, n, eos)
         IN  /\ tr.left = tracks[t].left /\ tr.lost = tracks[t].lost
             /\ tr.last = tracks[t].last
             /\ DOMAIN tr = DOMAIN tracks[t]
<1>1. tracks[t] \in TrackStates
  BY Basics, Zenon
<1> QED
  BY <1>1 DEF OutputTrack, TrackStates

(* A sample goes from the source to one of the two queues.                *)
LEMMA outputSampleStep ==
  ASSUME IInv, NEW t \in Tracks, outputSample(t)
  PROVE  IInv'
<1>1. /\ tracks[t].pc = "run" /\ tracks[t].mStopRequest # "STOP_NOW"
      /\ tracks[t].left > 0
  BY Zenon DEF outputSample, at
<1>2. UNCHANGED <<mThreadStates, mTranscoderStatus, mTranscoderStopped, mThreadsDone,
                  mCallbackSent, mSampleWriterStopped, mCancelled, mTracksAdded, adding,
                  notification, client>>
  BY Zenon DEF outputSample, flags
<1>3. /\ ReaderMoves /\ tracks[t].left \in Nat /\ tracks[t].mSampleQueue \in Nat
      /\ writer.mSampleQueue[t] \in Nat /\ writer.written[t] \in Nat
  <2>1. ReaderMoves
    BY ReaderMovesOn, Zenon DEF outputSample
  <2> QED
    BY <2>1, Basics DEF TrackStates, WriterStates
<1>4. /\ Outputs(t, 1, {})
      /\ tracks'[t].pc = "checkStop" /\ tracks'[t].left = tracks[t].left - 1
      /\ tracks'[t].lost = tracks[t].lost
  <2>1. PICK last \in {"SYNC", "OTHER"} : tracks' = [tracks EXCEPT ![t] =
          [OutputTrack(t, 1, {}) EXCEPT !.pc = "checkStop", !.left = @ - 1, !.last = last]]
    BY Zenon DEF outputSample
  <2> DEFINE tr == OutputTrack(t, 1, {})
             l == tracks[t].left - 1
             d == tracks[t].lost
  <2>2. tr.left = tracks[t].left /\ tr.lost = d
    BY OutputTrackSame, Zenon
  <2>3. tracks' = [tracks EXCEPT ![t] =
          [tr EXCEPT !.pc = "checkStop", !.left = l, !.last = last]]
    BY <2>1, <2>2, Zenon
  <2>4. tracks' = [tracks EXCEPT ![t] =
          [tr EXCEPT !.pc = "checkStop", !.left = l, !.lost = d, !.last = last]]
    <3> HIDE DEF tr, l, d
    <3>1. [tr EXCEPT !.pc = "checkStop", !.left = l, !.last = last] =
            [tr EXCEPT !.pc = "checkStop", !.left = l, !.lost = tr.lost, !.last = last]
      BY Zenon
    <3> QED
      BY <2>2, <2>3, <3>1, Zenon
  <2>5. /\ writer' = OutputWriter(t, 1, {}) /\ "checkStop" \in Pcs /\ 1 <= tracks[t].left
        /\ 1 \in {0, 1} /\ {} \in SUBSET Tracks
    BY <1>1, <1>3 DEF outputSample, Pcs
  <2>6. l \in 0..NumSamples /\ d \in 0..NumSamples
    BY <1>1, <1>3, Basics, TranscoderAssumption DEF TrackStates
  <2> HIDE DEF l, d
  <2>7. /\ Outputs(t, 1, {}) /\ tracks'[t].pc = "checkStop" /\ tracks'[t].left = l
        /\ tracks'[t].lost = d
    <3>1. OutputStep(t, 1, {}, "checkStop", l, d, last)
      BY <2>4, <2>5, <2>6, Zenon DEF OutputStep, tr
    <3> QED
      BY <3>1, TrackOutputs, Zenon
  <2> QED
    BY <2>7, Zenon DEF l, d
<1>5. tracks[t].result = "OK"
  BY <1>1, Zenon DEF IInv, RecordInv, Over
<1>6. TypeOK'
  BY <1>2, <1>3, <1>4, Zenon DEF IInv, Outputs, ReaderMoves, TypeOK
<1>7. AddInv'
  BY <1>1, <1>2, <1>4, Basics DEF IInv, Outputs, OtherTracks, AddInv, Adding, Added,
     Over
<1>8. StateInv'
  BY <1>1, <1>2, <1>4 DEF IInv, Outputs, OtherTracks, StateInv
<1>9. DoneInv'
  BY <1>1, <1>2, Zenon DEF IInv, DoneInv, DoneMeansIdle, Idle
<1>10. StopInv'
  BY <1>1, <1>2, <1>4 DEF IInv, Outputs, OtherTracks, SameStop, StopInv, ErrorPending
<1>11. PauseInv'
  BY <1>2, <1>4, <1>5 DEF IInv, Outputs, OtherTracks, SameStop, PauseInv
<1>12. RecordInv'
  BY <1>2, <1>4, <1>5 DEF IInv, Outputs, OtherTracks, RecordInv
<1>13. CountInv'
  BY <1>3, <1>4, Basics DEF IInv, Outputs, OtherTracks, CountInv, InFlight
<1>14. EosInv'
  BY <1>1, <1>4, Basics DEF IInv, Outputs, OtherTracks, EosInv, Over, allEos
<1>15. NoWriterInv'
  BY <1>1, <1>2, <1>4 DEF IInv, Outputs, OtherTracks, NoWriterInv, Added
<1>16. ReaderInv'
  BY <1>2, <1>3, <1>4 DEF IInv, Outputs, OtherTracks, ReaderMoves, ReaderInv, Hit
<1> QED
  BY <1>6, <1>7, <1>8, <1>9, <1>10, <1>11, <1>12, <1>13, <1>14, <1>15, <1>16, Zenon DEF IInv

(* An end of stream leaves all counters alone.                            *)
LEMMA EosOutputs ==
  ASSUME IInv, NEW t \in Tracks,
         tracks' = [tracks EXCEPT ![t] = [OutputTrack(t, 0, {t}) EXCEPT !.pc = "ended"]],
         writer' = OutputWriter(t, 0, {t})
  PROVE  /\ Outputs(t, 0, {t})
         /\ tracks'[t].pc = "ended" /\ tracks'[t].left = tracks[t].left
         /\ tracks'[t].lost = tracks[t].lost /\ tracks'[t].last = tracks[t].last
<1> DEFINE tr == OutputTrack(t, 0, {t})
           l == tracks[t].left
           d == tracks[t].lost
           k == tracks[t].last
<1>1. l \in 0..NumSamples /\ d \in 0..NumSamples /\ k \in {"SYNC", "OTHER"}
  BY Basics DEF TrackStates
<1>2. tracks' = [tracks EXCEPT ![t] =
        [tr EXCEPT !.pc = "ended", !.left = l, !.lost = d, !.last = k]]
  <2>1. tr.left = l /\ tr.lost = d /\ tr.last = k
    BY OutputTrackSame, Zenon
  <2>2. tracks' = [tracks EXCEPT ![t] = [tr EXCEPT !.pc = "ended"]]
    OBVIOUS
  <2> HIDE DEF tr, l, d, k
  <2>3. [tr EXCEPT !.pc = "ended"] =
          [tr EXCEPT !.pc = "ended", !.left = tr.left, !.lost = tr.lost, !.last = tr.last]
    BY Zenon
  <2> QED
    BY <2>1, <2>2, <2>3, Zenon
<1> HIDE DEF l, d, k
<1>3. /\ Outputs(t, 0, {t}) /\ tracks'[t].pc = "ended" /\ tracks'[t].left = l
      /\ tracks'[t].lost = d /\ tracks'[t].last = k
  <2>1. "ended" \in Pcs /\ {t} \subseteq Tracks /\ 0 <= tracks[t].left /\ 0 \in {0, 1}
    BY Basics DEF Pcs, TrackStates
  <2>2. OutputStep(t, 0, {t}, "ended", l, d, k)
    BY <1>1, <1>2, <2>1, Zenon DEF OutputStep, tr
  <2> QED
    BY <2>2, TrackOutputs, Zenon
<1> QED
  BY <1>3, Zenon DEF l, d, k

(* An end of stream is output behind the last sample, by a stopped track whose *)
(* result is not OK, or instead of the samples that are left:                   *)
LEMMA OutputsEos ==
  ASSUME IInv, NEW t \in Tracks,
         Outputs(t, 0, {t}), tracks'[t].pc = "ended", tracks'[t].last = tracks[t].last,
         \/ /\ \/ tracks[t].pc = "stopped"
               \/ /\ tracks[t].pc = "run" /\ tracks[t].left = 0
                  /\ tracks[t].mStopRequest # "STOP_NOW"
            /\ tracks'[t].left = tracks[t].left /\ tracks'[t].lost = tracks[t].lost
         \/ /\ tracks[t].pc = "run" /\ t \in reader.woken
            /\ tracks'[t].left = 0 /\ tracks'[t].lost = tracks[t].lost + tracks[t].left,
         ReaderMoves,
         UNCHANGED <<mThreadStates, mTranscoderStatus, mTranscoderStopped, mThreadsDone,
                     mCallbackSent, mSampleWriterStopped, mCancelled, mTracksAdded, adding,
                     notification, client>>
  PROVE  IInv'
<1>1. /\ tracks[t].left \in Nat /\ tracks[t].mSampleQueue \in Nat
      /\ writer.mSampleQueue[t] \in Nat /\ writer.written[t] \in Nat
  BY Basics DEF TrackStates, WriterStates
<1>2. TypeOK'
  BY DEF IInv, Outputs, ReaderMoves, TypeOK
<1>3. AddInv'
  BY Basics DEF IInv, Outputs, OtherTracks, AddInv, Adding, Added, Over
<1>4. StateInv'
  BY DEF IInv, Outputs, OtherTracks, StateInv
<1>5. DoneInv'
  BY Zenon DEF IInv, DoneInv, DoneMeansIdle, Idle
<1>6. StopInv'
  BY DEF IInv, Outputs, OtherTracks, SameStop, StopInv, ErrorPending
<1>7. PauseInv'
  BY DEF IInv, Outputs, OtherTracks, SameStop, PauseInv
<1>8. RecordInv'
  BY DEF IInv, Outputs, OtherTracks, RecordInv, Over
<1>9. CountInv'
  BY <1>1, Basics DEF IInv, Outputs, OtherTracks, CountInv, InFlight
<1>10. EosInv'
  BY Basics DEF IInv, Outputs, OtherTracks, EosInv, Over, allEos, RecordInv
<1>11. NoWriterInv'
  BY DEF IInv, Outputs, OtherTracks, SameStop, NoWriterInv, Added,
     ReaderInv, Hit
<1>12. ReaderInv'
  BY <1>1 DEF IInv, Outputs, OtherTracks, ReaderMoves, ReaderInv, Hit
<1> QED
  BY <1>2, <1>3, <1>4, <1>5, <1>6, <1>7, <1>8, <1>9, <1>10, <1>11, <1>12, Zenon DEF IInv

(* ... by the loop,                                                       *)
LEMMA outputEosStep ==
  ASSUME IInv, NEW t \in Tracks, outputEos(t)
  PROVE  IInv'
  BY EosOutputs, OutputsEos, ReaderMovesOn, Zenon DEF outputEos, at, flags, stopFlags

(* ... or behind it.                                                      *)
LEMMA stoppedEosStep ==
  ASSUME IInv, NEW t \in Tracks, stoppedEos(t)
  PROVE  IInv'
  BY EosOutputs, OutputsEos, ReaderMovesOn, Zenon DEF stoppedEos, at, flags, stopFlags

(* A thread leaves the loop because of a stop that somebody asked for, for a *)
(* pause behind a sync sample, or with an error; or it stays in the loop.    *)
LEMMA TrackMoves ==
  ASSUME IInv, NEW t \in Tracks, NEW pc \in Pcs,
         NEW result \in {"OK", "STOPPED", "ERROR"}, Moves(t, pc, result),
         tracks[t].pc \in {"new", "run", "checkStop"},
         \/ /\ pc = "stopped" /\ result = "STOPPED"
            /\ \/ tracks[t].mStopRequest = "STOP_NOW"
               \/ tracks[t].mStopRequest = "STOP_ON_SYNC" /\ tracks[t].last = "SYNC"
         \/ pc = "ended" /\ result = "ERROR"
         \/ tracks[t].pc = "checkStop" /\ pc = "run" /\ result = "OK",
         ReaderMoves,
         UNCHANGED <<mThreadStates, mTranscoderStatus, mTranscoderStopped, mThreadsDone,
                     mCallbackSent, mSampleWriterStopped, mCancelled, mTracksAdded, adding,
                     writer, notification, client>>
  PROVE  IInv'
<1>1. tracks[t].result = "OK"
  BY Zenon DEF IInv, RecordInv, Over
<1>2. TypeOK'
  BY DEF IInv, Moves, ReaderMoves, TypeOK
<1>3. AddInv'
  BY Basics DEF IInv, Moves, OtherTracks, SameSamples, AddInv, Adding, Added, Over
<1>4. StateInv'
  BY Zenon DEF IInv, Moves, OtherTracks, StateInv
<1>5. DoneInv'
  BY Zenon DEF IInv, DoneInv, DoneMeansIdle, Idle
<1>6. StopInv'
  BY DEF IInv, Moves, OtherTracks, SameStop, StopInv, ErrorPending
<1>7. PauseInv'
  BY DEF IInv, Moves, OtherTracks, SameStop, SameSamples, PauseInv
<1>8. RecordInv'
  BY DEF IInv, Moves, OtherTracks, RecordInv, Over
<1>9. CountInv'
  BY Zenon DEF IInv, Moves, OtherTracks, SameSamples, CountInv, InFlight
<1>10. EosInv'
  BY Basics, Zenon DEF IInv, Moves, OtherTracks, EosInv, Over, allEos
<1>11. NoWriterInv'
  BY <1>1 DEF IInv, Moves, OtherTracks, SameStop, NoWriterInv, Added
<1>12. ReaderInv'
  BY DEF ReaderMoves, IInv, Moves, OtherTracks, SameSamples, ReaderInv, Hit
<1> QED
  BY <1>2, <1>3, <1>4, <1>5, <1>6, <1>7, <1>8, <1>9, <1>10, <1>11, <1>12, Zenon DEF IInv

(* The check after each sample,                                           *)
LEMMA checkStopStep ==
  ASSUME IInv, NEW t \in Tracks, checkStop(t)
  PROVE  IInv'
<1>1. tracks[t].pc = "checkStop" /\ tracks[t].result = "OK"
  BY Zenon DEF checkStop, at, IInv, RecordInv, Over
<1>2. \/ /\ tracks[t].mStopRequest = "STOP_ON_SYNC" /\ tracks[t].last = "SYNC"
         /\ Moves(t, "stopped", "STOPPED")
      \/ Moves(t, "run", "OK")
  BY <1>1, MovesOn, Zenon DEF checkStop, IInv, TypeOK, Pcs, goto
<1> QED
  BY <1>1, <1>2, TrackMoves, ReaderMovesOn, Zenon DEF checkStop, Pcs, flags, stopFlags

(* ... after each codec message,                                          *)
LEMMA codecMessageStep ==
  ASSUME IInv, NEW t \in Tracks, codecMessage(t)
  PROVE  IInv'
<1>1. /\ tracks[t].pc = "run" /\ tracks[t].mStopRequest = "STOP_ON_SYNC"
      /\ tracks[t].last = "SYNC"
  BY Zenon DEF codecMessage, at
<1>2. Moves(t, "stopped", "STOPPED")
  BY MovesOn, Zenon DEF codecMessage, IInv, TypeOK, Pcs
<1> QED
  BY <1>1, <1>2, TrackMoves, ReaderMovesOn, Zenon DEF codecMessage, Pcs, flags, stopFlags

(* ... a STOP_NOW at any time,                                            *)
LEMMA stopNowStep ==
  ASSUME IInv, NEW t \in Tracks, stopNow(t)
  PROVE  IInv'
<1>1. tracks[t].pc \in {"new", "run"} /\ tracks[t].mStopRequest = "STOP_NOW"
  BY Zenon DEF stopNow, at
<1>2. Moves(t, "stopped", "STOPPED")
  BY MovesOn, Zenon DEF stopNow, IInv, TypeOK, Pcs
<1> QED
  BY <1>1, <1>2, TrackMoves, ReaderMovesOn, Zenon DEF stopNow, Pcs, flags, stopFlags

(* ... and a failure.                                                     *)
LEMMA trackFailsStep ==
  ASSUME IInv, NEW t \in Tracks, trackFails(t)
  PROVE  IInv'
<1>1. tracks[t].pc \in {"new", "run"}
  BY Zenon DEF trackFails, at
<1>2. Moves(t, "ended", "ERROR")
  BY MovesOn, Zenon DEF trackFails, IInv, TypeOK, Pcs
<1> QED
  BY <1>1, <1>2, TrackMoves, ReaderMovesOn, Zenon DEF trackFails, Pcs, flags, stopFlags

(* A thread that is told its end too early: a passthrough track outputs it, *)
LEMMA EarlyPassthrough ==
  ASSUME IInv, NEW t \in Tracks, t \in reader.woken, tracks[t].pc = "run", tracks[t].left > 0,
         tracks' = [tracks EXCEPT ![t] =
           [OutputTrack(t, 0, {t}) EXCEPT !.pc = "ended", !.left = 0,
                                          !.lost = @ + tracks[t].left]],
         writer' = OutputWriter(t, 0, {t})
  PROVE  /\ Outputs(t, 0, {t})
         /\ tracks'[t].pc = "ended" /\ tracks'[t].left = 0
         /\ tracks'[t].lost = tracks[t].lost + tracks[t].left
         /\ tracks'[t].last = tracks[t].last
<1> DEFINE tr == OutputTrack(t, 0, {t})
           d == tracks[t].lost + tracks[t].left
           k == tracks[t].last
<1>1. d \in 0..NumSamples /\ 0 \in 0..NumSamples /\ k \in {"SYNC", "OTHER"}
  BY Basics, TranscoderAssumption DEF TrackStates, WriterStates, IInv, CountInv, InFlight
<1>2. tracks' = [tracks EXCEPT ![t] =
        [tr EXCEPT !.pc = "ended", !.left = 0, !.lost = d, !.last = k]]
  <2>1. tr.lost = tracks[t].lost /\ tr.last = k
    BY OutputTrackSame, Zenon
  <2>2. tracks' = [tracks EXCEPT ![t] = [tr EXCEPT !.pc = "ended", !.left = 0, !.lost = d]]
    BY <2>1, Zenon
  <2> HIDE DEF tr, d, k
  <2>3. [tr EXCEPT !.pc = "ended", !.left = 0, !.lost = d] =
          [tr EXCEPT !.pc = "ended", !.left = 0, !.lost = d, !.last = tr.last]
    BY Zenon
  <2> QED
    BY <2>1, <2>2, <2>3, Zenon
<1> HIDE DEF d, k
<1>3. /\ Outputs(t, 0, {t}) /\ tracks'[t].pc = "ended" /\ tracks'[t].left = 0
      /\ tracks'[t].lost = d /\ tracks'[t].last = k
  <2>1. "ended" \in Pcs /\ {t} \subseteq Tracks /\ 0 <= tracks[t].left /\ 0 \in {0, 1}
    BY Basics DEF Pcs, TrackStates
  <2>2. OutputStep(t, 0, {t}, "ended", 0, d, k)
    BY <1>1, <1>2, <2>1, Zenon DEF OutputStep, tr
  <2> QED
    BY <2>2, TrackOutputs, Zenon
<1> QED
  BY <1>3, Zenon DEF d, k

(* ... a video track goes on with what the decoder has,                   *)
LEMMA EarlyVideo ==
  ASSUME IInv, NEW t \in Tracks, t \in reader.woken, NEW n \in 1..tracks[t].left,
         tracks' = [tracks EXCEPT ![t].left = @ - n, ![t].lost = @ + n],
         tracks[t].pc = "run", ReaderMoves,
         UNCHANGED <<mThreadStates, mTranscoderStatus, mTranscoderStopped, mThreadsDone,
                     mCallbackSent, mSampleWriterStopped, mCancelled, mTracksAdded, adding,
                     writer, notification, client>>
  PROVE  IInv'
<1> DEFINE l == tracks[t].left - n
           d == tracks[t].lost + n
           tr == [tracks[t] EXCEPT !.left = l, !.lost = d]
<1>1. /\ tracks[t].left \in Nat /\ tracks[t].mSampleQueue \in Nat /\ tracks[t].lost \in Nat
      /\ writer.mSampleQueue[t] \in Nat /\ writer.written[t] \in Nat /\ n \in Nat
  BY Basics DEF TrackStates, WriterStates
<1>2. l \in 0..NumSamples /\ d \in 0..NumSamples /\ l + d = tracks[t].left + tracks[t].lost
  BY <1>1, TranscoderAssumption DEF IInv, CountInv, InFlight
<1>3. /\ tracks' \in [Tracks -> TrackStates] /\ OtherTracks(t) /\ SameStop(t)
      /\ tracks'[t].left = l /\ tracks'[t].lost = d
      /\ tracks'[t].pc = tracks[t].pc /\ tracks'[t].result = tracks[t].result
      /\ tracks'[t].mSampleQueue = tracks[t].mSampleQueue
      /\ tracks'[t].eosQueued = tracks[t].eosQueued /\ tracks'[t].last = tracks[t].last
  <2>1. tracks' = [tracks EXCEPT ![t] = tr]
    BY Zenon
  <2> HIDE DEF l, d
  <2>2. tracks[t] \in TrackStates /\ tracks \in [Tracks -> TrackStates]
    BY Zenon DEF IInv, TypeOK
  <2>3. tr \in TrackStates
    BY <1>2, <2>2, Zenon DEF TrackStates
  <2>4. /\ tr.left = l /\ tr.lost = d /\ tr.pc = tracks[t].pc /\ tr.result = tracks[t].result
        /\ tr.mState = tracks[t].mState /\ tr.mStopRequest = tracks[t].mStopRequest
        /\ tr.mSampleQueue = tracks[t].mSampleQueue /\ tr.eosQueued = tracks[t].eosQueued
        /\ tr.last = tracks[t].last
    BY <2>2, Zenon DEF TrackStates
  <2> HIDE DEF tr
  <2> QED
    BY <2>1, <2>2, <2>3, <2>4, Zenon DEF OtherTracks, SameStop
<1> HIDE DEF l, d
<1>4. TypeOK'
  BY <1>3 DEF IInv, ReaderMoves, TypeOK
<1>5. AddInv'
  BY <1>3, Basics DEF IInv, OtherTracks, AddInv
<1>6. StateInv'
  BY <1>3 DEF IInv, OtherTracks, StateInv
<1>7. DoneInv'
  BY Zenon DEF IInv, DoneInv, DoneMeansIdle, Idle
<1>8. StopInv'
  BY <1>3 DEF IInv, OtherTracks, SameStop, StopInv, ErrorPending
<1>9. PauseInv'
  BY <1>3 DEF IInv, OtherTracks, SameStop, PauseInv
<1>10. RecordInv'
  BY <1>3 DEF IInv, OtherTracks, RecordInv
<1>11. CountInv'
  BY <1>1, <1>2, <1>3 DEF IInv, OtherTracks, CountInv, InFlight
<1>12. EosInv'
  BY <1>3, Basics DEF IInv, OtherTracks, EosInv, Over, allEos
<1>13. NoWriterInv'
  BY <1>3 DEF IInv, OtherTracks, SameStop, NoWriterInv
<1>14. ReaderInv'
  BY <1>3 DEF IInv, OtherTracks, ReaderMoves, ReaderInv, Hit
<1> QED
  BY <1>4, <1>5, <1>6, <1>7, <1>8, <1>9, <1>10, <1>11, <1>12, <1>13, <1>14, Zenon DEF IInv

(* ... and a thread that was about to read fails.                         *)
LEMMA earlyEndStep ==
  ASSUME IInv, NEW t \in Tracks, earlyEnd(t)
  PROVE  IInv'
<1>1. t \in reader.woken /\ tracks[t].pc = "run" /\ tracks[t].left > 0
  BY Zenon DEF earlyEnd, at
<1>2. UNCHANGED <<mThreadStates, mTranscoderStatus, mTranscoderStopped, mThreadsDone,
                  mCallbackSent, mSampleWriterStopped, mCancelled, mTracksAdded, adding,
                  notification, client>>
  BY Zenon DEF earlyEnd, flags
<1>3. ReaderMoves
  BY ReaderMovesOn, Zenon DEF earlyEnd
<1>4. CASE /\ tracks' = [tracks EXCEPT ![t] =
                [OutputTrack(t, 0, {t}) EXCEPT !.pc = "ended", !.left = 0,
                                               !.lost = @ + tracks[t].left]]
           /\ writer' = OutputWriter(t, 0, {t})
  BY <1>1, <1>2, <1>3, <1>4, EarlyPassthrough, OutputsEos, Zenon
<1>5. CASE /\ \E n \in 1..tracks[t].left :
                tracks' = [tracks EXCEPT ![t].left = @ - n, ![t].lost = @ + n]
           /\ UNCHANGED writer
  BY <1>1, <1>2, <1>3, <1>5, EarlyVideo, Zenon
<1>6. CASE /\ tracks' = [tracks EXCEPT ![t].pc = "ended", ![t].result = "ERROR"]
           /\ UNCHANGED writer
  <2>1. Moves(t, "ended", "ERROR")
    BY <1>6, MovesOn, Zenon DEF IInv, TypeOK, Pcs
  <2> QED
    BY <1>1, <1>2, <1>3, <1>6, <2>1, TrackMoves, Zenon DEF Pcs
<1> QED
  BY <1>4, <1>5, <1>6, Zenon DEF earlyEnd

(* A step that changes nothing but what the reader has seen.              *)
LEMMA OnlyReader ==
  ASSUME IInv, ReaderMoves,
         UNCHANGED <<mThreadStates, mTranscoderStatus, mTranscoderStopped, mThreadsDone,
                     mCallbackSent, mSampleWriterStopped, mCancelled, mTracksAdded, adding,
                     tracks, writer, notification, client>>
  PROVE  IInv'
<1>1. TypeOK'
  BY Zenon DEF IInv, ReaderMoves, TypeOK
<1>2. AddInv' /\ StateInv' /\ CountInv' /\ NoWriterInv'
  BY Zenon DEF IInv, AddInv, StateInv, CountInv, InFlight, NoWriterInv
<1>3. DoneInv'
  BY Zenon DEF IInv, DoneInv, DoneMeansIdle, Idle, WriterIdle
<1>4. StopInv' /\ PauseInv'
  BY Zenon DEF IInv, StopInv, PauseInv, ErrorPending
<1>5. RecordInv' /\ EosInv'
  BY Zenon DEF IInv, RecordInv, EosInv, allEos
<1>6. ReaderInv'
  BY Zenon DEF IInv, ReaderMoves, ReaderInv, Hit
<1> QED
  BY <1>1, <1>2, <1>3, <1>4, <1>5, <1>6, Zenon DEF IInv

(* Another thread reads on to the end.                                    *)
LEMMA readToEndStep ==
  ASSUME IInv, NEW t \in Tracks, readToEnd(t)
  PROVE  IInv'
  BY OnlyReader, ReaderMovesOn, Zenon DEF readToEnd, flags

-----------------------------------------------------------------------------
(* The steps of the writer's thread, of the client and of the notification  *)
(* thread                                                                    *)

(* The waiting caller returns.                                            *)
LEMMA threadsDoneStep ==
  ASSUME IInv, threadsDone
  PROVE  IInv'
<1>1. /\ mThreadsDone
      /\ \/ client = "pausing" /\ client' = "paused"
         \/ client = "cancelling" /\ client' = "cancelled"
  BY Zenon DEF threadsDone
<1>2. UNCHANGED <<mThreadStates, mTranscoderStatus, mTranscoderStopped, mThreadsDone,
                  mCallbackSent, mSampleWriterStopped, mCancelled, reader, mTracksAdded, adding,
                  tracks, writer, notification>>
  BY Zenon DEF threadsDone, flags, stopFlags
<1>3. TypeOK'
  BY <1>1, <1>2, Zenon DEF IInv, TypeOK
<1>4. AddInv'
  BY <1>2, Zenon DEF IInv, AddInv
<1>5. StateInv'
  BY <1>1, <1>2, Zenon DEF IInv, StateInv
<1>6. DoneInv'
  BY <1>2, Zenon DEF IInv, DoneInv, DoneMeansIdle, Idle, WriterIdle
<1>7. StopInv'
  BY <1>1, <1>2, Zenon DEF IInv, StopInv, Waiters
<1>8. PauseInv'
  BY <1>1, <1>2, Zenon DEF IInv, PauseInv
<1>9. RecordInv'
  BY <1>2, Zenon DEF IInv, RecordInv
<1>10. CountInv'
  BY <1>2, Zenon DEF IInv, CountInv, InFlight
<1>11. EosInv'
  BY <1>2, Zenon DEF IInv, EosInv, allEos
<1>12. NoWriterInv'
  BY <1>2, Zenon DEF IInv, NoWriterInv
<1>13. ReaderInv'
  BY <1>1, <1>2, Zenon DEF IInv, ReaderInv, Hit
<1> QED
  BY <1>3, <1>4, <1>5, <1>6, <1>7, <1>8, <1>9, <1>10, <1>11, <1>12, <1>13, Zenon DEF IInv

(* The callback changes nothing but that it was made.                     *)
LEMMA notifyStep ==
  ASSUME IInv, notify
  PROVE  IInv'
<1>1. /\ notification' = [notification EXCEPT !.sent = TRUE]
  BY Zenon DEF notify
<1>2. UNCHANGED <<mThreadStates, mTranscoderStatus, mTranscoderStopped, mThreadsDone,
                  mCallbackSent, mSampleWriterStopped, mCancelled, reader, mTracksAdded, adding,
                  tracks, writer, client>>
  BY Zenon DEF notify, flags, stopFlags
<1>3. notification'.type = notification.type /\ notification' \in [type : Notifications, sent : BOOLEAN]
  BY <1>1, Zenon DEF IInv, TypeOK
<1>4. TypeOK'
  BY <1>2, <1>3, Zenon DEF IInv, TypeOK
<1>5. AddInv'
  BY <1>2, Zenon DEF IInv, AddInv
<1>6. StateInv'
  BY <1>2, Zenon DEF IInv, StateInv
<1>7. DoneInv'
  BY <1>2, <1>3, Zenon DEF IInv, DoneInv, DoneMeansIdle, Idle, WriterIdle
<1>8. StopInv'
  BY <1>2, Zenon DEF IInv, StopInv, ErrorPending
<1>9. PauseInv'
  BY <1>2, Zenon DEF IInv, PauseInv
<1>10. RecordInv'
  BY <1>2, <1>3, Zenon DEF IInv, RecordInv
<1>11. CountInv'
  BY <1>2, Zenon DEF IInv, CountInv, InFlight
<1>12. EosInv'
  BY <1>2, Zenon DEF IInv, EosInv, allEos
<1>13. NoWriterInv'
  BY <1>2, Zenon DEF IInv, NoWriterInv
<1>14. ReaderInv'
  BY <1>2, Zenon DEF IInv, ReaderInv, Hit
<1> QED
  BY <1>4, <1>5, <1>6, <1>7, <1>8, <1>9, <1>10, <1>11, <1>12, <1>13, <1>14, Zenon DEF IInv

(* The writer's thread goes on, or ends its loop at the end of all streams or *)
(* because of a stop that was not a pause, or fails.                          *)
LEMMA WriterStepMoves ==
  ASSUME IInv, NEW pc \in {"loop", "stop", "ended"},
         NEW result \in {"OK", "STOPPED", "ERROR"}, WriterMoves(pc, result),
         \/ writer.pc = "start" /\ pc = "loop" /\ result = writer.result
         \/ /\ writer.pc = "loop" /\ pc = "stop"
            /\ \/ writer.reachedEos = Tracks /\ result = writer.result
               \/ writer.mState = "STOPPED" /\ result = "STOPPED"
         \/ writer.pc = "stop" /\ pc = "ended" /\ result = writer.result
         \/ writer.pc \in {"start", "stop"} /\ pc = "ended" /\ result = "ERROR",
         UNCHANGED <<mThreadStates, mTranscoderStatus, mTranscoderStopped, mThreadsDone,
                     mCallbackSent, mSampleWriterStopped, mCancelled, reader, mTracksAdded, adding,
                     tracks, notification, client>>
  PROVE  IInv'
<1>1. TypeOK'
  BY DEF IInv, WriterMoves, TypeOK
<1>2. AddInv'
  BY Zenon DEF IInv, AddInv
<1>3. StateInv'
  BY Zenon DEF IInv, WriterMoves, StateInv
<1>4. DoneInv'
  BY Zenon DEF IInv, DoneInv, DoneMeansIdle, WriterIdle
<1>5. StopInv'
  BY Zenon DEF IInv, WriterMoves, StopInv, ErrorPending
<1>6. PauseInv'
  BY Zenon DEF IInv, WriterMoves, PauseInv
<1>7. RecordInv'
  BY Zenon DEF IInv, WriterMoves, RecordInv
<1>8. CountInv'
  BY Zenon DEF IInv, WriterMoves, SameQueue, CountInv, InFlight, RecordInv
<1>9. EosInv'
  BY Zenon DEF IInv, WriterMoves, SameQueue, EosInv, allEos
<1>10. NoWriterInv'
  BY Zenon DEF IInv, WriterMoves, NoWriterInv
<1>11. ReaderInv'
  BY Zenon DEF IInv, WriterMoves, SameQueue, ReaderInv, Hit
<1> QED
  BY <1>1, <1>2, <1>3, <1>4, <1>5, <1>6, <1>7, <1>8, <1>9, <1>10, <1>11, Zenon DEF IInv

(* The muxer starts or fails to.                                          *)
LEMMA muxerStartStep ==
  ASSUME IInv, muxerStart
  PROVE  IInv'
<1>1. writer \in WriterStates /\ writer.result \in {"OK", "STOPPED", "ERROR"}
  BY Basics, Zenon DEF WriterStates
<1>2. \/ writer.pc = "start" /\ WriterMoves("loop", writer.result)
      \/ writer.pc = "start" /\ WriterMoves("ended", "ERROR")
  BY <1>1, WriterMovesOn, Zenon DEF muxerStart
<1>3. UNCHANGED <<mThreadStates, mTranscoderStatus, mTranscoderStopped, mThreadsDone,
                  mCallbackSent, mSampleWriterStopped, mCancelled, reader, mTracksAdded, adding,
                  tracks, notification, client>>
  BY Zenon DEF muxerStart, flags, stopFlags
<1> QED
  BY <1>1, <1>2, <1>3, WriterStepMoves, Zenon

(* The loop ends.                                                         *)
LEMMA writerLoopEndsStep ==
  ASSUME IInv, writerLoopEnds
  PROVE  IInv'
<1>1. writer \in WriterStates /\ writer.result \in {"OK", "STOPPED", "ERROR"}
  BY Basics, Zenon DEF WriterStates
<1>2. /\ writer.pc = "loop"
      /\ \/ writer.reachedEos = Tracks /\ WriterMoves("stop", writer.result)
         \/ writer.mState = "STOPPED" /\ WriterMoves("stop", "STOPPED")
  BY <1>1, WriterMovesOn, Zenon DEF writerLoopEnds, allEos
<1>3. UNCHANGED <<mThreadStates, mTranscoderStatus, mTranscoderStopped, mThreadsDone,
                  mCallbackSent, mSampleWriterStopped, mCancelled, reader, mTracksAdded, adding,
                  tracks, notification, client>>
  BY Zenon DEF writerLoopEnds, flags, stopFlags
<1> QED
  BY <1>1, <1>2, <1>3, WriterStepMoves, Zenon

(* The file is finalized, or the muxer fails to do so.                    *)
LEMMA muxerStopStep ==
  ASSUME IInv, muxerStop
  PROVE  IInv'
<1>1. writer \in WriterStates /\ writer.result \in {"OK", "STOPPED", "ERROR"}
  BY Basics, Zenon DEF WriterStates
<1>2. \/ writer.pc = "stop" /\ WriterMoves("ended", writer.result)
      \/ writer.pc = "stop" /\ WriterMoves("ended", "ERROR")
  BY <1>1, WriterMovesOn, Zenon DEF muxerStop
<1>3. UNCHANGED <<mThreadStates, mTranscoderStatus, mTranscoderStopped, mThreadsDone,
                  mCallbackSent, mSampleWriterStopped, mCancelled, reader, mTracksAdded, adding,
                  tracks, notification, client>>
  BY Zenon DEF muxerStop, flags, stopFlags
<1> QED
  BY <1>1, <1>2, <1>3, WriterStepMoves, Zenon

(* A sample goes from the queue to the file, or is lost with an error.    *)
LEMMA writeSampleStep ==
  ASSUME IInv, NEW t \in Tracks, writeSample(t)
  PROVE  IInv'
<1>1. writer.pc = "loop" /\ writer.mSampleQueue[t] > 0
  BY Zenon DEF writeSample
<1>2. UNCHANGED <<mThreadStates, mTranscoderStatus, mTranscoderStopped, mThreadsDone,
                  mCallbackSent, mSampleWriterStopped, mCancelled, reader, mTracksAdded, adding,
                  tracks, notification, client>>
  BY Zenon DEF writeSample, flags, stopFlags
<1>3. /\ writer.mSampleQueue \in [Tracks -> 0..NumSamples] /\ writer.mSampleQueue[t] \in Nat
      /\ writer.written \in [Tracks -> 0..NumSamples] /\ writer.written[t] \in Nat
      /\ tracks[t].left \in Nat /\ tracks[t].mSampleQueue \in Nat /\ NumSamples \in Nat
  BY Basics, TranscoderAssumption DEF WriterStates, TrackStates
<1>4. writer.written[t] + 1 <= NumSamples
  BY <1>1, <1>3, Basics DEF IInv, CountInv, InFlight
<1>5. /\ writer' \in WriterStates /\ writer'.mState = writer.mState
      /\ writer'.eosQueued = writer.eosQueued /\ writer'.reachedEos = writer.reachedEos
      /\ writer'.mSampleQueue[t] = writer.mSampleQueue[t] - 1
      /\ \A u \in Tracks \ {t} : /\ writer'.mSampleQueue[u] = writer.mSampleQueue[u]
                               /\ writer'.written[u] = writer.written[u]
      /\ \/ /\ writer'.written[t] = writer.written[t] + 1
            /\ writer'.pc = writer.pc /\ writer'.result = writer.result
         \/ /\ writer'.written[t] = writer.written[t]
            /\ writer'.pc = "stop" /\ writer'.result = "ERROR"
  <2> DEFINE q == [writer.mSampleQueue EXCEPT ![t] = @ - 1]
             n == [writer.written EXCEPT ![t] = @ + 1]
  <2>1. /\ q \in [Tracks -> 0..NumSamples] /\ q[t] = writer.mSampleQueue[t] - 1
        /\ \A u \in Tracks \ {t} : q[u] = writer.mSampleQueue[u]
    BY <1>1, <1>3
  <2>2. /\ n \in [Tracks -> 0..NumSamples] /\ n[t] = writer.written[t] + 1
        /\ \A u \in Tracks \ {t} : n[u] = writer.written[u]
    BY <1>3, <1>4
  <2>3. \/ writer' = [writer EXCEPT !.mSampleQueue = q, !.written = n]
        \/ writer' = [writer EXCEPT !.mSampleQueue = q, !.pc = "stop", !.result = "ERROR"]
    BY Zenon DEF writeSample
  <2> HIDE DEF q, n
  <2>4. writer \in WriterStates
    BY Basics, Zenon
  <2>5. CASE writer' = [writer EXCEPT !.mSampleQueue = q, !.written = n]
    BY <2>1, <2>2, <2>4, <2>5, Zenon DEF WriterStates
  <2>6. CASE writer' = [writer EXCEPT !.mSampleQueue = q, !.pc = "stop", !.result = "ERROR"]
    BY <2>1, <2>4, <2>6, Zenon DEF WriterStates
  <2> QED
    BY <2>3, <2>5, <2>6, Zenon
<1>6. TypeOK'
  BY <1>2, <1>5 DEF IInv, TypeOK
<1>7. AddInv'
  BY <1>2, Zenon DEF IInv, AddInv
<1>8. StateInv'
  BY <1>1, <1>2, <1>5, Zenon DEF IInv, StateInv
<1>9. DoneInv'
  BY <1>1, <1>2, Zenon DEF IInv, DoneInv, DoneMeansIdle, WriterIdle
<1>10. StopInv'
  BY <1>1, <1>2, <1>5, Zenon DEF IInv, StopInv, ErrorPending
<1>11. PauseInv'
  BY <1>2, <1>5, Zenon DEF IInv, PauseInv
<1>12. RecordInv'
  BY <1>2, <1>5, Zenon DEF IInv, RecordInv
<1>13. CountInv'
  BY <1>2, <1>3, <1>5, Basics DEF IInv, CountInv, InFlight
<1>14. EosInv'
  BY <1>1, <1>2, <1>5, Basics DEF IInv, EosInv
<1>15. NoWriterInv'
  BY <1>2, <1>5, Zenon DEF IInv, NoWriterInv
<1>16. ReaderInv'
  BY <1>1, <1>2, <1>5, Zenon DEF IInv, ReaderInv, Hit
<1> QED
  BY <1>6, <1>7, <1>8, <1>9, <1>10, <1>11, <1>12, <1>13, <1>14, <1>15, <1>16, Zenon DEF IInv

(* The end of a stream is taken once no sample is queued.                 *)
LEMMA writeEosStep ==
  ASSUME IInv, NEW t \in Tracks, writeEos(t)
  PROVE  IInv'
<1>1. /\ writer.pc = "loop" /\ writer.mState = "STARTED" /\ t \in writer.eosQueued
      /\ \A u \in Tracks : writer.mSampleQueue[u] = 0
  BY Zenon DEF writeEos, noData
<1>2. UNCHANGED <<mThreadStates, mTranscoderStatus, mTranscoderStopped, mThreadsDone,
                  mCallbackSent, mSampleWriterStopped, mCancelled, reader, mTracksAdded, adding,
                  tracks, notification, client>>
  BY Zenon DEF writeEos, flags, stopFlags
<1>3. /\ writer' \in WriterStates /\ writer'.mState = writer.mState
      /\ writer'.eosQueued = writer.eosQueued \ {t}
      /\ writer'.reachedEos = writer.reachedEos \cup {t}
      /\ writer'.mSampleQueue = writer.mSampleQueue /\ writer'.written = writer.written
      /\ \/ writer'.pc = writer.pc /\ writer'.result = writer.result
         \/ writer'.pc = "stop" /\ writer'.result = "ERROR"
  <2> DEFINE q == writer.eosQueued \ {t}
             r == writer.reachedEos \cup {t}
  <2>1. q \subseteq Tracks /\ r \subseteq Tracks /\ writer \in WriterStates
    BY Basics, Zenon
  <2>2. \/ writer' = [writer EXCEPT !.eosQueued = q, !.reachedEos = r]
        \/ writer' = [writer EXCEPT !.eosQueued = q, !.reachedEos = r, !.pc = "stop",
                                     !.result = "ERROR"]
    BY Zenon DEF writeEos
  <2> SUFFICES /\ writer' \in WriterStates /\ writer'.mState = writer.mState
               /\ writer'.eosQueued = q /\ writer'.reachedEos = r
               /\ writer'.mSampleQueue = writer.mSampleQueue /\ writer'.written = writer.written
               /\ \/ writer'.pc = writer.pc /\ writer'.result = writer.result
                  \/ writer'.pc = "stop" /\ writer'.result = "ERROR"
    OBVIOUS
  <2> HIDE DEF q, r
  <2> QED
    BY <2>1, <2>2, Zenon DEF WriterStates
<1>4. TypeOK'
  BY <1>2, <1>3, Zenon DEF IInv, TypeOK
<1>5. AddInv'
  BY <1>2, Zenon DEF IInv, AddInv
<1>6. StateInv'
  BY <1>1, <1>2, <1>3, Zenon DEF IInv, StateInv
<1>7. DoneInv'
  BY <1>1, <1>2, Zenon DEF IInv, DoneInv, DoneMeansIdle, WriterIdle
<1>8. StopInv'
  BY <1>1, <1>2, <1>3, Zenon DEF IInv, StopInv, ErrorPending
<1>9. PauseInv'
  BY <1>2, <1>3, Zenon DEF IInv, PauseInv
<1>10. RecordInv'
  BY <1>2, <1>3, Zenon DEF IInv, RecordInv
<1>11. CountInv'
  BY <1>2, <1>3, Zenon DEF IInv, CountInv, InFlight
<1>12. EosInv'
  BY <1>1, <1>2, <1>3, Zenon DEF IInv, EosInv
<1>13. NoWriterInv'
  BY <1>2, <1>3, Zenon DEF IInv, NoWriterInv
<1>14. ReaderInv'
  BY <1>1, <1>2, <1>3 DEF IInv, ReaderInv, Hit
<1> QED
  BY <1>4, <1>5, <1>6, <1>7, <1>8, <1>9, <1>10, <1>11, <1>12, <1>13, <1>14, Zenon DEF IInv

(* A failed writer stops all threads before its error is recorded.        *)
LEMMA writerErrorStep ==
  ASSUME IInv, writerError
  PROVE  IInv'
<1>1. writer.pc = "ended" /\ writer.result = "ERROR"
  BY Zenon DEF writerError
<1>2. UNCHANGED <<mThreadStates, mTranscoderStatus, mTranscoderStopped, mThreadsDone,
                  mCallbackSent, mTracksAdded, adding, notification, client>>
  BY Zenon DEF writerError, flags
<1>3. Stops(tracks, writer', FALSE) /\ writer'.pc = "report" /\ writer'.result = "ERROR"
  <2> DEFINE w == [writer EXCEPT !.pc = "report"]
  <2>1. client # "configured" /\ tracks \in [Tracks -> TrackStates] /\ FALSE \in BOOLEAN
    BY <1>1, Zenon DEF IInv, StateInv, TypeOK
  <2>2. /\ tracks' = Stopping(tracks, FALSE) /\ writer' = StoppingWriter(w, FALSE)
        /\ stopRequested(FALSE)
    BY Zenon DEF writerError, errorStopsAll
  <2>3. /\ w \in WriterStates /\ w.mState = writer.mState
        /\ w.mSampleQueue = writer.mSampleQueue /\ w.eosQueued = writer.eosQueued
        /\ w.reachedEos = writer.reachedEos /\ w.written = writer.written
        /\ w.pc = "report" /\ w.result = "ERROR"
    BY <1>1, Basics, Zenon DEF WriterStates
  <2> HIDE DEF w
  <2>4. Stops(tracks, w, FALSE)
    BY <2>1, <2>2, <2>3, StopStops, Zenon
  <2> QED
    BY <2>3, <2>4, Zenon DEF Stops
<1>4. TypeOK'
  BY <1>2, <1>3, Zenon DEF IInv, Stops, TypeOK
<1>5. AddInv'
  BY <1>2, <1>3, Basics, Zenon DEF IInv, Stops, AddInv
<1>6. StateInv'
  BY <1>1, <1>2, <1>3 DEF IInv, Stops, StateInv
<1>7. DoneInv'
  BY <1>1, <1>2, Zenon DEF IInv, DoneInv, DoneMeansIdle, WriterIdle
<1>8. StopInv'
  BY <1>1, <1>2, <1>3 DEF IInv, Stops, StopInv, ErrorPending, StateInv
<1>9. PauseInv'
  BY <1>2, <1>3, Zenon DEF IInv, Stops, PauseInv
<1>10. RecordInv'
  BY <1>2, <1>3 DEF IInv, Stops, RecordInv
<1>11. CountInv'
  BY <1>3, Zenon DEF IInv, Stops, SameQueue, CountInv, InFlight
<1>12. EosInv'
  BY <1>3, Basics DEF IInv, Stops, SameQueue, EosInv
<1>13. NoWriterInv'
  BY <1>2, <1>3 DEF IInv, Stops, NoWriterInv
<1>14. ReaderInv'
  BY <1>1, <1>2, <1>3, StopsReader, Zenon
<1> QED
  BY <1>4, <1>5, <1>6, <1>7, <1>8, <1>9, <1>10, <1>11, <1>12, <1>13, <1>14, Zenon DEF IInv

(* The outcome of the writer is recorded with the end of its thread.      *)
LEMMA writerFinishedStep ==
  ASSUME IInv, writerFinished
  PROVE  IInv'
<1>1. /\ writer.pc \in {"ended", "report"}
      /\ writer.pc # "report" => writer.result # "ERROR"
  BY Zenon DEF writerFinished
<1>2. UNCHANGED <<mSampleWriterStopped, mCancelled, reader, mTracksAdded, adding, tracks, client>>
  BY Zenon DEF writerFinished, stopFlags
<1>3. WriterMoves("gone", writer.result)
  BY Basics, WriterMovesOn, Zenon DEF writerFinished, WriterStates
<1>4. ~mThreadsDone
  BY <1>1, Zenon DEF IInv, DoneInv, DoneMeansIdle, WriterIdle
<1>5. Finishes(Writer, writer.result)
  BY <1>4, Basics, FinishedThread, Zenon DEF writerFinished, WriterStates
<1>6. TypeOK'
  BY <1>2, <1>3, <1>5, Zenon DEF IInv, WriterMoves, Finishes, TypeOK
<1>7. AddInv'
  BY <1>2, Zenon DEF IInv, AddInv
<1>8. StateInv'
  BY <1>1, <1>2, <1>3, <1>5, Basics DEF IInv, WriterMoves, Finishes, StateInv
<1>9. DoneInv'
  BY <1>2, <1>3, <1>5, Basics DEF IInv, WriterMoves, Finishes, DoneInv, DoneMeansIdle,
     Idle, WriterIdle, StateInv, Callback
<1>10. StopInv'
  BY <1>2, <1>3, <1>5, Zenon DEF IInv, WriterMoves, Finishes, StopInv, ErrorPending
<1>11. PauseInv'
  BY <1>2, <1>3, Zenon DEF IInv, WriterMoves, PauseInv
<1>12. RecordInv'
  BY <1>2, <1>3, <1>5, Zenon DEF IInv, WriterMoves, Finishes, RecordInv
<1>13. CountInv'
  BY <1>2, <1>3, Zenon DEF IInv, WriterMoves, SameQueue, CountInv, InFlight
<1>14. EosInv'
  BY <1>1, <1>2, <1>3, Zenon DEF IInv, WriterMoves, SameQueue, EosInv, allEos, RecordInv
<1>15. NoWriterInv'
  BY <1>2, <1>3, <1>5, Zenon DEF IInv, WriterMoves, Finishes, NoWriterInv
<1>16. ReaderInv'
  BY <1>1, <1>2, <1>3, Zenon DEF IInv, WriterMoves, SameQueue, ReaderInv, Hit
<1> QED
  BY <1>6, <1>7, <1>8, <1>9, <1>10, <1>11, <1>12, <1>13, <1>14, <1>15, <1>16, Zenon DEF IInv

(* All tracks are started together; nothing was requested before.         *)
LEMMA startStep ==
  ASSUME IInv, start
  PROVE  IInv'
<1>1. client = "configured" /\ client' = "started"
  BY Zenon DEF start
<1>2. UNCHANGED <<mTranscoderStatus, mTranscoderStopped, mThreadsDone, mCallbackSent,
                  mSampleWriterStopped, mCancelled, reader, mTracksAdded, adding, writer,
                  notification>>
  BY Zenon DEF start, flags, stopFlags
<1>3. /\ mThreadStates' \in [Threads -> {"PENDING", "RUNNING", "DONE"}]
      /\ mThreadStates'[Writer] = mThreadStates[Writer]
      /\ \A t \in Tracks : mThreadStates'[t] = "RUNNING"
  BY Basics, Zenon DEF start, IInv, TypeOK
<1>4. \A t \in Tracks :
        /\ tracks'[t] \in TrackStates /\ SameSamples(t)
        /\ tracks'[t].mState = "STARTED" /\ tracks'[t].mStopRequest = tracks[t].mStopRequest
        /\ tracks'[t].pc = "new" /\ tracks'[t].result = tracks[t].result
  <2> TAKE t \in Tracks
  <2>1. tracks[t] \in TrackStates /\ tracks'[t] = [tracks[t] EXCEPT !.mState = "STARTED", !.pc = "new"]
    BY Basics, Zenon DEF start
  <2>2. tracks'[t] \in TrackStates
    BY <2>1, Zenon DEF TrackStates
  <2> QED
    BY <2>1, <2>2 DEF SameSamples
<1>5. /\ \A t \in Tracks : tracks[t].pc = "none" /\ tracks[t].eosQueued = {}
      /\ \A t \in Tracks : tracks[t].result = "OK" /\ adding # t
      /\ mTracksAdded = {}
  BY <1>1, Basics, Zenon DEF IInv, StopInv, AddInv, Adding, Added, Over, RecordInv
<1>6. tracks' \in [Tracks -> TrackStates]
  BY <1>4, Zenon DEF start
<1>7. TypeOK'
  BY <1>1, <1>2, <1>3, <1>6, Zenon DEF IInv, TypeOK
<1>8. AddInv'
  BY <1>2, <1>4, <1>5, Zenon DEF SameSamples, AddInv, Adding
<1>9. StateInv'
  BY <1>1, <1>2, <1>3, <1>4, Zenon DEF IInv, StateInv
<1>10. DoneInv'
  BY <1>2, <1>5, Zenon DEF IInv, DoneInv, DoneMeansIdle, Idle, WriterIdle
<1>11. StopInv'
  BY <1>1, <1>2, <1>4, Zenon DEF IInv, StopInv
<1>12. PauseInv'
  BY <1>1, <1>2, <1>4, Zenon DEF IInv, SameSamples, PauseInv
<1>13. RecordInv'
  BY <1>2, <1>4, <1>5 DEF IInv, SameSamples, RecordInv
<1>14. CountInv'
  BY <1>2, <1>4, Zenon DEF IInv, SameSamples, CountInv, InFlight
<1>15. EosInv'
  BY <1>2, <1>4, <1>5, Basics, Zenon DEF IInv, EosInv, Over, allEos
<1>16. NoWriterInv'
  BY <1>2, <1>4, <1>5, Zenon DEF NoWriterInv, Added
<1>17. ReaderInv'
  BY <1>1, <1>2, <1>4, Zenon DEF IInv, SameSamples, ReaderInv, Hit
<1> QED
  BY <1>7, <1>8, <1>9, <1>10, <1>11, <1>12, <1>13, <1>14, <1>15, <1>16, <1>17, Zenon DEF IInv

(* A stop call of the client that is not refused is waited for.           *)
LEMMA StopCall ==
  ASSUME IInv, NEW stopOnSync \in BOOLEAN, Stops(tracks, writer, stopOnSync),
         client = "started",
         client' = IF mCancelled THEN "refused"
                   ELSE IF stopOnSync THEN "pausing" ELSE "cancelling",
         UNCHANGED <<mThreadStates, mTranscoderStatus, mTranscoderStopped, mThreadsDone,
                     mCallbackSent, mTracksAdded, adding, notification>>
  PROVE  IInv'
<1>1. TypeOK'
  BY Zenon DEF IInv, Stops, TypeOK
<1>2. AddInv'
  BY Basics DEF IInv, Stops, AddInv
<1>3. StateInv'
  BY DEF IInv, Stops, SameQueue, StateInv
<1>4. DoneInv'
  BY Zenon DEF IInv, Stops, DoneInv, DoneMeansIdle, Idle, WriterIdle
<1>5. StopInv'
  BY DEF IInv, Stops, StopInv, ErrorPending, Waiters
<1>6. PauseInv'
  BY DEF IInv, Stops, PauseInv, StopInv
<1>7. RecordInv'
  BY DEF IInv, Stops, RecordInv
<1>8. CountInv'
  BY Zenon DEF IInv, Stops, SameQueue, CountInv, InFlight
<1>9. EosInv'
  BY Basics DEF IInv, Stops, SameQueue, EosInv, allEos
<1>10. NoWriterInv'
  BY DEF IInv, Stops, NoWriterInv, StopInv
<1>11. ReaderInv'
  BY StopsReader, Zenon
<1> QED
  BY <1>1, <1>2, <1>3, <1>4, <1>5, <1>6, <1>7, <1>8, <1>9, <1>10, <1>11, Zenon DEF IInv

(* A pause stops the tracks and leaves the writer alone.                  *)
LEMMA pauseStep ==
  ASSUME IInv, pause
  PROVE  IInv'
<1>1. tracks \in [Tracks -> TrackStates] /\ TRUE \in BOOLEAN
  BY Zenon DEF IInv, TypeOK
<1>2. /\ tracks' = Stopping(tracks, TRUE) /\ writer' = StoppingWriter(writer, TRUE)
      /\ stopRequested(TRUE) /\ client = "started"
      /\ client' = IF mCancelled THEN "refused" ELSE "pausing"
  BY Zenon DEF pause, stopCall
<1>3. UNCHANGED <<mThreadStates, mTranscoderStatus, mTranscoderStopped, mThreadsDone,
                  mCallbackSent, mTracksAdded, adding, notification>>
  BY Zenon DEF pause, stopCall, flags
<1>4. Stops(tracks, writer, TRUE)
  BY <1>1, <1>2, Basics, StopStops, Zenon
<1> QED
  BY <1>2, <1>3, <1>4, StopCall, Zenon

(* A cancel stops the tracks and the writer.                              *)
LEMMA cancelStep ==
  ASSUME IInv, cancel
  PROVE  IInv'
<1>1. tracks \in [Tracks -> TrackStates] /\ FALSE \in BOOLEAN
  BY Zenon DEF IInv, TypeOK
<1>2. /\ tracks' = Stopping(tracks, FALSE) /\ writer' = StoppingWriter(writer, FALSE)
      /\ stopRequested(FALSE) /\ client = "started"
      /\ client' = IF mCancelled THEN "refused" ELSE "cancelling"
  BY Zenon DEF cancel, stopCall
<1>3. UNCHANGED <<mThreadStates, mTranscoderStatus, mTranscoderStopped, mThreadsDone,
                  mCallbackSent, mTracksAdded, adding, notification>>
  BY Zenon DEF cancel, stopCall, flags
<1>4. Stops(tracks, writer, FALSE)
  BY <1>1, <1>2, Basics, StopStops, Zenon
<1> QED
  BY <1>2, <1>3, <1>4, StopCall, Zenon

-----------------------------------------------------------------------------
(* The invariant and what follows from it                                    *)

(* Nothing has started. *)
LEMMA InitInvariant == Init => IInv
<1> SUFFICES ASSUME Init PROVE IInv
  OBVIOUS
<1>1. /\ 0 \in 0..NumSamples /\ NumSamples \in 0..NumSamples /\ NumSamples \in Nat
      /\ Writer \in Threads /\ Writer \notin Tracks
  BY TranscoderAssumption DEF Threads
<1>2. \A t \in Tracks :
        tracks[t] = [mState |-> "CONFIGURED", mStopRequest |-> "NONE", pc |-> "none",
                     left |-> NumSamples, lost |-> 0, mSampleQueue |-> 0,
                     eosQueued |-> {}, last |-> "OTHER", result |-> "OK"]
  BY Zenon DEF Init
<1>3. \A t \in Tracks :
        /\ tracks[t] \in TrackStates
        /\ tracks[t].mState = "CONFIGURED" /\ tracks[t].mStopRequest = "NONE"
        /\ tracks[t].pc = "none" /\ tracks[t].left = NumSamples /\ tracks[t].lost = 0
        /\ tracks[t].mSampleQueue = 0 /\ tracks[t].eosQueued = {} /\ tracks[t].result = "OK"
  BY <1>1, <1>2 DEF TrackStates
<1>4. tracks \in [Tracks -> TrackStates]
  BY <1>3, Zenon DEF Init
<1>5. /\ writer \in WriterStates /\ writer.mState = "INITIALIZED" /\ writer.pc = "none"
      /\ writer.eosQueued = {} /\ writer.reachedEos = {} /\ writer.result = "OK"
      /\ \A t \in Tracks : writer.mSampleQueue[t] = 0 /\ writer.written[t] = 0
  BY <1>1, Zenon DEF Init, WriterStates
<1>6. /\ mThreadStates \in [Threads -> {"PENDING", "RUNNING", "DONE"}]
      /\ \A x \in Threads : mThreadStates[x] = "PENDING"
  BY Zenon DEF Init
<1>7. /\ mTranscoderStatus = "OK" /\ mTranscoderStopped = FALSE /\ mThreadsDone = FALSE
      /\ mCallbackSent = FALSE /\ mSampleWriterStopped = FALSE /\ mCancelled = FALSE
      /\ mTracksAdded = {} /\ adding = Writer /\ client = "configured"
      /\ notification.type = "none" /\ notification \in [type : Notifications, sent : BOOLEAN]
      /\ reader \in ReaderStates /\ reader.mEnforceSequentialAccess = FALSE /\ reader.woken = {}
  BY Zenon DEF Init, Notifications, ReaderStates
<1>8. TypeOK
  BY <1>1, <1>4, <1>5, <1>6, <1>7, Zenon DEF TypeOK
<1>9. AddInv
  BY <1>1, <1>3, <1>7, Zenon DEF AddInv, Adding
<1>10. StateInv
  BY <1>3, <1>5, <1>6, Zenon DEF StateInv, Threads
<1>11. DoneInv
  BY <1>7, Zenon DEF DoneInv
<1>12. StopInv
  BY <1>3, <1>5, <1>7, Zenon DEF StopInv
<1>13. PauseInv
  BY <1>3, <1>5, <1>7, Zenon DEF PauseInv
<1>14. RecordInv
  BY <1>3, <1>5, <1>7, Zenon DEF RecordInv
<1>15. CountInv
  BY <1>1, <1>3, <1>5 DEF CountInv, InFlight
<1>16. EosInv
  BY <1>3, <1>5, Zenon DEF EosInv, Over
<1>17. NoWriterInv
  BY <1>3, <1>7, Zenon DEF NoWriterInv, Added
<1>18. ReaderInv
  BY <1>3, <1>7 DEF ReaderInv, Hit
<1> QED
  BY <1>8, <1>9, <1>10, <1>11, <1>12, <1>13, <1>14, <1>15, <1>16, <1>17, <1>18, Zenon DEF IInv

(* Every step preserves it: the steps of a track, *)
LEMMA TrackInvariant ==
  ASSUME IInv, NEW t \in Tracks,
         \/ trackStep(t) \/ codecMessage(t) \/ addTrackFails(t) \/ trackFails(t)
         \/ readToEnd(t) \/ earlyEnd(t)
  PROVE  IInv'
  BY formatAvailableStep, startWriterStep, addTrackErrorStep, addTrackReportStep,
     outputSampleStep, outputEosStep, checkStopStep, stopNowStep, stoppedEosStep,
     trackErrorStep, trackFinishedStep, codecMessageStep, addTrackFailsStep,
     trackFailsStep, readToEndStep, earlyEndStep, Zenon DEF trackStep

(* ... those of the writer, *)
LEMMA WriterInvariant ==
  ASSUME IInv, writerStep
  PROVE  IInv'
  BY muxerStartStep, writerLoopEndsStep, muxerStopStep, writerErrorStep,
     writerFinishedStep, writeSampleStep, writeEosStep, Zenon DEF writerStep

(* ... and steps that change nothing. *)
LEMMA StutterInvariant ==
  ASSUME IInv, UNCHANGED vars
  PROVE  IInv'
  BY OnlyReader, ReaderMovesOn, Zenon DEF vars, flags, stopFlags

(* The invariant holds in every reachable state. *)
THEOREM TranscoderInvariant == Spec => []IInv
<1>1. Init => IInv
  BY InitInvariant, Zenon
<1>2. IInv /\ [Next]_vars => IInv'
  <2> SUFFICES ASSUME IInv, [Next]_vars PROVE IInv'
    OBVIOUS
  <2> QED
    BY TrackInvariant, WriterInvariant, StutterInvariant, startStep, pauseStep,
       cancelStep, threadsDoneStep, notifyStep, Zenon DEF Next
<1> QED
  BY <1>1, <1>2, PTL DEF Spec

(* The variables of the transcoder, its tracks and its writer keep their types:  *)
(* no sample is queued or written more often than it was output.                   *)
THEOREM TranscoderTypes == Spec => []TypeOK
<1>1. IInv => TypeOK
  BY Zenon DEF IInv
<1> QED
  BY <1>1, TranscoderInvariant, PTL

(* mThreadsDone is only set by onThreadFinished when no thread runs or will run. *)
THEOREM DoneThreadsAreIdle == Spec => []DoneMeansIdle
<1>1. IInv => DoneMeansIdle
  BY Zenon DEF IInv, DoneInv, DoneMeansIdle
<1> QED
  BY <1>1, TranscoderInvariant, PTL

(* What FinishedIsComplete says of one track. *)
Complete(t) ==
  /\ writer.written[t] + tracks[t].lost = NumSamples
  /\ tracks[t].lost > 0 => client \in {"pausing", "paused"}

(* onFinished is called when every sample was written, but for those that a     *)
(* pause cut off by an early end of stream.  A transcoder without errors and stops  *)
(* has had a writer, and the writer saw the end of every track behind its last       *)
(* sample.  It did not see the end of a track that a cancel cut off.                 *)
THEOREM FinishedFilesAreComplete == Spec => []FinishedIsComplete
<1>1. IInv => FinishedIsComplete
  <2> SUFFICES ASSUME IInv, notification.type = "onFinished"
               PROVE  /\ allEos
                      /\ \A t \in Tracks : Complete(t)
    BY Zenon DEF FinishedIsComplete, Complete
  <2>1. mThreadsDone /\ mTranscoderStatus # "ERROR" /\ ~mTranscoderStopped
    BY Zenon DEF IInv, DoneInv, RecordInv, Callback
  <2>2. \A t \in Tracks : tracks[t].pc = "gone" /\ tracks[t].result = "OK"
    <3> TAKE t \in Tracks
    <3>1. tracks[t].pc = "gone"
      BY Zenon DEF IInv, DoneInv, DoneMeansIdle, Idle
    <3>2. tracks[t].result \in {"OK", "STOPPED", "ERROR"}
      BY Basics, Zenon DEF TrackStates
    <3> QED
      BY <2>1, <3>1, <3>2, Zenon DEF IInv, RecordInv
  <2>3. CASE writer.pc = "none"
    <3>1. Tracks = {}
      <4>1. adding = Writer
        BY <2>2, Zenon DEF IInv, AddInv, Adding, TypeOK, Threads
      <4>2. mTracksAdded = Tracks
        BY <2>1, <2>2, Basics, Zenon DEF IInv, NoWriterInv, Added
      <4> QED
        BY <2>2, <2>3, <4>1, <4>2, Zenon DEF IInv, NoWriterInv
    <3> QED
      BY <2>3, <3>1, Zenon DEF IInv, StateInv, allEos
  <2>4. CASE writer.pc # "none"
    <3>1. writer.pc = "gone"
      BY <2>4, Zenon DEF IInv, DoneInv, DoneMeansIdle, WriterIdle
    <3>2. writer.result \in {"OK", "STOPPED", "ERROR"}
      BY Basics, Zenon DEF WriterStates
    <3>3. writer.result = "OK"
      BY <2>1, <3>1, <3>2, Zenon DEF IInv, RecordInv
    <3>4. writer.reachedEos = Tracks
      BY <3>1, <3>3, Zenon DEF IInv, EosInv, allEos
    <3>5. mTracksAdded = Tracks
      BY <2>4, Zenon DEF IInv, StateInv
    <3>6. ASSUME NEW t \in Tracks
          PROVE  writer.written[t] + tracks[t].lost = NumSamples
      <4>1. tracks[t].left = 0 /\ tracks[t].mSampleQueue = 0 /\ writer.mSampleQueue[t] = 0
        BY <2>2, <3>4, <3>5, Zenon DEF IInv, EosInv, AddInv
      <4>2. writer.written[t] \in Nat /\ tracks[t].lost \in Nat
        BY Basics DEF WriterStates
      <4> QED
        BY <3>3, <4>1, <4>2 DEF IInv, CountInv, InFlight
    <3>7. ASSUME NEW t \in Tracks, tracks[t].lost > 0
          PROVE  client \in {"pausing", "paused"}
      <4>1. mCancelled /\ ~mSampleWriterStopped
        BY <3>4, <3>7, Zenon DEF IInv, ReaderInv, Hit
      <4>2. ~ErrorPending
        BY <2>2, <3>1, Zenon DEF ErrorPending
      <4> QED
        BY <2>1, <4>1, <4>2, Zenon DEF IInv, StopInv, ReaderInv, Waiters
    <3> QED
      BY <3>4, <3>6, <3>7, Zenon DEF allEos, Complete
  <2> QED
    BY <2>3, <2>4, Zenon
<1> QED
  BY <1>1, TranscoderInvariant, PTL

(* The error of any thread is the one that onError reports. *)
THEOREM ErrorsAreReported == Spec => []ErrorIsReported
<1>1. IInv => ErrorIsReported
  BY Zenon DEF IInv, DoneInv, DoneMeansIdle, Idle, WriterIdle, RecordInv, StateInv,
     Callback, ErrorIsReported
<1> QED
  BY <1>1, TranscoderInvariant, PTL

(* Without a callback there is a caller of pause or cancel that waits. *)
THEOREM SilenceIsAwaited == Spec => []SilenceHasAWaiter
<1>1. IInv => SilenceHasAWaiter
  <2> SUFFICES ASSUME IInv, notification.type = "nothing" PROVE client \in Waiters
    BY Zenon DEF SilenceHasAWaiter, Waiters
  <2>1. mThreadsDone /\ mTranscoderStatus # "ERROR" /\ mTranscoderStopped
    BY Zenon DEF IInv, DoneInv, RecordInv, Callback
  <2>2. ~ErrorPending
    BY Zenon DEF IInv, DoneInv, DoneMeansIdle, Idle, WriterIdle, ErrorPending
  <2> QED
    BY <2>1, <2>2, Zenon DEF IInv, StopInv
<1> QED
  BY <1>1, TranscoderInvariant, PTL

(* A pause without an error leaves a finalized file with all that was output. *)
THEOREM PausedFilesAreFinalized == Spec => []PausedIsFinalized
<1>1. IInv => PausedIsFinalized
  <2> SUFFICES ASSUME IInv, client = "paused", notification.type = "nothing"
               PROVE  /\ writer.pc = "gone" =>
                           \A t \in Tracks :
                             writer.written[t] + tracks[t].left + tracks[t].lost = NumSamples
                      /\ \A t \in Tracks : tracks[t].result = "STOPPED" => tracks[t].last = "SYNC"
    BY Zenon DEF PausedIsFinalized
  <2>1. mTranscoderStatus # "ERROR" /\ ~mSampleWriterStopped
    BY Zenon DEF IInv, RecordInv, Callback, PauseInv
  <2>2. ASSUME writer.pc = "gone", NEW t \in Tracks
        PROVE  writer.written[t] + tracks[t].left + tracks[t].lost = NumSamples
    <3>1. writer.result \in {"OK", "STOPPED", "ERROR"}
      BY Basics, Zenon DEF WriterStates
    <3>2. writer.result = "OK"
      BY <2>1, <2>2, <3>1, Zenon DEF IInv, RecordInv, PauseInv
    <3>3. writer.reachedEos = Tracks /\ mTracksAdded = Tracks
      BY <2>2, <3>2, Zenon DEF IInv, EosInv, allEos, StateInv
    <3>4. tracks[t].mSampleQueue = 0 /\ writer.mSampleQueue[t] = 0
      BY <3>3, Zenon DEF IInv, EosInv, AddInv
    <3>5. writer.written[t] \in Nat /\ tracks[t].left \in Nat /\ tracks[t].lost \in Nat
      BY Basics DEF WriterStates, TrackStates
    <3> QED
      BY <3>2, <3>4, <3>5 DEF IInv, CountInv, InFlight
  <2> QED
    BY <2>2, Zenon DEF IInv, PauseInv
<1> QED
  BY <1>1, TranscoderInvariant, PTL
=============================================================================
