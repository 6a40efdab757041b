--------------------------- MODULE MediaTranscoder --------------------------
(***************************************************************************)
(* transcoder/MediaTranscoder.cpp and the threads it runs: one per track    *)
(* (MediaTrackTranscoder with PassthroughTrackTranscoder or                 *)
(* VideoTrackTranscoder) and the MediaSampleWriter's.                       *)
(*                                                                         *)
(* A track's thread turns its source samples into output samples, each in   *)
(* a buffer of a pool (the BufferPool or the encoder's output buffers) that  *)
(* the writer gives back.  What a sample holds is left out, except whether  *)
(* it is a sync sample.  A step of a thread is a critical section or the     *)
(* work between two of them.                                                *)
(***************************************************************************)
EXTENDS Naturals, FiniteSets

CONSTANTS
  Tracks,        \* configured tracks
  Video,         \* those with a VideoTrackTranscoder; the others pass through
  Writer,        \* the thread of mSampleWriter
  NumSamples,    \* samples of a track
  MaxBuffers,    \* buffers of a track's pool
  Faults,        \* what may fail: a subset of FaultKinds
  ClientOps      \* what the client may call after start: a subset of {"pause", "cancel"}

FaultKinds == {"track", "addTrack", "writer"}
Threads == Tracks \cup {Writer}

ASSUME TranscoderAssumption ==
  /\ Writer \notin Tracks
  /\ Video \subseteq Tracks
  /\ NumSamples \in Nat /\ MaxBuffers \in Nat \ {0}
  /\ Faults \subseteq FaultKinds
  /\ ClientOps \subseteq {"pause", "cancel"}

VARIABLES
  mThreadStates,
  mTranscoderStatus, mTranscoderStopped, mThreadsDone, mCallbackSent,
  mSampleWriterStopped, mCancelled,
  mTracksAdded,
  adding,        \* the track whose thread holds mTracksAddedMutex, if any
  tracks,        \* the track transcoders, see TrackStates
  writer,        \* the sample writer, see WriterStates
  reader,        \* the sample reader, see ReaderStates
  notification,  \* of the asyncNotificationThread
  client         \* where the client's thread is

flags == <<mTranscoderStatus, mTranscoderStopped, mThreadsDone, mCallbackSent>>
stopFlags == <<mSampleWriterStopped, mCancelled, reader>>   \* what requestStop changes
vars == <<mThreadStates, flags, stopFlags, mTracksAdded, adding, tracks, writer,
          notification, client>>

TrackStates ==
  [mState : {"CONFIGURED", "STARTED", "STOPPED"},
   mStopRequest : {"NONE", "STOP_ON_SYNC", "STOP_NOW"},
   pc : {"none", "new", "run", "checkStop", "added", "addFailed", "addReport", "stopped",
         "ended", "report", "gone"},
   left : 0..NumSamples,        \* source samples not yet turned into output
   lost : 0..NumSamples,        \* those that will not be: the end was told before them
   mSampleQueue : 0..NumSamples, \* output samples waiting for a consumer
   eosQueued : SUBSET Tracks,   \* the end of stream waits there too
   last : {"SYNC", "OTHER"},    \* whether the last output sample was a sync sample
   result : {"OK", "STOPPED", "ERROR"}]

WriterStates ==
  [mState : {"INITIALIZED", "STARTED", "STOPPED"},
   pc : {"none", "start", "loop", "stop", "ended", "report", "gone"},
   mSampleQueue : [Tracks -> 0..NumSamples],
   eosQueued : SUBSET Tracks,
   reachedEos : SUBSET Tracks,
   written : [Tracks -> 0..NumSamples],
   result : {"OK", "STOPPED", "ERROR"}]

(* What the transcoder sees of MediaSampleReaderNDK: whether each thread waits for *)
(* its turn; the threads that a stop woke from that wait and that have not looked  *)
(* at the extractor since; and whether it has come to its end meanwhile.           *)
ReaderStates ==
  [mEnforceSequentialAccess : BOOLEAN, woken : SUBSET Tracks, mEosReached : BOOLEAN]

Notifications == {"none", "onError", "onFinished", "nothing"}

Init ==
  /\ mThreadStates = [x \in Threads |-> "PENDING"]
  /\ mTranscoderStatus = "OK"
  /\ mTranscoderStopped = FALSE /\ mThreadsDone = FALSE /\ mCallbackSent = FALSE
  /\ mSampleWriterStopped = FALSE /\ mCancelled = FALSE
  /\ mTracksAdded = {}
  /\ adding = Writer
  /\ tracks = [t \in Tracks |->
       [mState |-> "CONFIGURED", mStopRequest |-> "NONE", pc |-> "none", left |-> NumSamples,
        lost |-> 0, mSampleQueue |-> 0, eosQueued |-> {}, last |-> "OTHER", result |-> "OK"]]
  /\ writer = [mState |-> "INITIALIZED", pc |-> "none",
               mSampleQueue |-> [t \in Tracks |-> 0], eosQueued |-> {}, reachedEos |-> {},
               written |-> [t \in Tracks |-> 0], result |-> "OK"]
  /\ reader = [mEnforceSequentialAccess |-> FALSE, woken |-> {}, mEosReached |-> FALSE]
  /\ notification = [type |-> "none", sent |-> FALSE]
  /\ client = "configured"

-----------------------------------------------------------------------------
(* MediaTrackTranscoder::stop *)
TrackStop(tr, stopOnSync) ==
  IF tr.mState = "STARTED" \/ (tr.mStopRequest = "STOP_ON_SYNC" /\ ~stopOnSync)
    THEN [tr EXCEPT !.mStopRequest = IF stopOnSync THEN "STOP_ON_SYNC" ELSE "STOP_NOW",
                    !.mState = "STOPPED"]
    ELSE tr

(* MediaSampleWriter::stop *)
WriterStop(w) == IF w.mState = "STARTED" THEN [w EXCEPT !.mState = "STOPPED"] ELSE w

(* requestStop that stops the writer for a pause too *)
StoppingWriterAlways(w, stopOnSync) ==
  IF mCancelled THEN w ELSE WriterStop(w)

(* MediaTranscoder::requestStop applied to tracks and writer: refused when the *)
(* transcoder was stopped before, for whatever reason.                          *)
Stopping(trs, stopOnSync) ==
  IF mCancelled THEN trs ELSE [t \in Tracks |-> TrackStop(trs[t], stopOnSync)]
StoppingWriter(w, stopOnSync) ==
  IF mCancelled \/ stopOnSync THEN w ELSE WriterStop(w)
(* setEnforceSequentialAccess(false): threads that wait for their turn go on.  They  *)
(* waited for a track with a sample the extractor stands at, which is still to come.  *)
Waiting(x) == {t \in Tracks \ {x} : tracks[t].pc = "run" /\ tracks[t].left > 0}
Awaited == {x \in Tracks : tracks[x].left > 0}
ReaderReleased ==
  IF mCancelled \/ ~reader.mEnforceSequentialAccess THEN {reader}
  ELSE {[mEnforceSequentialAccess |-> FALSE, woken |-> w, mEosReached |-> FALSE] :
          w \in {{}} \cup UNION {SUBSET Waiting(x) : x \in Awaited}}
stopRequested(stopOnSync) ==
  /\ mCancelled' = TRUE
  /\ reader' \in ReaderReleased
  /\ mSampleWriterStopped' = (mSampleWriterStopped \/ (~mCancelled /\ ~stopOnSync))

-----------------------------------------------------------------------------
(* onThreadFinished: all threads are done.  A writer that has not been started by *)
(* then never will be.                                                             *)
TracksDone(states) == \A t \in Tracks : states[t] = "DONE"
AllDone(states) == TracksDone(states) /\ states[Writer] # "RUNNING"

(* The status of the transcoder after a thread's result.  The mutant keeps the    *)
(* one of the thread that ends last.                                               *)
LastStatus(result) == IF result = "ERROR" THEN "ERROR" ELSE "OK"
NewStatus(result) == IF result = "ERROR" THEN "ERROR" ELSE mTranscoderStatus

(* What the asyncNotificationThread calls; the first version takes a stop for an end. *)
CallbackUnlessError(status, stopped) == IF status = "ERROR" THEN "onError" ELSE "onFinished"
Callback(status, stopped) ==
  IF status = "ERROR" THEN "onError" ELSE IF stopped THEN "nothing" ELSE "onFinished"

(* onThreadFinished(x, ...), after the stop that an error asks for. *)
onThreadFinished(x, result) ==
  LET states == [mThreadStates EXCEPT ![x] = "DONE"]
      status == NewStatus(result)
      stopped == mTranscoderStopped \/ result = "STOPPED"
      done == AllDone(states)
  IN  /\ mThreadStates' = states
      /\ mTranscoderStatus' = status
      /\ mTranscoderStopped' = stopped
      /\ mThreadsDone' = (mThreadsDone \/ done)
      /\ mCallbackSent' = (mCallbackSent \/ done)
      /\ notification' = IF done /\ ~mCallbackSent
                           THEN [type |-> Callback(status, stopped), sent |-> FALSE]
                           ELSE notification

(* The first half of it, for an error: requestStop(false), with trs and w the    *)
(* track transcoders and the writer otherwise left by the step.                  *)
errorStopsAll(trs, w) ==
  /\ tracks' = Stopping(trs, FALSE)
  /\ writer' = StoppingWriter(w, FALSE)
  /\ stopRequested(FALSE)

-----------------------------------------------------------------------------
(* MediaTrackTranscoder::onOutputSampleAvailable of n samples (0 or 1) and of the *)
(* end of stream of the tracks in eos ({} or {t}): what it leaves of the track      *)
(* and of the writer.  mSampleConsumer is set for the tracks in mTracksAdded.       *)
OutputTrack(t, n, eos) ==
  IF t \in mTracksAdded THEN tracks[t]
  ELSE [tracks[t] EXCEPT !.mSampleQueue = @ + n, !.eosQueued = @ \cup eos]
OutputWriter(t, n, eos) ==
  IF t \in mTracksAdded
    THEN [writer EXCEPT !.mSampleQueue[t] = @ + n, !.eosQueued = @ \cup eos]
    ELSE writer

(* Buffers of t's pool that wait for the writer. *)
held(t) == tracks[t].mSampleQueue + writer.mSampleQueue[t]

at(t, pc) == tracks[t].pc = pc
goto(t, pc) == tracks' = [tracks EXCEPT ![t].pc = pc]

(* The thread tells the output format, once: the source's, before anything else,   *)
(* or the encoder's, by a message that a stop may forestall.                        *)
formatReady(t) ==
  at(t, "new") /\ (t \in Video => tracks[t].mStopRequest # "STOP_NOW")

(* MediaTrackTranscoder::setSampleConsumer: what waited goes to the writer. *)
HandedOver(t) ==
  [writer EXCEPT !.mSampleQueue[t] = @ + tracks[t].mSampleQueue,
                 !.eosQueued = @ \cup tracks[t].eosQueued]

(* onTrackFormatAvailable, as far as the writer's start: the track is added to    *)
(* the writer and the samples that waited for it are handed over.                 *)
formatAvailable(t) ==
  /\ formatReady(t)
  /\ adding = Writer /\ adding' = t
  /\ writer.mState = "INITIALIZED"
  /\ tracks' = [tracks EXCEPT ![t].pc = "added", ![t].mSampleQueue = 0,
                              ![t].eosQueued = {}]
  /\ writer' = HandedOver(t)
  /\ mTracksAdded' = mTracksAdded \cup {t}
  /\ UNCHANGED <<mThreadStates, flags, stopFlags, notification, client>>

(* ... and the start of the writer once every track was added. *)
startWriter(t) ==
  /\ at(t, "added")
  /\ adding' = Writer
  /\ goto(t, "checkStop")
  /\ IF mTracksAdded = Tracks /\ ~mSampleWriterStopped
       THEN /\ writer' = [writer EXCEPT !.mState = "STARTED", !.pc = "start"]
            /\ mThreadStates' = [mThreadStates EXCEPT ![Writer] = "RUNNING"]
            /\ reader' = [reader EXCEPT !.mEnforceSequentialAccess = ~mCancelled]
       ELSE UNCHANGED <<writer, mThreadStates, reader>>
  /\ UNCHANGED <<flags, mSampleWriterStopped, mCancelled, mTracksAdded, notification, client>>

(* ... when the muxer does not take the track: the writer is reported as failed. *)
addTrackFails(t) ==
  /\ "addTrack" \in Faults
  /\ formatReady(t)
  /\ adding = Writer /\ adding' = t
  /\ goto(t, "addFailed")
  /\ UNCHANGED <<mThreadStates, flags, stopFlags, mTracksAdded, writer, notification, client>>

addTrackError(t) ==
  /\ at(t, "addFailed")
  /\ errorStopsAll([tracks EXCEPT ![t].pc = "addReport"], writer)
  /\ UNCHANGED <<mThreadStates, flags, mTracksAdded, adding, notification, client>>

(* onTrackFormatAvailable that reports the missing track as the writer's end *)
addTrackIgnored(t) ==
  /\ at(t, "addReport")
  /\ adding' = Writer
  /\ goto(t, "checkStop")
  /\ onThreadFinished(Writer, "OK")
  /\ UNCHANGED <<stopFlags, mTracksAdded, writer, client>>
addTrackReport(t) ==
  /\ at(t, "addReport")
  /\ adding' = Writer
  /\ goto(t, "checkStop")
  /\ onThreadFinished(Writer, "ERROR")
  /\ UNCHANGED <<stopFlags, mTracksAdded, writer, client>>

-----------------------------------------------------------------------------
(* runTranscodeLoop: the next output sample, in a free buffer. *)
outputSample(t) ==
  /\ at(t, "run") /\ tracks[t].mStopRequest # "STOP_NOW"
  /\ tracks[t].left > 0 /\ held(t) < MaxBuffers
  /\ \E last \in {"SYNC", "OTHER"} :
       tracks' = [tracks EXCEPT ![t] =
         [OutputTrack(t, 1, {}) EXCEPT !.pc = "checkStop", !.left = @ - 1, !.last = last]]
  /\ writer' = OutputWriter(t, 1, {})
  /\ reader' = [reader EXCEPT !.woken = @ \ {t}]
  /\ UNCHANGED <<mThreadStates, flags, mSampleWriterStopped, mCancelled, mTracksAdded, adding,
                 notification, client>>

(* ... the end of the stream, for which only the encoder needs a buffer, *)
outputEos(t) ==
  /\ at(t, "run") /\ tracks[t].mStopRequest # "STOP_NOW"
  /\ tracks[t].left = 0 /\ (t \in Video => held(t) < MaxBuffers)
  /\ tracks' = [tracks EXCEPT ![t] = [OutputTrack(t, 0, {t}) EXCEPT !.pc = "ended"]]
  /\ writer' = OutputWriter(t, 0, {t})
  /\ UNCHANGED <<mThreadStates, flags, stopFlags, mTracksAdded, adding, notification, client>>

(* Before a woken thread gets the reader's mutex, another one may read on to the end  *)
(* of the source: to find its own end, or ahead of the decoder.                        *)
readToEnd(u) ==
  /\ at(u, "run") /\ (u \in Video \/ tracks[u].left = 0) /\ tracks[u].lost = 0
  /\ \E t \in reader.woken \ {u} : at(t, "run")
  /\ reader' = [reader EXCEPT !.mEosReached = TRUE]
  /\ UNCHANGED <<mThreadStates, flags, mSampleWriterStopped, mCancelled, mTracksAdded, adding,
                 tracks, writer, notification, client>>

(* ... in which case waitForTrack_l tells the woken thread that the stream has ended. *)
(* The thread takes it for the end of its track: a passthrough track outputs it, a    *)
(* video track feeds it to the decoder, behind what it has read before.  If the        *)
(* thread has the info of a sample and is about to read the data, it is an error.      *)
earlyEnd(t) ==
  /\ t \in reader.woken /\ reader.mEosReached
  /\ at(t, "run") /\ tracks[t].left > 0
  /\ \/ /\ t \notin Video
        /\ tracks' = [tracks EXCEPT ![t] =
             [OutputTrack(t, 0, {t}) EXCEPT !.pc = "ended", !.left = 0, !.lost = @ + tracks[t].left]]
        /\ writer' = OutputWriter(t, 0, {t})
     \/ /\ t \in Video
        /\ \E n \in 1..tracks[t].left :
             tracks' = [tracks EXCEPT ![t].left = @ - n, ![t].lost = @ + n]
        /\ UNCHANGED writer
     \/ /\ tracks' = [tracks EXCEPT ![t].pc = "ended", ![t].result = "ERROR"]
        /\ UNCHANGED writer
  /\ reader' = [reader EXCEPT !.woken = @ \ {t}]
  /\ UNCHANGED <<mThreadStates, flags, mSampleWriterStopped, mCancelled, mTracksAdded, adding,
                 notification, client>>

(* ... a stop request, looked at after each sample, *)
checkStop(t) ==
  /\ at(t, "checkStop")
  /\ IF tracks[t].mStopRequest = "STOP_ON_SYNC" /\ tracks[t].last = "SYNC"
       THEN tracks' = [tracks EXCEPT ![t].pc = "stopped", ![t].result = "STOPPED"]
       ELSE goto(t, "run")
  /\ UNCHANGED <<mThreadStates, flags, stopFlags, mTracksAdded, adding, writer, notification,
                 client>>

(* ... for video after every codec message, also one that brings no sample, *)
codecMessage(t) ==
  /\ t \in Video /\ at(t, "run")
  /\ tracks[t].mStopRequest = "STOP_ON_SYNC" /\ tracks[t].last = "SYNC"
  /\ tracks' = [tracks EXCEPT ![t].pc = "stopped", ![t].result = "STOPPED"]
  /\ UNCHANGED <<mThreadStates, flags, stopFlags, mTracksAdded, adding, writer, notification,
                 client>>

(* A stop that does not end the wait for a buffer *)
stopNowAsleep(t) ==
  /\ tracks[t].mStopRequest = "STOP_NOW"
  /\ at(t, "run") \/ (t \in Video /\ at(t, "new"))
  /\ held(t) < MaxBuffers
  /\ tracks' = [tracks EXCEPT ![t].pc = "stopped", ![t].result = "STOPPED"]
  /\ UNCHANGED <<mThreadStates, flags, stopFlags, mTracksAdded, adding, writer, notification,
                 client>>

(* ... and STOP_NOW, which also ends the wait for a buffer or for the codec. *)
stopNow(t) ==
  /\ tracks[t].mStopRequest = "STOP_NOW"
  /\ at(t, "run") \/ (t \in Video /\ at(t, "new"))
  /\ tracks' = [tracks EXCEPT ![t].pc = "stopped", ![t].result = "STOPPED"]
  /\ UNCHANGED <<mThreadStates, flags, stopFlags, mTracksAdded, adding, writer, notification,
                 client>>

(* The source or a codec fails. *)
trackFails(t) ==
  /\ "track" \in Faults
  /\ tracks[t].mStopRequest # "STOP_NOW"
  /\ at(t, "run") \/ (t \in Video /\ at(t, "new"))
  /\ tracks' = [tracks EXCEPT ![t].pc = "ended", ![t].result = "ERROR"]
  /\ UNCHANGED <<mThreadStates, flags, stopFlags, mTracksAdded, adding, writer, notification,
                 client>>

(* The end of the thread: a stopped track still outputs an end of stream, *)
stoppedEos(t) ==
  /\ at(t, "stopped")
  /\ tracks' = [tracks EXCEPT ![t] = [OutputTrack(t, 0, {t}) EXCEPT !.pc = "ended"]]
  /\ writer' = OutputWriter(t, 0, {t})
  /\ UNCHANGED <<mThreadStates, flags, stopFlags, mTracksAdded, adding, notification, client>>

(* ... an error stops the other threads, *)
trackError(t) ==
  /\ at(t, "ended") /\ tracks[t].result = "ERROR"
  /\ errorStopsAll([tracks EXCEPT ![t].pc = "report"], writer)
  /\ UNCHANGED <<mThreadStates, flags, mTracksAdded, adding, notification, client>>

(* ... and onTrackFinished, onTrackStopped or onTrackError records the outcome. *)
trackFinished(t) ==
  /\ at(t, "report") \/ (at(t, "ended") /\ tracks[t].result # "ERROR")
  /\ goto(t, "gone")
  /\ onThreadFinished(t, tracks[t].result)
  /\ UNCHANGED <<stopFlags, mTracksAdded, adding, writer, client>>

-----------------------------------------------------------------------------
allEos == writer.reachedEos = Tracks
noData == \A t \in Tracks : writer.mSampleQueue[t] = 0

(* writeSamples: the muxer is started. *)
muxerStart ==
  /\ writer.pc = "start"
  /\ \/ writer' = [writer EXCEPT !.pc = "loop"]
     \/ "writer" \in Faults /\ writer' = [writer EXCEPT !.pc = "ended", !.result = "ERROR"]
  /\ UNCHANGED <<mThreadStates, flags, stopFlags, mTracksAdded, adding, tracks, notification,
                 client>>

(* runWriterLoop: a sample of t is taken from the queue and written, *)
writeSample(t) ==
  /\ writer.pc = "loop" /\ ~allEos /\ writer.mState = "STARTED"
  /\ writer.mSampleQueue[t] > 0
  /\ \/ writer' = [writer EXCEPT !.mSampleQueue[t] = @ - 1, !.written[t] = @ + 1]
     \/ /\ "writer" \in Faults
        /\ writer' = [writer EXCEPT !.mSampleQueue[t] = @ - 1, !.pc = "stop", !.result = "ERROR"]
  /\ UNCHANGED <<mThreadStates, flags, stopFlags, mTracksAdded, adding, tracks, notification,
                 client>>

(* ... or its end of stream, which the queue orders behind all samples, *)
writeEos(t) ==
  /\ writer.pc = "loop" /\ ~allEos /\ writer.mState = "STARTED"
  /\ noData /\ t \in writer.eosQueued
  /\ \/ writer' = [writer EXCEPT !.eosQueued = @ \ {t}, !.reachedEos = @ \cup {t}]
     \/ /\ "writer" \in Faults
        /\ writer' = [writer EXCEPT !.eosQueued = @ \ {t}, !.reachedEos = @ \cup {t},
                                    !.pc = "stop", !.result = "ERROR"]
  /\ UNCHANGED <<mThreadStates, flags, stopFlags, mTracksAdded, adding, tracks, notification,
                 client>>

(* ... until every track reached its end or the writer was stopped. *)
writerLoopEnds ==
  /\ writer.pc = "loop"
  /\ \/ allEos /\ writer' = [writer EXCEPT !.pc = "stop"]
     \/ /\ ~allEos /\ writer.mState = "STOPPED"
        /\ writer' = [writer EXCEPT !.pc = "stop", !.result = "STOPPED"]
  /\ UNCHANGED <<mThreadStates, flags, stopFlags, mTracksAdded, adding, tracks, notification,
                 client>>

(* The muxer is stopped, which finalizes the file. *)
muxerStop ==
  /\ writer.pc = "stop"
  /\ \/ writer' = [writer EXCEPT !.pc = "ended"]
     \/ "writer" \in Faults /\ writer' = [writer EXCEPT !.pc = "ended", !.result = "ERROR"]
  /\ UNCHANGED <<mThreadStates, flags, stopFlags, mTracksAdded, adding, tracks, notification,
                 client>>

writerError ==
  /\ writer.pc = "ended" /\ writer.result = "ERROR"
  /\ errorStopsAll(tracks, [writer EXCEPT !.pc = "report"])
  /\ UNCHANGED <<mThreadStates, flags, mTracksAdded, adding, notification, client>>

(* onFinished or onStopped of the writer *)
writerFinished ==
  /\ writer.pc = "report" \/ (writer.pc = "ended" /\ writer.result # "ERROR")
  /\ writer' = [writer EXCEPT !.pc = "gone"]
  /\ onThreadFinished(Writer, writer.result)
  /\ UNCHANGED <<stopFlags, mTracksAdded, adding, tracks, client>>

-----------------------------------------------------------------------------
start ==
  /\ client = "configured" /\ client' = "started"
  /\ mThreadStates' = [x \in Threads |-> IF x \in Tracks THEN "RUNNING" ELSE mThreadStates[x]]
  /\ tracks' = [t \in Tracks |-> [tracks[t] EXCEPT !.mState = "STARTED", !.pc = "new"]]
  /\ UNCHANGED <<flags, stopFlags, mTracksAdded, adding, writer, notification>>

(* pause and cancel up to waitForThreads: refused when a stop was requested before. *)
stopCall(op, waiting, stopOnSync) ==
  /\ op \in ClientOps
  /\ client = "started"
  /\ client' = IF mCancelled THEN "refused" ELSE waiting
  /\ tracks' = Stopping(tracks, stopOnSync)
  /\ writer' = StoppingWriter(writer, stopOnSync)
  /\ stopRequested(stopOnSync)
  /\ UNCHANGED <<mThreadStates, flags, mTracksAdded, adding, notification>>

pause == stopCall("pause", "pausing", TRUE)
cancel == stopCall("cancel", "cancelling", FALSE)

(* waitForThreads returns. *)
threadsDone ==
  /\ mThreadsDone
  /\ \/ client = "pausing" /\ client' = "paused"
     \/ client = "cancelling" /\ client' = "cancelled"
  /\ UNCHANGED <<mThreadStates, flags, stopFlags, mTracksAdded, adding, tracks, writer,
                 notification>>

(* The asyncNotificationThread calls the client back. *)
notify ==
  /\ notification.type # "none" /\ ~notification.sent
  /\ notification' = [notification EXCEPT !.sent = TRUE]
  /\ UNCHANGED <<mThreadStates, flags, stopFlags, mTracksAdded, adding, tracks, writer, client>>

-----------------------------------------------------------------------------
trackStep(t) ==
  \/ formatAvailable(t) \/ startWriter(t) \/ addTrackError(t) \/ addTrackReport(t)
  \/ outputSample(t) \/ outputEos(t) \/ checkStop(t) \/ stopNow(t)
  \/ stoppedEos(t) \/ trackError(t) \/ trackFinished(t)

writerStep ==
  \/ muxerStart \/ writerLoopEnds \/ muxerStop \/ writerError \/ writerFinished
  \/ \E t \in Tracks : writeSample(t) \/ writeEos(t)

Next ==
  \/ \E t \in Tracks : \/ trackStep(t) \/ codecMessage(t) \/ addTrackFails(t) \/ trackFails(t)
                       \/ readToEnd(t) \/ earlyEnd(t)
  \/ writerStep
  \/ start \/ pause \/ cancel \/ threadsDone \/ notify

Spec == Init /\ [][Next]_vars

(* Threads are scheduled, codecs and muxer answer; nothing has to fail and the    *)
(* client has to call nothing but start.                                           *)
FairSpec ==
  /\ Spec
  /\ WF_vars(start) /\ WF_vars(threadsDone) /\ WF_vars(notify) /\ WF_vars(writerStep)
  /\ \A t \in Tracks : WF_vars(trackStep(t))

-----------------------------------------------------------------------------
(* The variables keep their types: in particular no sample is queued or written  *)
(* more often than it was output.                                                  *)
TypeOK ==
  /\ mThreadStates \in [Threads -> {"PENDING", "RUNNING", "DONE"}]
  /\ mTranscoderStatus \in {"OK", "ERROR"}
  /\ mTranscoderStopped \in BOOLEAN /\ mThreadsDone \in BOOLEAN /\ mCallbackSent \in BOOLEAN
  /\ mSampleWriterStopped \in BOOLEAN /\ mCancelled \in BOOLEAN
  /\ mTracksAdded \subseteq Tracks
  /\ adding \in Threads
  /\ tracks \in [Tracks -> TrackStates]
  /\ writer \in WriterStates
  /\ reader \in ReaderStates
  /\ notification \in [type : Notifications, sent : BOOLEAN]
  /\ client \in {"configured", "started", "pausing", "cancelling", "paused", "cancelled",
                 "refused"}

Idle(t) == tracks[t].pc = "gone"
WriterIdle == writer.pc \in {"none", "gone"}

(* onThreadFinished sets mThreadsDone only when no thread runs any more, and none *)
(* starts later: in particular a writer that has not been started ("if all         *)
(* transcoders have stopped but the sample writer has not yet started, it never    *)
(* will") stays so, and what pause or cancel returned to is not used any more.     *)
DoneMeansIdle ==
  mThreadsDone => WriterIdle /\ \A t \in Tracks : Idle(t)

(* onFinished is only called when the writer saw the end of every track, and      *)
(* every sample was written, those included that waited for the writer to start.   *)
(* Samples of a track that was told its end too early are missing only if the      *)
(* client has called pause: a cancel or an error that wakes the track ends with    *)
(* another outcome.                                                                *)
FinishedIsComplete ==
  notification.type = "onFinished" =>
    /\ allEos
    /\ \A t \in Tracks :
         /\ writer.written[t] + tracks[t].lost = NumSamples
         /\ tracks[t].lost > 0 => client \in {"pausing", "paused"}

(* An error of any thread is reported by onError, also when other threads were    *)
(* stopped because of it or finished before.                                       *)
ErrorIsReported ==
  mThreadsDone /\ (writer.result = "ERROR" \/ \E t \in Tracks : tracks[t].result = "ERROR")
    => notification.type = "onError"

(* When no callback is made, the one who asked for the stop is waiting or has     *)
(* waited for it in pause or cancel (the comment in onThreadFinished).             *)
SilenceHasAWaiter ==
  notification.type = "nothing" =>
    client \in {"pausing", "cancelling", "paused", "cancelled"}

(* A pause without callback leaves a finalized partial file: what the tracks had  *)
(* output is written if the writer was started at all, and each track finished or  *)
(* stopped behind a sync sample.                                                   *)
PausedIsFinalized ==
  client = "paused" /\ notification.type = "nothing" =>
    /\ writer.pc = "gone" =>
         \A t \in Tracks : writer.written[t] + tracks[t].left + tracks[t].lost = NumSamples
    /\ \A t \in Tracks : tracks[t].result = "STOPPED" => tracks[t].last = "SYNC"

(* Once started the transcoder comes to an end: all threads stop, the callback is  *)
(* made, and pause or cancel return.  Threads that are blocked on a full pool or     *)
(* wait for a writer that never started are freed.  An error while pause waits is    *)
(* the exception: see EndsEventually.                                                *)
Ended ==
  /\ mThreadsDone /\ notification.sent
  /\ client \notin {"pausing", "cancelling"}
PauseFails ==
  /\ client = "pausing"
  /\ mTranscoderStatus = "ERROR" \/ \E t \in Tracks : tracks[t].result = "ERROR"
EndsUnlessPauseFails == <>[](Ended \/ PauseFails)

-----------------------------------------------------------------------------
(* What the repository says of the transcoder and the code does not do.          *)

(* "Stop all threads if one reports an error", and of pause: "if the transcoding   *)
(* finishes or encountered an error during pause, the corresponding callback will   *)
(* be called".  Also an error while pause waits ends the transcoding.               *)
EndsEventually == <>[]Ended

(* "Transcoder finished successfully", also when a pause was called meanwhile: the *)
(* file has every sample of every track.                                           *)
FinishedIsWhole ==
  notification.type = "onFinished" => \A t \in Tracks : writer.written[t] = NumSamples

(* MediaTranscoder.h of pause and cancel: once the method returns it is safe to    *)
(* release the transcoder.                                                          *)
ReleaseIsSafe ==
  client \in {"paused", "cancelled", "refused"} => mThreadsDone
=============================================================================
