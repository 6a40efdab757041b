# A TLA+ verification of the media transcoding service and of two audio paths

This directory holds specifications of three parts of `frameworks/av`, TLC
configurations that check them on small instances, and TLAPS proofs of the
properties that matter most for instances of any size:

* the media transcoding service (`media/module/libmediatranscoding`), from its
  binder clients to the threads that transcode a file. Nearly everything that is
  hard about it is control: sessions are scheduled under a lock by callbacks that
  arrive on other threads, late and in any order; work is passed through event
  queues; and a transcoding is carried out by several threads that stop each other;
* the streaming `AudioTrack`, whose client and server share a ring of frames and a
  few counters, without a lock;
* the fast mixer of AudioFlinger, which learns what to do from a lock-free state
  queue.

## 1. Inventory

### 1.1 The transcoding service

| Part | Code | State and concurrency | Module |
|---|---|---|---|
| Session controller | `TranscodingSessionController.cpp` | session map, one queue per uid, sorted uid list, current session; every entry point under `mLock`, called from binder threads, the transcoder, the watchdog and the policies | `TranscodingSessionController` |
| Watchdog | same file | own thread and lock; reports a timeout with neither lock held | `TranscodingSessionController` |
| Pacer | same file | per-uid burst history | `SessionPacer` |
| Transcoder wrapper | `TranscoderWrapper.cpp` | event queue, its thread, paused states; outlives its replacement after a timeout | `TranscoderWrapper` |
| Controller and wrappers together | both | callbacks that were posted before a pause, a stop or a timeout and arrive after it | `TranscodingService` |
| Media transcoder | `transcoder/MediaTranscoder.cpp` | thread states, stop requests, one final callback | `MediaTranscoder` |
| Track transcoders | `transcoder/{Media,Passthrough,Video}TrackTranscoder.cpp` | a thread per track, bounded buffers, stop on sync | `MediaTranscoder` |
| Sample writer | `transcoder/MediaSampleWriter.cpp` | a thread that merges the tracks and finalizes the file | `MediaTranscoder` |
| Sample reader | `transcoder/MediaSampleReaderNDK.cpp` | one extractor shared by the track threads, cursors per track, waits for one's turn | `MediaSampleReaderNDK`, promise in `MediaSampleReader` |
| Uid policy | `TranscodingUidPolicy.cpp` | two maps and a cached best state; events of the activity manager come late; callbacks made after its lock is released | `TranscodingUidPolicy`, what the controller relies on in `TopUids` |
| Resource policy | `TranscodingResourcePolicy.cpp` | who lost a codec; reports of the observer service on several threads; unlocked callback | `TranscodingResourcePolicy` |
| Thermal policy | `TranscodingThermalPolicy.cpp` | throttling status; a listener that is live before the controller exists | `TranscodingThermalPolicy` |
| Client manager | `TranscodingClientManager.cpp` | three registries of clients, requests on several binder threads, death notices | `TranscodingClientManager` |
| Binder front end | `service.mediatranscoding` | wires the parts together | no |
| Metrics logger | `TranscodingLogger.cpp` | statistics after the fact | no |

### 1.2 The audio paths

| Part | Code | State and concurrency | Module |
|---|---|---|---|
| Shared ring of a streaming track | `AudioTrackShared.{h,cpp}` | counters that wrap, stop and flush marks with generations, a futex; no lock | `AudioTrackShared` (arithmetic), `AudioTrack` |
| Client and server of the track | `AudioTrack.cpp`, `Tracks.cpp`, `Threads.cpp` | a writing and a controlling thread, a binder thread, the mixer thread | `AudioTrack` |
| State queue | `fastpath/StateQueue.{h,cpp}` | four states, two atomics, one mutator, one observer | `StateQueue`, promise in `StateQueuePromise` |
| Fast mixer | `FastThread.cpp`, `FastMixer.cpp`, `Threads.cpp` | fast thread, MixerThread, cold idle on a futex, tracks by raw pointer | `FastMixer` |

The rest of the repository (other audio threads and effects, audio policy, AAudio,
the non-blocking pipes, the stagefright message loop and codecs, Codec2, the buffer
pool, the resource manager, the camera service, DRM, MTP, extractors and effects)
consists of separate subsystems. `PROJECT.json` lists each with the reason it is not
modelled and names the ones that suit a later module.

### 1.3 Where it is hard

The hazards are listed in `PROJECT.json` at their lines. In short:

* a callback of the transcoder is acted on after the session it is about has been
  paused, resumed, cancelled, or replaced (`notifyClient` looks at the session only);
* the watchdog decides on a timeout, releases its lock, and reports it later;
* the uid policy computes the top uids under its own lock and delivers them later;
* four structures of the controller (map, queues, sorted list, the policy's set of
  monitored uids) must agree after every handler, some of which loop;
* a track's thread can be blocked on a buffer that only the writer returns, while
  the writer waits for tracks that have not told their format;
* pause lets the writer go on and stops tracks behind a sync sample, cancel stops
  everything, an error is a cancel from inside, and each may overtake the others;
* readers of different tracks wait for each other in sequential access mode;
* two calls of one client, or a call and the death of the client, run on two binder
  threads that share one flag;
* status reports (importance of a uid, idle codecs, temperature) arrive between the
  calls that read the first status, record a loss, or set the callback;
* the audio server reads two counters that the client changes between the two loads,
  and both rebase positions that wrap at different widths;
* the fast thread reads states and tracks that the MixerThread recycles.

## 2. Modules

```
SessionPacer <- TranscodingSessionController <- TranscodingService <- MCService
                     ^            ^                   | INSTANCE
                     |            |                   v
                MCController  ControllerProofs   TranscoderWrapper

ServiceProofs EXTENDS TranscodingService and ControllerProofs

TopUids <- INSTANCE - TranscodingUidPolicy  <- MCInputs, InputsProofs
                      TranscodingThermalPolicy  <- MCInputs, InputsProofs
                      TranscodingClientManager  <- MCInputs, InputsProofs
                      TranscodingResourcePolicy <- MCInputs

MediaSampleReader  <- INSTANCE -  MediaSampleReaderNDK <- MCReader, ReaderProofs

MediaTranscoder <- MCTranscoder, TranscoderProofs

AudioTrackShared <- AudioTrack <- MCAudioTrack, AudioTrackProofs

StateQueuePromise <- INSTANCE - StateQueue <- FastMixer <- MCFastMixer
                                     ^            ^
                               StateQueueProofs <- FastMixerProofs
```

Names are those of the source wherever TLA+ allows. Operators whose comment begins
with "Mutated" or "Variant", or that are described as what a faulty version would do, are not
part of a specification: each one is a plausible defect of the definition that
follows it, used to confirm that the properties notice it.

### 2.1 TranscodingSessionController (with SessionPacer)

The variables are the members of the class: `mSessionMap` maps a live key to its
state and client uids, `mSessionQueues` and `mUidSortedList` are the queues and the
list, `mCurrentSession`, `mResourceLost` and `mThermalThrottling` are themselves,
`mUidHistoryMap` belongs to the pacer. `watchdog` is the Watchdog object with the
place its thread is at. `monitored`, `topUids` and `notice` are the uid policy as
the controller sees it: the set it monitors, its top uids, and a callback it has
computed and not delivered. `calls` are the calls on `mTranscoder` made by the last
step; it is what `TranscodingService` connects to the wrapper.

Each entry point is an action: `submit`, `addClientUid`, `cancel`, `cancelAll` (a
negative session id), `onFinish`, `onError`, `onWatchdogTimeout` (an `onError` with
`kWatchdogTimeout`), `onResourceLost`, `onTopUidsChanged`, `onUidGone`,
`onResourceAvailable`, `onThrottling`. A handler that loops, over the sessions it
removes or over those the pacer drops while `updateCurrentSession_l` looks for one
to run, is one action for its entry and one for each iteration. `job` says what the
holder of `mLock` has still to do and no other handler is enabled meanwhile, so a
handler is atomic to all the others as it is in the code; the watchdog's own steps,
which do not take `mLock`, do interleave.

The order of a `std::list<uid_t>` is kept as a relation rather than as a sequence.
`moveUidsToTop_l`, which reverses the uids it moves, is then one set expression,
and the proofs need no induction.

Left out: `mSessionHistory` and `dumpAllSessions` (text for `dumpsys`), client
notifications that change no state, the lazy creation of the transcoder and of the
watchdog, and time: `keepAlive` moves a deadline, and in the model the timed wait
may end at any moment.

### 2.2 TranscoderWrapper and TranscodingService

`wrappers` is the sequence of wrapper objects; the last is the controller's. Each
has its `mQueue`, the session of its MediaTranscoder, the keys of
`mPausedStateMap`, the callbacks its MediaTranscoders have not delivered yet
(`posts`), and the call it is about to make on the controller (`pending`), which is
where it waits for `mLock`. One action per runnable of `threadLoop`
(`Handled` gives all its outcomes, failures of each set-up step included), one for a
MediaTranscoder that ends, one for a late callback that reaches the queue.

`TranscodingService` conjoins a step of the controller with the queueing of the
calls that it makes, and lets the controller's transcoder callbacks happen only when
a wrapper makes them. A handler that ignores a callback is a step too: the wrapper
goes on. After `"abandon"` a new wrapper is appended and the old one lives until its
thread reads the event.

### 2.3 MediaSampleReader and MediaSampleReaderNDK

`MediaSampleReader` is the interface as its header documents it: every track is
read in order, independently of the others. `MediaSampleReaderNDK` has the
extractor's position, the cursors of each track, the access mode and the condition
variables. `Promise` instantiates the first in the second, and `Implements` states
the refinement; the only history it needs is whether sequential access was given up
again (`returned`). A sample is identified by its index in the file, so timestamps
are distinct and a seek to a sample's time lands on it; extractor errors, track
selection and bitrate estimation are left out. `taken` is the last sample a track was
read or skipped to. The loops that advance the extractor are iterations of one step
(`Iterated`) until it is where it should be or at the end of the file, which takes at
most as many steps as the file has samples.

### 2.4 MediaTranscoder

One record per track transcoder (its own state, its stop request, the place of its
thread, samples left, output queue, result), one for the sample writer, the members
of MediaTranscoder, the notification thread, and the place of the client's thread. A
step of a thread is a critical section or the work between two. `requestStop` holds
`mThreadStateMutex` throughout and is atomic. The tracks' formats arrive by
`formatAvailable`; the last of them starts the writer in a later step
(`startWriter`), which is where a cancel may come in between.

Buffers are counted: a track outputs a sample only into one of `MaxBuffers` buffers
and the writer gives it back when the sample is written. Samples have no contents
except whether they are sync samples, which decides where a pause stops a track.
Samples and ends of stream of different tracks are ordered by timestamps in the
writer's queue; the model takes any order in which an end of stream comes behind the
samples it is ordered behind. The encoder's output format precedes its first output,
as AMediaCodec documents. A second `start`, or a pause before `start`, is not in the
model: the wrapper never makes such a call.

The reader's turn-taking is the subject of the reader modules; `reader` keeps what a
transcoder sees of it. The writer's start enforces sequential access and
`requestStop` gives it up again, which wakes the threads that waited for their turn
(`woken`). If another thread reads on to the end of the file first (`readToEnd`), a
woken thread is told that the stream has ended (`earlyEnd`): it ends its track, or
fails if it was about to read the data of a sample. `lost` counts the samples of a
track that are then never read.

### 2.5 The inputs of the controller

Four components feed the controller and share no state with each other, so
`MCInputs` holds all four and lets one of them move in each behaviour.

`TranscodingClientManager`: `clients` maps an id to its `ClientImpl`;
`sCookie2Client`, `mClientIdToClientMap` and `mRegisteredCallbacks` are the three
registries; `thread` is what each binder thread is executing. `addClient` holds
`mLock` and takes three steps, because a death notice needs only the lock of
`sCookie2Client`. `submitRequest` is its check of `mAbandoned`, then the fetch of a
session id, then the call on the controller. `unregister` and `binderDied` both go
through the exchange of `mAbandoned`, then cancel, then `removeClient`. Of the
controller only the set of sessions is kept.

`TranscodingUidPolicy`: both maps, `mTopUidState`, the events that the activity manager
has queued, and what `onUidStateChanged` has still to call back after it released
`mUidLock`. The two calls with which `registerMonitorUid` reads the importance may see
two different ones, and `isUidActive` is false also of a uid that is idle without being
gone: it is stored as UNKNOWN until its importance changes. `TopUids` is what the
controller's model assumes of the policy (its `TopAfterRegister`, `TopAfterUnregister`,
`TopAfterChange` and `ComparedTop` allow the same sets). One detail matters there: the
new top set is compared with `mStateUidMap[mTopUidState]`, which is the set of all
monitored uids while no importance is known. So the controller is not told when the only
monitored uid becomes known, which does no harm since that uid has nobody to overtake.

`TranscodingResourcePolicy`: `mResourceLostPid`, the two steps of the controller's
`onResourceLost` that matter (telling the policy, setting `mResourceLost`), and
reports of idle codecs on several threads. `submittedPid` is the pid with which
`submitRequest` hands a session to the controller.

`TranscodingThermalPolicy`: the steps of the service's construction in order
(listen, read the status, construct the controller, set the callback), the queued
status changes, and the unlocked callback. `unheard` is set when a change is dropped
because the callback is not set yet; it is there for the property only.

### 2.6 AudioTrackShared and AudioTrack

`AudioTrackShared` has the arithmetic of the control block: differences of wrapping
counters (`safe_sub`), marks with a generation (`NextMark`), where a flush moves the
front to (`FlushFront`) and what the server takes for the rear (`GetRear`). `Width`
is the number of values of a counter, 2^32 in the code.

`AudioTrack` has the control block and four threads. Every load or store that
another thread can get in between is a step: the two loads of `getRear`, the two
marks of `flush()`, the look at the flags, at the counters and at the futex in
`obtainBuffer`. `signalClientFlag` overwrites the futex word, as in the code. The
calls of the controlling thread hold AudioTrack's `mLock` until the binder call
returns, and the binder thread and `prepareTracks_l` hold the thread's mutex. Frames
have no contents but their position, so a torn frame is one whose slot is being
written. The mixer's record keeps the marks that a read has loaded. `Overtaken`
compares them with the marks at the last load, and the history variable `overtaken`
says that some read was overtaken by a call in this way (section 3.3); no action depends
on it.

### 2.7 StateQueue and FastMixer

`StateQueuePromise` is what the header promises: states are taken up in order, none
is skipped, and the observer's current and previous state do not change. `StateQueue`
is `begin`/`end`/`push` and `poll` with the ring of `kN` states, `mNext`, `mAck` and
`mExpecting`; `push` is split where the observer can come in between, and has the
three ways to block. `KeepsItsPromise` is the refinement.

`FastMixer` uses the queue for the states of the fast mixer. The MixerThread goes
through construction, standby, `prepareTracks_l`, `threadLoop_write` and its
destructor; the fast thread polls, sleeps on the futex in cold idle, computes the
difference between two states (`OnStateChange`) and mixes. Binder threads create,
start and destroy tracks and thereby reuse fast indices. A standby may come while tracks
are active (the output can be suspended), and so may the exit. The history
variable `lost` says that the 0 that `threadLoop_standby` stores in the futex undid an
increment (section 3.3); no action depends on it.

## 3. Runs

Passing runs, with the number of distinct states TLC visits:

| Run | Question | States |
|---|---|---|
| `controller_scheduling` | With every kind of outside event in every order (submissions, added uids, cancellations, top-uid changes, dying uids, timeouts, lost codecs, throttling): do map, queues, sorted list and monitored uids agree, is the front uid served, does at most one session run, is it watched, and does nothing run while paused globally? | 1 555 000 |
| `controller_lock` | Do the loops under `mLock` end, also when the pacer drops one session after another, and is a uid active in the pacer only while a started session of it lives? Uids die meanwhile. (liveness and safety) | 368 000 |
| `service_calls` | With late callbacks and throttling at any time, also during a pause or a resume: is what the controller calls RUNNING transcoded or about to be reported, can what it calls PAUSED be resumed, and does every RUNNING session leave that state? (safety and liveness) | 403 000 |
| `service_stuck` | Does it leave that state also when wrappers and transcoders hang, with throttling, lost codecs and one timeout after another? (liveness) | 746 000 |
| `reader_switches` | With the access mode set three times at any points: does the reader of three tracks implement independent in-order reads, and is there a thread that does not wait, unless one was told the end too early? (refinement and safety) | 391 000 |
| `transcoder_threads` | With all faults, pause and cancel: no thread outlives `mThreadsDone`, a finished file is complete but for what a pause cut off, no error is lost, a client that gets no callback is one that waits, a paused file holds what was output, and unless a pause meets an error everything ends. (safety and liveness) | 804 000 |
| `transcoding_inputs` | Do the registries of the client manager agree, does exactly one thread take a client down, is a client that dies forgotten? Does the uid policy have the true importances once events are delivered, or none yet, and does it implement `TopUids`? Does an idle codec of another process end the wait for a lost one? Does the controller throttle when the device is hot? (safety, refinement, liveness) | 144 000 |
| `audio_track` | Across a wrap of the counters, until a call overtakes a read: no torn frame, no corrupt control block, nothing is read twice, past a stop mark or before a flush is applied. In any case a sleeping writer is woken. (safety, liveness) | 1 951 000 |
| `fast_mixer` | Around a standby: does the fast thread use active tracks only, does its difference fit the AudioMixer, is it quiet in standby, does the queue keep its promise, do `push` and the join of the destructor return unless the wake of a cold idle was undone? (safety, refinement, liveness) | 1 166 000 |

Types are checked in `controller_scheduling`. The `TypeOK` of the wrapper, the reader,
the transcoder, the audio track and the fast mixer document their variables; they hold
on the instances above, and the transcoder's and the reader's, like the controller's,
are proved. The other proofs carry the types they need in their own invariants.

### 3.1 Bounds, and why they are enough

* `Keys`: two sessions, three for `controller_lock`. Two are needed for one to
  pre-empt another; three let a client's removal leave another client's session and
  make the loops iterate.
* `Uids`: two besides the offline uid where uids compete, one elsewhere.
* `BurstCountQuota` and `BurstTimeQuota` are 1, so that a second session is over
  quota; `MtpUids` exempts all uids or none. The runs of the service exempt all: the
  pacer's drops are the subject of `controller_lock`. The running time of a session then
  decides nothing, and `service_stuck` leaves it out (`BurstTimeQuota` 0).
* `Events` chooses the kinds of outside events of a run. `controller_scheduling` has
  them all; the runs of the service leave out the uid policy's, which do not concern
  the wrapper. Timeouts and lost codecs are in `service_stuck` only, for the reasons in
  section 4.2. `ServiceLost.cfg`, to be run by hand, adds lost codecs to `service_calls`
  without `PausedCanResume` and finds no error either (3 310 000 states, 7 minutes).
* `MaxQueue`: no event from outside reaches the controller while that many events
  wait in the wrapper's queue. The wrapper's and the controller's own steps are not
  bounded by it. Two in `service_calls` are enough for a pause and a resume to wait
  together; one in `service_stuck`, where wrappers need not read their queue at all.
* `MaxWrappers`: three where timeouts happen, two abandoned and one current, so that
  the timeout of a session in the replacement of a wrapper is followed to its end.
* `MaxPosts`: one late callback of a MediaTranscoder at a time.
* `MaxSamples` 4 and `MaxSwitches` 3 (reader): every file of up to four samples of
  three tracks, which includes runs of samples of one track, alternations, tracks that
  end early and tracks without samples; and a switch to sequential access, back, and
  again. With three tracks a thread can be told the end too early in a way that leaves
  others asleep (section 3.3).
* `NumSamples` 3, `MaxBuffers` 1 (transcoder): one buffer is the smallest pool and
  blocks soonest. Three samples let a pause come before, at and behind a sync sample.
  One passthrough and one video track take both kinds of loop.
* Inputs: two callback binders, two binder threads, two registrations and two
  requests in all: enough for two calls on one client, for two clients, and for a
  binder that leaves and comes back. Two uids with three importances and two events
  on their way; `TopUids` is proved for any number. Two processes and two reporting
  threads; statuses on both sides of `ATHERMAL_STATUS_SEVERE`, three on their way.
* `FrameCount` 2, `Width` 16, `StartAt` 13, `MaxFrames` 3 (audio track): the smallest
  ring that can be partly full, with counters that wrap in the middle of the run and
  marks that wrap at their own, smaller width. `MaxMarks` 1: one stop or flush, at any
  point; `BufferSizes` {1} lets the client shrink the buffer under the writer. Retries
  are 1, so that every limit is reached. With `MaxFrames` 4 and `MaxMarks` 2 the safety
  properties hold as well, in 18 755 202 states; they are proved for any number.
* `kN` 4 (state queue), as in the code; two tracks, two fast indices, two starts at
  most, and a second standby after the one in the constructor: an index changes hands
  while the fast thread sleeps.

Where a run says `CHECK_DEADLOCK FALSE` the system really stops: a file is read to
its end, a transcoder is used once, a mixer thread is destroyed, and a resource
policy whose observer service died hears nothing more. Elsewhere deadlock is checked.

Symmetry is declared in two runs without liveness. In `controller_scheduling` the uids
of applications are alike: nothing in the controller orders them but the sorted list. In
`reader_switches` the tracks are: the only choice among them is the one farthest behind,
of which there is at most one, since positions of different tracks are different
samples. Session keys are not symmetric, for the controller's loops follow their order,
and neither are the tracks of a transcoder, which are of different kinds.

### 3.2 Fairness

* `FairSpec` of the controller: the holder of `mLock` goes on (it makes no blocking
  call). Nothing else is assumed.
* `FairServiceSpec`: in addition a wrapper's thread is scheduled; a MediaTranscoder
  that runs ends in some way, which is an assumption on codecs and the one the
  watchdog is there to do without; a thread that waits for `mLock` gets it, though
  other threads take the lock in between. This is written as the conditions that hold
  again and again: `mLock` is free (`LockIsReleased` shows that it becomes so), and no
  wrapper waits with a call. A wrapper that waits can make its call whenever the lock is
  free, so this is the strong fairness of the call.
* `StuckServiceSpec` drops everything about wrappers and MediaTranscoders. `mLock` is
  free again and again, and the watchdog's thread is scheduled, its timed wait ends, and
  it gets `mLock`, in the same form.
* `FairSpec` of MediaTranscoder: threads are scheduled, and the codecs and the muxer
  answer. Nothing has to fail, the client has to call nothing but `start`, and a
  codec message that brings no sample (`codecMessage`) need not come.
* `InputsSpec`: a call that has begun goes on (weak fairness); a waiting death notice
  is taken up by some binder thread, though other calls may come first (strong
  fairness); `onResourceLost` of the controller and a report of the observer service
  go on. No client, process or system service has to do anything.
* `Spec` of AudioTrack: the mixer thread is scheduled; it is disabled only when idle
  with an inactive track (`Sleeps`), so `Fairness` is its weak fairness written out.
  Neither the writer nor the client's controlling thread is scheduled.
* `Spec` of FastMixer: the fast thread and a `push` under way go on, and the join
  returns when the fast thread has exited. Clients and the MixerThread's decisions are
  not fair.

### 3.3 Where the code and its documentation differ

Three runs check a statement of a header and find a behaviour of the code that does
not satisfy it; `PROJECT.json` quotes the statements.

| Run | Statement | What happens |
|---|---|---|
| `transcoder_pause_error` | an error stops all threads and is called back, also during a pause | during a pause the stop is refused, and the writer waits for ever |
| `resource_lost_pid` | the loss of a codec is temporary; when the contention is solved a session is started or resumed | `submitRequest` looks up the calling pid for `USE_CALLING_PID` (-1) and submits the request without it, so the resource policy is told that -1 lost a codec, which to it means nobody: the controller waits for ever |
| `audio_track_overtaken` | the server "will not read beyond this position until start is called" (`StopIsFinal`) | `getRear` loads `mStop`, then `mRear`; a stop between the two loads does not bound the read, and frames behind its mark are played |

Seven more configurations show such behaviours and are kept to be run by hand
(`tlc -config X.cfg M`); each is expected to be violated:

| Configuration, module | Property and statement | What happens |
|---|---|---|
| `ControllerBurstHistory.cfg`, `MCController` | `IdleClearsBurstHistory`: "Idle to clear out burst history" (`mediatranscodingservice_simulated_tests.cpp:74`) | a uid over both quotas is refused before the time since its last session is looked at |
| `ServiceAbandon.cfg`, `MCService` | `RunningIsTranscoded`: the controller corrects a running state that is not right (`TranscodingSessionController.cpp:514`) | the late timeout of a paused session replaces the wrapper of another one, which stays RUNNING with nobody working on it until its own timeout |
| `ReaderEnd.cfg`, `MCReader` | `EndIsTheEnd`: end of stream means that the track has no sample left (`MediaSampleReader.h:103`) | a thread woken by the switch back to random access is told the extractor's end instead of its own |
| `TranscoderRelease.cfg`, `MCTranscoder` | `ReleaseIsSafe`: after cancel returns the object may be released (`MediaTranscoder.h:115`) | a cancel that finds a stop under way returns at once |
| `TranscoderTruncated.cfg`, `MCTranscoder` | `FinishedIsWhole`: "Transcoder finished successfully" (`MediaTranscoder.h:44`) | a pause gives sequential access up; a track that is thereby told the end too early ends its stream, and if the others reach theirs `onFinished` is called for a file that lacks the rest of it |
| `FastMixerStandby.cfg`, `MCFastMixer` | `AlwaysReturns`: "For BLOCK_UNTIL_PUSHED and BLOCK_UNTIL_ACKED, always returns true" (`StateQueue.h:159`) | the fast thread acknowledges a cold idle before it decrements the futex; if a write and the next standby come first, the 0 that standby stores undoes the increment of the write, the fast thread falls asleep and `push` waits for it for ever |
| `ClientUnregister.cfg`, `MCInputs` | `NoneAfterUnregister`: "Client will not be able to perform any more transcoding after unregister" (`ITranscodingClient.aidl:86`) | a `submitRequest` that is past its check of `mAbandoned` still submits after `unregister` has returned |

The runs that pass and those that fail belong together. `RunningIsTranscoded` holds
without timeouts (`service_calls`). `EndsUnlessPauseFails` names the one case in
which `EndsEventually` fails, `LossEndsIfPidGiven` the one in which `LossEnds` does,
`FinishedIsComplete` the one in which `FinishedIsWhole` does, and `WaitsEnd` the one in
which `AlwaysReturns` does. After that case the join of the destructor may not return
either: the decrement for the next cold idle takes the futex to -2 if the first sleep
ended spuriously, and one increment wakes nobody then.

What a read does when it is overtaken is more than one frame too many. A read loads
`mFlush`, `mStop` and `mRear` one after the other, and the client, in another process,
may complete a stop, a flush or a start in between; nothing bounds how many. Then

* a stop is missed, and frames behind its mark are played;
* a flush and the start after it are missed, and frames that were flushed are played;
* `mFront` passes the mark of a stop. A mark is only looked at modulo the ring, so at
  the next look it lies up to one round ahead, and it bounds nothing: the mixer may be
  handed frames that were not written or are being written, and `mFront` passes
  `mRear`;
* the next side that looks at the difference finds the control block corrupt, for good,
  and the flush of such a mark may move `mFront` back.

The damage outlasts the read, so `overtaken` stays TRUE once it is. The properties of
`audio_track` except `SleeperIsWoken` say nothing from then on, and so do the theorems of
section 4.6. Up to then they allow every call between every two loads; what counts as
overtaking is only that the read ends in frames being handed out while the marks it
went by are not those that bound it any more. The window is a few instructions wide, and the
calls that fall into it are made by another process at its own pace.

The reader's promise lets an end of stream come early only after sequential access was
given up. `SomeoneReads` excepts the same case: a thread that was told the end too early
no longer moves the extractor, and when sequential access is enforced again the other
threads may sleep for good while the extractor is at its sample. Three tracks, a file
with a sample of each of the first two, and the mode set, reset and set again are enough.

Some further behaviours are visible in the models and are noted with their hazards in
`PROJECT.json`, without a run: the timeout of a session that was paused meanwhile;
a set of top uids that is applied late; the reversal of top uids when a queue is
removed; the paused state that outlives its session; a loss of codecs that is
reported after the session was resumed; a uid that is idle when it is registered and
whose importance stays unknown until it changes; a client that is dead before
`linkToDeath` and stays registered; a change of the thermal status between the
construction of the controller and `setCallback`.

## 4. Theorems

Eight modules prove theorems, for every set of keys, uids, importances, statuses,
clients, binder threads, states and tracks, every quota, number of samples, pool and
ring size, and every choice of events and faults: `ControllerProofs`, `ServiceProofs`,
`InputsProofs`, `ReaderProofs`, `TranscoderProofs`, `AudioTrackProofs`,
`StateQueueProofs` and `FastMixerProofs`. The assumptions on the constants are
`KeysAssumption` and those of `SessionPacer`, `TranscoderAssumption`,
`ImportanceAssumption`, `StatusAssumption`, `TracksAssumption`,
`BoundsAssumption`, `RingAssumption`, `TrackAssumption`, `QueueAssumption` and
`InitialAssumption`; TLC evaluates them in the runs. Where a theorem needs more, it says
so in its own statement (4.2 and 4.6).

Every safety property, action property and refinement of the passing runs is proved.
Each inductive invariant below was checked with TLC on instances at least as large as
those of the runs before it was proved.

### 4.1 The session controller

| Theorem | Property |
|---|---|
| `TypeCorrectness` | `TypeOK` |
| `QueuesAreConsistent` | `QueuesMatchMap`: a session is in the queue of a uid exactly when the uid is one of its clients, once |
| `ListIsConsistent` | `ListMatchesQueues`: the sorted list holds exactly the uids with a queue, with the offline uid last |
| `MonitoringIsBalanced` | `MonitoredUidsHaveQueues`: registrations with the uid policy match the queues |
| `OneSessionRuns` | `OnlyCurrentRuns`: what is RUNNING is `mCurrentSession`, which never dangles |
| `RunningSessionIsWatched` | `RunningIsWatched`: a RUNNING session is watched, or its timeout is being reported |
| `PacerLeaksNothing` | `NoLeakedActivity`: a uid that the pacer marks active has a started session that was noted for it |
| `FrontUidAlwaysServed` | `FrontUidIsServed`: with `mLock` free, a session of the front uid runs, or nothing does if paused globally |

The inductive invariant `IInv` adds to the properties what a handler relies on
halfway: the sessions it has still to drop are live and disjoint from those it only
takes uids from, which keep a client (`JobInv`); an active watchdog watches a
RUNNING session (`ActiveWatchesRunning`, without which `start` on an already active
watchdog would leave the new session unwatched); the top uids are monitored and no
real-time queue is empty (`QueueInv`). The proof first shows what each operation on
the list (`moveUidsToTop_l`, `InsertBeforeOffline`, removal) and on the queues
(`addUidToSession_l`, `removeSession_l`) does to order and membership. Then there is
one lemma per handler.

The last two theorems are inductive over `IInv`. `NoLeakedActivity` rests on
`ActivityKept`: a step may take a session or a uid away only if it also clears the
uid's activity, which is shown for each of the four ways a session ends.
`FrontUidIsServed` says nothing while `mLock` is held; every handler either ends in
`updateCurrentSession_l`, whose last iteration establishes it whatever held before, or
returns early from a state that it leaves as it is.

### 4.2 The controller inside the service

`ServiceProofs` shows `ServiceSpec => Spec` (`ServiceImplementsController`): whatever
the wrappers do, the controller takes only steps of its own specification. The only
step that needs an argument is a wrapper's callback, which is one of the controller's
transcoder events because `notifyClient` acts on live sessions alone and live
sessions are keys, by the controller's invariant. Every theorem of 4.1 thus holds of
the service; `OneSessionRunsInService` and `RunningSessionIsWatchedInService` state
the two that matter most there. The bounds `MaxQueue`, `MaxWrappers` and `MaxPosts`
may have any value.

| Theorem | Property and hypothesis |
|---|---|
| `FrontUidServedInService` | `FrontUidIsServed` |
| `RunningSessionIsTranscoded` | `RunningIsTranscoded`, as long as no timeout is reported for a session that is no longer RUNNING (`StaleAbandon`) |
| `RunningSessionIsTranscodedUnlessStuck` | `RunningIsTranscoded`, if the watchdog does not fire |
| `PausedSessionCanResume` | `PausedCanResume`, if the watchdog does not fire and no codec is lost |

What relates controller and wrapper is `CallInv`: the wrapper owes each RUNNING session
what the controller has asked for. Such a session is the wrapper's current one and no
further order is queued, or the last order in the queue is its Start or Resume, or a
report of it is under way (`WillRun`); and the current wrapper has no Stop of a live
session queued, and no Abandon at all. `PauseInv` says the same of PAUSED sessions
(`WillPause`). The proof shows what each runnable of `threadLoop` does to these two
predicates for the session it is about and for the others, then takes the controller's
handlers by the calls they make.

The hypotheses are not there for the proof. A late timeout abandons a wrapper that
works on another session (`ServiceAbandon.cfg`, section 3.3), and a new wrapper has no
paused states. A codec lost by a session just before its queued Resume leaves that
session PAUSED without a paused state.

### 4.3 The media transcoder

| Theorem | Property |
|---|---|
| `TranscoderTypes` | `TypeOK` |
| `DoneThreadsAreIdle` | `DoneMeansIdle`: when `mThreadsDone` is set no thread will touch the transcoder again |
| `FinishedFilesAreComplete` | `FinishedIsComplete`: `onFinished` means that the writer saw every track's end and wrote every sample, but for those a pause cut off by an early end of stream |
| `ErrorsAreReported` | `ErrorIsReported`: the error of any thread reaches the client by `onError` |
| `SilenceIsAwaited` | `SilenceHasAWaiter`: when no callback is made a client waits in pause or cancel |
| `PausedFilesAreFinalized` | `PausedIsFinalized`: after a pause without errors, what the tracks had output is in a finalized file |

The invariant `IInv` of `TranscoderProofs` has ten parts besides the types. The two that
carry the argument are `CountInv`, by which the samples left in the source, lost by an
early end, queued in the track, queued in the writer and written always add up, and
`NoWriterInv`, by which a transcoding whose writer was never started cannot have ended
with every track at its end: some track was refused by the muxer, or was stopped before
it told its format. The others say who holds `mTracksAddedMutex` (`AddInv`), how
`mThreadStates` follows the threads (`StateInv`), that a stop was asked for by a client
that waits or by an error that is recorded or about to be (`StopInv`), that a pause
leaves the writer alone (`PauseInv`), that results are recorded before they are called
back (`RecordInv`), that an end of stream comes behind its samples (`EosInv`), and that
a track that was woken by a stop, or told its end too early, belongs to a started
writer, which unless the stop was a pause is stopped and never sees the end of that
track (`ReaderInv`). There is a lemma for each step of a track's thread, of the
writer's, of the client and of the notification thread.

### 4.4 The uid and the thermal policy

| Theorem | Property |
|---|---|
| `UidMapsAgree` | `MapsAgree`: the two maps hold the same uids and `mTopUidState` is the lowest known state in use, so the `at()` of `getTopUids` finds its entry |
| `UidPolicyImplementsTop` | `ImplementsTopUids`: every step of the policy is a step of `TopUids` or changes nothing the controller sees |
| `UidStatesSettle` | `SettledIsTrue`: a monitored uid of which no event is on its way has the activity manager's importance, or UNKNOWN if it was idle or gone when it was registered |
| `ThermalSettles` | `ThrottlingSettles`: with every change delivered, the controller throttles exactly if the device is hot |

The invariant `UidInv` says that each uid is in the entry of its state and in no
other, and that the cached state is up to date; empty entries, which `operator[]`
leaves behind, are allowed. The argument then forgets `mStateUidMap`: `Best(f)` is the
set of uids with the lowest known state straight from `mUidStateMap`, `TopIsBest`
shows that `getTopUids` returns it, and `BestWith` and `BestWithout` say how it
changes when a uid arrives, moves or leaves, which are the alternatives of `TopUids`.
That a lowest state exists is the one place where a theorem on well-founded orders is
needed. `events` may be of any length.

`SettledIsTrue` looks at the last event of a uid, wherever it is in the queue: the
invariant (`LastIsTrue`) is that the last one on its way carries the importance the
activity manager has now. `ThermalInv` follows the start-up of the service step by
step: what the policy and the controller know of the status at each of them, and which
change is still to come.

### 4.5 The client manager

| Theorem | Property |
|---|---|
| `ClientRegistriesAgree` | `RegistriesAgree`: with `mLock` free the three registries hold the same clients, no binder twice |
| `ClientTeardownIsExclusive` | `TeardownIsExclusive`: one thread takes a client down, and finds it registered |

While a thread is in `addClient`, its client is in `sCookie2Client` and not yet in the
other registries; that thread is the only one there since it holds `mLock`. The
teardown is exclusive because `mAbandoned` goes with it: a client that is not abandoned
can still be found, a thread that takes a client down has set the flag, and no two
threads take down the same client (`ClientsInv`).

### 4.6 The audio track

| Theorem | Property |
|---|---|
| `TrackNeverCorrupt` | `NeverCorrupt`: 0 <= rear - front <= `mFrameCount`, and nobody shuts the control block down |
| `TrackFramesNotTorn` | `NoTornFrames`: what the mixer reads was published, in slots the writer does not hold |
| `TrackStopHolds` | `StopHolds`: nothing is handed out behind the mark of a stop or a flush |
| `TrackStaleNotPlayed` | `StaleNotPlayed`: `mFront` never moves back, and a flush is applied before a restarted track is read |

They hold until a call overtakes a read (section 3.3), for every ring size, start
position, buffer size and number of retries and frames, under two hypotheses that their
statements name:

* `WideCounters`, 4 * `FrameCountP2` < `Width`: the difference of two counters leaves
  room for its sign. The comment at `AudioTrackShared.cpp:458` allows `mFrameCountP2` up to
  2^30; at exactly that size 4 * `FrameCountP2` is 2^32 and a difference of half the
  width is read as negative. Such a ring would take more than a gigabyte;
* `MarksFit`: the number of stop and flush calls is less than the number of values that
  the upper part of a mark can take, 2^32 / (2 * `FrameCountP2`). If it goes all the way
  round without a start in between, a new mark equals `mStopLast` and is not seen.

The first third of the module is arithmetic: what `Add`, `safe_sub`, `NextMark`,
`FlushFront` and `GetRear` compute when the counters wrap at `Width` and the positions in
marks at `overflowBit`. `Ahead(front, mark)` is how far the server is from a mark.
`FrontMoves` and `RearMoves` say how that and the number of filled frames change when the
server or the client advances, `SlotsApart` that frames at most `FrameCount` apart are in
different slots. The inductive invariant is `~overtaken => TrackInv`, and `TrackInv`
speaks of distances only: a mark that is set is ahead of the front and not beyond the
rear, a flush mark not beyond the stop mark, what the writer holds fits behind the rear,
what the mixer holds ends before rear and marks (`RingOK`); the mixer only reads an active
track, and a flush that a read has seen is applied (`ReadOK`); a track that is stopped or
flushed has its stop mark set and a started one has not (`CallOK`); marks have not wrapped
(`MarkOK`). The calls preserve it wherever they fall. What has to be shown of the mixer
is that marks that were loaded and are still the ones that count bound the read
(`ObtainsRight`), and of a flush that it leaves the front on its mark (`FlushLands`).

### 4.7 The state queue

| Theorem | Property |
|---|---|
| `QueueInvariant` | `QueueInv`: the inductive invariant |
| `QueueKeepsItsPromise` | `KeepsItsPromise`: the ring implements `StateQueuePromise` |

The observer's previous slot, its current one, the next one and the mutator's follow
each other around the ring, some of them possibly equal (`Follows`), and as long as
`mExpecting` is set it is `mNext`, so that the mutator takes one more slot only after
the observer has moved up (`Awaits`). With four slots or more the mutator's slot is
then never one the observer reads (`WriteIsUnseen`); `QueueAssumption` asks for that,
as the header does.

### 4.8 The fast mixer

| Theorem | Property |
|---|---|
| `FastMixerIsQuiet` | `QuietInStandby`: no I/O between the end of `threadLoop_standby` and `threadLoop_write` |
| `FastMixerDiffFits` | `DiffFits`: `onStateChange` destroys names that exist, creates names that do not, and ends with the current providers |
| `FastMixerUsesActive` | `UsedIsActive`: the fast thread uses active tracks only |

From the queue's invariant the proof takes four states: the one whose providers the
AudioMixer has, the current one, the pushed one and the latest. They are in this order
(`LineInv`): the generations only grow, and an equal generation means the same provider
(`Before`), which is transitive and therefore covers states that the fast thread skipped
in a cold idle. `MixInv` ties the AudioMixer to the first of the four. `ProviderInv` says
that the latest state has active tracks only, and the states before it no others than
these and the ones `prepareTracks_l` waits to see removed. `StandbyInv` and `ThreadInv`
say the same of the command.

### 4.9 The sample reader

| Theorem | Property |
|---|---|
| `ReaderInvariant` | `ReaderInv`: the inductive invariant |
| `ReaderImplements` | `Implements`: the cursors implement `MediaSampleReader`, so no sample is repeated, left out or taken for one of another track |
| `ReaderSomeoneReads` | `SomeoneReads`: not all the threads that have something to read are asleep, unless one was told the end of the stream too early |
| `ReaderEndIsTheEnd` | `EndIsTheEnd` until sequential access is given up |
| `ReaderTypeOK` | `TypeOK` |

They hold for any set of tracks, any file and any number of switches. `ReaderInv` says
that the cursors are a right picture of the file: the previous position is the last
sample taken, the current and the next one are the two samples of the track after it,
and one that is not set lies ahead of the extractor (`CursorOK`); the extractor's track
and sample index are those of the sample it is at, or it is past the end
(`PositionOK`). In sequential access no track's current sample was passed, and the
extractor is at the current sample of its track (`InSequence`). That needs one more fact
about the switch to sequential access, which goes by the track that is farthest behind
and ignores tracks of which nothing is known: these have no sample before any known
position (`UnseenOK`). An answer that was given out is the current sample of its track,
and a thread sleeps only while another track has the extractor.

A loop over `advanceExtractor_l` is a function from the number of iterations to a state
of the reader. `LoopInvariant` shows that what one iteration keeps holds of all of them,
from the existence of a least counterexample (`WFMin`), so that no induction over an
operator is needed. `AdvanceToEnds` says where such a loop ends: at the position it looks
for, or at the end of the file if the track has none. From there the proof goes up
through `moveToSample_l`, `advanceTrack_l` and the switch of the mode to one lemma per
action, which shows that the invariant is kept and the step is one of `MediaSampleReader`.

### 4.10 What is only model-checked

Liveness: `LockIsReleased`, `RunningEnds`, `StuckIsFoundOut`, `EndsUnlessPauseFails`,
`DeadIsForgotten`, `LossEndsIfPidGiven`, `SleeperIsWoken` and `WaitsEnd`. TLAPS does not
reason about fairness or `ENABLED`. Of the resource policy nothing else is stated.

## 5. Not modelled

* Contents: samples, formats, codec parameters, bit rates, progress, texts for
  `dumpsys`, statistics of `TranscodingLogger`.
* Time: deadlines, heartbeats and `keepAlive`. A timeout may happen at any moment.
* The binder front end, and what it passes through: `addClientUid`, the getters and
  `dump` of a client. The clients' processes only call and die.
* The composition of the client manager and the policies with the controller. The
  controller's model takes requests in any order and any key that no wrapper knows,
  top uids as `TopUids` allows, and losses and throttling at any time. For the uid
  policy this is shown to be enough (`ImplementsTopUids`, with the same alternatives in
  `TopUids` and in the controller); for the others the models keep of the controller
  what they touch (its sessions, `mResourceLost`, `mThermalThrottling`).
* `mTrustedUids`, a set that binder threads fill without a lock: a data race whose
  outcomes are not those of a protocol.
* The return of the observer service: the code does not register again (TODO in
  `BinderDiedCallback`).
* `configureSource`, `configureTrackFormat`, `configureDestination`: they run
  before any thread exists and are the initial state of MediaTranscoder.
* Audio: static, offloaded, direct and fast tracks of `AudioTrack`, re-creation after
  `CBLK_INVALID`, time stamps, recording; in the fast mixer the submix, a change of the
  output sink, underrun counts and everything the AudioMixer computes.
* The other subsystems of the repository (section 1.2). They are independent of the
  parts modelled here, and most of their code is computation on data.

## 6. Plan

Done: the transcoding service from its clients and policies to the threads of a
transcoder, the streaming audio track, and the fast mixer with its state queue; and
the proofs of their safety properties. What would add most next:

1. `MediaTranscoder` shown to implement the transcoder that the wrapper assumes
   (`Stopped`, `transcoderEnds`): at most one callback, none lost, pauses final.
2. `MonoPipe`, the buffer ownership protocol of bufferpool 2.0 and the resource
   manager, each a module of its own.
