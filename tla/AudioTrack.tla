----------------------------- MODULE AudioTrack -----------------------------
(***************************************************************************)
(* A streaming output track, both sides of it.  Client process: the thread *)
(* that writes (AudioTrack::obtainBuffer and releaseBuffer over            *)
(* ClientProxy) and the one that controls (start, stop, pause, flush).     *)
(* AudioFlinger: the binder thread that runs a control call on the Track   *)
(* and the MixerThread that reads (prepareTracks_l, then getNextBuffer and *)
(* releaseBuffer over ServerProxy).  Every load and store of the control   *)
(* block that another thread can get in between is a step of its own.      *)
(* Not here: static, offloaded, direct and fast tracks, re-creation of an  *)
(* invalidated track.                                                      *)
(***************************************************************************)
EXTENDS AudioTrackShared

CONSTANTS
    BufferSizes,      \* sizes that setBufferSizeInFrames may choose
    MaxTries,         \* kMaxTries of AudioTrack::obtainBuffer
    MaxTrackRetries,  \* kMaxTrackRetries and kMaxTrackStartupRetries
    MixFrames,        \* most frames the mixer asks for at a time
    StartAt,          \* position at which the drained track is taken up
    MaxFrames,        \* bound: frames written from there
    MaxMarks          \* bound: stop and flush calls

ASSUME TrackAssumption ==
    /\ BufferSizes \subseteq 1 .. FrameCount
    /\ {MaxTries, MaxTrackRetries, MixFrames} \subseteq Nat \ {0}
    /\ StartAt \in Counters
    /\ {MaxFrames, MaxMarks} \subseteq Nat

VARIABLES
    cblk,     \* audio_track_cblk_t
    app,      \* AudioTrack: mState, and the binder call made under mLock
    writer,   \* the thread in AudioTrack::obtainBuffer
    proxy,    \* AudioTrackServerProxy
    track,    \* Track and its place in mActiveTracks
    mixer,    \* the MixerThread
    shutdown, \* the sides whose mIsShutdown is set
    overtaken \* history: a stop, flush or start overtook a read of the mixer

vars == <<cblk, app, writer, proxy, track, mixer, shutdown, overtaken>>

Stopped == {"STOPPED", "FLUSHED"}
Filled == safe_sub(cblk.rear, cblk.front)

(* Of the marks, a read keeps the mFlush and the mStop it loaded. *)
Idle == [pc |-> "idle", use |-> "prepare", flush |-> 0, stop |-> 0, n |-> 0]

(* A track that played up to StartAt, was stopped and drained. *)
Init ==
    /\ cblk = [front |-> StartAt, rear |-> StartAt,
               stop |-> NextMark(0, StartAt), flush |-> 0,
               size |-> FrameCount, flags |-> {}, futex |-> 0]
    /\ app = [state |-> "STOPPED", prev |-> "none", call |-> "none"]
    /\ writer = [pc |-> "idle", first |-> TRUE, timeout |-> "zero",
                 tries |-> 0, n |-> 0, expect |-> 0]
    /\ proxy = [flush |-> 0, stopLast |-> 0, avail |-> 0]
    /\ track = [state |-> "STOPPED", active |-> FALSE, filling |-> "FILLING",
                retries |-> 0, resetDone |-> TRUE]
    /\ mixer = Idle
    /\ shutdown = {} /\ overtaken = FALSE

(***************************************************************************)
(* The futex.  Bit CBLK_FUTEX_WAKE is the event; signalClientFlag stores   *)
(* 0x40000000 over the whole word (4 here) instead of raising the bit.     *)
(***************************************************************************)
WakeBit(futex) == futex % 2
Raised(futex) == futex - WakeBit(futex) + 1
Lowered(futex) == futex - WakeBit(futex)
SIGNALLED == 4

(* FUTEX_WAKE *)
Woken(w) == IF w.pc = "asleep" THEN [w EXCEPT !.pc = "flags"] ELSE w

(* The server's wake-up, a system call only when the bit was not yet set. *)
ServerWakes(w, futex) == IF WakeBit(futex) = 1 THEN w ELSE Woken(w)

-----------------------------------------------------------------------------
(* ClientProxy::obtainBuffer and AudioTrack::obtainBuffer. *)

Unlocked == app.call = "none"    \* nobody holds AudioTrack::mLock
Goes(pc) == writer' = [writer EXCEPT !.pc = pc]
Returns == writer' = [writer EXCEPT !.pc = "idle", !.n = 0, !.timeout = "zero",
                                    !.tries = 0, !.first = TRUE, !.expect = 0]

(* The lock scope that opens each round: not blocking unless active.       *)
(* Otherwise the time-out is any, and may or may not expire: the behaviours *)
(* in which it never does are those of an infinite one.                    *)
Requested(timeout) == IF app.state = "ACTIVE" THEN timeout ELSE "zero"

ObtainBuffer ==
    /\ writer.pc = "idle" /\ Unlocked
    /\ writer' = [writer EXCEPT !.pc = "flags", !.tries = MaxTries,
                                !.timeout = Requested("some")]
    /\ UNCHANGED <<cblk, app, proxy, track, mixer, shutdown, overtaken>>

(* restartIfDisabled, called with mLock held. *)
RestartIfDisabled(c) ==
    LET disabled == "DISABLED" \in c.flags
    IN /\ cblk' = [c EXCEPT !.flags = @ \ {"DISABLED"}]
       /\ app' = IF disabled /\ app.state = "ACTIVE"
                 THEN [app EXCEPT !.call = "restart"] ELSE app

(* NOT_ENOUGH_DATA: another round. *)
ObtainAgain ==
    /\ writer.pc = "again" /\ Unlocked
    /\ RestartIfDisabled(cblk)
    /\ writer' = [writer EXCEPT !.pc = "flags", !.first = TRUE,
                                !.tries = @ - 1, !.timeout = Requested(@)]
    /\ UNCHANGED <<proxy, track, mixer, shutdown, overtaken>>

CheckFlags ==
    /\ writer.pc = "flags" /\ app.call # "restart"
    /\ cblk' = [cblk EXCEPT !.flags = @ \ {"INTERRUPT"}]
    /\ \/ /\ "DISABLED" \in cblk.flags
          /\ IF writer.tries > 0 THEN Goes("again") ELSE Returns
       \/ /\ "DISABLED" \notin cblk.flags
          /\ "INTERRUPT" \in cblk.flags /\ ~writer.first
          /\ Returns                                              \* -EINTR
       \/ /\ "DISABLED" \notin cblk.flags
          /\ "INTERRUPT" \in cblk.flags => writer.first
          /\ writer' = [writer EXCEPT !.pc = "avail", !.first = FALSE]
    /\ UNCHANGED <<app, proxy, track, mixer, shutdown, overtaken>>

CheckAvail ==
    LET avail == cblk.size - Filled
    IN /\ writer.pc = "avail"
       /\ \/ /\ ~FilledInRange(Filled) \/ "client" \in shutdown
             /\ shutdown' = shutdown \union {"client"} /\ Returns  \* NO_INIT
          \/ /\ FilledInRange(Filled) /\ "client" \notin shutdown
             /\ UNCHANGED shutdown
             /\ \/ /\ avail > 0
                   /\ \E n \in 1 .. Part1(cblk.rear, avail, FrameCount) :
                         writer' = [writer EXCEPT !.pc = "write", !.n = n]
                \/ avail <= 0 /\ Returns          \* WOULD_BLOCK, TIMED_OUT
                \/ avail <= 0 /\ writer.timeout # "zero" /\ Goes("down")
       /\ UNCHANGED <<cblk, app, proxy, track, mixer, overtaken>>

(* android_atomic_and(~CBLK_FUTEX_WAKE), then FUTEX_WAIT on what is left. *)
FutexDown ==
    /\ writer.pc = "down"
    /\ cblk' = [cblk EXCEPT !.futex = Lowered(@)]
    /\ writer' = [writer EXCEPT !.pc = IF WakeBit(cblk.futex) = 1
                                       THEN "flags" ELSE "wait",
                                !.expect = IF WakeBit(cblk.futex) = 1
                                           THEN 0 ELSE cblk.futex]
    /\ UNCHANGED <<app, proxy, track, mixer, shutdown, overtaken>>

FutexWait ==
    /\ writer.pc = "wait"
    /\ writer' = [writer EXCEPT !.expect = 0,
                     !.pc = IF cblk.futex = writer.expect THEN "asleep" ELSE "flags"]
    /\ UNCHANGED <<cblk, app, proxy, track, mixer, shutdown, overtaken>>

(* ETIMEDOUT, or EINTR from a signal *)
FutexTimeout ==
    /\ writer.pc = "asleep" /\ Goes("flags")
    /\ UNCHANGED <<cblk, app, proxy, track, mixer, shutdown, overtaken>>

Written == (cblk.rear - StartAt) % Width

(* releaseBuffer of k of the n frames obtained *)
ReleaseBuffer ==
    /\ writer.pc = "write" /\ Unlocked
    /\ \E k \in 0 .. Min({writer.n, MaxFrames - Written}) :
          /\ \/ k = 0 /\ UNCHANGED <<cblk, app>>
             \/ /\ k > 0
                /\ RestartIfDisabled([cblk EXCEPT !.rear = Add(@, k)])
    /\ Returns
    /\ UNCHANGED <<proxy, track, mixer, shutdown, overtaken>>

-----------------------------------------------------------------------------
(* Control calls: the part that AudioTrack runs under mLock.  The binder   *)
(* call it ends with is in app.call until the server has run it.           *)

(* NextMark(0, StartAt) is the first mark. *)
MarksLeft == High(cblk.stop) \div overflowBit <= MaxMarks

Calls(call, state) ==
    app' = [state |-> state, call |-> call,
            prev |-> IF call = "start" THEN app.state ELSE "none"]

(* ClientProxy::interrupt on a control block c *)
Interrupted(c) ==
    IF "INTERRUPT" \in c.flags THEN c
    ELSE [c EXCEPT !.flags = @ \union {"INTERRUPT"}, !.futex = Raised(@)]
Interrupts ==
    writer' = IF "INTERRUPT" \in cblk.flags THEN writer ELSE Woken(writer)

Start ==
    /\ Unlocked /\ app.state # "ACTIVE"
    /\ Calls("start", "ACTIVE")
    /\ cblk' = [cblk EXCEPT !.flags = @ \ {"DISABLED"}]
    /\ UNCHANGED <<writer, proxy, track, mixer, shutdown, overtaken>>

Stop ==
    /\ Unlocked /\ MarksLeft /\ app.state \in {"ACTIVE", "PAUSED"}
    /\ Calls("stop", "STOPPED")
    /\ cblk' = Interrupted([cblk EXCEPT !.stop = NextMark(@, cblk.rear)])
    /\ Interrupts
    /\ UNCHANGED <<proxy, track, mixer, shutdown, overtaken>>

Pause ==
    /\ Unlocked /\ app.state = "ACTIVE"
    /\ Calls("pause", "PAUSED")
    /\ cblk' = Interrupted(cblk)
    /\ Interrupts
    /\ UNCHANGED <<proxy, track, mixer, shutdown, overtaken>>

(* flush_l stores mStop, then mFlush. *)
Flush ==
    /\ Unlocked /\ MarksLeft /\ app.state # "ACTIVE"
    /\ Calls("mark", "FLUSHED")
    /\ cblk' = [cblk EXCEPT !.stop = NextMark(@, cblk.rear)]
    /\ UNCHANGED <<writer, proxy, track, mixer, shutdown, overtaken>>

FlushMark ==
    /\ app.call = "mark"
    /\ app' = [app EXCEPT !.call = "flush"]
    /\ cblk' = [cblk EXCEPT !.flush = NextMark(@, cblk.rear)]
    /\ UNCHANGED <<writer, proxy, track, mixer, shutdown, overtaken>>

SetBufferSizeInFrames ==
    /\ Unlocked
    /\ \E size \in BufferSizes : cblk' = [cblk EXCEPT !.size = size]
    /\ UNCHANGED <<app, writer, proxy, track, mixer, shutdown, overtaken>>

-----------------------------------------------------------------------------
(* Control calls: the part that a binder thread of AudioFlinger runs under *)
(* the mutex of the playback thread.  prepareTracks_l holds that mutex.    *)

ThreadLocked == mixer.pc # "idle" /\ mixer.use = "prepare"
Binder(call) == app.call = call /\ ~ThreadLocked
CallDone == app' = [app EXCEPT !.call = "none"]

Reset(t) ==
    IF t.resetDone THEN t
    ELSE [t EXCEPT !.filling = "FILLING", !.resetDone = TRUE,
                   !.state = IF @ = "FLUSHED" THEN "IDLE" ELSE @]

(* flushBufferIfNeeded, and the value of mStopLast that goes with it. *)
FlushBufferIfNeeded(stopLast) ==
    LET front == FlushFront(cblk.front, cblk.rear, cblk.flush)
    IN IF cblk.flush = proxy.flush
       THEN /\ proxy' = [proxy EXCEPT !.stopLast = stopLast]
            /\ UNCHANGED <<cblk, writer>>
       ELSE /\ proxy' = [proxy EXCEPT !.stopLast = stopLast,
                                      !.flush = cblk.flush]
            /\ cblk' = [cblk EXCEPT !.front = front, !.futex = Raised(@)]
            /\ writer' = ServerWakes(writer, cblk.futex)

(* What the server may read, and the check that it is sane. *)
ServerFilled(c, stop, stopLast) ==
    safe_sub(GetRear(c.front, c.rear, stop, stopLast), c.front)

(* obtainBuffer(ackFlush) from a binder thread *)
AckFlush(stopLast) ==
    /\ FlushBufferIfNeeded(stopLast)
    /\ shutdown' = IF FilledInRange(ServerFilled(cblk', cblk.stop, stopLast))
                   THEN shutdown ELSE shutdown \union {"server"}

TrackStart(ok) ==
    LET t == IF track.state = "FLUSHED" THEN Reset(track) ELSE track
        state == IF track.state \in {"PAUSED", "PAUSING"}
                 THEN "RESUMING" ELSE "ACTIVE"
        stopLast == IF ok THEN cblk.stop ELSE proxy.stopLast
    IN \/ /\ track.active /\ ok                           \* ALREADY_EXISTS
          /\ track' = [t EXCEPT !.state = state]
          /\ proxy' = [proxy EXCEPT !.stopLast = stopLast]
          /\ UNCHANGED <<cblk, writer, shutdown>>
       \/ /\ ~track.active
          /\ track' = IF ok
                      THEN [state |-> state, active |-> TRUE,
                            filling |-> "FILLING", resetDone |-> FALSE,
                            retries |-> MaxTrackRetries]
                      ELSE [t EXCEPT !.state = track.state]
          /\ AckFlush(stopLast)

HandleStart ==
    /\ Binder("start")
    /\ \E ok \in BOOLEAN :
          /\ TrackStart(ok)
          /\ app' = [state |-> IF ok THEN app.state ELSE app.prev,
                     prev |-> "none", call |-> "none"]
    /\ UNCHANGED <<mixer, overtaken>>

(* restartIfDisabled ignores the status. *)
HandleRestart ==
    /\ Binder("restart")
    /\ \E ok \in BOOLEAN : TrackStart(ok)
    /\ CallDone
    /\ UNCHANGED <<mixer, overtaken>>

HandleStop ==
    /\ Binder("stop") /\ CallDone
    /\ track' = IF track.state \in {"RESUMING", "ACTIVE", "PAUSING", "PAUSED"}
                THEN [(IF track.active THEN track ELSE Reset(track))
                         EXCEPT !.state = "STOPPED"]
                ELSE track
    /\ UNCHANGED <<cblk, writer, proxy, mixer, shutdown, overtaken>>

HandlePause ==
    /\ Binder("pause") /\ CallDone
    /\ track' = IF track.state \in {"ACTIVE", "RESUMING"}
                THEN [track EXCEPT !.state = "PAUSING"] ELSE track
    /\ UNCHANGED <<cblk, writer, proxy, mixer, shutdown, overtaken>>

(* Variant: the flush is applied at once although the mixer may be reading. *)
HandleFlushAtOnce ==
    /\ Binder("flush") /\ CallDone
    /\ FlushBufferIfNeeded(proxy.stopLast)
    /\ track' = [track EXCEPT !.state = "FLUSHED"]
    /\ UNCHANGED <<mixer, shutdown, overtaken>>

HandleFlush ==
    /\ Binder("flush") /\ CallDone
    /\ IF track.active THEN UNCHANGED <<cblk, writer, proxy>>
       ELSE FlushBufferIfNeeded(proxy.stopLast)
    /\ LET flushed == [track EXCEPT !.state = "FLUSHED"]
       IN track' = IF track.state \in {"ACTIVE", "RESUMING"} THEN track
                   ELSE IF track.active THEN flushed ELSE Reset(flushed)
    /\ UNCHANGED <<mixer, shutdown, overtaken>>

-----------------------------------------------------------------------------
(* The MixerThread.  Each of its reads is flushBufferIfNeeded, then        *)
(* getRear: four loads, in this order, of mFlush, mRear (only for a new    *)
(* flush), mStop, and mRear with mStopLast.                                *)

(* Variant: the read does not look at mFlush. *)
StopOnly(use) ==
    /\ mixer' = [mixer EXCEPT !.pc = "stop", !.use = use, !.flush = cblk.flush]
    /\ UNCHANGED <<cblk, app, writer, proxy, track, shutdown, overtaken>>

(* The first two loads are one step: mRear only grows. *)
FlushThenStop(use) ==
    /\ FlushBufferIfNeeded(proxy.stopLast)
    /\ mixer' = [mixer EXCEPT !.pc = "stop", !.use = use, !.flush = cblk.flush]
    /\ UNCHANGED <<app, track, shutdown, overtaken>>

Prepare == mixer.pc = "idle" /\ track.active /\ FlushThenStop("prepare")

LoadStop ==
    /\ mixer.pc = "stop"
    /\ mixer' = [mixer EXCEPT !.pc = "rear", !.stop = cblk.stop]
    /\ UNCHANGED <<cblk, app, writer, proxy, track, shutdown, overtaken>>

(* The end of the read: frames the server may take, 0 if it has shut down. *)
Readable == ServerFilled(cblk, mixer.stop, proxy.stopLast)
FramesReady == IF FilledInRange(Readable) /\ "server" \notin shutdown
               THEN Readable ELSE 0
NotesCorruption ==
    shutdown' = IF FilledInRange(Readable) THEN shutdown
                ELSE shutdown \union {"server"}

(* Track::isReady *)
IsReady == \/ track.filling # "FILLING"
           \/ track.state \in Stopped \union {"PAUSING"}
           \/ FramesReady >= cblk.size

(* prepareTracks_l, the track is mixed; PAUSING ends after one more round. *)
PrepareReady(minFrames) ==
    /\ FramesReady >= minFrames /\ IsReady /\ track.state # "PAUSED"
    /\ LET filled == track.filling = "FILLED" \/
                       (track.filling = "FILLING" /\ track.state \notin
                            Stopped \union {"PAUSING"})
       IN track' = [track EXCEPT
            !.filling = IF filled THEN "ACTIVE" ELSE @,
            !.retries = MaxTrackRetries,
            !.state = IF @ = "PAUSING" THEN "PAUSED"
                      ELSE IF filled /\ @ = "RESUMING" THEN "ACTIVE" ELSE @]
    /\ mixer' = [Idle EXCEPT !.pc = "mix", !.use = "obtain"]
    /\ UNCHANGED <<cblk, writer>>

(* Nothing to mix, and the track was told to stop: it stays until the     *)
(* frames it wrote have been presented, then leaves mActiveTracks.        *)
PrepareDrained ==
    /\ track.state \in Stopped \union {"PAUSED"}
    /\ \/ UNCHANGED track
       \/ track' = [(IF track.state \in Stopped THEN Reset(track) ELSE track)
                       EXCEPT !.active = FALSE]
    /\ UNCHANGED <<cblk, writer>>

(* Variant: the client is not woken. *)
DisableSilently ==
    /\ track.state \notin Stopped \union {"PAUSED"}
    /\ track' = [track EXCEPT !.retries = @ - 1, !.active = track.retries > 1]
    /\ cblk' = [cblk EXCEPT !.flags = @ \union {"DISABLED"}]
    /\ UNCHANGED writer

(* Nothing to mix: after MaxTrackRetries rounds the track is disabled.    *)
(* disable is signalClientFlag, whose store replaces the futex word.      *)
PrepareUnderrun ==
    /\ track.state \notin Stopped \union {"PAUSED"}
    /\ track' = [track EXCEPT !.retries = @ - 1,
                              !.active = track.retries > 1]
    /\ IF track.retries > 1 THEN UNCHANGED <<cblk, writer>>
       ELSE /\ cblk' = [cblk EXCEPT !.flags = @ \union {"DISABLED"},
                                    !.futex = SIGNALLED]
            /\ writer' = Woken(writer)

MinFrames == IF track.state \in Stopped \union {"PAUSING"} THEN {1}
             ELSE {1, MixFrames}

PrepareTracks ==
    /\ mixer.pc = "rear" /\ mixer.use = "prepare"
    /\ NotesCorruption
    /\ \E minFrames \in MinFrames :
          \/ PrepareReady(minFrames)
          \/ /\ ~(FramesReady >= minFrames /\ IsReady /\ track.state # "PAUSED")
             /\ PrepareDrained \/ PrepareUnderrun
             /\ mixer' = Idle
    /\ UNCHANGED <<app, proxy, overtaken>>

(* AudioMixer asks for a buffer, and for more until the mix is complete. *)
GetNextBuffer == mixer.pc \in {"mix", "mixed"} /\ FlushThenStop("obtain")
MixComplete ==
    /\ mixer.pc = "mixed" /\ mixer' = Idle
    /\ UNCHANGED <<cblk, app, writer, proxy, track, shutdown, overtaken>>

(***************************************************************************)
(* The marks have moved since the read loaded them: mStop is another one,  *)
(* or a flush came that the read has not seen, and the stop mark that      *)
(* flush_l stored with it does not bound the read any more.                *)
(***************************************************************************)
Overtaken ==
    \/ mixer.stop # cblk.stop
    \/ /\ mixer.flush # cblk.flush
       /\ cblk.stop = proxy.stopLast \/ Masked(cblk.stop) # Masked(cblk.flush)

(* ServerProxy::obtainBuffer, its last load *)
ServerObtain ==
    /\ mixer.pc = "rear" /\ mixer.use = "obtain"
    /\ NotesCorruption
    /\ \E ask \in 1 .. MixFrames :
          LET n == Part1(cblk.front, FramesReady, ask)
          IN /\ mixer' = IF n = 0 THEN Idle
                         ELSE [Idle EXCEPT !.pc = "read", !.use = "obtain", !.n = n]
             /\ proxy' = [proxy EXCEPT !.avail = IF n = 0 THEN 0
                                                 ELSE FrameCount - FramesReady]
             /\ overtaken' = (overtaken \/ (n # 0 /\ Overtaken))
    /\ UNCHANGED <<cblk, app, writer, track>>

(* ServerProxy::releaseBuffer *)
ServerRelease ==
    LET front == Add(cblk.front, mixer.n)
        wakes == proxy.avail + mixer.n >= WakeMinimum
    IN /\ mixer.pc = "read"
       /\ mixer' = [mixer EXCEPT !.pc = "mixed", !.n = 0]
       /\ proxy' = [proxy EXCEPT !.avail = 0]
       /\ cblk' = [cblk EXCEPT !.front = front,
                               !.futex = IF wakes THEN Raised(@) ELSE @]
       /\ writer' = IF wakes THEN ServerWakes(writer, cblk.futex) ELSE writer
       /\ UNCHANGED <<app, track, shutdown, overtaken>>

-----------------------------------------------------------------------------
Client == \/ ObtainBuffer \/ ObtainAgain \/ CheckFlags \/ CheckAvail
          \/ FutexDown \/ FutexWait \/ FutexTimeout \/ ReleaseBuffer
Control == \/ Start \/ Stop \/ Pause \/ Flush \/ FlushMark
           \/ SetBufferSizeInFrames
Handler == \/ HandleStart \/ HandleRestart \/ HandleStop \/ HandlePause
           \/ HandleFlush
Mixer == \/ Prepare \/ LoadStop \/ PrepareTracks
         \/ GetNextBuffer \/ MixComplete \/ ServerObtain \/ ServerRelease

Next == Client \/ Control \/ Handler \/ Mixer
(***************************************************************************)
(* The mixer thread keeps running while a track is active.  This is weak   *)
(* fairness of Mixer, whose only disabled states are those of Sleeps.      *)
(***************************************************************************)
Sleeps == mixer.pc = "idle" /\ ~track.active
Fairness == []<>Sleeps \/ []<><<Mixer>>_vars

Spec == Init /\ [][Next]_vars /\ Fairness

-----------------------------------------------------------------------------
(* Every variable has its type. *)
TypeOK ==
    /\ cblk \in [front : Counters, rear : Counters, stop : Counters,
                 flush : Counters, size : 1 .. FrameCount,
                 flags : SUBSET {"INTERRUPT", "DISABLED"},
                 futex : {0, 1, SIGNALLED, SIGNALLED + 1}]
    /\ app.call \in {"none", "start", "restart", "stop", "pause", "mark", "flush"}
    /\ writer.pc \in {"idle", "again", "flags", "avail", "down", "wait",
                      "asleep", "write"}
    /\ track.state \in {"IDLE", "ACTIVE", "RESUMING", "PAUSING", "PAUSED",
                        "STOPPED", "FLUSHED"}
    /\ mixer.pc \in {"idle", "stop", "rear", "mix", "read", "mixed"}

(***************************************************************************)
(* The buffer that ServerProxy::obtainBuffer handed to the mixer holds     *)
(* frames that ClientProxy::releaseBuffer published, and none of them in a *)
(* slot that ClientProxy::obtainBuffer handed to the writer, as long as no *)
(* stop, flush or start has overtaken a read.                              *)
(***************************************************************************)
NoTornFrames ==
    mixer.pc = "read" /\ ~overtaken =>
        /\ mixer.n <= Filled
        /\ writer.pc = "write" =>
              Slots(cblk.front, mixer.n) \intersect
                  Slots(cblk.rear, writer.n) = {}

(***************************************************************************)
(* Neither side ever finds the control block corrupt and shuts down        *)
(* (mIsShutdown), through wraps of the counters, flushes, stop marks and   *)
(* restarts: 0 <= rear - front <= mFrameCount, as long as no stop, flush   *)
(* or start has overtaken a read.                                          *)
(***************************************************************************)
NeverCorrupt == ~overtaken => shutdown = {} /\ FilledInRange(Filled)

(***************************************************************************)
(* mStop is "set by client to indicate a stop frame position; server will  *)
(* not read beyond this position until start is called"                    *)
(* (AudioTrackShared.h:141): once AudioTrack::stop or flush has stored the *)
(* mark, a buffer that ServerProxy::obtainBuffer hands out ends there at   *)
(* the latest, although the writer may go on writing (getRear).            *)
(***************************************************************************)
WithinStop ==
    mixer'.pc = "read" /\ mixer.pc # "read" /\ app.state \in Stopped =>
        mixer'.n <= (Masked(cblk.stop) - Masked(cblk.front)) % overflowBit
StopIsFinal == [][WithinStop]_vars

(***************************************************************************)
(* The same, as long as no read is overtaken: getRear keeps to the mark    *)
(* that it has loaded, across the wraps of mRear and of the mark.          *)
(***************************************************************************)
StopHolds == [][overtaken' \/ WithinStop]_vars

(***************************************************************************)
(* No frame is played twice, none that was flushed is played after the     *)
(* next start, and none written after the flush is lost: the server never  *)
(* moves mFront back, flushBufferIfNeeded leaves it at the position of the *)
(* flush, whether the mixer or a binder thread runs it, and once start has *)
(* returned that has been done before a buffer is obtained; as long as no  *)
(* stop, flush or start has overtaken a read.                              *)
(***************************************************************************)
StaleNotPlayed ==
    [][\/ overtaken'
       \/ /\ safe_sub(cblk'.front, cblk.front) >= 0
          /\ proxy'.flush # proxy.flush =>
                Masked(cblk'.front) = Masked(proxy'.flush)
          /\ mixer'.pc = "read" /\ mixer.pc # "read" /\ app.state = "ACTIVE" /\
             app.call # "start" => proxy.flush = cblk.flush]_vars

(***************************************************************************)
(* A writer that sleeps in obtainBuffer on a track that is being played is *)
(* woken, by frames that are read or by the underrun that disables the     *)
(* track, unless the client stops or pauses the track itself.              *)
(***************************************************************************)
Played == track.active /\ track.state \in {"ACTIVE", "RESUMING"}
SleeperIsWoken ==
    (writer.pc = "asleep" /\ Played) ~>
        (writer.pc # "asleep" \/ app.state # "ACTIVE")
=============================================================================
