------------------------------ MODULE FastMixer ------------------------------
(***************************************************************************)
(* A MixerThread and its FastMixer thread.  The MixerThread tells the fast *)
(* thread by a StateQueue what to do and which fast tracks to mix, and     *)
(* puts it to sleep on a futex while the output is in standby.  Binder     *)
(* threads create, start and destroy the tracks under the mutex of the     *)
(* MixerThread.  kUseFastMixer is FastMixer_Static.  Not here: the submix, *)
(* which is fast track 0 at all times, a change of the output sink,        *)
(* underrun counts, and the AudioMixer beyond the provider of each name.   *)
(***************************************************************************)
EXTENDS StateQueue, FiniteSetsExt, Functions

CONSTANTS
    Tracks,        \* fast tracks that clients create
    NoTrack,       \* no buffer provider
    FastIndices,   \* indices of fast tracks: positive integers
    MaxStandby,    \* bound: times the output enters standby
    MaxStart       \* bound: times a track is started

ASSUME FastMixerAssumption ==
    /\ NoTrack \notin Tracks
    /\ FastIndices \subseteq Nat \ {0}
    /\ {MaxStandby, MaxStart} \subseteq Nat

VARIABLES
    normal,      \* the MixerThread: pc, and tracksToRemove
    fast,        \* the FastMixer thread
    futex,       \* mFastMixerFutex
    index,       \* mFastIndex of the tracks that exist
    active,      \* mActiveTracks, the fast ones
    terminated,  \* tracks whose client handle is gone
    starts,      \* starts so far, for the bound
    lost         \* history: a store of 0 to the futex has undone an increment

vars == <<queue, normal, fast, futex, index, active, terminated, starts, lost>>

(***************************************************************************)
(* FastMixerState: command, generation of the cold idle, provider of each  *)
(* fast track (mTrackMask is where there is one) and the generations by    *)
(* which the fast thread notices a change.                                 *)
(***************************************************************************)
FastMixerStates ==
    [command : {"INITIAL", "COLD_IDLE", "MIX_WRITE", "EXIT"}, coldGen : Nat,
     provider : [FastIndices -> Tracks \union {NoTrack}],
     generation : [FastIndices -> Nat], tracksGen : Nat]

sInitial ==
    [command |-> "INITIAL", coldGen |-> 0,
     provider |-> [i \in FastIndices |-> NoTrack],
     generation |-> [i \in FastIndices |-> 0], tracksGen |-> 0]

ASSUME InitialAssumption == Initial = sInitial

mTrackMask(s) == {i \in FastIndices : s.provider[i] # NoTrack}

state == mStates[mMutating]      \* what begin() returns
current == Deref(mCurrent)

Init ==
    /\ QueueInit
    /\ normal = [pc |-> "new", remove |-> {}]
    /\ fast = [pc |-> "created", diff |-> "current", preIdle |-> sInitial,
               coldGen |-> 0, tracksGen |-> 0,
               generation |-> sInitial.generation,
               mixes |-> sInitial.provider, expect |-> 0]
    /\ futex = 0
    /\ index = << >> /\ active = {} /\ terminated = {} /\ starts = 0
    /\ lost = FALSE

-----------------------------------------------------------------------------
(***************************************************************************)
(* Binder threads.  threadLoop holds the mutex from its top to the end of  *)
(* prepareTracks_l; it is free while the MixerThread writes or sleeps.     *)
(***************************************************************************)
MutexFree == normal.pc \in {"write", "written", "loop"}
tracks == <<index, active, terminated, starts>>

mFastTrackAvailMask == FastIndices \ {index[t] : t \in DOMAIN index}

CreateTrack(t) ==
    /\ MutexFree /\ t \notin DOMAIN index \union terminated
    /\ mFastTrackAvailMask # {}
    /\ index' = [u \in DOMAIN index \union {t} |->
                    IF u = t THEN Min(mFastTrackAvailMask) ELSE index[u]]
    /\ UNCHANGED <<queue, normal, fast, futex, lost, active, terminated, starts>>

(* addTrack_l *)
StartTrack(t) ==
    /\ MutexFree /\ starts < MaxStart
    /\ t \in DOMAIN index \ (active \union terminated)
    /\ active' = active \union {t} /\ starts' = starts + 1
    /\ UNCHANGED <<queue, normal, fast, futex, lost, index, terminated>>

(* removeTrack_l makes the index available again; the tracks ts are freed. *)
RemoveTrack(ts) == index' = [t \in DOMAIN index \ ts |-> index[t]]

(* destroyTrack_l *)
DestroyTrack(t) ==
    /\ MutexFree /\ t \in DOMAIN index \ terminated
    /\ terminated' = terminated \union {t}
    /\ IF t \in active THEN UNCHANGED index ELSE RemoveTrack({t})
    /\ UNCHANGED <<queue, normal, fast, futex, lost, active, starts>>

-----------------------------------------------------------------------------
(* The MixerThread. *)

NormalGoes(pc) == normal' = [normal EXCEPT !.pc = pc]

(* Variant: the MixerThread only increments the futex. *)
WokenNever == fast

(* FUTEX_WAKE *)
Woken == IF fast.pc = "asleep" THEN [fast EXCEPT !.pc = "woken"] ELSE fast

(* The constructor of MixerThread: a first state, then run(). *)
Construct ==
    /\ normal.pc = "new" /\ NormalGoes("constructed")
    /\ MutateAndPush([state EXCEPT !.command = "COLD_IDLE", !.coldGen = @ + 1,
                                   !.tracksGen = @ + 1], "PUSHED")
    /\ UNCHANGED <<fast, futex, lost, tracks>>

Run ==
    /\ normal.pc = "constructed" /\ push.at = "returned" /\ NormalGoes("loop")
    /\ fast' = [fast EXCEPT !.pc = "poll"]
    /\ UNCHANGED <<queue, futex, lost, tracks>>

(***************************************************************************)
(* The store is not conditional: when the fast thread has yet to decrement *)
(* for the cold idle before this one, which it has acknowledged, the store *)
(* undoes the increment of the threadLoop_write in between.                *)
(***************************************************************************)
ZeroFutex ==
    /\ futex' = 0
    /\ lost' = (lost \/ fast.pc = "coldIdle")

(* Variant: threadLoop_standby waits for the slot alone. *)
StandbyUntilPushed ==
    /\ normal.pc = "loop"
    /\ state.command # "COLD_IDLE" /\ state.coldGen <= MaxStandby
    /\ MutateAndPush([state EXCEPT !.command = "COLD_IDLE", !.coldGen = @ + 1],
                     "PUSHED")
    /\ ZeroFutex
    /\ NormalGoes("standby")
    /\ UNCHANGED <<fast, tracks>>

(* threadLoop_standby: no track is active, or the output is suspended. *)
Standby ==
    /\ normal.pc = "loop"
    /\ state.command # "COLD_IDLE" /\ state.coldGen <= MaxStandby
    /\ MutateAndPush([state EXCEPT !.command = "COLD_IDLE", !.coldGen = @ + 1],
                     "ACKED")
    /\ ZeroFutex
    /\ NormalGoes("standby")
    /\ UNCHANGED <<fast, tracks>>

(* With no active track the thread waits, the mutex released. *)
WaitForWork ==
    /\ normal.pc = "standby" /\ push.at = "returned" /\ active = {}
    /\ NormalGoes("loop")
    /\ UNCHANGED <<queue, fast, futex, lost, tracks>>

(***************************************************************************)
(* prepareTracks_l: the tracks in `leaving' are stopped, paused, ended or  *)
(* disabled by underrun, the other active ones are to be mixed.            *)
(***************************************************************************)
Removed_l(leaving) == {index[t] : t \in leaving} \intersect mTrackMask(state)
Added_l(leaving) == {index[t] : t \in active \ leaving} \ mTrackMask(state)

Prepared(leaving) ==
    [state EXCEPT
        !.provider = [i \in FastIndices |->
            IF i \in Removed_l(leaving) THEN NoTrack
            ELSE IF i \in Added_l(leaving) THEN CHOOSE t \in active : index[t] = i
            ELSE @[i]],
        !.generation = [i \in FastIndices |->
            IF i \in Added_l(leaving) \union Removed_l(leaving) THEN @[i] + 1 ELSE @[i]],
        !.tracksGen = @ + 1]

(* Variant: the removal of a track is not waited for. *)
BlockUntilPushed(removed) == IF state.command = "COLD_IDLE" THEN "NEVER" ELSE "PUSHED"

(* No need to block while the fast thread is cold. *)
Block(removed) == IF state.command = "COLD_IDLE" THEN "NEVER"
                  ELSE IF removed # {} THEN "ACKED" ELSE "PUSHED"

PrepareTracks ==
    /\ normal.pc = "loop" \/ (normal.pc = "standby" /\ active # {})
    /\ push.at = "returned"
    /\ \E leaving \in SUBSET active :
          LET removed == Removed_l(leaving)
          IN /\ IF Added_l(leaving) \union removed # {}
                THEN MutateAndPush(Prepared(leaving), Block(removed))
                ELSE Push(Block(removed))
             /\ normal' = [pc |-> "prepare", remove |-> leaving]
    /\ UNCHANGED <<fast, futex, lost, tracks>>

(* The deferred reset of the tracks that stopped, and removeTracks_l. *)
RemoveTracks ==
    /\ normal.pc = "prepare" /\ push.at = "returned"
    /\ active' = active \ normal.remove
    /\ RemoveTrack(normal.remove \intersect terminated)
    /\ normal' = [pc |-> "write", remove |-> {}]
    /\ UNCHANGED <<queue, fast, futex, lost, terminated, starts>>

(* Nothing is written while suspended, or with nothing to mix. *)
SkipWrite ==
    /\ normal.pc = "write" /\ NormalGoes("loop")
    /\ UNCHANGED <<queue, fast, futex, lost, tracks>>

(* Leaves cold idle, in threadLoop_write and in the destructor. *)
WakeFromColdIdle ==
    IF state.command = "COLD_IDLE"
    THEN /\ futex' = futex + 1
         /\ fast' = IF futex = -1 THEN Woken ELSE fast
    ELSE UNCHANGED <<futex, fast>>

(* threadLoop_write *)
Write ==
    /\ normal.pc = "write"
    /\ WakeFromColdIdle
    /\ IF state.command = "MIX_WRITE" THEN UNCHANGED queue
       ELSE MutateAndPush([state EXCEPT !.command = "MIX_WRITE"], "PUSHED")
    /\ NormalGoes("written")
    /\ UNCHANGED <<lost, tracks>>

Written ==
    /\ normal.pc = "written" /\ push.at = "returned" /\ NormalGoes("loop")
    /\ UNCHANGED <<queue, fast, futex, lost, tracks>>

(* ~MixerThread, after the standby that threadLoop ends with.  exitPending  *)
(* ends the loop whatever tracks are active.                               *)
Exit ==
    /\ normal.pc \in {"loop", "standby"} /\ push.at = "returned"
    /\ state.command = "COLD_IDLE"
    /\ WakeFromColdIdle
    /\ MutateAndPush([state EXCEPT !.command = "EXIT"], "PUSHED")
    /\ NormalGoes("join")
    /\ UNCHANGED <<lost, tracks>>

Joined ==
    /\ normal.pc = "join" /\ push.at = "returned" /\ fast.pc = "exited"
    /\ NormalGoes("done")
    /\ UNCHANGED <<queue, fast, futex, lost, tracks>>

-----------------------------------------------------------------------------
(* FastThread::threadLoop. *)

FastGoes(pc) == fast' = [fast EXCEPT !.pc = pc]
FastOnly == UNCHANGED <<normal, futex, lost, tracks>>
Idle(s) == s.command = "COLD_IDLE"

(* What mPrevious is once poll returned the new state s: the state before  *)
(* (in place), or the copy that onIdle made of the last one not idle.      *)
ShiftPrevious(s) ==
    IF Idle(current) THEN [diff |-> fast.diff, preIdle |-> fast.preIdle]
    ELSE IF Idle(s) THEN [diff |-> "preIdle", preIdle |-> current]
    ELSE [diff |-> "previous", preIdle |-> fast.preIdle]

(* The switch on mCommand. *)
AfterPoll(s, diff) ==
    IF Idle(s) /\ s.coldGen # fast.coldGen THEN "coldIdle"
    ELSE IF Idle(s) \/ s.command = "INITIAL" THEN "poll"
    ELSE IF s.command = "EXIT" THEN "exited"
    ELSE IF diff # "current" THEN "change" ELSE "work"

FastPoll ==
    /\ fast.pc = "poll"
    /\ LET s == Deref(mNext)
           shift == ShiftPrevious(s)
       IN \/ /\ poll
             /\ fast' = [fast EXCEPT !.pc = AfterPoll(s, shift.diff),
                                     !.diff = shift.diff,
                                     !.preIdle = shift.preIdle]
          \/ /\ mNext = mCurrent
             /\ FastGoes(AfterPoll(s, fast.diff))
             /\ UNCHANGED queue
    /\ FastOnly

(* android_atomic_dec, then FUTEX_WAIT for the value it left. *)
ColdIdle ==
    /\ fast.pc = "coldIdle"
    /\ futex' = futex - 1
    /\ fast' = IF futex <= 0
               THEN [fast EXCEPT !.pc = "wait", !.expect = futex - 1]
               ELSE [fast EXCEPT !.pc = "woken"]
    /\ UNCHANGED <<queue, normal, lost, tracks>>

FutexWait ==
    /\ fast.pc = "wait"
    /\ fast' = [fast EXCEPT !.expect = 0,
                            !.pc = IF futex = fast.expect THEN "asleep" ELSE "woken"]
    /\ UNCHANGED queue /\ FastOnly

(* FUTEX_WAIT may return early; the code does not look. *)
SpuriousWake ==
    /\ fast.pc = "asleep" /\ FastGoes("woken")
    /\ UNCHANGED queue /\ FastOnly

EndColdIdle ==
    /\ fast.pc = "woken"
    /\ fast' = [fast EXCEPT !.pc = "poll", !.coldGen = current.coldGen]
    /\ UNCHANGED queue /\ FastOnly

previous == IF fast.diff = "preIdle" THEN fast.preIdle ELSE Deref(mPrevious)
Removed == mTrackMask(previous) \ mTrackMask(current)
Added == mTrackMask(current) \ mTrackMask(previous)
(* Variant: an index that is in both masks is left as it is. *)
ModifiedNever == {}

Modified == {i \in mTrackMask(current) \intersect mTrackMask(previous) :
               fast.generation[i] # current.generation[i]}

(* onStateChange and updateMixerTrack *)
OnStateChange ==
    /\ fast.pc = "change"
    /\ LET updated == IF current.tracksGen = fast.tracksGen THEN {}
                      ELSE Removed \union Added \union Modified
       IN fast' = [fast EXCEPT
            !.pc = "work", !.diff = "current", !.tracksGen = current.tracksGen,
            !.generation = [i \in FastIndices |->
                IF i \in updated THEN current.generation[i] ELSE @[i]],
            !.mixes = [i \in FastIndices |->
                IF i \in updated THEN current.provider[i] ELSE @[i]]]
    /\ UNCHANGED queue /\ FastOnly

(* onWork: reads every track of the mask, once warm, and writes to the sink. *)
OnWork ==
    /\ fast.pc = "work" /\ FastGoes("poll")
    /\ UNCHANGED queue /\ FastOnly

-----------------------------------------------------------------------------
Binder == \E t \in Tracks : CreateTrack(t) \/ StartTrack(t) \/ DestroyTrack(t)
Normal == \/ Construct \/ Run \/ Standby \/ WaitForWork \/ PrepareTracks
          \/ RemoveTracks \/ SkipWrite \/ Write \/ Written \/ Exit \/ Joined
Pushing == InPush /\ UNCHANGED <<normal, fast, futex, lost, tracks>>
Fast == FastPoll \/ ColdIdle \/ FutexWait \/ EndColdIdle \/ OnStateChange \/ OnWork

Next == Binder \/ Normal \/ Pushing \/ Fast \/ SpuriousWake

(* Neither thread stops by itself; clients and time may. *)
Spec == Init /\ [][Next]_vars /\ WF_vars(Fast) /\ WF_vars(Pushing) /\ WF_vars(Joined)

-----------------------------------------------------------------------------
Providers(s) == {s.provider[i] : i \in mTrackMask(s)}

(* Every variable has its type. *)
TypeOK ==
    /\ mStates \in [Ring -> FastMixerStates]
    /\ {mNext, mAck, mMutating, mExpecting, mCurrent, mPrevious} \subseteq Pointer
    /\ normal.pc \in {"new", "constructed", "loop", "standby", "prepare", "write", "written", "join", "done"}
    /\ fast.pc \in {"created", "poll", "coldIdle", "wait", "asleep", "woken", "change",
                    "work", "exited"}
    /\ futex \in -1 - MaxStandby .. 1
    /\ DOMAIN index \subseteq Tracks /\ IsInjective(index)
    /\ active \subseteq DOMAIN index

(***************************************************************************)
(* The fast thread only calls tracks that are in mActiveTracks, and none   *)
(* that prepareTracks_l is about to reset, remove and let go ("we must     *)
(* wait for acknowledgement because we're about to decrement the last      *)
(* sp<> on those tracks"), also when they leave during a cold idle, in     *)
(* which prepareTracks_l waits for nothing.  Nor is it told to later: when *)
(* prepareTracks_l is done the state holds no track that is not active.    *)
(***************************************************************************)
Used == IF fast.pc = "work"
        THEN Providers(current) \union {fast.mixes[i] : i \in mTrackMask(current)}
        ELSE IF fast.pc = "change" THEN Providers(current) ELSE {}
LetGo == IF normal.pc = "prepare" /\ push.at = "returned" THEN normal.remove ELSE {}
UsedIsActive ==
    /\ Used \subseteq active \ LetGo
    /\ normal.pc # "prepare" /\ push.at = "returned" => Providers(state) \subseteq active

(***************************************************************************)
(* The difference that onStateChange computes always fits the AudioMixer:  *)
(* a name it destroys exists, one it creates does not (both are fatal      *)
(* otherwise), and afterwards the AudioMixer reads the current providers,  *)
(* also if an index was given to another track during a cold idle.         *)
(***************************************************************************)
DiffFits ==
    /\ fast.pc = "change" /\ current.tracksGen # fast.tracksGen =>
          /\ \A i \in Removed : fast.mixes[i] # NoTrack
          /\ \A i \in Added : fast.mixes[i] = NoTrack
    /\ fast.pc = "work" => fast.mixes = current.provider

(***************************************************************************)
(* Once threadLoop_standby has returned and until threadLoop_write, the    *)
(* fast thread does no I/O ("we need it to stop doing I/O now").           *)
(***************************************************************************)
QuietInStandby ==
    state.command = "COLD_IDLE" /\ push.at = "returned"
       => fast.pc \notin {"change", "work"}

(***************************************************************************)
(* The MixerThread's waits for the fast thread end, that of push() and the *)
(* join of ~MixerThread, unless a store of 0 undid the increment that was  *)
(* to end a cold idle: otherwise the fast thread is never left asleep on   *)
(* the futex of a cold idle that the MixerThread has ended.                *)
(***************************************************************************)
Waits == push.at # "returned" \/ normal.pc = "join"
WaitsEnd == Waits ~> ~Waits \/ lost

(***************************************************************************)
(* "For BLOCK_UNTIL_PUSHED and BLOCK_UNTIL_ACKED, always returns true."    *)
(***************************************************************************)
AlwaysReturns == push.at # "returned" ~> push.at = "returned"
=============================================================================
