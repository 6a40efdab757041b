-------------------------- MODULE FastMixerProofs --------------------------
(***************************************************************************)
(* The fast mixer and its MixerThread, for every set of tracks and of fast *)
(* indices, any ring of at least four states and any number of starts and  *)
(* standbys, whether or not cold idles are prompt.                         *)
(***************************************************************************)
EXTENDS FastMixer, StateQueueProofs, WellFoundedInduction

(***************************************************************************)
(* What the MixerThread has made of the state so far, also while push()    *)
(* has taken a slot that it has not yet copied to; the state pushed last;  *)
(* and the state the AudioMixer was last brought in line with.             *)
(***************************************************************************)
Latest == IF push.at = "published" THEN Deref(mNext) ELSE state
Pushed == Deref(mNext)
Base == IF fast.diff = "current" THEN current ELSE previous

FastPcs == {"created", "poll", "coldIdle", "wait", "asleep", "woken", "change", "work",
            "exited"}
NormalPcs == {"new", "constructed", "loop", "standby", "prepare", "write", "written", "join",
              "done"}

FastTypeOK ==
    /\ mStates \in [Ring -> FastMixerStates]
    /\ mIsDirty \in BOOLEAN
    /\ normal \in [pc : NormalPcs, remove : SUBSET Tracks]
    /\ fast \in [pc : FastPcs, diff : {"current", "previous", "preIdle"},
                 preIdle : FastMixerStates, coldGen : Nat, tracksGen : Nat,
                 generation : [FastIndices -> Nat],
                 mixes : [FastIndices -> Tracks \union {NoTrack}], expect : Int]
    /\ futex \in Int

(* The tracks and their indices. *)
TracksInv ==
    /\ index \in [DOMAIN index -> FastIndices] /\ DOMAIN index \subseteq Tracks
    /\ \A t, u \in DOMAIN index : index[t] = index[u] => t = u
    /\ active \subseteq DOMAIN index
    /\ normal.remove \subseteq active
    /\ normal.pc # "prepare" => normal.remove = {}

(* B is A or was made from A by prepareTracks_l. *)
Before(A, B) ==
    /\ A.tracksGen <= B.tracksGen
    /\ A.tracksGen = B.tracksGen => A.provider = B.provider /\ A.generation = B.generation
    /\ \A i \in FastIndices :
          /\ A.generation[i] <= B.generation[i]
          /\ A.generation[i] = B.generation[i] => A.provider[i] = B.provider[i]

(* The states that a MixerThread makes one after the other. *)
LineInv ==
    /\ Before(Base, current) /\ Before(current, Pushed) /\ Before(Pushed, Latest)
    /\ push.at \in {"published", "pushed"} \/ ~mIsDirty => Pushed = Latest
    /\ push.at = "pushed" => ~mIsDirty
    /\ Latest.command = "INITIAL" => normal.pc = "new" /\ ~mIsDirty
    /\ normal.pc = "new" => mNext = nullptr /\ push.at = "returned"
    /\ Pushed.command = "INITIAL" => mNext = nullptr
    /\ current.command = "INITIAL" => mCurrent = nullptr

(* Where the fast thread is, by the command it has read. *)
ThreadInv ==
    /\ fast.pc \in {"change", "work"} => current.command = "MIX_WRITE"
    /\ fast.pc \in {"coldIdle", "wait", "asleep", "woken"} => Idle(current)
    /\ Idle(current) => fast.diff = "preIdle"
    /\ fast.pc \in {"created", "poll"} /\ ~Idle(current) => fast.diff = "current"
    /\ fast.pc = "work" => fast.diff = "current"
    /\ fast.pc = "change" => fast.diff # "current"
    /\ normal.pc \in {"new", "constructed"} => fast.pc = "created"

(* The AudioMixer has the names and the providers of the base state. *)
MixInv ==
    /\ fast.mixes = Base.provider
    /\ fast.tracksGen = Base.tracksGen
    /\ \A i \in mTrackMask(Base) : fast.generation[i] = Base.generation[i]

(* Only in threadLoop_standby the fast thread may still be told to mix. *)
StandbyInv ==
    Latest.command = "COLD_IDLE" =>
      \/ /\ normal.pc = "standby" /\ push.at # "returned" /\ push.block = "ACKED"
         /\ push.at = "called" => mIsDirty
      \/ current.command # "MIX_WRITE" /\ Pushed.command # "MIX_WRITE"

(* The tracks of a state that the fast thread mixes, or is about to, are    *)
(* those of the latest state, or prepareTracks_l waits for their removal.   *)
Removing == normal.pc = "prepare" /\ push.at # "returned" /\ push.block = "ACKED"
                /\ (push.at = "called" => mIsDirty)
Covered(s) ==
    s.command = "MIX_WRITE" =>
      Providers(s) \subseteq Providers(Latest) \union (IF Removing THEN normal.remove ELSE {})
ProviderInv ==
    /\ \A i \in mTrackMask(Latest) :
          /\ Latest.provider[i] \in active \ normal.remove
          /\ index[Latest.provider[i]] = i
    /\ Covered(current) /\ Covered(Pushed)

FastInv == FastTypeOK /\ TracksInv /\ LineInv /\ ThreadInv /\ MixInv /\ StandbyInv /\ ProviderInv

-----------------------------------------------------------------------------
(* The states. *)

(* A slot, the state before the first push included, holds a state. *)
LEMMA sInitialType == Initial \in FastMixerStates
BY InitialAssumption DEF sInitial, FastMixerStates

(* A pointer of the state queue leads to a state. *)
LEMMA DerefType ==
    ASSUME FastTypeOK, NEW p \in Pointer
    PROVE  Deref(p) \in FastMixerStates
BY sInitialType DEF FastTypeOK, Deref, Pointer

(* What either thread sees of the queue is a state. *)
LEMMA StatesTyped ==
    ASSUME FastTypeOK, RingInv
    PROVE  /\ {state, current, Pushed, Latest, Base} \subseteq FastMixerStates
           /\ Deref(mPrevious) \in FastMixerStates
<1>1. current \in FastMixerStates /\ Pushed \in FastMixerStates
         /\ Deref(mPrevious) \in FastMixerStates
  BY DerefType DEF RingInv, PointersOK, current, Pushed
<1>2. state \in FastMixerStates
  BY DEF RingInv, PointersOK, FastTypeOK, state
<1>3. Latest \in FastMixerStates
  BY <1>1, <1>2 DEF Latest, Pushed
<1>4. Base \in FastMixerStates
  BY <1>1 DEF Base, previous, FastTypeOK
<1> QED BY <1>1, <1>2, <1>3, <1>4

(* Before is a preorder. *)
LEMMA BeforeSame ==
    ASSUME NEW A \in FastMixerStates, NEW B \in FastMixerStates,
           A.tracksGen = B.tracksGen, A.provider = B.provider, A.generation = B.generation
    PROVE  Before(A, B)
BY DEF Before, FastMixerStates

(* The order of the generations is transitive. *)
LEMMA BeforeTransitive ==
    ASSUME NEW A \in FastMixerStates, NEW B \in FastMixerStates, NEW C \in FastMixerStates,
           Before(A, B), Before(B, C)
    PROVE  Before(A, C)
<1>1. /\ {A.tracksGen, B.tracksGen, C.tracksGen} \subseteq Nat
      /\ \A i \in FastIndices : {A.generation[i], B.generation[i], C.generation[i]} \subseteq Nat
  BY DEF FastMixerStates
<1>2. A.tracksGen <= C.tracksGen
          /\ (A.tracksGen = C.tracksGen => A.tracksGen = B.tracksGen /\ B.tracksGen = C.tracksGen)
  BY <1>1 DEF Before
<1>3. ASSUME NEW i \in FastIndices
      PROVE  /\ A.generation[i] <= C.generation[i]
             /\ A.generation[i] = C.generation[i] => A.provider[i] = C.provider[i]
  BY <1>1, <1>3 DEF Before
<1> QED BY <1>2, <1>3 DEF Before

-----------------------------------------------------------------------------
(* What a step of the queue does to the states that either thread sees. *)

SameView ==
    /\ current' = current /\ Pushed' = Pushed /\ Deref(mPrevious)' = Deref(mPrevious)

(* Pointers and slots unchanged, so are the states. *)
LEMMA UnchangedView ==
    ASSUME UNCHANGED <<mStates, mNext, mCurrent, mPrevious, mMutating>>
    PROVE  SameView /\ state' = state
BY DEF SameView, current, Pushed, Deref, nullptr, state

(* A step that leaves the queue alone leaves what both threads see. *)
LEMMA QueueUnchanged ==
    ASSUME UNCHANGED queue
    PROVE  /\ SameView /\ Latest' = Latest
           /\ UNCHANGED <<mStates, mNext, mCurrent, mIsDirty, push>>
<1>1. SameView /\ state' = state /\ push' = push
  BY UnchangedView DEF queue
<1> QED BY <1>1 DEF Latest, Pushed, SameView, queue

(* A write to the slot being mutated is not seen by the fast thread. *)
LEMMA WriteView ==
    ASSUME RingInv, NEW s, mStates' = [mStates EXCEPT ![mMutating] = s],
           UNCHANGED <<mNext, mCurrent, mPrevious, mMutating>>
    PROVE  SameView /\ state' = s
<1>1. SameView
  BY WriteIsUnseen DEF Promise!vars, SameView, current, Pushed
<1>2. state' = s
  BY DEF RingInv, PointersOK, state
<1> QED BY <1>1, <1>2

(* A change followed by push is the latest state and not yet seen. *)
LEMMA MutateView ==
    ASSUME RingInv, NEW s, NEW block, MutateAndPush(s, block)
    PROVE  SameView /\ Latest = state /\ Latest' = s
BY WriteView DEF MutateAndPush, Latest

(* A push that starts changes no state. *)
LEMMA PushView ==
    ASSUME NEW block, Push(block)
    PROVE  SameView /\ Latest = state /\ Latest' = Latest
BY UnchangedView DEF Push, Latest

(* A push that returns, or that would block, changes no state. *)
LEMMA PushCleanView ==
    ASSUME RingInv, PushClean \/ WouldBlock \/ PushReturns
    PROVE  SameView /\ Latest = state /\ Latest' = Latest
<1>1. push.at # "published" /\ push'.at # "published"
  BY DEF RingInv, PointersOK, PushClean, WouldBlock, PushReturns, PushGoes
<1>2. SameView /\ state' = state
  BY UnchangedView DEF PushClean, WouldBlock, PushReturns
<1> QED BY <1>1, <1>2 DEF Latest

(* The store to mNext makes the latest state the pushed one. *)
LEMMA PublishView ==
    ASSUME RingInv, Publish
    PROVE  /\ current' = current /\ Deref(mPrevious)' = Deref(mPrevious)
           /\ Latest = state /\ Pushed' = Latest /\ Latest' = Latest
           /\ current = Pushed
<1>1. push.at # "published" /\ push'.at = "published"
  BY DEF RingInv, PointersOK, Publish, PushGoes
<1>2. mMutating # nullptr
  BY QueueAssumption DEF RingInv, PointersOK, Ring, nullptr
<1>3. Pushed' = state
  BY <1>2 DEF Publish, Pushed, Deref, state, nullptr
<1>4. current' = current /\ Deref(mPrevious)' = Deref(mPrevious)
  BY DEF Publish, current, Deref, nullptr
<1>5. current = Pushed
  BY AckedIsCurrent DEF Publish, RingInv, current, Pushed
<1> QED BY <1>1, <1>3, <1>4, <1>5 DEF Latest, Pushed

(* After the store, begin copies the pushed state and changes nothing else. *)
LEMMA CopyForwardView ==
    ASSUME RingInv, CopyForward
    PROVE  SameView /\ Latest = Pushed /\ Latest' = Latest
<1>1. push.at = "published" /\ push'.at # "published"
  BY DEF RingInv, PointersOK, CopyForward, PushGoes
<1>2. mStates[mExpecting] = Pushed
  BY <1>1 DEF RingInv, Awaits, Pushed, Deref
<1>3. SameView /\ state' = mStates[mExpecting]
  BY WriteView DEF CopyForward
<1> QED BY <1>1, <1>2, <1>3 DEF Latest, Pushed

(* poll makes the pushed state the current one. *)
LEMMA PollView ==
    ASSUME poll
    PROVE  /\ Deref(mPrevious)' = current /\ current' = Pushed /\ Pushed' = Pushed
           /\ Latest' = Latest
BY DEF poll, current, Pushed, Deref, nullptr, Latest, state

(* The base state is left alone unless the fast thread moves it. *)
LEMMA BaseSame ==
    ASSUME SameView, fast'.diff = fast.diff, fast'.preIdle = fast.preIdle
    PROVE  Base' = Base
BY DEF SameView, Base, previous

(* The lists of states as an action that leaves the queue alone sees them. *)
LEMMA Undisturbed ==
    ASSUME FastInv, UNCHANGED queue, UNCHANGED fast
    PROVE  /\ SameView /\ Latest' = Latest /\ Base' = Base
           /\ UNCHANGED <<mStates, mNext, mCurrent, mIsDirty, push>>
BY QueueUnchanged, BaseSame

-----------------------------------------------------------------------------
(* Binder threads. *)

(* Tracks come and go; those of the latest state stay as they are. *)
LEMMA TracksStep ==
    ASSUME FastInv, UNCHANGED <<queue, normal, fast, futex>>, TracksInv',
           \A t \in active \ normal.remove : t \in active' /\ index'[t] = index[t]
    PROVE  FastInv'
<1>1. /\ SameView /\ Latest' = Latest /\ Base' = Base
      /\ UNCHANGED <<mStates, mNext, mCurrent, mIsDirty, push>>
  BY Undisturbed
<1>2. FastTypeOK'
  BY <1>1 DEF FastInv, FastTypeOK
<1>3. LineInv'
  BY <1>1 DEF FastInv, LineInv, SameView
<1>4. ThreadInv'
  BY <1>1 DEF FastInv, ThreadInv, SameView
<1>5. MixInv'
  BY <1>1 DEF FastInv, MixInv
<1>6. StandbyInv'
  BY <1>1 DEF FastInv, StandbyInv, SameView
<1>7. ProviderInv'
  BY <1>1 DEF FastInv, ProviderInv, Covered, Removing, SameView
<1> QED BY <1>2, <1>3, <1>4, <1>5, <1>6, <1>7 DEF FastInv

(* A set of naturals has a least element. *)
LEMMA LeastIndex ==
    ASSUME NEW T, T \subseteq FastIndices, T # {}
    PROVE  Min(T) \in T
<1>1. T \subseteq Nat
  BY FastMixerAssumption
<1>2. PICK x \in T : \A y \in T : ~(<<y, x>> \in OpToRel(<, Nat))
  BY <1>1, NatLessThanWellFounded, WFMin
<1>3. \A y \in T : ~(y < x)
  BY <1>1, <1>2 DEF OpToRel
<1>4. \A y \in T : x <= y
  BY <1>1, <1>3
<1> QED BY <1>4 DEF Min

(* createTrack_l gives a track an index that no other has. *)
LEMMA CreateTrackInv ==
    ASSUME FastInv, NEW t \in Tracks, CreateTrack(t)
    PROVE  FastInv'
<1> USE DEF FastInv
<1>1. Min(mFastTrackAvailMask) \in mFastTrackAvailMask
  BY LeastIndex DEF CreateTrack, mFastTrackAvailMask
<1> DEFINE i == Min(mFastTrackAvailMask)
<1>2. i \in FastIndices /\ \A u \in DOMAIN index : index[u] # i
  BY <1>1 DEF mFastTrackAvailMask
<1> HIDE DEF i
<1>3. /\ t \notin DOMAIN index /\ DOMAIN index' = DOMAIN index \union {t}
      /\ index'[t] = i /\ \A u \in DOMAIN index : index'[u] = index[u]
      /\ index' = [u \in DOMAIN index' |-> index'[u]]
  BY DEF CreateTrack, i
<1>4. index' \in [DOMAIN index' -> FastIndices] /\ DOMAIN index' \subseteq Tracks
  BY <1>2, <1>3 DEF TracksInv
<1>5. \A u, v \in DOMAIN index' : index'[u] = index'[v] => u = v
  BY <1>2, <1>3 DEF TracksInv
<1>6. UNCHANGED <<active, normal>>
  BY DEF CreateTrack
<1>7. TracksInv'
  BY <1>3, <1>4, <1>5, <1>6 DEF TracksInv
<1>8. \A u \in active \ normal.remove : u \in active' /\ index'[u] = index[u]
  BY <1>3, <1>6 DEF TracksInv
<1> QED BY <1>7, <1>8, TracksStep DEF CreateTrack

(* Track::start keeps the invariant. *)
LEMMA StartTrackInv ==
    ASSUME FastInv, NEW t \in Tracks, StartTrack(t)
    PROVE  FastInv'
<1>1. TracksInv'
  BY DEF StartTrack, FastInv, TracksInv
<1> QED BY <1>1, TracksStep DEF StartTrack

(* What removeTrack_l leaves of the indices. *)
LEMMA RemoveTrackIndex ==
    ASSUME TracksInv, NEW ts, RemoveTrack(ts)
    PROVE  /\ DOMAIN index' = DOMAIN index \ ts
           /\ index' \in [DOMAIN index' -> FastIndices]
           /\ \A t \in DOMAIN index \ ts : index'[t] = index[t]
BY DEF TracksInv, RemoveTrack

(* Track::destroy keeps the invariant. *)
LEMMA DestroyTrackInv ==
    ASSUME FastInv, NEW t \in Tracks, DestroyTrack(t)
    PROVE  FastInv'
<1> USE DEF FastInv
<1>1. UNCHANGED <<active, normal>>
  BY DEF DestroyTrack
<1>2. CASE t \in active
  <2>1. index' = index
    BY <1>2 DEF DestroyTrack
  <2>2. TracksInv'
    BY <1>1, <2>1 DEF TracksInv
  <2> QED BY <1>1, <2>1, <2>2, TracksStep DEF DestroyTrack
<1>3. CASE t \notin active
  <2>1. RemoveTrack({t})
    BY <1>3 DEF DestroyTrack
  <2>2. /\ DOMAIN index' = DOMAIN index \ {t}
        /\ index' \in [DOMAIN index' -> FastIndices]
        /\ \A u \in DOMAIN index \ {t} : index'[u] = index[u]
    BY <2>1, RemoveTrackIndex
  <2>3. TracksInv'
    BY <1>1, <1>3, <2>2 DEF TracksInv
  <2>4. \A u \in active \ normal.remove : u \in active' /\ index'[u] = index[u]
    BY <1>1, <1>3, <2>2 DEF TracksInv
  <2> QED BY <2>3, <2>4, TracksStep DEF DestroyTrack
<1> QED BY <1>2, <1>3

-----------------------------------------------------------------------------
(* The MixerThread, the queue left alone. *)

(***************************************************************************)
(* The MixerThread goes on, the queue at rest, and at most wakes the fast  *)
(* thread.                                                                 *)
(***************************************************************************)
LEMMA NormalStep ==
    ASSUME FastInv, UNCHANGED <<queue, index, active>>, push.at = "returned" \/ normal.pc = "write",
           normal.pc \notin {"new", "constructed", "prepare"},
           NEW pc \in NormalPcs \ {"new", "constructed", "prepare"}, NormalGoes(pc),
           fast' = fast \/ fast' = Woken, futex' \in Int
    PROVE  FastInv'
<1> USE DEF FastInv
<1>1. /\ fast'.diff = fast.diff /\ fast'.preIdle = fast.preIdle /\ fast'.mixes = fast.mixes
      /\ fast'.tracksGen = fast.tracksGen /\ fast'.generation = fast.generation
      /\ fast'.pc = fast.pc \/ (fast.pc = "asleep" /\ fast'.pc = "woken")
  BY DEF Woken, FastTypeOK
<1>2. /\ SameView /\ Latest' = Latest /\ Base' = Base
      /\ UNCHANGED <<mStates, mNext, mCurrent, mIsDirty, push>>
  BY <1>1, QueueUnchanged, BaseSame
<1>3. normal'.pc = pc /\ normal'.remove = normal.remove
  BY DEF NormalGoes, FastTypeOK
<1>4. FastTypeOK'
  <2>1. normal' \in [pc : NormalPcs, remove : SUBSET Tracks]
    BY DEF NormalGoes, FastTypeOK
  <2>2. fast' \in [pc : FastPcs, diff : {"current", "previous", "preIdle"},
                 preIdle : FastMixerStates, coldGen : Nat, tracksGen : Nat,
                 generation : [FastIndices -> Nat],
                 mixes : [FastIndices -> Tracks \union {NoTrack}], expect : Int]
    BY DEF Woken, FastTypeOK, FastPcs
  <2> QED BY <1>2, <2>1, <2>2 DEF FastTypeOK
<1>5. TracksInv'
  BY <1>3 DEF TracksInv
<1>6. LineInv'
  BY <1>2, <1>3 DEF LineInv, SameView
<1>7. ThreadInv'
  BY <1>1, <1>2, <1>3 DEF ThreadInv, SameView
<1>8. MixInv'
  BY <1>1, <1>2 DEF MixInv
<1>9. StandbyInv'
  BY <1>2, <1>3 DEF StandbyInv, SameView
<1>10. ProviderInv'
  BY <1>2, <1>3 DEF ProviderInv, Covered, Removing, SameView
<1> QED BY <1>4, <1>5, <1>6, <1>7, <1>8, <1>9, <1>10

(* The steps of threadLoop that leave the state queue alone. *)
LEMMA PlainSteps ==
    ASSUME FastInv, WaitForWork \/ SkipWrite \/ Written \/ Joined
    PROVE  FastInv'
<1>1. /\ UNCHANGED <<queue, index, active>> /\ (push.at = "returned" \/ normal.pc = "write")
      /\ fast' = fast /\ futex' \in Int
  BY DEF WaitForWork, SkipWrite, Written, Joined, tracks, FastInv, FastTypeOK
<1>2. normal.pc \notin {"new", "constructed", "prepare"}
  BY DEF WaitForWork, SkipWrite, Written, Joined
<1>3. NormalGoes("loop") \/ NormalGoes("done")
  BY DEF WaitForWork, SkipWrite, Written, Joined
<1>4. {"loop", "done"} \subseteq NormalPcs \ {"new", "constructed", "prepare"}
  BY DEF NormalPcs
<1> QED BY <1>1, <1>2, <1>3, <1>4, NormalStep

(* run() starts the fast thread. *)
LEMMA RunInv ==
    ASSUME FastInv, Run
    PROVE  FastInv'
<1> USE DEF FastInv
<1>1. /\ fast'.pc = "poll" /\ fast'.diff = fast.diff /\ fast'.preIdle = fast.preIdle
      /\ fast'.mixes = fast.mixes
      /\ fast'.tracksGen = fast.tracksGen /\ fast'.generation = fast.generation
  BY DEF Run, FastTypeOK
<1>2. /\ SameView /\ Latest' = Latest /\ Base' = Base
      /\ UNCHANGED <<mStates, mNext, mCurrent, mIsDirty, push>>
  BY <1>1, QueueUnchanged, BaseSame DEF Run
<1>3. /\ normal'.pc = "loop" /\ normal'.remove = normal.remove /\ UNCHANGED <<index, active>>
      /\ normal.pc = "constructed" /\ fast.pc = "created" /\ push.at = "returned"
  BY DEF Run, NormalGoes, FastTypeOK, tracks, ThreadInv
<1>4. FastTypeOK'
  BY <1>2 DEF Run, NormalGoes, FastTypeOK, FastPcs, NormalPcs
<1>5. TracksInv'
  BY <1>3 DEF TracksInv
<1>6. LineInv'
  BY <1>2, <1>3 DEF LineInv, SameView
<1>7. ThreadInv'
  BY <1>1, <1>2, <1>3 DEF ThreadInv, SameView
<1>8. MixInv'
  BY <1>1, <1>2 DEF MixInv
<1>9. StandbyInv'
  BY <1>2, <1>3 DEF StandbyInv, SameView
<1>10. ProviderInv'
  BY <1>2, <1>3 DEF ProviderInv, Covered, Removing, SameView
<1> QED BY <1>4, <1>5, <1>6, <1>7, <1>8, <1>9, <1>10

(* removeTracks_l: the tracks it lets go are not in the latest state. *)
LEMMA RemoveTracksInv ==
    ASSUME FastInv, RemoveTracks
    PROVE  FastInv'
<1> USE DEF FastInv
<1>1. UNCHANGED <<queue, fast, futex>> /\ push.at = "returned" /\ normal.pc = "prepare"
  BY DEF RemoveTracks
<1>2. /\ SameView /\ Latest' = Latest /\ Base' = Base
      /\ UNCHANGED <<mStates, mNext, mCurrent, mIsDirty, push>>
  BY <1>1, Undisturbed
<1>3. normal'.pc = "write" /\ normal'.remove = {} /\ active' = active \ normal.remove
  BY DEF RemoveTracks
<1> DEFINE ts == normal.remove \intersect terminated
<1>4. /\ DOMAIN index' = DOMAIN index \ ts
      /\ index' \in [DOMAIN index' -> FastIndices]
      /\ \A t \in DOMAIN index \ ts : index'[t] = index[t]
  BY RemoveTrackIndex DEF RemoveTracks
<1>5. FastTypeOK'
  BY <1>1, <1>2 DEF RemoveTracks, FastTypeOK, NormalPcs
<1>6. TracksInv'
  BY <1>3, <1>4 DEF TracksInv
<1>7. LineInv'
  BY <1>1, <1>2, <1>3 DEF LineInv, SameView
<1>8. ThreadInv'
  BY <1>1, <1>2, <1>3 DEF ThreadInv, SameView
<1>9. MixInv'
  BY <1>1, <1>2 DEF MixInv
<1>10. StandbyInv'
  BY <1>1, <1>2, <1>3 DEF StandbyInv, SameView
<1>11. ProviderInv'
  <2>1. \A t \in active \ normal.remove : t \in active' \ normal'.remove /\ index'[t] = index[t]
    BY <1>3, <1>4 DEF TracksInv
  <2> QED BY <1>1, <1>2, <1>3, <2>1 DEF ProviderInv, Covered, Removing, SameView
<1> QED BY <1>5, <1>6, <1>7, <1>8, <1>9, <1>10, <1>11

-----------------------------------------------------------------------------
(* The MixerThread, with a push of a new state. *)

(* What holds of every mutation whose state comes after the latest one. *)
LEMMA MutateStep ==
    ASSUME FastInv, RingInv, NEW s \in FastMixerStates, NEW block \in Blocks,
           MutateAndPush(s, block), Before(state, s), s.command # "INITIAL",
           fast' = fast \/ fast' = Woken, futex' \in Int,
           normal' \in [pc : NormalPcs \ {"new"}, remove : SUBSET Tracks],
           normal'.pc = "constructed" => fast'.pc = "created"
    PROVE  /\ FastTypeOK' /\ LineInv' /\ ThreadInv' /\ MixInv'
           /\ SameView /\ Latest = state /\ Latest' = s
           /\ push.at = "returned" /\ push' = [at |-> "called", block |-> block] /\ mIsDirty'
<1> USE DEF FastInv
<1>1. /\ fast'.diff = fast.diff /\ fast'.preIdle = fast.preIdle /\ fast'.mixes = fast.mixes
      /\ fast'.tracksGen = fast.tracksGen /\ fast'.generation = fast.generation
      /\ fast'.pc = fast.pc \/ (fast.pc = "asleep" /\ fast'.pc = "woken")
  BY DEF Woken, FastTypeOK
<1>2. SameView /\ Latest = state /\ Latest' = s
  BY MutateView
<1>3. Base' = Base
  BY <1>1, <1>2, BaseSame
<1>4. /\ push.at = "returned" /\ push' = [at |-> "called", block |-> block] /\ mIsDirty'
      /\ UNCHANGED <<mNext, mCurrent>>
  BY DEF MutateAndPush
<1>5. FastTypeOK'
  <2>1. mStates' \in [Ring -> FastMixerStates] /\ mIsDirty' \in BOOLEAN
    BY DEF MutateAndPush, FastTypeOK
  <2>2. fast' \in [pc : FastPcs, diff : {"current", "previous", "preIdle"},
                 preIdle : FastMixerStates, coldGen : Nat, tracksGen : Nat,
                 generation : [FastIndices -> Nat],
                 mixes : [FastIndices -> Tracks \union {NoTrack}], expect : Int]
    BY DEF Woken, FastTypeOK, FastPcs
  <2> QED BY <2>1, <2>2 DEF FastTypeOK
<1>6. Before(Pushed, s)
  BY <1>2, StatesTyped, BeforeTransitive DEF LineInv
<1>7. LineInv'
  BY <1>2, <1>3, <1>4, <1>6 DEF LineInv, SameView
<1>8. ThreadInv'
  BY <1>1, <1>2, <1>3 DEF ThreadInv, SameView
<1>9. MixInv'
  BY <1>1, <1>3 DEF MixInv
<1> QED BY <1>2, <1>4, <1>5, <1>7, <1>8, <1>9

(* A change of the command alone leaves the tracks of the state alone. *)
LEMMA CommandStep ==
    ASSUME FastInv, RingInv, NEW s \in FastMixerStates, NEW block \in Blocks,
           MutateAndPush(s, block), s.command # "INITIAL",
           s.provider = state.provider, Before(state, s),
           fast' = fast \/ fast' = Woken, futex' \in Int,
           normal.pc # "prepare", UNCHANGED <<index, active>>,
           NEW pc \in NormalPcs \ {"new", "prepare"}, NormalGoes(pc),
           pc = "constructed" => fast'.pc = "created",
           s.command = "COLD_IDLE" =>
              \/ pc = "standby" /\ block = "ACKED"
              \/ current.command # "MIX_WRITE" /\ Pushed.command # "MIX_WRITE"
    PROVE  FastInv'
<1>1. normal'.pc = pc /\ normal'.remove = normal.remove
         /\ normal' \in [pc : NormalPcs \ {"new"}, remove : SUBSET Tracks]
  BY DEF NormalGoes, FastInv, FastTypeOK
<1>2. /\ FastTypeOK' /\ LineInv' /\ ThreadInv' /\ MixInv'
      /\ SameView /\ Latest = state /\ Latest' = s
      /\ push.at = "returned" /\ push' = [at |-> "called", block |-> block] /\ mIsDirty'
  BY <1>1, MutateStep
<1>3. TracksInv'
  BY <1>1 DEF FastInv, TracksInv
<1>4. StandbyInv'
  BY <1>1, <1>2 DEF StandbyInv, SameView
<1>5. ProviderInv'
  <2>1. mTrackMask(s) = mTrackMask(state) /\ Providers(s) = Providers(state)
    BY DEF mTrackMask, Providers
  <2> QED BY <1>1, <1>2, <2>1 DEF FastInv, ProviderInv, Covered, Removing, SameView
<1> QED BY <1>2, <1>3, <1>4, <1>5 DEF FastInv

(* The constructor of the MixerThread pushes its first state. *)
LEMMA ConstructInv ==
    ASSUME FastInv, RingInv, Construct
    PROVE  FastInv'
<1> DEFINE s == [state EXCEPT !.command = "COLD_IDLE", !.coldGen = @ + 1, !.tracksGen = @ + 1]
<1>1. state \in FastMixerStates /\ current \in FastMixerStates
  BY StatesTyped DEF FastInv
<1>2. /\ s \in FastMixerStates /\ s.command = "COLD_IDLE" /\ s.provider = state.provider
      /\ s.generation = state.generation /\ s.tracksGen = state.tracksGen + 1
  <2>1. state.coldGen + 1 \in Nat /\ state.tracksGen + 1 \in Nat
    BY <1>1 DEF FastMixerStates
  <2> QED BY <1>1, <2>1 DEF FastMixerStates
<1>3. MutateAndPush(s, "PUSHED") /\ "PUSHED" \in Blocks
  BY DEF Construct, Blocks
<1> HIDE DEF s
<1>4. Before(state, s)
  BY <1>1, <1>2 DEF Before, FastMixerStates
<1>5. /\ fast' = fast /\ futex' \in Int /\ UNCHANGED <<index, active>>
      /\ normal.pc # "prepare" /\ NormalGoes("constructed") /\ fast'.pc = "created"
  BY DEF Construct, tracks, FastInv, FastTypeOK, ThreadInv
<1>6. mNext = nullptr /\ mCurrent = nullptr
  <2>1. mNext = nullptr
    BY DEF Construct, FastInv, LineInv
  <2>2. After(mCurrent) \in Ring
    BY AfterInRing DEF RingInv, PointersOK
  <2>3. After(mCurrent) # nullptr
    BY <2>2, QueueAssumption DEF Ring, nullptr
  <2> QED BY <2>1, <2>3 DEF RingInv, Follows
<1>7. current.command # "MIX_WRITE" /\ Pushed.command # "MIX_WRITE"
  BY <1>6, InitialAssumption DEF current, Pushed, Deref, sInitial
<1>8. "constructed" \in NormalPcs \ {"new", "prepare"}
  BY DEF NormalPcs
<1> QED BY <1>2, <1>3, <1>4, <1>5, <1>7, <1>8, CommandStep

(* threadLoop_standby pushes COLD_IDLE. *)
LEMMA StandbyStepInv ==
    ASSUME FastInv, RingInv, Standby
    PROVE  FastInv'
<1> DEFINE s == [state EXCEPT !.command = "COLD_IDLE", !.coldGen = @ + 1]
<1>1. state \in FastMixerStates
  BY StatesTyped DEF FastInv
<1>2. /\ s \in FastMixerStates /\ s.command = "COLD_IDLE" /\ s.provider = state.provider
      /\ s.generation = state.generation /\ s.tracksGen = state.tracksGen
  <2>1. state.coldGen + 1 \in Nat /\ state.tracksGen + 1 \in Nat
    BY <1>1 DEF FastMixerStates
  <2> QED BY <1>1, <2>1 DEF FastMixerStates
<1>3. MutateAndPush(s, "ACKED") /\ "ACKED" \in Blocks
  BY DEF Standby, Blocks
<1> HIDE DEF s
<1>4. Before(state, s)
  BY <1>1, <1>2, BeforeSame
<1>5. /\ fast' = fast /\ futex' \in Int /\ UNCHANGED <<index, active>>
      /\ normal.pc # "prepare" /\ NormalGoes("standby")
  <2>1. futex' \in Int
    BY DEF Standby, ZeroFutex
  <2> QED BY <2>1 DEF Standby, tracks
<1>6. "standby" \in NormalPcs \ {"new", "prepare"}
  BY DEF NormalPcs
<1> QED BY <1>2, <1>3, <1>4, <1>5, <1>6, CommandStep

(* threadLoop_write and ~MixerThread leave the cold idle. *)
LEMMA WakeKeeps ==
    ASSUME FastInv, WakeFromColdIdle
    PROVE  (fast' = fast \/ fast' = Woken) /\ futex' \in Int
BY DEF WakeFromColdIdle, FastInv, FastTypeOK

(* A push of another command that wakes the fast thread. *)
LEMMA LeaveColdIdle ==
    ASSUME FastInv, RingInv, NEW c \in {"MIX_WRITE", "EXIT"},
           MutateAndPush([state EXCEPT !.command = c], "PUSHED"), WakeFromColdIdle,
           normal.pc # "prepare", UNCHANGED <<index, active>>,
           NEW pc \in {"written", "join"}, NormalGoes(pc)
    PROVE  FastInv'
<1> DEFINE s == [state EXCEPT !.command = c]
<1>1. state \in FastMixerStates
  BY StatesTyped DEF FastInv
<1>2. /\ s \in FastMixerStates /\ s.command = c /\ s.provider = state.provider
      /\ s.generation = state.generation /\ s.tracksGen = state.tracksGen
  BY <1>1 DEF FastMixerStates
<1>3. MutateAndPush(s, "PUSHED") /\ "PUSHED" \in Blocks
  BY DEF Blocks
<1> HIDE DEF s
<1>4. Before(state, s)
  BY <1>1, <1>2, BeforeSame
<1>5. pc \in NormalPcs \ {"new", "prepare"} /\ pc # "constructed"
  BY DEF NormalPcs
<1>6. s.command # "INITIAL" /\ s.command # "COLD_IDLE"
  BY <1>2
<1> QED BY <1>2, <1>3, <1>4, <1>5, <1>6, WakeKeeps, CommandStep

(* threadLoop_write keeps the invariant. *)
LEMMA WriteInv ==
    ASSUME FastInv, RingInv, Write
    PROVE  FastInv'
<1>1. normal.pc = "write" /\ WakeFromColdIdle /\ NormalGoes("written") /\ UNCHANGED <<index, active>>
  BY DEF Write, tracks
<1>2. CASE state.command = "MIX_WRITE"
  <2>1. UNCHANGED queue
    BY <1>2 DEF Write
  <2>2. "written" \in NormalPcs \ {"new", "constructed", "prepare"}
    BY DEF NormalPcs
  <2> QED BY <1>1, <2>1, <2>2, WakeKeeps, NormalStep
<1>3. CASE state.command # "MIX_WRITE"
  BY <1>1, <1>3, LeaveColdIdle DEF Write
<1> QED BY <1>2, <1>3

(* The destructor pushes EXIT. *)
LEMMA ExitInv ==
    ASSUME FastInv, RingInv, Exit
    PROVE  FastInv'
BY LeaveColdIdle DEF Exit, tracks

-----------------------------------------------------------------------------
(* prepareTracks_l *)

(* A track that leaves and is in the state is removed from it. *)
LEMMA LeavingIsRemoved ==
    ASSUME FastInv, push.at = "returned", NEW leaving \in SUBSET active,
           NEW i \in mTrackMask(state), state.provider[i] \in leaving
    PROVE  i \in Removed_l(leaving)
<1>1. Latest = state
  BY DEF Latest
<1> QED BY <1>1 DEF FastInv, ProviderInv, Removed_l

(* The provider that the state gets for each fast index. *)
LEMMA PreparedProvider ==
    ASSUME FastInv, push.at = "returned", normal.pc # "prepare",
           NEW leaving \in SUBSET active, NEW i \in FastIndices, NEW p,
           p = IF i \in Removed_l(leaving) THEN NoTrack
               ELSE IF i \in Added_l(leaving) THEN CHOOSE t \in active : index[t] = i
               ELSE state.provider[i]
    PROVE  /\ p # NoTrack => p \in active \ leaving /\ index[p] = i
           /\ i \in mTrackMask(state) => p = state.provider[i] \/ i \in Removed_l(leaving)
<1> USE DEF FastInv
<1>1. Latest = state
  BY DEF Latest
<1>2. CASE i \in Removed_l(leaving)
  BY <1>2
<1>3. CASE i \notin Removed_l(leaving) /\ i \in Added_l(leaving)
  <2>1. PICK t \in active \ leaving : index[t] = i
    BY <1>3 DEF Added_l
  <2>2. p \in active /\ index[p] = i
    BY <1>3, <2>1
  <2>3. p = t
    BY <2>1, <2>2 DEF TracksInv
  <2>4. i \notin mTrackMask(state)
    BY <1>3 DEF Added_l
  <2> QED BY <2>1, <2>3, <2>4
<1>4. CASE i \notin Removed_l(leaving) /\ i \notin Added_l(leaving)
  <2>1. p = state.provider[i]
    BY <1>4
  <2>2. p # NoTrack => i \in mTrackMask(state)
    BY <2>1 DEF mTrackMask
  <2>3. p # NoTrack => p \notin leaving
    BY <1>4, <2>1, <2>2, LeavingIsRemoved
  <2> QED BY <1>1, <2>1, <2>2, <2>3 DEF ProviderInv
<1> QED BY <1>2, <1>3, <1>4

(* The state that prepareTracks_l leaves: its tracks are active ones. *)
LEMMA PreparedState ==
    ASSUME FastInv, RingInv, push.at = "returned", normal.pc # "prepare",
           NEW leaving \in SUBSET active
    PROVE  LET P == Prepared(leaving) IN
           /\ P \in FastMixerStates /\ P.command = state.command /\ Before(state, P)
           /\ \A i \in mTrackMask(P) : P.provider[i] \in active \ leaving /\ index[P.provider[i]] = i
           /\ Providers(state) \subseteq Providers(P) \union leaving
           /\ Removed_l(leaving) = {} => Providers(state) \subseteq Providers(P)
<1> DEFINE P == Prepared(leaving)
           provider == [i \in FastIndices |->
                          IF i \in Removed_l(leaving) THEN NoTrack
                          ELSE IF i \in Added_l(leaving) THEN CHOOSE t \in active : index[t] = i
                          ELSE state.provider[i]]
           generation == [i \in FastIndices |->
                            IF i \in Added_l(leaving) \union Removed_l(leaving)
                            THEN state.generation[i] + 1 ELSE state.generation[i]]
<1>1. state \in FastMixerStates /\ Latest = state
  BY StatesTyped DEF FastInv, Latest
<1>2. \A i \in FastIndices :
          /\ provider[i] # NoTrack => provider[i] \in active \ leaving /\ index[provider[i]] = i
          /\ i \in mTrackMask(state) => provider[i] = state.provider[i] \/ i \in Removed_l(leaving)
  BY PreparedProvider
<1>3. provider = [i \in FastIndices |-> provider[i]] /\ active \subseteq Tracks
  BY DEF FastInv, TracksInv
<1>4. provider \in [FastIndices -> Tracks \union {NoTrack}]
  <2> HIDE DEF provider
  <2> QED BY <1>2, <1>3
<1>5. generation \in [FastIndices -> Nat] /\ state.tracksGen + 1 \in Nat
  BY <1>1 DEF FastMixerStates
<1>6. \A i \in FastIndices :
          /\ state.generation[i] <= generation[i]
          /\ state.generation[i] = generation[i] =>
                i \notin Added_l(leaving) \union Removed_l(leaving)
  BY <1>1 DEF FastMixerStates
<1>7. \A i \in FastIndices :
          i \notin Added_l(leaving) \union Removed_l(leaving) => provider[i] = state.provider[i]
  OBVIOUS
<1>8. P = [state EXCEPT !.provider = provider, !.generation = generation,
                        !.tracksGen = state.tracksGen + 1]
  BY <1>1 DEF Prepared, FastMixerStates
<1> HIDE DEF provider, generation, P
<1>9. /\ P \in FastMixerStates /\ P.command = state.command /\ P.provider = provider
      /\ P.generation = generation /\ P.tracksGen = state.tracksGen + 1
  BY <1>1, <1>4, <1>5, <1>8 DEF FastMixerStates
<1>10. Before(state, P)
  <2>1. state.tracksGen \in Nat
    BY <1>1 DEF FastMixerStates
  <2> QED BY <1>6, <1>7, <1>9, <2>1 DEF Before
<1>11. \A i \in mTrackMask(P) : P.provider[i] \in active \ leaving /\ index[P.provider[i]] = i
  BY <1>2, <1>9 DEF mTrackMask
<1>12. ASSUME NEW t \in Providers(state)
       PROVE  t \in Providers(P) \/ (t \in leaving /\ Removed_l(leaving) # {})
  <2>1. PICK i \in mTrackMask(state) : t = state.provider[i]
    BY DEF Providers
  <2>2. i \in FastIndices /\ t # NoTrack /\ t \in active /\ index[t] = i
    BY <1>1, <2>1 DEF mTrackMask, FastInv, ProviderInv
  <2>3. CASE provider[i] = t
    BY <1>9, <2>2, <2>3 DEF Providers, mTrackMask
  <2>4. CASE i \in Removed_l(leaving)
    <3>1. PICK u \in leaving : index[u] = i
      BY <2>4 DEF Removed_l
    <3>2. u = t
      BY <2>2, <3>1 DEF FastInv, TracksInv
    <3> QED BY <2>4, <3>1, <3>2
  <2> QED BY <1>2, <2>1, <2>2, <2>3, <2>4
<1> QED
  <2>1. /\ Providers(state) \subseteq Providers(P) \union leaving
        /\ Removed_l(leaving) = {} => Providers(state) \subseteq Providers(P)
    BY <1>12
  <2> QED BY <1>9, <1>10, <1>11, <2>1 DEF P

(* prepareTracks_l keeps the invariant. *)
LEMMA PrepareTracksInv ==
    ASSUME FastInv, RingInv, PrepareTracks
    PROVE  FastInv'
<1> USE DEF FastInv
<1>1. /\ normal.pc \in {"loop", "standby"} /\ push.at = "returned"
      /\ fast' = fast /\ futex' = futex /\ UNCHANGED <<index, active>>
  BY DEF PrepareTracks, tracks
<1>2. PICK leaving \in SUBSET active :
          /\ IF Added_l(leaving) \union Removed_l(leaving) # {}
             THEN MutateAndPush(Prepared(leaving), Block(Removed_l(leaving)))
             ELSE Push(Block(Removed_l(leaving)))
          /\ normal' = [pc |-> "prepare", remove |-> leaving]
  BY DEF PrepareTracks
<1> DEFINE P == Prepared(leaving)
           block == Block(Removed_l(leaving))
<1>3. block \in Blocks
  BY DEF Block, Blocks
<1>4. normal' \in [pc : NormalPcs \ {"new"}, remove : SUBSET Tracks]
         /\ normal'.pc = "prepare" /\ normal'.remove = leaving
  BY <1>2 DEF TracksInv, NormalPcs
<1>5. TracksInv'
  BY <1>1, <1>4 DEF TracksInv
<1>6. Latest = state /\ Latest.command # "INITIAL"
  BY <1>1 DEF Latest, LineInv
<1>7. /\ ~Removing
      /\ Idle(state) => current.command # "MIX_WRITE" /\ Pushed.command # "MIX_WRITE"
  BY <1>1, <1>6 DEF StandbyInv, Idle, Removing
<1>8. CASE Added_l(leaving) \union Removed_l(leaving) # {}
  <2>1. /\ P \in FastMixerStates /\ P.command = state.command /\ Before(state, P)
        /\ \A i \in mTrackMask(P) : P.provider[i] \in active \ leaving /\ index[P.provider[i]] = i
        /\ Providers(state) \subseteq Providers(P) \union leaving
        /\ Removed_l(leaving) = {} => Providers(state) \subseteq Providers(P)
    BY <1>1, PreparedState
  <2>2. MutateAndPush(P, block)
    BY <1>2, <1>8
  <2>3. block = "NEVER" => Idle(state)
    BY DEF Block, Idle
  <2>4. block = "PUSHED" => Removed_l(leaving) = {}
    BY DEF Block
  <2> HIDE DEF P, block
  <2>5. /\ FastTypeOK' /\ LineInv' /\ ThreadInv' /\ MixInv'
        /\ SameView /\ Latest' = P
        /\ push' = [at |-> "called", block |-> block] /\ mIsDirty'
    <3>1. P.command # "INITIAL" /\ futex' \in Int /\ normal'.pc # "constructed"
      BY <1>1, <1>4, <1>6, <2>1 DEF FastTypeOK
    <3> QED BY <1>1, <1>3, <1>4, <2>1, <2>2, <3>1, MutateStep
  <2>6. StandbyInv'
    BY <1>6, <1>7, <2>1, <2>5 DEF StandbyInv, SameView, Idle
  <2>7. ASSUME NEW s, s.command = "MIX_WRITE" => ~Idle(state), Covered(s)
        PROVE  s.command = "MIX_WRITE" =>
                 Providers(s) \subseteq Providers(P) \union (IF Removing' THEN leaving ELSE {})
    <3>1. CASE block = "ACKED"
      <4>1. Removing'
        BY <1>4, <2>5, <3>1 DEF Removing
      <4> QED BY <1>6, <1>7, <2>1, <2>7, <4>1 DEF Covered
    <3>2. CASE block = "PUSHED"
      BY <1>6, <1>7, <2>1, <2>4, <2>7, <3>2 DEF Covered
    <3>3. CASE block = "NEVER"
      BY <2>3, <2>7, <3>3
    <3> QED BY <1>3, <3>1, <3>2, <3>3 DEF Blocks
  <2>8. ProviderInv'
    <3>1. Covered(current) /\ Covered(Pushed)
      BY DEF ProviderInv
    <3>2. Covered(current)' /\ Covered(Pushed)'
      BY <1>4, <1>7, <2>5, <2>7, <3>1 DEF Covered, SameView
    <3> QED BY <1>1, <1>4, <2>1, <2>5, <3>2 DEF ProviderInv
  <2> QED BY <1>5, <2>5, <2>6, <2>8
<1>9. CASE Added_l(leaving) \union Removed_l(leaving) = {}
  <2>1. Push(block)
    BY <1>2, <1>9
  <2>2. /\ SameView /\ Latest' = Latest
        /\ UNCHANGED <<mStates, mNext, mCurrent, mIsDirty>>
        /\ push' = [at |-> "called", block |-> block]
    BY <2>1, PushView DEF Push
  <2>3. Base' = Base
    BY <1>1, <2>2, BaseSame
  <2>4. \A i \in mTrackMask(state) : state.provider[i] \notin leaving
    BY <1>1, <1>9, LeavingIsRemoved
  <2> HIDE DEF block
  <2>5. FastTypeOK'
    BY <1>1, <1>4, <2>2 DEF FastTypeOK
  <2>6. LineInv'
    BY <1>1, <1>4, <1>6, <2>2, <2>3 DEF LineInv, SameView
  <2>7. ThreadInv'
    BY <1>1, <1>4, <2>2 DEF ThreadInv, SameView
  <2>8. MixInv'
    BY <1>1, <2>3 DEF MixInv
  <2>9. StandbyInv'
    BY <1>6, <1>7, <2>2 DEF StandbyInv, SameView, Idle
  <2>10. ProviderInv'
    <3>1. \A i \in mTrackMask(Latest) :
            /\ Latest.provider[i] \in active \ leaving
            /\ index[Latest.provider[i]] = i
      BY <1>6, <2>4 DEF ProviderInv
    <3>2. Covered(current)' /\ Covered(Pushed)'
      BY <1>7, <2>2 DEF ProviderInv, Covered, SameView
    <3> QED BY <1>1, <1>4, <2>2, <3>1, <3>2 DEF ProviderInv
  <2> QED BY <1>5, <2>5, <2>6, <2>7, <2>8, <2>9, <2>10
<1> QED BY <1>8, <1>9

-----------------------------------------------------------------------------
(* push() *)

(* The steps of push(): what the other conjuncts of FastInv need of them. *)
LEMMA PushingKeeps ==
    ASSUME FastInv, RingInv, Pushing, current' = current,
           Deref(mPrevious)' = Deref(mPrevious), Latest' = Latest
    PROVE  FastTypeOK' /\ TracksInv' /\ ThreadInv' /\ MixInv' /\ Base' = Base
<1> USE DEF FastInv
<1>1. UNCHANGED <<normal, fast, futex, index, active>>
  BY DEF Pushing, tracks
<1>2. Base' = Base
  BY <1>1 DEF Base, previous
<1>3. mStates' \in [Ring -> FastMixerStates] /\ mIsDirty' \in BOOLEAN
  <2>1. CASE CopyForward
    <3>1. mExpecting \in Ring
      BY <2>1 DEF CopyForward, RingInv, PointersOK, Awaits, Pointer
    <3>2. mStates[mExpecting] \in FastMixerStates
      BY <3>1 DEF FastTypeOK
    <3> QED BY <2>1, <3>2 DEF CopyForward, FastTypeOK
  <2>2. CASE ~CopyForward
    BY <2>2 DEF Pushing, InPush, PushClean, WouldBlock, Publish, PushReturns, FastTypeOK
  <2> QED BY <2>1, <2>2
<1>4. FastTypeOK'
  BY <1>1, <1>3 DEF FastTypeOK
<1>5. TracksInv'
  BY <1>1 DEF TracksInv
<1>6. ThreadInv'
  BY <1>1 DEF ThreadInv
<1>7. MixInv'
  BY <1>1, <1>2 DEF MixInv
<1> QED BY <1>2, <1>4, <1>5, <1>6, <1>7

(* The steps of StateQueueMutator::push keep the invariant. *)
LEMMA PushingInv ==
    ASSUME FastInv, RingInv, Pushing
    PROVE  FastInv'
<1> USE DEF FastInv
<1>0. /\ UNCHANGED <<normal, index, active>>
      /\ push.at # "returned" /\ normal.pc # "new"
  <2>1. push.at # "returned"
    BY DEF Pushing, InPush, PushClean, WouldBlock, Publish, CopyForward, PushReturns
  <2> QED BY <2>1 DEF Pushing, tracks, LineInv
<1>t. push \in [at : {"returned", "called", "published", "pushed"}, block : Blocks]
  BY DEF RingInv, PointersOK
<1>1. CASE PushClean
  <2>1. SameView /\ Latest' = Latest
    BY <1>1, PushCleanView
  <2>2. FastTypeOK' /\ TracksInv' /\ ThreadInv' /\ MixInv' /\ Base' = Base
    BY <2>1, PushingKeeps DEF SameView
  <2>3. /\ push.at = "called" /\ ~mIsDirty /\ ~mIsDirty' /\ UNCHANGED <<mNext, mCurrent>>
        /\ push'.at = "pushed" /\ push'.block = push.block
    BY <1>1, <1>t DEF PushClean, PushGoes
  <2>4. LineInv'
    BY <1>0, <2>1, <2>2, <2>3 DEF LineInv, SameView
  <2>5. StandbyInv'
    BY <1>0, <2>1, <2>3 DEF StandbyInv, SameView
  <2>6. ProviderInv'
    BY <1>0, <2>1, <2>3 DEF ProviderInv, Covered, Removing, SameView
  <2> QED BY <2>2, <2>4, <2>5, <2>6
<1>2. CASE WouldBlock
  <2>1. SameView /\ Latest' = Latest
    BY <1>2, PushCleanView
  <2>2. FastTypeOK' /\ TracksInv' /\ ThreadInv' /\ MixInv' /\ Base' = Base
    BY <2>1, PushingKeeps DEF SameView
  <2>3. /\ push.at = "called" /\ mIsDirty /\ mIsDirty' /\ UNCHANGED <<mNext, mCurrent>>
        /\ push'.at = "returned" /\ push.block = "NEVER"
    BY <1>2, <1>t DEF WouldBlock, PushGoes
  <2>4. LineInv'
    BY <1>0, <2>1, <2>2, <2>3 DEF LineInv, SameView
  <2>5. StandbyInv'
    BY <1>0, <2>1, <2>3 DEF StandbyInv, SameView
  <2>6. ProviderInv'
    BY <1>0, <2>1, <2>3 DEF ProviderInv, Covered, Removing, SameView
  <2> QED BY <2>2, <2>4, <2>5, <2>6
<1>3. CASE Publish
  <2>1. /\ current' = current /\ Deref(mPrevious)' = Deref(mPrevious)
        /\ Pushed' = Latest /\ Latest' = Latest /\ current = Pushed
    BY <1>3, PublishView
  <2>2. FastTypeOK' /\ TracksInv' /\ ThreadInv' /\ MixInv' /\ Base' = Base
    BY <2>1, PushingKeeps
  <2>3. /\ push.at = "called" /\ mIsDirty /\ mIsDirty' /\ mCurrent' = mCurrent
        /\ push'.at = "published" /\ push'.block = push.block
    BY <1>3, <1>t DEF Publish, PushGoes
  <2>4. Latest.command # "INITIAL"
    BY <1>0 DEF LineInv
  <2>5. Before(Latest, Latest)
    BY StatesTyped, BeforeSame
  <2>6. LineInv'
    BY <1>0, <2>1, <2>2, <2>3, <2>4, <2>5 DEF LineInv
  <2>7. StandbyInv'
    BY <1>0, <2>1, <2>3 DEF StandbyInv
  <2>8. ProviderInv'
    BY <1>0, <2>1, <2>3 DEF ProviderInv, Covered, Removing
  <2> QED BY <2>2, <2>6, <2>7, <2>8
<1>4. CASE CopyForward
  <2>1. SameView /\ Latest' = Latest /\ Latest = Pushed
    BY <1>4, CopyForwardView
  <2>2. FastTypeOK' /\ TracksInv' /\ ThreadInv' /\ MixInv' /\ Base' = Base
    BY <2>1, PushingKeeps DEF SameView
  <2>3. /\ push.at = "published" /\ ~mIsDirty' /\ UNCHANGED <<mNext, mCurrent>>
        /\ push'.at = "pushed" /\ push'.block = push.block
    BY <1>4, <1>t DEF CopyForward, PushGoes
  <2>4. LineInv'
    BY <1>0, <2>1, <2>2, <2>3 DEF LineInv, SameView
  <2>5. StandbyInv'
    BY <1>0, <2>1, <2>3 DEF StandbyInv, SameView
  <2>6. ProviderInv'
    BY <1>0, <2>1, <2>3 DEF ProviderInv, Covered, Removing, SameView
  <2> QED BY <2>2, <2>4, <2>5, <2>6
<1>5. CASE PushReturns
  <2>1. SameView /\ Latest' = Latest
    BY <1>5, PushCleanView
  <2>2. FastTypeOK' /\ TracksInv' /\ ThreadInv' /\ MixInv' /\ Base' = Base
    BY <2>1, PushingKeeps DEF SameView
  <2>3. /\ push.at = "pushed" /\ mIsDirty' = mIsDirty /\ UNCHANGED <<mNext, mCurrent>>
        /\ push'.at = "returned" /\ push'.block = push.block
    BY <1>5, <1>t DEF PushReturns, PushGoes
  <2>4. Pushed = Latest /\ (push.block = "ACKED" => current = Latest)
    <3>1. push.block = "ACKED" => mCurrent = mNext
      BY <1>5, AckedIsCurrent DEF PushReturns, RingInv
    <3> QED BY <2>3, <3>1 DEF LineInv, current, Pushed
  <2>5. LineInv'
    BY <1>0, <2>1, <2>2, <2>3 DEF LineInv, SameView
  <2>6. StandbyInv'
    BY <1>0, <2>1, <2>3, <2>4 DEF StandbyInv, SameView
  <2>7. ProviderInv'
    BY <1>0, <2>1, <2>3, <2>4 DEF ProviderInv, Covered, Removing, SameView
  <2> QED BY <2>2, <2>5, <2>6, <2>7
<1> QED BY <1>1, <1>2, <1>3, <1>4, <1>5 DEF Pushing, InPush

-----------------------------------------------------------------------------
(* The fast thread. *)

(***************************************************************************)
(* The fast thread takes a step and the states stay as they are, its base  *)
(* state perhaps excepted.                                                 *)
(***************************************************************************)
LEMMA FastStep ==
    ASSUME FastInv, UNCHANGED <<queue, normal, index, active>>, futex' \in Int,
           fast' \in [pc : FastPcs, diff : {"current", "previous", "preIdle"},
                 preIdle : FastMixerStates, coldGen : Nat, tracksGen : Nat,
                 generation : [FastIndices -> Nat],
                 mixes : [FastIndices -> Tracks \union {NoTrack}], expect : Int],
           fast.pc # "created", Before(Base', current)
    PROVE  ThreadInv' /\ MixInv' => FastInv'
<1> USE DEF FastInv
<1>1. /\ SameView /\ Latest' = Latest
      /\ UNCHANGED <<mStates, mNext, mCurrent, mIsDirty, push>>
  BY QueueUnchanged
<1>2. FastTypeOK' /\ TracksInv'
  BY <1>1 DEF FastTypeOK, TracksInv
<1>3. LineInv'
  BY <1>1 DEF LineInv, SameView
<1>4. StandbyInv' /\ ProviderInv'
  BY <1>1 DEF StandbyInv, ProviderInv, Covered, Removing, SameView
<1> QED BY <1>2, <1>3, <1>4

(* Steps that leave the base state and the AudioMixer alone. *)
LEMMA FastMoves ==
    ASSUME FastInv, UNCHANGED <<queue, normal, index, active>>, futex' \in Int,
           fast.pc # "created",
           fast' \in [pc : FastPcs, diff : {"current", "previous", "preIdle"},
                 preIdle : FastMixerStates, coldGen : Nat, tracksGen : Nat,
                 generation : [FastIndices -> Nat],
                 mixes : [FastIndices -> Tracks \union {NoTrack}], expect : Int],
           fast'.diff = fast.diff, fast'.preIdle = fast.preIdle, fast'.mixes = fast.mixes,
           fast'.tracksGen = fast.tracksGen, fast'.generation = fast.generation
    PROVE  ThreadInv' => FastInv'
<1>1. Base' = Base
  BY QueueUnchanged, BaseSame
<1>2. MixInv'
  BY <1>1 DEF FastInv, MixInv
<1> QED BY <1>1, <1>2, FastStep DEF FastInv, LineInv

(* The cold idle, and onWork. *)
LEMMA FastMovesInv ==
    ASSUME FastInv, RingInv, ColdIdle \/ FutexWait \/ SpuriousWake \/ EndColdIdle \/ OnWork
    PROVE  FastInv'
<1> USE DEF FastInv
<1>1. /\ UNCHANGED <<queue, normal, index, active>> /\ fast.pc # "created"
      /\ fast.pc \in {"coldIdle", "wait", "asleep", "woken", "work"}
  BY DEF ColdIdle, FutexWait, SpuriousWake, EndColdIdle, OnWork, FastOnly, tracks
<1>2. futex' \in Int
  BY DEF ColdIdle, FutexWait, SpuriousWake, EndColdIdle, OnWork, FastOnly, FastTypeOK
<1>3. /\ fast' \in [pc : FastPcs, diff : {"current", "previous", "preIdle"},
                 preIdle : FastMixerStates, coldGen : Nat, tracksGen : Nat,
                 generation : [FastIndices -> Nat],
                 mixes : [FastIndices -> Tracks \union {NoTrack}], expect : Int]
      /\ fast'.diff = fast.diff /\ fast'.preIdle = fast.preIdle /\ fast'.mixes = fast.mixes
      /\ fast'.tracksGen = fast.tracksGen /\ fast'.generation = fast.generation
      /\ fast.pc = "work" => fast'.pc = "poll"
      /\ fast.pc # "work" => fast'.pc \in {"wait", "asleep", "woken", "poll"}
  <2>1. futex - 1 \in Int /\ 0 \in Int /\ current.coldGen \in Nat
    <3>1. futex \in Int /\ current \in FastMixerStates
      BY StatesTyped, Zenon DEF FastTypeOK
    <3>2. current.coldGen \in Nat
      BY <3>1 DEF FastMixerStates
    <3> QED BY <3>1, <3>2
  <2>2. {"wait", "asleep", "woken", "poll"} \subseteq FastPcs
    BY DEF FastPcs
  <2>3. CASE ColdIdle
    <3>1. fast.pc = "coldIdle" /\ "wait" \in FastPcs /\ "woken" \in FastPcs
      BY <2>2, <2>3, Zenon DEF ColdIdle
    <3>2. CASE fast' = [fast EXCEPT !.pc = "wait", !.expect = futex - 1]
      BY <2>1, <3>1, <3>2 DEF FastTypeOK
    <3>3. CASE fast' = [fast EXCEPT !.pc = "woken"]
      BY <3>1, <3>3 DEF FastTypeOK
    <3> QED BY <2>3, <3>2, <3>3, Zenon DEF ColdIdle
  <2>4. CASE FutexWait
    BY <2>1, <2>2, <2>4 DEF FutexWait, FastTypeOK
  <2>5. CASE SpuriousWake
    BY <2>2, <2>5 DEF SpuriousWake, FastGoes, FastTypeOK
  <2>6. CASE EndColdIdle
    BY <2>1, <2>2, <2>6 DEF EndColdIdle, FastTypeOK
  <2>7. CASE OnWork
    BY <2>2, <2>7 DEF OnWork, FastGoes, FastTypeOK
  <2> QED BY <2>3, <2>4, <2>5, <2>6, <2>7
<1>4. ThreadInv'
  <2>1. current' = current
    BY <1>1, QueueUnchanged DEF SameView
  <2> QED BY <1>1, <1>3, <2>1 DEF ThreadInv
<1> QED BY <1>1, <1>2, <1>3, <1>4, FastMoves

(***************************************************************************)
(* onStateChange: what it has updated, and what it leaves because it knows *)
(* that it did not change, is the current state.                           *)
(***************************************************************************)
LEMMA UpdatedIsCurrent ==
    ASSUME FastInv, RingInv, fast.pc = "change", NEW i \in FastIndices,
           \/ current.tracksGen = fast.tracksGen
           \/ i \notin Removed \union Added \union Modified
    PROVE  /\ fast.mixes[i] = current.provider[i]
           /\ i \in mTrackMask(current) => fast.generation[i] = current.generation[i]
<1> USE DEF FastInv
<1>1. Base = previous /\ previous \in FastMixerStates /\ Before(previous, current)
  BY StatesTyped DEF Base, ThreadInv, LineInv
<1>2. CASE current.tracksGen = fast.tracksGen
  <2>1. previous.provider = current.provider /\ previous.generation = current.generation
    BY <1>1, <1>2 DEF MixInv, Before
  <2> QED BY <1>1, <2>1 DEF MixInv, mTrackMask
<1>3. CASE i \notin Removed \union Added \union Modified
  <2>1. i \in mTrackMask(current) <=> i \in mTrackMask(previous)
    BY <1>3 DEF Removed, Added
  <2>2. CASE i \in mTrackMask(current)
    <3>1. fast.generation[i] = current.generation[i] /\ fast.generation[i] = previous.generation[i]
      BY <1>1, <1>3, <2>1, <2>2 DEF Modified, MixInv
    <3>2. previous.provider[i] = current.provider[i]
      BY <1>1, <3>1 DEF Before
    <3> QED BY <1>1, <3>1, <3>2 DEF MixInv
  <2>3. CASE i \notin mTrackMask(current)
    <3>1. previous.provider[i] = NoTrack /\ current.provider[i] = NoTrack
      BY <2>1, <2>3 DEF mTrackMask
    <3> QED BY <1>1, <2>3, <3>1 DEF MixInv
  <2> QED BY <2>2, <2>3
<1> QED BY <1>2, <1>3

(* FastMixer::onStateChange keeps the invariant. *)
LEMMA OnStateChangeInv ==
    ASSUME FastInv, RingInv, OnStateChange
    PROVE  FastInv'
<1> USE DEF FastInv
<1> DEFINE updated == IF current.tracksGen = fast.tracksGen THEN {}
                      ELSE Removed \union Added \union Modified
           generation == [i \in FastIndices |->
                IF i \in updated THEN current.generation[i] ELSE fast.generation[i]]
           mixes == [i \in FastIndices |->
                IF i \in updated THEN current.provider[i] ELSE fast.mixes[i]]
<1>1. /\ fast.pc = "change" /\ UNCHANGED <<queue, normal, index, active>> /\ futex' \in Int
  BY DEF OnStateChange, FastOnly, tracks, FastTypeOK
<1>2. current \in FastMixerStates /\ "work" \in FastPcs
  BY StatesTyped DEF FastPcs
<1>3. /\ generation \in [FastIndices -> Nat]
      /\ mixes \in [FastIndices -> Tracks \union {NoTrack}]
  BY <1>2 DEF FastMixerStates, FastTypeOK
<1>4. \A i \in FastIndices :
          /\ mixes[i] = current.provider[i]
          /\ i \in mTrackMask(current) => generation[i] = current.generation[i]
  BY <1>1, UpdatedIsCurrent
<1>5. fast' = [fast EXCEPT !.pc = "work", !.diff = "current", !.tracksGen = current.tracksGen,
                           !.generation = generation, !.mixes = mixes]
  BY DEF OnStateChange, FastTypeOK
<1> HIDE DEF updated, generation, mixes
<1>6. /\ fast' \in [pc : FastPcs, diff : {"current", "previous", "preIdle"},
                 preIdle : FastMixerStates, coldGen : Nat, tracksGen : Nat,
                 generation : [FastIndices -> Nat],
                 mixes : [FastIndices -> Tracks \union {NoTrack}], expect : Int]
      /\ fast'.pc = "work" /\ fast'.diff = "current" /\ fast'.tracksGen = current.tracksGen
      /\ fast'.generation = generation /\ fast'.mixes = mixes
  BY <1>2, <1>3, <1>5 DEF FastTypeOK, FastMixerStates
<1>7. current' = current
  BY <1>1, QueueUnchanged DEF SameView
<1>8. Base' = current /\ Before(current, current)
  BY <1>2, <1>6, <1>7, BeforeSame DEF Base
<1>9. mixes = current.provider
  BY <1>2, <1>3, <1>4 DEF FastMixerStates
<1>10. MixInv'
  BY <1>4, <1>6, <1>8, <1>9 DEF MixInv, mTrackMask
<1>11. ThreadInv'
  BY <1>1, <1>6, <1>7 DEF ThreadInv, Idle
<1> QED BY <1>1, <1>6, <1>8, <1>10, <1>11, FastStep

(* A new state, or the old one again, and the switch on its command. *)
LEMMA FastPollInv ==
    ASSUME FastInv, RingInv, FastPoll
    PROVE  FastInv'
<1> USE DEF FastInv
<1> DEFINE s == Deref(mNext)
           shift == ShiftPrevious(s)
<1>1. /\ fast.pc = "poll" /\ futex' \in Int /\ UNCHANGED <<normal, index, active>>
      /\ s = Pushed /\ normal.pc \notin {"new", "constructed"}
  BY DEF FastPoll, FastOnly, tracks, FastTypeOK, Pushed, ThreadInv
<1>2. \A diff : AfterPoll(s, diff) \in FastPcs
  BY DEF AfterPoll, FastPcs
<1>3. {current, Pushed, Latest, Base} \subseteq FastMixerStates
  BY StatesTyped
<1>4. CASE /\ poll
           /\ fast' = [fast EXCEPT !.pc = AfterPoll(s, shift.diff), !.diff = shift.diff,
                                   !.preIdle = shift.preIdle]
  <2>1. /\ Deref(mPrevious)' = current /\ current' = Pushed /\ Pushed' = Pushed
        /\ Latest' = Latest
    BY <1>4, PollView
  <2>2. /\ UNCHANGED <<mStates, mNext, mIsDirty, push>> /\ mCurrent' = mNext
        /\ mNext # mCurrent
    BY <1>4 DEF poll
  <2>3. Pushed.command # "INITIAL"
    <3>1. After(mCurrent) \in Ring
      BY AfterInRing DEF RingInv, PointersOK
    <3>2. After(mCurrent) # nullptr
      BY <3>1, QueueAssumption DEF Ring, nullptr
    <3> QED BY <2>2, <3>2 DEF RingInv, Follows, LineInv
  <2>4. /\ shift.diff \in {"current", "previous", "preIdle"} /\ shift.preIdle \in FastMixerStates
        /\ Idle(current) => shift.diff = "preIdle" /\ shift.preIdle = fast.preIdle
        /\ ~Idle(current) /\ Idle(Pushed) => shift.diff = "preIdle" /\ shift.preIdle = current
        /\ ~Idle(current) /\ ~Idle(Pushed) => shift.diff = "previous"
    BY <1>1, <1>3 DEF ShiftPrevious, FastTypeOK, ThreadInv
  <2>5. \A diff : AfterPoll(s, diff) =
            IF Idle(Pushed) /\ Pushed.coldGen # fast.coldGen THEN "coldIdle"
            ELSE IF Idle(Pushed) \/ Pushed.command = "INITIAL" THEN "poll"
            ELSE IF Pushed.command = "EXIT" THEN "exited"
            ELSE IF diff # "current" THEN "change" ELSE "work"
    BY <1>1 DEF AfterPoll
  <2>6. fast'.pc = AfterPoll(s, shift.diff) /\ fast'.diff = shift.diff
          /\ fast'.preIdle = shift.preIdle /\ fast'.mixes = fast.mixes
          /\ fast'.tracksGen = fast.tracksGen /\ fast'.generation = fast.generation
    BY <1>4 DEF FastTypeOK
  <2>7. FastTypeOK'
    <3> HIDE DEF shift, s
    <3> QED BY <1>1, <1>2, <1>4, <2>2, <2>4 DEF FastTypeOK
  <2> HIDE DEF shift, s
  <2>8. Base' = Base
    <3>1. Idle(current) => Base = fast.preIdle
      BY DEF ThreadInv, Base, previous
    <3>2. ~Idle(current) => Base = current
      BY <1>1 DEF ThreadInv, Base
    <3> QED BY <2>1, <2>4, <2>6, <3>1, <3>2 DEF Base, previous
  <2>9. Before(Base, Pushed) /\ Before(Pushed, Pushed)
    BY <1>3, BeforeTransitive, BeforeSame DEF LineInv
  <2>10. LineInv'
    BY <1>1, <2>1, <2>2, <2>3, <2>8, <2>9 DEF LineInv
  <2>11. Pushed.command \in {"COLD_IDLE", "MIX_WRITE", "EXIT"}
    BY <1>3, <2>3 DEF FastMixerStates
  <2>12. ThreadInv'
    BY <1>1, <2>1, <2>4, <2>5, <2>6, <2>11 DEF ThreadInv, Idle
  <2>13. MixInv'
    BY <2>6, <2>8 DEF MixInv
  <2>14. TracksInv' /\ StandbyInv' /\ ProviderInv'
    BY <1>1, <2>1, <2>2 DEF TracksInv, StandbyInv, ProviderInv, Covered, Removing
  <2> QED BY <2>7, <2>10, <2>12, <2>13, <2>14
<1>5. CASE /\ mNext = mCurrent
           /\ FastGoes(AfterPoll(s, fast.diff))
           /\ UNCHANGED queue
  <2>1. /\ fast' \in [pc : FastPcs, diff : {"current", "previous", "preIdle"},
                 preIdle : FastMixerStates, coldGen : Nat, tracksGen : Nat,
                 generation : [FastIndices -> Nat],
                 mixes : [FastIndices -> Tracks \union {NoTrack}], expect : Int]
        /\ fast'.pc = AfterPoll(s, fast.diff)
        /\ fast'.diff = fast.diff /\ fast'.preIdle = fast.preIdle /\ fast'.mixes = fast.mixes
        /\ fast'.tracksGen = fast.tracksGen /\ fast'.generation = fast.generation
    <3> HIDE DEF s
    <3> QED BY <1>2, <1>5 DEF FastGoes, FastTypeOK
  <2>2. current' = current /\ s = current
    BY <1>5, QueueUnchanged DEF SameView, current
  <2>3. current.command \in {"INITIAL", "COLD_IDLE", "MIX_WRITE", "EXIT"}
    BY <1>3 DEF FastMixerStates
  <2>4. AfterPoll(s, fast.diff) =
            IF Idle(current) /\ current.coldGen # fast.coldGen THEN "coldIdle"
            ELSE IF Idle(current) \/ current.command = "INITIAL" THEN "poll"
            ELSE IF current.command = "EXIT" THEN "exited"
            ELSE IF fast.diff # "current" THEN "change" ELSE "work"
    BY <2>2 DEF AfterPoll
  <2> HIDE DEF s
  <2>5. ThreadInv'
    BY <1>1, <2>1, <2>2, <2>3, <2>4 DEF ThreadInv, Idle
  <2> QED BY <1>1, <1>5, <2>1, <2>5, FastMoves
<1> QED BY <1>4, <1>5 DEF FastPoll

-----------------------------------------------------------------------------
(* The whole. *)

(* The invariant holds before the first step. *)
LEMMA FastInitInv == Init => RingInv /\ FastInv
<1> SUFFICES ASSUME Init PROVE RingInv /\ FastInv
  OBVIOUS
<1>1. RingInv
  BY RingInit DEF Init
<1>2. Initial \in FastMixerStates /\ Initial = sInitial
  BY sInitialType, InitialAssumption
<1>3. /\ mNext = nullptr /\ mCurrent = nullptr /\ mIsDirty = FALSE
      /\ push.at = "returned" /\ mMutating = 0 /\ 0 \in Ring
  BY QueueAssumption DEF Init, QueueInit, Ring
<1>4. state = Initial /\ current = Initial /\ Pushed = Initial /\ Latest = Initial
         /\ Base = Initial
  <2>1. state = Initial
    BY <1>3 DEF Init, QueueInit, state
  <2> QED BY <1>3, <2>1 DEF Init, current, Pushed, Latest, Base, Deref
<1>5. sInitial.command = "INITIAL" /\ sInitial.tracksGen = 0 /\ mTrackMask(sInitial) = {}
         /\ Providers(sInitial) = {}
  BY DEF sInitial, mTrackMask, Providers
<1>6. FastTypeOK
  <2>1. sInitial.generation \in [FastIndices -> Nat]
          /\ sInitial.provider \in [FastIndices -> Tracks \union {NoTrack}]
    BY DEF sInitial
  <2>2. mStates \in [Ring -> FastMixerStates] /\ futex \in Int
    BY <1>2 DEF Init, QueueInit
  <2> QED BY <1>2, <1>3, <2>1, <2>2 DEF Init, FastTypeOK, NormalPcs, FastPcs
<1>7. TracksInv
  BY DEF Init, TracksInv
<1>8. LineInv
  BY <1>2, <1>3, <1>4, <1>5, BeforeSame DEF LineInv, Init
<1>9. ThreadInv /\ MixInv /\ StandbyInv /\ ProviderInv
  BY <1>2, <1>4, <1>5 DEF Init, ThreadInv, MixInv, StandbyInv, ProviderInv, Covered, Idle
<1> QED BY <1>1, <1>6, <1>7, <1>8, <1>9 DEF FastInv

(* Every step of the two threads is a step of the queue or leaves it alone. *)
LEMMA QueueOfNext == RingInv /\ FastInv /\ [Next]_vars => [QueueStep]_queue
<1> SUFFICES ASSUME RingInv, FastInv, [Next]_vars PROVE [QueueStep]_queue
  OBVIOUS
<1>1. {"PUSHED", "ACKED"} \subseteq Blocks /\ \A r : Block(r) \in Blocks
  BY DEF Blocks, Block
<1>2. CASE Binder
  BY <1>2 DEF Binder, CreateTrack, StartTrack, DestroyTrack
<1>3. CASE Construct \/ Standby \/ Exit
  BY <1>1, <1>3 DEF Construct, Standby, Exit, QueueStep
<1>4. CASE PrepareTracks
  BY <1>1, <1>4 DEF PrepareTracks, QueueStep
<1>5. CASE Write
  BY <1>1, <1>5 DEF Write, QueueStep
<1>6. CASE Run \/ WaitForWork \/ RemoveTracks \/ SkipWrite \/ Written \/ Joined
  BY <1>6 DEF Run, WaitForWork, RemoveTracks, SkipWrite, Written, Joined
<1>7. CASE Pushing
  BY <1>7 DEF Pushing, QueueStep
<1>8. CASE FastPoll
  BY <1>8 DEF FastPoll, QueueStep
<1>9. CASE ColdIdle \/ FutexWait \/ EndColdIdle \/ OnStateChange \/ OnWork \/ SpuriousWake
  BY <1>9 DEF ColdIdle, FutexWait, EndColdIdle, OnStateChange, OnWork, SpuriousWake
<1>10. CASE UNCHANGED vars
  BY <1>10 DEF vars
<1> QED
  BY <1>2, <1>3, <1>4, <1>5, <1>6, <1>7, <1>8, <1>9, <1>10 DEF Next, Normal, Fast

(* Every step of either thread keeps the invariant. *)
LEMMA FastNextInv == RingInv /\ FastInv /\ [Next]_vars => (RingInv /\ FastInv)'
<1> SUFFICES ASSUME RingInv, FastInv, [Next]_vars PROVE RingInv' /\ FastInv'
  OBVIOUS
<1>1. RingInv'
  BY QueueOfNext, RingNext
<1>2. CASE Binder
  BY <1>1, <1>2, CreateTrackInv, StartTrackInv, DestroyTrackInv DEF Binder
<1>3. CASE Normal
  BY <1>1, <1>3, ConstructInv, RunInv, StandbyStepInv, PlainSteps, PrepareTracksInv, RemoveTracksInv,
     WriteInv, ExitInv DEF Normal
<1>4. CASE Pushing
  BY <1>1, <1>4, PushingInv
<1>5. CASE Fast \/ SpuriousWake
  BY <1>1, <1>5, FastPollInv, FastMovesInv, OnStateChangeInv DEF Fast
<1>6. CASE UNCHANGED vars
  <2>1. UNCHANGED <<queue, normal, fast, futex, index, active>>
    BY <1>6 DEF vars
  <2>2. TracksInv'
    BY <2>1 DEF FastInv, TracksInv
  <2> QED BY <1>1, <2>1, <2>2, TracksStep
<1> QED BY <1>1, <1>2, <1>3, <1>4, <1>5, <1>6 DEF Next

(* The invariant holds in every reachable state. *)
LEMMA FastInvariant == Spec => [](RingInv /\ FastInv)
BY FastInitInv, FastNextInv, PTL DEF Spec

-----------------------------------------------------------------------------
(***************************************************************************)
(* The fast thread does no I/O from the return of threadLoop_standby to    *)
(* threadLoop_write: standby waits until the cold idle is acknowledged,    *)
(* and the only state pushed in between is one more cold idle.             *)
(***************************************************************************)
THEOREM FastMixerIsQuiet == Spec => []QuietInStandby
<1>1. RingInv /\ FastInv => QuietInStandby
  <2> SUFFICES ASSUME FastInv, state.command = "COLD_IDLE", push.at = "returned",
                      fast.pc \in {"change", "work"}
               PROVE  FALSE
    BY DEF QuietInStandby
  <2>1. Latest = state /\ current.command = "MIX_WRITE"
    BY DEF Latest, FastInv, ThreadInv
  <2> QED BY <2>1 DEF FastInv, StandbyInv
<1> QED BY <1>1, FastInvariant, PTL

(***************************************************************************)
(* onStateChange never destroys a name that the AudioMixer does not have   *)
(* nor creates one that it has, and leaves it with the providers of the    *)
(* current state: for each index the providers of two states of one        *)
(* generation are the same.                                                *)
(***************************************************************************)
THEOREM FastMixerDiffFits == Spec => []DiffFits
<1>1. RingInv /\ FastInv => DiffFits
  <2> SUFFICES ASSUME FastInv PROVE DiffFits
    OBVIOUS
  <2>1. ASSUME fast.pc = "change"
        PROVE  /\ \A i \in Removed : fast.mixes[i] # NoTrack
               /\ \A i \in Added : fast.mixes[i] = NoTrack
    <3>1. fast.mixes = previous.provider
      BY <2>1 DEF FastInv, ThreadInv, MixInv, Base
    <3> QED BY <3>1 DEF Removed, Added, mTrackMask
  <2>2. fast.pc = "work" => fast.mixes = current.provider
    BY DEF FastInv, ThreadInv, MixInv, Base
  <2> QED BY <2>1, <2>2 DEF DiffFits
<1> QED BY <1>1, FastInvariant, PTL

(***************************************************************************)
(* The fast thread only calls tracks of mActiveTracks, and none that       *)
(* prepareTracks_l is about to let go: a removal is waited for unless the  *)
(* fast thread is cold, and then it has no state that tells it to mix.     *)
(***************************************************************************)
THEOREM FastMixerUsesActive == Spec => []UsedIsActive
<1>1. RingInv /\ FastInv => UsedIsActive
  <2> SUFFICES ASSUME FastInv PROVE UsedIsActive
    OBVIOUS
  <2> USE DEF FastInv
  <2>1. Providers(Latest) \subseteq active \ normal.remove
    BY DEF ProviderInv, Providers
  <2>2. ASSUME fast.pc \in {"change", "work"}
        PROVE  Providers(current) \subseteq active \ LetGo
    <3>1. current.command = "MIX_WRITE"
      BY <2>2 DEF ThreadInv
    <3>2. Providers(current) \subseteq
             Providers(Latest) \union (IF Removing THEN normal.remove ELSE {})
      BY <3>1 DEF ProviderInv, Covered
    <3>3. CASE Removing
      BY <2>1, <3>2, <3>3 DEF Removing, LetGo, TracksInv
    <3>4. CASE ~Removing
      BY <2>1, <3>2, <3>4 DEF LetGo
    <3> QED BY <3>3, <3>4
  <2>3. fast.pc = "work" => {fast.mixes[i] : i \in mTrackMask(current)} = Providers(current)
    BY DEF ThreadInv, MixInv, Base, Providers
  <2>4. Used \subseteq active \ LetGo
    BY <2>2, <2>3 DEF Used
  <2>5. push.at = "returned" => Providers(state) \subseteq active
    BY <2>1 DEF Latest
  <2> QED BY <2>4, <2>5 DEF UsedIsActive
<1> QED BY <1>1, FastInvariant, PTL
=============================================================================
