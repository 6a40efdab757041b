-------------------------- MODULE StateQueueProofs --------------------------
(***************************************************************************)
(* The state queue keeps its promise in a ring of any kN >= 4 states       *)
(* ("values < 4 are not supported by this code", StateQueue.h:184), for    *)
(* any states and any sequence of pushes and polls.                        *)
(***************************************************************************)
EXTENDS StateQueue, TLAPS

(***************************************************************************)
(* The types, first without a regard to what the slots hold.               *)
(***************************************************************************)
PointersOK ==
    /\ mStates = [i \in Ring |-> mStates[i]]
    /\ {mNext, mAck, mExpecting, mCurrent, mPrevious} \subseteq Pointer
    /\ mMutating \in Ring
    /\ push \in [at : {"returned", "called", "published", "pushed"}, block : Blocks]

SlotsOK == \A i \in Ring : mStates[i] \in States

(***************************************************************************)
(* The observer's two slots and the next one follow each other around the  *)
(* ring, and the mutator's is the slot after them: After(nullptr) = 0.     *)
(* mExpecting, while set, is mNext, which makes the mutator wait until the *)
(* observer has moved up before it takes one more slot.                    *)
(***************************************************************************)
Follows ==
    /\ mMutating = After(mNext)
    /\ mNext = mCurrent \/ mNext = After(mCurrent)
    /\ mCurrent = After(mPrevious) \/ (mCurrent = nullptr /\ mPrevious = nullptr)

Awaits ==
    /\ mAck = mCurrent
    /\ mExpecting = nullptr \/ mExpecting = mNext
    /\ mExpecting = nullptr => mCurrent = mNext
    /\ push.at = "published" => mExpecting = mNext /\ mNext # nullptr

RingInv == PointersOK /\ Follows /\ Awaits
QueueInv == RingInv /\ SlotsOK

(***************************************************************************)
(* A step of the queue, whatever is written to a slot.                     *)
(***************************************************************************)
QueueStep ==
    \/ \E block \in Blocks : Push(block) \/ \E s : MutateAndPush(s, block)
    \/ InPush
    \/ poll

-----------------------------------------------------------------------------
(* The slot after a pointer is a slot, and another one. *)
LEMMA AfterInRing ==
    ASSUME NEW p \in Pointer
    PROVE  After(p) \in Ring /\ After(p) # p
BY QueueAssumption, SMT DEF After, Pointer, Ring, nullptr

(***************************************************************************)
(* begin(), the caller's changes in place and the copy in push() write to  *)
(* a slot that is none of mNext, mCurrent and mPrevious: four slots in a   *)
(* row are different.                                                      *)
(***************************************************************************)
LEMMA MutatingIsFree ==
    ASSUME PointersOK, Follows
    PROVE  mMutating \notin {mNext, mCurrent, mPrevious}
BY QueueAssumption, SMT DEF PointersOK, Follows, After, Pointer, Ring, nullptr

(* What a pointer leads to is a state. *)
LEMMA DerefIsState ==
    ASSUME SlotsOK, NEW p \in Pointer
    PROVE  Deref(p) \in States
BY QueueAssumption, Zenon DEF SlotsOK, Deref, Pointer

(* Once the prior push is acknowledged the observer is at mNext. *)
LEMMA AckedIsCurrent ==
    ASSUME Awaits, PriorIsAcked
    PROVE  mCurrent = mNext
BY Zenon DEF Awaits, PriorIsAcked

(* The queue as constructed. *)
LEMMA RingInit == QueueInit => RingInv
BY QueueAssumption, SMT DEF QueueInit, RingInv, PointersOK, Follows, Awaits,
    After, Pointer, Ring, nullptr, Blocks

(* The invariant holds before the first step. *)
LEMMA QueueInitInv == QueueInit => QueueInv
BY QueueAssumption, RingInit, Zenon DEF QueueInit, QueueInv, SlotsOK

-----------------------------------------------------------------------------
(* Every step of either thread keeps the four slots in their order. *)
LEMMA RingNext == RingInv /\ [QueueStep]_queue => RingInv'
<1> SUFFICES ASSUME RingInv, [QueueStep]_queue PROVE RingInv'
  OBVIOUS
<1> USE DEF RingInv
<1>n. nullptr \in Pointer /\ mMutating \in Pointer /\ After(mMutating) \in Ring
          /\ After(mNext) \in Ring
  BY AfterInRing, Zenon DEF Pointer, PointersOK
<1>1. ASSUME NEW block \in Blocks, Push(block) PROVE RingInv'
  BY <1>1, Zenon DEF Push, PointersOK, Follows, Awaits, After
<1>2. ASSUME NEW block \in Blocks, NEW s, MutateAndPush(s, block)
      PROVE  RingInv'
  <2>1. PointersOK'
    BY <1>2, Zenon DEF MutateAndPush, PointersOK
  <2>2. Follows' /\ Awaits'
    BY <1>2, Zenon DEF MutateAndPush, Follows, Awaits, After
  <2> QED BY <2>1, <2>2
<1>3. CASE PushClean
  BY <1>3, Zenon DEF PushClean, PushGoes, PointersOK, Follows, Awaits, After
<1>4. CASE WouldBlock
  BY <1>4, Zenon DEF WouldBlock, PushGoes, PointersOK, Follows, Awaits, After
<1>5. CASE Publish
  <2>1. PointersOK'
    BY <1>5, <1>n, Zenon DEF Publish, PushGoes, PointersOK
  <2>2. mCurrent = mNext
    BY <1>5, AckedIsCurrent, Zenon DEF Publish
  <2>3. Follows'
    BY <1>5, <2>2, Zenon DEF Publish, Follows, After
  <2>4. mMutating # nullptr
    BY QueueAssumption, SMT DEF PointersOK, Ring, nullptr
  <2>5. Awaits'
    BY <1>5, <2>4, Zenon DEF Publish, Awaits, nullptr
  <2> QED BY <2>1, <2>3, <2>5
<1>6. CASE CopyForward
  <2>2. PointersOK'
    BY <1>6, Zenon DEF CopyForward, PushGoes, PointersOK
  <2>3. Follows' /\ Awaits'
    BY <1>6, Zenon DEF CopyForward, PushGoes, Follows, Awaits, After, PointersOK
  <2> QED BY <2>2, <2>3
<1>7. CASE PushReturns
  <2>1. PointersOK'
    BY <1>7, <1>n, Zenon DEF PushReturns, PushGoes, PointersOK
  <2>2. Follows'
    BY <1>7, Zenon DEF PushReturns, Follows, After
  <2>3. push.block = "ACKED" => mCurrent = mNext
    BY <1>7, AckedIsCurrent, Zenon DEF PushReturns
  <2>4. Awaits'
    BY <1>7, <2>3, Zenon DEF PushReturns, PushGoes, Awaits, PointersOK, nullptr
  <2> QED BY <2>1, <2>2, <2>4
<1>8. CASE poll
  BY <1>8, Zenon DEF poll, PointersOK, Follows, Awaits, After
<1>9. CASE UNCHANGED queue
  BY <1>9, Zenon DEF queue, PointersOK, Follows, Awaits, After
<1> QED
  BY <1>1, <1>2, <1>3, <1>4, <1>5, <1>6, <1>7, <1>8, <1>9, Zenon DEF QueueStep, InPush

(* Every step of the mutator and of the observer keeps the invariant. *)
LEMMA QueueNextInv == QueueInv /\ [QueueNext]_queue => QueueInv'
<1> SUFFICES ASSUME QueueInv, [QueueNext]_queue PROVE QueueInv'
  OBVIOUS
<1>1. [QueueStep]_queue
  BY Zenon DEF QueueNext, QueueStep
<1>2. RingInv'
  BY <1>1, RingNext, Zenon DEF QueueInv
<1>3. ASSUME NEW s \in States, mStates' = [mStates EXCEPT ![mMutating] = s] PROVE SlotsOK'
  BY <1>3, Zenon DEF QueueInv, RingInv, PointersOK, SlotsOK
<1>4. ASSUME CopyForward PROVE SlotsOK'
  <2>1. mExpecting \in Ring
    BY <1>4, Zenon DEF CopyForward, QueueInv, RingInv, Awaits, PointersOK, Pointer
  <2>2. mStates[mExpecting] \in States
    BY <2>1, Zenon DEF QueueInv, SlotsOK
  <2> QED
    BY <1>3, <1>4, <2>2, Zenon DEF CopyForward
<1>5. ASSUME mStates' = mStates PROVE SlotsOK'
  BY <1>5, Zenon DEF QueueInv, SlotsOK, Ring
<1>6. SlotsOK'
  BY <1>3, <1>4, <1>5, Zenon DEF QueueNext, Push, MutateAndPush, InPush, PushClean,
     WouldBlock, Publish, PushReturns, poll, queue
<1> QED BY <1>2, <1>6 DEF QueueInv

(* The order of the slots is an invariant of the queue. *)
THEOREM QueueInvariant == QueueSpec => []QueueInv
BY QueueInitInv, QueueNextInv, PTL DEF QueueSpec

-----------------------------------------------------------------------------
(* A write to the mutator's slot shows nowhere. *)
LEMMA WriteIsUnseen ==
    ASSUME RingInv, NEW s,
           mStates' = [mStates EXCEPT ![mMutating] = s],
           UNCHANGED <<mNext, mCurrent, mPrevious>>
    PROVE  UNCHANGED Promise!vars
<1>1. ASSUME NEW p \in {mNext, mCurrent, mPrevious}
      PROVE  (IF p = nullptr THEN Initial ELSE mStates'[p]) = Deref(p)
  BY <1>1, MutatingIsFree, Zenon DEF RingInv, PointersOK, Deref, Pointer
<1>2. Deref(mNext)' = Deref(mNext) /\ Deref(mCurrent)' = Deref(mCurrent)
        /\ Deref(mPrevious)' = Deref(mPrevious)
  BY <1>1, Zenon DEF Deref, nullptr
<1> QED BY <1>2 DEF Promise!vars

(* Pointers and slots unchanged, so is what they lead to. *)
LEMMA SameIsUnseen ==
    ASSUME UNCHANGED <<mStates, mNext, mCurrent, mPrevious>>
    PROVE  UNCHANGED Promise!vars
BY Zenon DEF Promise!vars, Deref, nullptr

(***************************************************************************)
(* Every step of the ring is a push, a poll or nothing of the promise.     *)
(***************************************************************************)
LEMMA QueueNextPromise ==
    QueueInv /\ [QueueNext]_queue => [Promise!Next]_(Promise!vars)
<1> SUFFICES ASSUME QueueInv, [QueueNext]_queue
             PROVE  Promise!Next \/ UNCHANGED Promise!vars
  OBVIOUS
<1>1. ASSUME NEW block \in Blocks, Push(block) PROVE UNCHANGED Promise!vars
  BY <1>1, SameIsUnseen, Zenon DEF Push
<1>2. ASSUME NEW block \in Blocks, NEW s \in States, MutateAndPush(s, block)
      PROVE  UNCHANGED Promise!vars
  BY <1>2, WriteIsUnseen, Zenon DEF MutateAndPush, QueueInv
<1>3. CASE PushClean
  BY <1>3, SameIsUnseen, Zenon DEF PushClean
<1>4. CASE WouldBlock
  BY <1>4, SameIsUnseen, Zenon DEF WouldBlock
<1>5. CASE Publish
  <2>1. mCurrent = mNext
    BY <1>5, AckedIsCurrent, Zenon DEF Publish, QueueInv, RingInv
  <2>2. Deref(mNext)' = Deref(mMutating)
    BY <1>5, Zenon DEF Publish, Deref, nullptr
  <2>3. Deref(mNext)' \in States
    BY <2>2, DerefIsState, Zenon DEF QueueInv, RingInv, PointersOK, Pointer
  <2>4. Deref(mCurrent)' = Deref(mCurrent) /\ Deref(mPrevious)' = Deref(mPrevious)
    BY <1>5, Zenon DEF Publish, Deref, nullptr
  <2>5. Promise!Push
    BY <2>1, <2>3, <2>4, Zenon DEF Promise!Push
  <2> QED BY <2>5 DEF Promise!Next
<1>6. CASE CopyForward
  BY <1>6, WriteIsUnseen, Zenon DEF CopyForward, QueueInv
<1>7. CASE PushReturns
  BY <1>7, SameIsUnseen, Zenon DEF PushReturns
<1>8. CASE poll
  <2>1. Deref(mPrevious)' = Deref(mCurrent) /\ Deref(mCurrent)' = Deref(mNext)
           /\ Deref(mNext)' = Deref(mNext)
    BY <1>8, Zenon DEF poll, Deref, nullptr
  <2>2. Promise!Poll
    BY <2>1, Zenon DEF Promise!Poll
  <2> QED BY <2>2 DEF Promise!Next
<1>9. CASE UNCHANGED queue
  BY <1>9, SameIsUnseen, Zenon DEF queue
<1> QED
  BY <1>1, <1>2, <1>3, <1>4, <1>5, <1>6, <1>7, <1>8, <1>9, Zenon DEF QueueNext, InPush

(***************************************************************************)
(* The state queue implements what StateQueue.h promises: the observer     *)
(* takes up every pushed state, in order, and neither its current state    *)
(* nor the one before changes under its eyes.                              *)
(***************************************************************************)
THEOREM QueueKeepsItsPromise == QueueSpec => KeepsItsPromise
<1>1. QueueInit => Promise!Init
  BY Zenon DEF QueueInit, Promise!Init, Deref
<1> QED
  BY <1>1, QueueInvariant, QueueNextPromise, PTL
     DEF QueueSpec, KeepsItsPromise, Promise!Spec
=============================================================================
