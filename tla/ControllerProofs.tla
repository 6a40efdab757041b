-------------------------- MODULE ControllerProofs --------------------------
(***************************************************************************)
(* The controller's bookkeeping is correct for every set of uids and of    *)
(* sessions: proofs about TranscodingSessionController.                    *)
(***************************************************************************)
EXTENDS TranscodingSessionController, TLAPS

-----------------------------------------------------------------------------
(* Queues                                                                  *)

(* Erasing a key that occurs once removes exactly that key. *)
LEMMA EraseProperties ==
  ASSUME NEW q \in Seq(Keys), IsInjective(q), NEW k \in Range(q)
  PROVE  /\ Erase(q, k) \in Seq(Keys)
         /\ Len(Erase(q, k)) = Len(q) - 1
         /\ Range(Erase(q, k)) = Range(q) \ {k}
         /\ IsInjective(Erase(q, k))
<1> DEFINE i == CHOOSE j \in 1..Len(q) : q[j] = k
           l == SubSeq(q, 1, i - 1)
           r == SubSeq(q, i + 1, Len(q))
           e == l \o r
<1>1. i \in 1..Len(q) /\ q[i] = k
  BY DEF Range
<1> HIDE DEF i
<1>2. Len(q) \in Nat /\ q \in [1..Len(q) -> Keys]
  OBVIOUS
<1>a. /\ l \in Seq(Keys) /\ Len(l) = i - 1
      /\ \A j \in 1..(i - 1) : l[j] = q[j]
  <2>1. \A m \in 1..(i - 1) : q[m] \in Keys
    BY <1>1, <1>2
  <2> QED
    BY <1>1, <1>2, <2>1
<1>b. /\ r \in Seq(Keys) /\ Len(r) = Len(q) - i
      /\ \A j \in 1..(Len(q) - i) : r[j] = q[j + i]
  <2>1. \A m \in (i + 1)..Len(q) : q[m] \in Keys
    BY <1>1, <1>2
  <2>2. /\ r \in Seq(Keys)
        /\ Len(r) = IF i + 1 <= Len(q) THEN Len(q) - (i + 1) + 1 ELSE 0
        /\ \A j \in 1..(Len(q) - (i + 1) + 1) : r[j] = q[(i + 1) + j - 1]
    BY <1>1, <1>2, <2>1
  <2> HIDE DEF l, r
  <2>3. Len(r) = Len(q) - i
    <3>1. ASSUME NEW n \in Nat, NEW m \in 1..n
          PROVE  (IF m + 1 <= n THEN n - (m + 1) + 1 ELSE 0) = n - m
      OBVIOUS
    <3> QED
      BY <1>1, <1>2, <2>2, <3>1, Zenon
  <2>4. ASSUME NEW j \in 1..(Len(q) - i) PROVE r[j] = q[j + i]
    <3>1. j \in 1..(Len(q) - (i + 1) + 1) /\ (i + 1) + j - 1 = j + i
      BY <1>1, <1>2
    <3> QED
      BY <2>2, <3>1, Zenon
  <2> QED
    BY <2>2, <2>3, <2>4, Zenon
<1> HIDE DEF l, r
<1>3. e \in Seq(Keys) /\ Len(e) = Len(q) - 1
  <2>1. e \in Seq(Keys) /\ Len(e) = Len(l) + Len(r)
    BY <1>a, <1>b
  <2> QED
    BY <1>1, <1>2, <1>a, <1>b, <2>1
<1>4. \A j \in 1..Len(e) : e[j] = IF j < i THEN q[j] ELSE q[j + 1]
  BY <1>1, <1>2, <1>3, <1>a, <1>b
<1>5. Erase(q, k) = e
  BY <1>1, Zenon DEF Erase, i, l, r
<1> HIDE DEF e
<1>6. \A x \in Range(e) : x \in Range(q) \ {k}
  BY <1>1, <1>2, <1>3, <1>4 DEF Range, IsInjective
<1>7. ASSUME NEW x \in Range(q) \ {k} PROVE x \in Range(e)
  <2>1. PICK j \in 1..Len(q) : q[j] = x
    BY DEF Range
  <2>2. CASE j < i
    BY <1>1, <1>2, <1>3, <1>4, <2>1, <2>2 DEF Range
  <2>3. CASE j > i
    <3>1. j - 1 \in 1..Len(e) /\ ~(j - 1 < i) /\ (j - 1) + 1 = j
      BY <1>1, <1>2, <1>3, <2>1, <2>3
    <3> QED
      BY <1>4, <2>1, <3>1 DEF Range
  <2> QED
    BY <1>1, <1>2, <2>1, <2>2, <2>3
<1>8. IsInjective(e)
  <2>1. DOMAIN e = 1..Len(e) /\ DOMAIN q = 1..Len(q)
    BY <1>3
  <2> SUFFICES ASSUME NEW x \in 1..Len(e), NEW y \in 1..Len(e), e[x] = e[y]
               PROVE  x = y
    BY <2>1, Zenon DEF IsInjective
  <2> DEFINE at(j) == IF j < i THEN j ELSE j + 1
  <2>2. at(x) \in 1..Len(q) /\ at(y) \in 1..Len(q)
    BY <1>1, <1>2, <1>3
  <2>3. q[at(x)] = q[at(y)]
    BY <1>4, Zenon
  <2>4. at(x) = at(y)
    BY <2>1, <2>2, <2>3, Zenon DEF IsInjective
  <2> QED
    BY <1>1, <1>2, <2>4
<1> QED
  BY <1>3, <1>5, <1>6, <1>7, <1>8, Zenon

(* Appending a key that is not in a queue. *)
LEMMA AppendQueue ==
  ASSUME NEW q \in Seq(Keys), IsInjective(q), NEW k \in Keys, k \notin Range(q)
  PROVE  /\ Append(q, k) \in Seq(Keys)
         /\ Append(q, k) # << >>
         /\ Range(Append(q, k)) = Range(q) \cup {k}
         /\ IsInjective(Append(q, k))
<1> DEFINE a == Append(q, k)
<1>1. /\ a \in Seq(Keys) /\ a # << >> /\ Len(a) = Len(q) + 1
      /\ \A i \in 1..Len(q) : a[i] = q[i]
      /\ a[Len(q) + 1] = k
  OBVIOUS
<1> HIDE DEF a
<1>2. /\ Len(q) \in Nat
      /\ DOMAIN q = 1..Len(q)
      /\ DOMAIN a = 1..(Len(q) + 1)
  BY <1>1
<1>3. \A i \in 1..Len(q) : q[i] # k
  BY <1>2, Zenon DEF Range
<1>4. IsInjective(a)
  BY <1>1, <1>2, <1>3 DEF IsInjective
<1>5. Range(a) = Range(q) \cup {k}
  <2>1. \A i \in 1..(Len(q) + 1) : i \in 1..Len(q) \/ i = Len(q) + 1
    BY <1>2
  <2>2. \A x \in Range(a) : x \in Range(q) \cup {k}
    BY <1>1, <1>2, <2>1, Zenon DEF Range
  <2>3. \A x \in Range(q) \cup {k} : x \in Range(a)
    BY <1>1, <1>2 DEF Range
  <2> QED
    BY <2>2, <2>3, Zenon
<1> QED
  BY <1>1, <1>4, <1>5, Zenon DEF a

(* A queue with a single key. *)
LEMMA SingletonQueue ==
  ASSUME NEW k \in Keys
  PROVE  /\ <<k>> \in Seq(Keys) /\ <<k>> # << >>
         /\ Range(<<k>>) = {k} /\ IsInjective(<<k>>)
BY DEF Range, IsInjective

-----------------------------------------------------------------------------
(* Orders                                                                  *)

(* mUidSortedList with the uids us, the offline uid last. *)
IsSorted(l, us) ==
  /\ us \subseteq AllUids
  /\ IsListOf(l, us)
  /\ OFFLINE_UID \in us
  /\ \A u \in us : <<u, OFFLINE_UID>> \in l

(* The uids of a list are those it is a list of. *)
LEMMA ListUidsOf ==
  ASSUME NEW l, NEW us, IsSorted(l, us)
  PROVE  ListUids(l) = us
BY DEF IsSorted, IsListOf, ListUids

(* std::list::push_front of a new uid. *)
LEMMA PushFrontSorted ==
  ASSUME NEW l, NEW us, IsSorted(l, us), NEW u \in Uids, u \notin us
  PROVE  IsSorted(PushFront(l, u), us \cup {u})
BY ListUidsOf, PacerAssumption DEF IsSorted, IsListOf, PushFront, AllUids

(* std::list::insert of a new uid before mOfflineUidIterator. *)
LEMMA InsertSorted ==
  ASSUME NEW l, NEW us, IsSorted(l, us), NEW u \in Uids, u \notin us
  PROVE  IsSorted(InsertBeforeOffline(l, u), us \cup {u})
<1> DEFINE n == InsertBeforeOffline(l, u)
<1>1. ListUids(l) = us /\ u # OFFLINE_UID /\ u \in AllUids
  BY ListUidsOf, PacerAssumption, Zenon DEF AllUids
<1>2. \A w \in us : <<OFFLINE_UID, w>> \in l <=> w = OFFLINE_UID
  BY Zenon DEF IsSorted, IsListOf
<1>3. n = l \cup {<<u, u>>, <<u, OFFLINE_UID>>} \cup {<<x, u>> : x \in us \ {OFFLINE_UID}}
  <2>1. {w \in us : <<OFFLINE_UID, w>> \in l} = {OFFLINE_UID}
    BY <1>2, Zenon DEF IsSorted
  <2>2. {w \in us : <<OFFLINE_UID, w>> \notin l} = us \ {OFFLINE_UID}
    BY <1>2, Zenon
  <2> QED
    BY <1>1, <2>1, <2>2, Zenon DEF InsertBeforeOffline
<1> HIDE DEF n
<1>4. \A x, y : <<x, y>> \in n <=>
        (<<x, y>> \in l \/ (x = u /\ y \in {u, OFFLINE_UID}) \/ (y = u /\ x \in us \ {OFFLINE_UID}))
  BY <1>3, Zenon
<1>5. n \subseteq (us \cup {u}) \X (us \cup {u})
  BY <1>3 DEF IsSorted, IsListOf
<1> QED
  BY <1>1, <1>4, <1>5 DEF IsSorted, IsListOf, n

(* std::list::remove of real uids. *)
LEMMA RemoveSorted ==
  ASSUME NEW l, NEW us, IsSorted(l, us), NEW gone, OFFLINE_UID \notin gone
  PROVE  IsSorted(ListRemove(l, gone), us \ gone)
BY Zenon DEF IsSorted, IsListOf, ListRemove

(* moveUidsToTop_l permutes the list and leaves the offline uid last. *)
LEMMA MoveSorted ==
  ASSUME NEW l, NEW us, IsSorted(l, us), NEW uids, NEW preserve \in BOOLEAN
  PROVE  IsSorted(moveUidsToTop_l(l, uids, preserve), us)
<1> DEFINE moved == (uids \cap us) \ {OFFLINE_UID}
           kept(u) == preserve /\ IsFront(l, u)
           n == moveUidsToTop_l(l, uids, preserve)
<1>1. ListUids(l) = us
  BY ListUidsOf, Zenon
<1>2. /\ n \subseteq us \X us
      /\ \A x, y \in us : <<x, y>> \in n <=>
           \/ x \in moved /\ y \notin moved
           \/ x \notin moved /\ y \notin moved /\ <<x, y>> \in l
           \/ /\ x \in moved /\ y \in moved
              /\ kept(x) \/ (~kept(y) /\ <<y, x>> \in l)
  BY <1>1, Zenon DEF moveUidsToTop_l
<1>3. \A x, y \in us : kept(x) /\ kept(y) => x = y
  BY <1>1, Zenon DEF IsSorted, IsListOf, IsFront
<1> HIDE DEF n, kept
<1>4. \A x, y \in us : <<x, y>> \in n \/ <<y, x>> \in n
  BY <1>2, Zenon DEF IsSorted, IsListOf
<1>5. \A x, y \in us : <<x, y>> \in n /\ <<y, x>> \in n => x = y
  BY <1>2, <1>3, Zenon DEF IsSorted, IsListOf
<1>6. \A x \in us : <<x, OFFLINE_UID>> \in n
  BY <1>2, Zenon DEF IsSorted, IsListOf
<1> QED
  BY <1>2, <1>4, <1>5, <1>6, Zenon DEF IsSorted, IsListOf, n
-----------------------------------------------------------------------------
(* The queues, the list and the uid policy                                 *)

InQueue(k, u) == u \in DOMAIN mSessionQueues /\ k \in Range(mSessionQueues[u])

QueueInv ==
  /\ IsSorted(mUidSortedList, DOMAIN mSessionQueues)
  /\ mSessionQueues \in [DOMAIN mSessionQueues -> Seq(Keys)]
  /\ \A u \in DOMAIN mSessionQueues : IsInjective(mSessionQueues[u])
  /\ \A u \in DOMAIN mSessionQueues \ {OFFLINE_UID} : mSessionQueues[u] # << >>
  /\ monitored = DOMAIN mSessionQueues \ {OFFLINE_UID}
  /\ topUids \subseteq monitored

(* addUidToSession_l puts the session in the queue of the uid and in no other. *)
LEMMA AddUidQueues ==
  ASSUME QueueInv, NEW k \in Keys, NEW u \in AllUids, ~InQueue(k, u),
         addUidToSession_l(u, k)
  PROVE  /\ QueueInv'
         /\ \A j \in Keys, v \in AllUids :
              InQueue(j, v)' <=> (InQueue(j, v) \/ (j = k /\ v = u))
<1>1. CASE u \in DOMAIN mSessionQueues
  <2>1. /\ DOMAIN mSessionQueues' = DOMAIN mSessionQueues
        /\ mSessionQueues' = [mSessionQueues EXCEPT ![u] = Append(mSessionQueues[u], k)]
        /\ UNCHANGED <<monitored, topUids>>
    BY <1>1, Zenon DEF addUidToSession_l, QueueInv
  <2>2. /\ Append(mSessionQueues[u], k) \in Seq(Keys)
        /\ Append(mSessionQueues[u], k) # << >>
        /\ Range(Append(mSessionQueues[u], k)) = Range(mSessionQueues[u]) \cup {k}
        /\ IsInjective(Append(mSessionQueues[u], k))
    BY <1>1, AppendQueue, Zenon DEF QueueInv, InQueue
  <2>3. IsSorted(mUidSortedList', DOMAIN mSessionQueues)
    <3>1. CASE mUidSortedList' = mUidSortedList
      BY <3>1, Zenon DEF QueueInv
    <3>2. CASE u # OFFLINE_UID /\ mUidSortedList' = PushFront(ListRemove(mUidSortedList, {u}), u)
      <4>1. u \in Uids
        BY <3>2, Zenon DEF AllUids
      <4>2. IsSorted(ListRemove(mUidSortedList, {u}), DOMAIN mSessionQueues \ {u})
        BY <3>2, RemoveSorted, Zenon DEF QueueInv
      <4>3. IsSorted(mUidSortedList', (DOMAIN mSessionQueues \ {u}) \cup {u})
        BY <3>2, <4>1, <4>2, PushFrontSorted, Zenon
      <4> QED
        BY <1>1, <4>3, Zenon
    <3> QED
      BY <1>1, <3>1, <3>2, Zenon DEF addUidToSession_l
  <2>4. QueueInv'
    BY <1>1, <2>1, <2>2, <2>3, Zenon DEF QueueInv
  <2>5. \A v \in DOMAIN mSessionQueues :
          mSessionQueues'[v] = IF v = u THEN Append(mSessionQueues[u], k) ELSE mSessionQueues[v]
    BY <1>1, <2>1, Zenon DEF QueueInv
  <2> QED
    BY <1>1, <2>1, <2>2, <2>4, <2>5, Zenon DEF InQueue
<1>2. CASE u \notin DOMAIN mSessionQueues
  <2>1. PICK top \in TopAfterRegister(u) :
          /\ topUids' = top
          /\ mUidSortedList' = IF u \in top THEN PushFront(mUidSortedList, u)
                               ELSE InsertBeforeOffline(mUidSortedList, u)
    BY <1>2, Zenon DEF addUidToSession_l
  <2>2. /\ monitored' = monitored \cup {u}
        /\ mSessionQueues' = [v \in DOMAIN mSessionQueues \cup {u} |->
                                IF v = u THEN <<k>> ELSE mSessionQueues[v]]
    BY <1>2, Zenon DEF addUidToSession_l
  <2>3. u \in Uids /\ u # OFFLINE_UID
    BY <1>2, Zenon DEF QueueInv, IsSorted, AllUids
  <2>4. IsSorted(mUidSortedList', DOMAIN mSessionQueues \cup {u})
    BY <1>2, <2>1, <2>3, PushFrontSorted, InsertSorted, Zenon DEF QueueInv
  <2>5. DOMAIN mSessionQueues' = DOMAIN mSessionQueues \cup {u}
    BY <2>2, Zenon
  <2>6. \A v \in DOMAIN mSessionQueues' :
          mSessionQueues'[v] = IF v = u THEN <<k>> ELSE mSessionQueues[v]
    BY <2>2, Zenon
  <2>7. topUids' \subseteq monitored'
    BY <2>1, <2>2, Zenon DEF TopAfterRegister, QueueInv
  <2>8. /\ mSessionQueues' \in [DOMAIN mSessionQueues' -> Seq(Keys)]
        /\ \A v \in DOMAIN mSessionQueues' : IsInjective(mSessionQueues'[v])
        /\ \A v \in DOMAIN mSessionQueues' \ {OFFLINE_UID} : mSessionQueues'[v] # << >>
    BY <1>2, <2>2, <2>5, <2>6, SingletonQueue, Zenon DEF QueueInv
  <2>9. QueueInv'
    BY <1>2, <2>2, <2>3, <2>4, <2>5, <2>7, <2>8, Zenon DEF QueueInv
  <2> QED
    BY <1>2, <2>5, <2>6, <2>9, SingletonQueue, Zenon DEF InQueue
<1> QED
  BY <1>1, <1>2, Zenon
(* removeSession_l takes the session out of the queues of the uids it is      *)
(* called for and out of no other; queues that run empty go away.             *)
LEMMA LeaveQueues ==
  ASSUME QueueInv, NEW k \in Keys, NEW uids \in SUBSET AllUids,
         \A u \in uids : InQueue(k, u),
         leaveQueues(k, uids)
  PROVE  /\ QueueInv'
         /\ \A j \in Keys, v \in AllUids :
              InQueue(j, v)' <=> (InQueue(j, v) /\ ~(j = k /\ v \in uids))
<1> DEFINE emptied == Emptied(k, uids)
           D == DOMAIN mSessionQueues
<1>1. /\ mSessionQueues' = [u \in D \ emptied |->
                              IF u \in uids THEN Erase(mSessionQueues[u], k) ELSE mSessionQueues[u]]
      /\ unregisterMonitorUids(emptied)
      /\ mUidSortedList' = IF emptied = {} THEN mUidSortedList
                           ELSE moveUidsToTop_l(ListRemove(mUidSortedList, emptied), topUids', FALSE)
  BY Zenon DEF leaveQueues
<1>2. /\ emptied \subseteq uids /\ OFFLINE_UID \notin emptied /\ uids \subseteq D
      /\ \A u \in emptied : mSessionQueues[u] = <<k>>
      /\ \A u \in uids \ emptied : u = OFFLINE_UID \/ mSessionQueues[u] # <<k>>
  BY Zenon DEF Emptied, InQueue
<1> HIDE DEF emptied
<1>3. \A u \in uids : /\ Erase(mSessionQueues[u], k) \in Seq(Keys)
                      /\ Len(Erase(mSessionQueues[u], k)) = Len(mSessionQueues[u]) - 1
                      /\ Range(Erase(mSessionQueues[u], k)) = Range(mSessionQueues[u]) \ {k}
                      /\ IsInjective(Erase(mSessionQueues[u], k))
  BY <1>2, EraseProperties, Zenon DEF QueueInv, InQueue
<1>4. DOMAIN mSessionQueues' = D \ emptied
  BY <1>1, Zenon
<1>5. \A u \in D \ emptied : mSessionQueues'[u] =
         IF u \in uids THEN Erase(mSessionQueues[u], k) ELSE mSessionQueues[u]
  BY <1>1, Zenon
<1>6. IsSorted(mUidSortedList', D \ emptied)
  BY <1>1, <1>2, RemoveSorted, MoveSorted, Zenon DEF QueueInv
<1>7. monitored' = (D \ emptied) \ {OFFLINE_UID} /\ topUids' \subseteq monitored'
  BY <1>1, <1>2, Zenon DEF unregisterMonitorUids, TopAfterUnregister, QueueInv
<1>8. /\ mSessionQueues' \in [D \ emptied -> Seq(Keys)]
      /\ \A u \in D \ emptied : IsInjective(mSessionQueues'[u])
  BY <1>1, <1>3, <1>5, Zenon DEF QueueInv
<1>9. ASSUME NEW u \in (D \ emptied) \ {OFFLINE_UID}, u \in uids
      PROVE  Erase(mSessionQueues[u], k) # << >>
  <2>1. mSessionQueues[u] \in Seq(Keys) /\ mSessionQueues[u] # <<k>> /\ k \in Range(mSessionQueues[u])
    BY <1>2, <1>9, Zenon DEF QueueInv, InQueue
  <2>2. Len(mSessionQueues[u]) # 1
    <3> DEFINE q == mSessionQueues[u]
    <3>1. SUFFICES ASSUME Len(q) = 1 PROVE q = <<k>>
      BY <2>1, Zenon
    <3>2. q[1] = k
      BY <2>1, <3>1 DEF Range
    <3> QED
      BY <2>1, <3>1, <3>2
  <2>3. Len(mSessionQueues[u]) \in Nat /\ Len(mSessionQueues[u]) # 0
    BY <2>1 DEF Range
  <2>4. Len(Erase(mSessionQueues[u], k)) # 0
    <3>1. Len(Erase(mSessionQueues[u], k)) = Len(mSessionQueues[u]) - 1
      BY <1>3, <1>9, Zenon
    <3> QED
      BY <2>2, <2>3, <3>1
  <2>5. Len(<< >>) = 0
    OBVIOUS
  <2> QED
    BY <2>4, <2>5, Zenon
<1>10. \A u \in (D \ emptied) \ {OFFLINE_UID} : mSessionQueues'[u] # << >>
  BY <1>5, <1>9, Zenon DEF QueueInv
<1>11. QueueInv'
  BY <1>4, <1>6, <1>7, <1>8, <1>10, Zenon DEF QueueInv
<1>12. ASSUME NEW j \in Keys, NEW v \in AllUids
       PROVE  InQueue(j, v)' <=> (InQueue(j, v) /\ ~(j = k /\ v \in uids))
  <2>1. CASE v \in emptied
    BY <1>2, <1>4, <2>1, SingletonQueue, Zenon DEF InQueue
  <2>2. CASE v \in D \ emptied
    BY <1>3, <1>4, <1>5, <2>2, Zenon DEF InQueue
  <2>3. CASE v \notin D
    BY <1>4, <2>3, Zenon DEF InQueue
  <2> QED
    BY <2>1, <2>2, <2>3, Zenon
<1> QED
  BY <1>11, <1>12, Zenon
-----------------------------------------------------------------------------
(* The pacer's history keeps its type                                      *)

IsHistory(h) == DOMAIN h \subseteq AllUids /\ h \in [DOMAIN h -> UidHistoryEntry]

(* Pacer::onSessionStarted keeps the history well formed. *)
LEMMA StartedHistory ==
  ASSUME NEW h, IsHistory(h), NEW uids \in SUBSET AllUids, NEW callingUid
  PROVE  IsHistory(onSessionStarted(h, uids, callingUid))
<1> DEFINE tracked == {u \in uids : isSubjectToQuota(u, callingUid)}
           n == onSessionStarted(h, uids, callingUid)
<1>1. ASSUME NEW u \in AllUids PROVE StartedEntry(h, u) \in UidHistoryEntry
  <2>1. 0 \in 0..BurstCountQuota /\ 0 \in 0..BurstTimeQuota
    BY PacerAssumption
  <2>2. CASE u \notin DOMAIN h
    BY <2>1, <2>2, Zenon DEF StartedEntry, UidHistoryEntry
  <2>3. CASE u \in DOMAIN h
    <3>1. h[u] \in UidHistoryEntry
      BY <2>3, Zenon DEF IsHistory
    <3> QED
      BY <2>1, <2>3, <3>1, Zenon DEF StartedEntry, UidHistoryEntry
  <2> QED
    BY <2>2, <2>3, Zenon
<1>2. DOMAIN n = DOMAIN h \cup tracked
  BY Zenon DEF onSessionStarted
<1>3. \A u \in DOMAIN n : n[u] = IF u \in tracked THEN StartedEntry(h, u) ELSE h[u]
  BY Zenon DEF onSessionStarted
<1>4. n = [u \in DOMAIN n |-> n[u]]
  BY Zenon DEF onSessionStarted
<1> HIDE DEF n
<1>5. \A u \in DOMAIN n : n[u] \in UidHistoryEntry
  BY <1>1, <1>2, <1>3, Zenon DEF IsHistory
<1>6. DOMAIN n \subseteq AllUids
  BY <1>2, Zenon DEF IsHistory
<1> QED
  BY <1>4, <1>5, <1>6, Zenon DEF IsHistory, n

(* Pacer::onSessionCompleted keeps the history well formed: the counters saturate. *)
LEMMA CompletedHistory ==
  ASSUME NEW h, IsHistory(h), NEW uids, NEW runningTime \in Nat
  PROVE  IsHistory(onSessionCompleted(h, uids, runningTime))
<1>1. \A e \in UidHistoryEntry :
         /\ AtMost(e.burstCount + 1, BurstCountQuota) \in 0..BurstCountQuota
         /\ AtMost(e.burstDuration + runningTime, BurstTimeQuota) \in 0..BurstTimeQuota
  BY PacerAssumption DEF AtMost, UidHistoryEntry
<1> QED
  BY <1>1, Zenon DEF onSessionCompleted, IsHistory, UidHistoryEntry

(* Pacer::onSessionCancelled keeps the history well formed. *)
LEMMA CancelledHistory ==
  ASSUME NEW h, IsHistory(h), NEW uids
  PROVE  IsHistory(onSessionCancelled(h, uids))
BY Zenon DEF onSessionCancelled, IsHistory, UidHistoryEntry

(* The passing of pacerBurstThresholdMs keeps the history well formed. *)
LEMMA TimePassesHistory ==
  ASSUME NEW h, IsHistory(h), NEW uid \in DOMAIN h
  PROVE  IsHistory(TimePasses(h, uid))
BY Zenon DEF TimePasses, IsHistory, UidHistoryEntry
-----------------------------------------------------------------------------
(* The inductive invariant                                                 *)

SessionTypes ==
  /\ live \subseteq Keys
  /\ mSessionMap \in [live -> SessionRecords]
  /\ mCurrentSession \in Keys \cup {NoSession}
  /\ mResourceLost \in BOOLEAN /\ mThermalThrottling \in BOOLEAN
  /\ IsHistory(mUidHistoryMap)
  /\ watchdog \in WatchdogStates
  /\ calls \in Seq(CallOps \X Keys)
  /\ notice \in [top : SUBSET Uids, gone : SUBSET Uids]
  /\ job \in JobStates

(* A session is queued for exactly its clients. *)
ClientsInv ==
  /\ \A k \in Keys, u \in AllUids : InQueue(k, u) <=> (k \in live /\ u \in UidsOf(k))
  /\ \A k \in live : UidsOf(k) # {}

(* An active watchdog watches the RUNNING session. *)
ActiveWatchesRunning ==
  watchdog.mActive =>
    \E k \in live : State(k) = "RUNNING" /\ watchdog.mSessionToWatch = k

(* The sessions a handler still has to remove are live, and those it only      *)
(* takes uids from keep a client.                                              *)
JobInv ==
  /\ job.drop \subseteq live /\ job.strip \subseteq live
  /\ job.drop \cap job.strip = {}
  /\ \A k \in job.strip : UidsOf(k) \cap job.keep # {}
  /\ job.pc # "remove" => job.drop = {} /\ job.strip = {}

IInv ==
  /\ SessionTypes
  /\ QueueInv
  /\ ClientsInv
  /\ OnlyCurrentRuns
  /\ RunningIsWatched
  /\ ActiveWatchesRunning
  /\ JobInv
(* Handlers leave well-formed jobs, and the watchdog's calls keep its type. *)
LEMMA JobTypes ==
  /\ Idle \in JobStates /\ Update \in JobStates
  /\ \A drop \in SUBSET Keys, strip \in SUBSET Keys, keep \in SUBSET AllUids :
       Remove(drop, strip, keep) \in JobStates
BY Zenon DEF Idle, Update, Remove, JobStates

(* Watchdog::start and stop keep the type of the watchdog. *)
LEMMA WatchdogTypes ==
  ASSUME NEW w \in WatchdogStates
  PROVE  /\ WatchdogStop(w) \in WatchdogStates
         /\ \A b \in BOOLEAN : WatchdogStopIf(w, b) \in WatchdogStates
         /\ \A k \in Keys : WatchdogStart(w, k) \in WatchdogStates
BY Zenon DEF WatchdogStop, WatchdogStopIf, WatchdogStart, WatchdogStates

(* No call, or a few calls on live sessions. *)
LEMMA CallTypes ==
  /\ << >> \in Seq(CallOps \X Keys)
  /\ \A op \in CallOps, k \in Keys : <<<<op, k>>>> \in Seq(CallOps \X Keys)
  /\ \A s \in Seq(CallOps \X Keys), op \in CallOps, k \in Keys :
       Append(s, <<op, k>>) \in Seq(CallOps \X Keys)
OBVIOUS

-----------------------------------------------------------------------------
(* Each action preserves the invariant                                     *)

(* submit adds a session that waits in the queue of its client. *)
LEMMA SubmitStep ==
  ASSUME IInv, NEW k \in Keys, NEW u \in AllUids, submit(k, u)
  PROVE  IInv'
<1> DEFINE r == [state |-> "NOT_STARTED", allClientUids |-> {u}, paced |-> {}]
<1>1. /\ k \notin live
      /\ mSessionMap' = [j \in live \cup {k} |-> IF j = k THEN r ELSE mSessionMap[j]]
  BY Zenon DEF submit, unusedKey
<1>2. /\ live' = live \cup {k}
      /\ mSessionMap'[k] = r
      /\ \A j \in live : mSessionMap'[j] = mSessionMap[j]
  BY <1>1, Zenon DEF live
<1>3. ~InQueue(k, u)
  BY <1>1, Zenon DEF IInv, ClientsInv
<1>4. /\ QueueInv'
      /\ \A j \in Keys, v \in AllUids : InQueue(j, v)' <=> (InQueue(j, v) \/ (j = k /\ v = u))
  BY <1>3, AddUidQueues, Zenon DEF IInv, submit
<1>5. ClientsInv'
  BY <1>1, <1>2, <1>4, Zenon DEF IInv, ClientsInv, UidsOf
<1>6. SessionTypes'
  <2>1. r \in SessionRecords
    BY Zenon DEF SessionRecords, LiveStates
  <2>2. mSessionMap' \in [live' -> SessionRecords]
    BY <1>1, <1>2, <2>1, Zenon DEF IInv, SessionTypes
  <2>3. live' \subseteq Keys
    BY <1>2, Zenon DEF IInv, SessionTypes
  <2>4. job' = Update /\ calls' = << >>
    BY Zenon DEF submit, noCalls
  <2>5. UNCHANGED <<mCurrentSession, mResourceLost, mThermalThrottling, mUidHistoryMap,
                    watchdog, notice>>
    BY Zenon DEF submit, pauseVars
  <2> QED
    BY <2>2, <2>3, <2>4, <2>5, JobTypes, CallTypes, Zenon DEF IInv, SessionTypes
<1>7. OnlyCurrentRuns'
  BY <1>1, <1>2 DEF IInv, OnlyCurrentRuns, State, submit
<1>8. RunningIsWatched' /\ ActiveWatchesRunning'
  BY <1>1, <1>2 DEF IInv, RunningIsWatched, ActiveWatchesRunning, State, submit
<1>9. JobInv'
  BY Zenon DEF JobInv, submit, Update, Idle
<1> QED
  BY <1>4, <1>5, <1>6, <1>7, <1>8, <1>9, Zenon DEF IInv

(* addClientUid queues a live session for one more client. *)
LEMMA AddClientUidStep ==
  ASSUME IInv, NEW k \in Keys, NEW u \in Uids, addClientUid(k, u)
  PROVE  IInv'
<1>1. k \in live /\ u \notin UidsOf(k) /\ u \in AllUids
  BY Zenon DEF addClientUid, AllUids
<1>2. /\ live' = live
      /\ mSessionMap' \in [live -> SessionRecords]
      /\ \A j \in live : /\ UidsOf(j)' = IF j = k THEN UidsOf(k) \cup {u} ELSE UidsOf(j)
                         /\ State(j)' = State(j)
  BY <1>1, Zenon DEF addClientUid, live, IInv, SessionTypes, SessionRecords, UidsOf,
     State
<1>3. ~InQueue(k, u)
  BY <1>1, Zenon DEF IInv, ClientsInv
<1>4. /\ QueueInv'
      /\ \A j \in Keys, v \in AllUids : InQueue(j, v)' <=> (InQueue(j, v) \/ (j = k /\ v = u))
  BY <1>1, <1>3, AddUidQueues, Zenon DEF IInv, addClientUid
<1>5. ClientsInv'
  BY <1>1, <1>2, <1>4 DEF IInv, ClientsInv
<1>6. SessionTypes'
  BY <1>2, JobTypes, CallTypes, Zenon DEF IInv, SessionTypes, addClientUid, pauseVars,
     noCalls
<1>7. OnlyCurrentRuns'
  BY <1>2, Zenon DEF IInv, OnlyCurrentRuns, addClientUid
<1>8. RunningIsWatched' /\ ActiveWatchesRunning'
  BY <1>2, Zenon DEF IInv, RunningIsWatched, ActiveWatchesRunning, addClientUid
<1>9. JobInv'
  BY Zenon DEF JobInv, addClientUid, Update, Idle
<1> QED
  BY <1>4, <1>5, <1>6, <1>7, <1>8, <1>9, Zenon DEF IInv
(* A step that leaves sessions, queues and watchdog alone and changes only what *)
(* the lock holder has to do, or what the policies say.                         *)
LEMMA QuietStep ==
  ASSUME IInv, SessionTypes', JobInv',
         UNCHANGED <<mSessionMap, mSessionQueues, mUidSortedList, monitored, topUids,
                     mCurrentSession, watchdog>>
  PROVE  IInv'
<1>1. live' = live /\ (\A j : UidsOf(j)' = UidsOf(j) /\ State(j)' = State(j))
  BY Zenon DEF live, UidsOf, State
<1>2. QueueInv' /\ (\A k, u : InQueue(k, u)' <=> InQueue(k, u))
  BY Zenon DEF IInv, QueueInv, InQueue
<1>3. ClientsInv'
  BY <1>1, <1>2, Zenon DEF IInv, ClientsInv
<1>4. OnlyCurrentRuns'
  BY <1>1, Zenon DEF IInv, OnlyCurrentRuns
<1>5. RunningIsWatched' /\ ActiveWatchesRunning'
  BY <1>1, Zenon DEF IInv, RunningIsWatched, ActiveWatchesRunning
<1> QED
  BY <1>2, <1>3, <1>4, <1>5, Zenon DEF IInv

(* The handlers that collect the sessions to remove. *)
LEMMA CancelStep ==
  ASSUME IInv, NEW k \in Keys, cancel(k)
  PROVE  IInv'
<1>1. job' = Remove({k}, {}, {}) /\ k \in live /\ calls' = << >>
  BY Zenon DEF cancel, noCalls
<1>2. SessionTypes'
  BY <1>1, JobTypes, CallTypes
     DEF cancel, untouched, queueVars, pauseVars, IInv, SessionTypes, live
<1>3. JobInv'
  BY <1>1 DEF cancel, untouched, live, JobInv, Remove
<1> QED
  BY <1>2, <1>3, QuietStep, Zenon DEF cancel, untouched, queueVars

(* cancel of all sessions of a client up to the loop that removes them. *)
LEMMA CancelAllStep ==
  ASSUME IInv, NEW clientId, cancelAll(clientId)
  PROVE  IInv'
<1> DEFINE mine == {k \in live : ClientOf[k] = clientId}
           offline == {k \in mine : OFFLINE_UID \in UidsOf(k)}
<1>1. job' = Remove(mine \ offline, offline, {OFFLINE_UID}) /\ calls' = << >>
  BY Zenon DEF cancelAll, noCalls
<1>2. SessionTypes'
  <2>1. job' \in JobStates
    BY <1>1, JobTypes, Zenon DEF IInv, SessionTypes, AllUids
  <2> QED
    BY <1>1, <2>1, CallTypes, Zenon DEF cancelAll, untouched, queueVars, pauseVars,
       IInv, SessionTypes, live
<1>3. JobInv'
  <2>1. live' = live /\ (\A j : UidsOf(j)' = UidsOf(j))
    BY Zenon DEF cancelAll, untouched, live, UidsOf
  <2>2. \A j \in offline : UidsOf(j) \cap {OFFLINE_UID} # {}
    OBVIOUS
  <2> QED
    BY <1>1, <2>1, <2>2, Zenon DEF JobInv, Remove
<1> QED
  BY <1>2, <1>3, QuietStep, Zenon DEF cancelAll, untouched, queueVars

(* onUidGone up to the loop that removes or strips the sessions of the uid. *)
LEMMA UidGoneStep ==
  ASSUME IInv, NEW uid \in Uids, onUidGone(uid)
  PROVE  IInv'
<1> DEFINE its == {k \in live : uid \in UidsOf(k)}
           shared == {k \in its : UidsOf(k) # {uid}}
<1>1. job' = Remove(its \ shared, shared, AllUids \ {uid}) /\ calls' = << >> /\ notice' = NoNotice
  BY Zenon DEF onUidGone, noCalls
<1>2. SessionTypes'
  <2>1. job' \in JobStates
    BY <1>1, JobTypes, Zenon DEF IInv, SessionTypes
  <2> QED
    BY <1>1, <2>1, CallTypes
       DEF onUidGone, untouched, queueVars, pauseVars, NoNotice, IInv, SessionTypes, live
<1>3. JobInv'
  <2>1. live' = live /\ (\A j : UidsOf(j)' = UidsOf(j))
    BY Zenon DEF onUidGone, untouched, live, UidsOf
  <2>2. \A j \in live : UidsOf(j) \subseteq AllUids
    BY Zenon DEF IInv, SessionTypes, SessionRecords, UidsOf
  <2>3. \A j \in shared : UidsOf(j) \cap (AllUids \ {uid}) # {}
    BY <2>2, Zenon
  <2> QED
    BY <1>1, <2>1, <2>3, Zenon DEF JobInv, Remove
<1> QED
  BY <1>2, <1>3, QuietStep, Zenon DEF onUidGone, untouched, queueVars

(* onTopUidsChanged permutes the list. *)
LEMMA TopUidsChangedStep ==
  ASSUME IInv, onTopUidsChanged
  PROVE  IInv'
<1>1. /\ UNCHANGED <<mSessionMap, mSessionQueues, monitored, topUids, mCurrentSession,
                     mResourceLost, mThermalThrottling, mUidHistoryMap, watchdog>>
      /\ job' = Update /\ calls' = << >>
      /\ notice' = [notice EXCEPT !.top = {}]
      /\ mUidSortedList' = moveUidsToTop_l(mUidSortedList, notice.top, TRUE)
  BY Zenon DEF onTopUidsChanged, pauseVars, noCalls
<1>2. live' = live /\ (\A j : UidsOf(j)' = UidsOf(j) /\ State(j)' = State(j))
  BY <1>1, Zenon DEF live, UidsOf, State
<1>3. QueueInv' /\ (\A k, u : InQueue(k, u)' <=> InQueue(k, u))
  BY <1>1, MoveSorted, Zenon DEF IInv, QueueInv, InQueue
<1>4. SessionTypes'
  BY <1>1, <1>2, JobTypes, CallTypes, Zenon DEF IInv, SessionTypes
<1>5. ClientsInv'
  BY <1>2, <1>3, Zenon DEF IInv, ClientsInv
<1>6. OnlyCurrentRuns' /\ RunningIsWatched' /\ ActiveWatchesRunning'
  BY <1>1, <1>2, Zenon DEF IInv, OnlyCurrentRuns, RunningIsWatched, ActiveWatchesRunning
<1>7. JobInv'
  BY <1>1, Zenon DEF JobInv, Update, Idle
<1> QED
  BY <1>3, <1>4, <1>5, <1>6, <1>7, Zenon DEF IInv
(* removeSession_l takes one session out of the map and out of every queue.     *)
(* m is the session map at the call: states may differ from mSessionMap.        *)
LEMMA SessionRemoved ==
  ASSUME IInv, NEW k \in live, NEW m, m \in [live -> SessionRecords],
         \A j \in live : m[j].allClientUids = UidsOf(j),
         removeSession_l(m, k)
  PROVE  /\ live' = live \ {k} /\ live' \subseteq Keys
         /\ mSessionMap' \in [live' -> SessionRecords]
         /\ \A j \in live' : mSessionMap'[j] = m[j]
         /\ mCurrentSession' = CurrentWithout(k)
         /\ mCurrentSession' \in Keys \cup {NoSession}
         /\ IsHistory(mUidHistoryMap')
         /\ QueueInv'
         /\ ClientsInv'
<1>1. /\ DOMAIN m = live /\ k \in Keys
      /\ UidsOf(k) \in SUBSET AllUids
  BY Zenon DEF IInv, SessionTypes, SessionRecords, UidsOf
<1>2. /\ mSessionMap' = [j \in live \ {k} |-> m[j]]
      /\ mCurrentSession' = CurrentWithout(k)
      /\ leaveQueues(k, UidsOf(k))
  BY <1>1, Zenon DEF removeSession_l, Restrict
<1>3. /\ live' = live \ {k} /\ live' \subseteq Keys
      /\ mSessionMap' \in [live' -> SessionRecords]
      /\ \A j \in live' : mSessionMap'[j] = m[j]
  BY <1>2, Zenon DEF live, IInv, SessionTypes
<1>4. mCurrentSession' \in Keys \cup {NoSession}
  BY <1>2, Zenon DEF CurrentWithout, IInv, SessionTypes
<1>5. IsHistory(mUidHistoryMap')
  <2>1. PICK t \in IF m[k].state = "NOT_STARTED" THEN {0} ELSE 0..BurstTimeQuota :
           mUidHistoryMap' = onSessionCompleted(mUidHistoryMap, m[k].allClientUids, t)
    BY Zenon DEF removeSession_l
  <2>2. t \in Nat
    BY PacerAssumption
  <2> QED
    BY <2>1, <2>2, CompletedHistory, Zenon DEF IInv, SessionTypes
<1>6. \A u \in UidsOf(k) : InQueue(k, u)
  BY <1>1, Zenon DEF IInv, ClientsInv
<1>7. /\ QueueInv'
      /\ \A j \in Keys, v \in AllUids :
           InQueue(j, v)' <=> (InQueue(j, v) /\ ~(j = k /\ v \in UidsOf(k)))
  BY <1>1, <1>2, <1>6, LeaveQueues, Zenon DEF IInv
<1>8. \A j \in live' : UidsOf(j)' = UidsOf(j)
  BY <1>3, Zenon DEF UidsOf
<1>9. ClientsInv'
  BY <1>1, <1>3, <1>7, <1>8 DEF IInv, ClientsInv
<1> QED
  BY <1>2, <1>3, <1>4, <1>5, <1>7, <1>9, Zenon

(* The running session and the watchdog, when a session ends. *)
LEMMA EndedSession ==
  ASSUME IInv, NEW k \in live, removeSession_l(mSessionMap, k),
         watchdog' = WatchdogStopIf(watchdog, State(k) = "RUNNING")
  PROVE  /\ OnlyCurrentRuns' /\ RunningIsWatched' /\ ActiveWatchesRunning'
         /\ watchdog' \in WatchdogStates
<1>1. mSessionMap \in [live -> SessionRecords] /\ \A j \in live : mSessionMap[j].allClientUids = UidsOf(j)
  BY Zenon DEF IInv, SessionTypes, UidsOf
<1>2. /\ live' = live \ {k}
      /\ mCurrentSession' = CurrentWithout(k)
      /\ \A j \in live' : State(j)' = State(j)
  BY <1>1, SessionRemoved, Zenon DEF State
<1>3. OnlyCurrentRuns'
  BY <1>2, Zenon DEF IInv, OnlyCurrentRuns, CurrentWithout
<1>4. watchdog' \in WatchdogStates
  BY WatchdogTypes, Zenon DEF IInv, SessionTypes
<1>5. CASE State(k) = "RUNNING"
  <2>1. \A j \in live' : State(j)' # "RUNNING"
    BY <1>2, <1>5, Zenon DEF IInv, OnlyCurrentRuns
  <2>2. ~watchdog'.mActive
    BY <1>5, Zenon DEF WatchdogStopIf, WatchdogStop, IInv, SessionTypes, WatchdogStates
  <2> QED
    BY <1>3, <1>4, <2>1, <2>2, Zenon DEF RunningIsWatched, ActiveWatchesRunning
<1>6. CASE State(k) # "RUNNING"
  <2>1. watchdog' = watchdog
    BY <1>6, Zenon DEF WatchdogStopIf
  <2>2. RunningIsWatched'
    BY <1>2, <2>1, Zenon DEF IInv, RunningIsWatched
  <2>3. ActiveWatchesRunning'
    BY <1>2, <1>6, <2>1, Zenon DEF IInv, ActiveWatchesRunning
  <2> QED
    BY <1>3, <1>4, <2>2, <2>3, Zenon
<1> QED
  BY <1>5, <1>6, Zenon

(* One iteration of the loop over sessionsToRemove. *)
LEMMA DropNextStep ==
  ASSUME IInv, NEW k \in Keys, dropNext(k)
  PROVE  IInv'
<1>1. /\ k \in job.drop /\ k \in live
      /\ job.drop \in SUBSET Keys /\ job.strip \in SUBSET Keys /\ job.keep \in SUBSET AllUids
  BY Zenon DEF dropNext, First, IInv, JobInv, SessionTypes, JobStates
<1>2. /\ mSessionMap \in [live -> SessionRecords]
      /\ \A j \in live : mSessionMap[j].allClientUids = UidsOf(j)
  BY Zenon DEF IInv, SessionTypes, UidsOf
<1>3. /\ removeSession_l(mSessionMap, k)
      /\ watchdog' = WatchdogStopIf(watchdog, State(k) = "RUNNING")
      /\ calls' = IF State(k) # "NOT_STARTED" THEN <<<<"stop", k>>>> ELSE << >>
      /\ job' = Remove(job.drop \ {k}, job.strip, job.keep)
      /\ UNCHANGED <<mResourceLost, mThermalThrottling, notice>>
  BY Zenon DEF dropNext, pauseVars
<1>4. /\ live' = live \ {k} /\ live' \subseteq Keys
      /\ mSessionMap' \in [live' -> SessionRecords]
      /\ \A j \in live' : mSessionMap'[j] = mSessionMap[j]
      /\ mCurrentSession' \in Keys \cup {NoSession}
      /\ IsHistory(mUidHistoryMap')
      /\ QueueInv' /\ ClientsInv'
  BY <1>1, <1>2, <1>3, SessionRemoved, Zenon
<1>5. /\ OnlyCurrentRuns' /\ RunningIsWatched' /\ ActiveWatchesRunning'
      /\ watchdog' \in WatchdogStates
  BY <1>1, <1>3, EndedSession, Zenon
<1>6. SessionTypes'
  <2>1. job' \in JobStates
    BY <1>1, <1>3, JobTypes, Zenon
  <2>2. calls' \in Seq(CallOps \X Keys)
    BY <1>3, CallTypes, Zenon DEF CallOps
  <2> QED
    BY <1>3, <1>4, <1>5, <2>1, <2>2, Zenon DEF IInv, SessionTypes
<1>7. JobInv'
  <2>1. \A j \in live' : UidsOf(j)' = UidsOf(j)
    BY <1>4, Zenon DEF UidsOf
  <2>2. /\ job'.drop = job.drop \ {k} /\ job'.strip = job.strip /\ job'.keep = job.keep
        /\ job'.pc # "remove" => job'.drop = {} /\ job'.strip = {}
    BY <1>3, Zenon DEF Remove
  <2>3. job.strip \subseteq live'
    BY <1>1, <1>4, Zenon DEF IInv, JobInv
  <2> QED
    BY <1>4, <2>1, <2>2, <2>3, Zenon DEF IInv, JobInv
<1> QED
  BY <1>4, <1>5, <1>6, <1>7, Zenon DEF IInv
(* One iteration of the loop over the sessions that stay for other uids. *)
LEMMA StripNextStep ==
  ASSUME IInv, NEW k \in Keys, stripNext(k)
  PROVE  IInv'
<1> DEFINE gone == UidsOf(k) \ job.keep
<1>1. /\ k \in job.strip /\ k \in live
      /\ job.strip \in SUBSET Keys /\ job.keep \in SUBSET AllUids
      /\ UidsOf(k) \cap job.keep # {}
      /\ UidsOf(k) \in SUBSET AllUids
  BY Zenon DEF stripNext, First, IInv, JobInv, SessionTypes, JobStates, SessionRecords,
     UidsOf
<1>2. /\ leaveQueues(k, gone)
      /\ mSessionMap' = [mSessionMap EXCEPT ![k].allClientUids = @ \cap job.keep]
      /\ mUidHistoryMap' = onSessionCancelled(mUidHistoryMap, gone)
      /\ job' = Remove({}, job.strip \ {k}, job.keep)
      /\ calls' = << >>
      /\ UNCHANGED <<mCurrentSession, mResourceLost, mThermalThrottling, watchdog, notice>>
  BY Zenon DEF stripNext, stripSession_l, pauseVars, noCalls
<1>3. /\ live' = live
      /\ mSessionMap' \in [live -> SessionRecords]
      /\ \A j \in live : /\ UidsOf(j)' = IF j = k THEN UidsOf(k) \cap job.keep ELSE UidsOf(j)
                         /\ State(j)' = State(j)
  BY <1>1, <1>2, Zenon DEF live, IInv, SessionTypes, SessionRecords, UidsOf, State
<1>4. \A u \in gone : InQueue(k, u)
  BY <1>1, Zenon DEF IInv, ClientsInv
<1>5. /\ QueueInv'
      /\ \A j \in Keys, v \in AllUids :
           InQueue(j, v)' <=> (InQueue(j, v) /\ ~(j = k /\ v \in gone))
  BY <1>1, <1>2, <1>4, LeaveQueues, Zenon DEF IInv
<1>6. ClientsInv'
  BY <1>1, <1>3, <1>5 DEF IInv, ClientsInv
<1>7. SessionTypes'
  <2>1. job' \in JobStates
    BY <1>1, <1>2, JobTypes, Zenon
  <2>2. IsHistory(mUidHistoryMap')
    BY <1>2, CancelledHistory, Zenon DEF IInv, SessionTypes
  <2> QED
    BY <1>2, <1>3, <2>1, <2>2, CallTypes, Zenon DEF IInv, SessionTypes
<1>8. OnlyCurrentRuns' /\ RunningIsWatched' /\ ActiveWatchesRunning'
  BY <1>2, <1>3, Zenon DEF IInv, OnlyCurrentRuns, RunningIsWatched, ActiveWatchesRunning
<1>9. JobInv'
  <2>1. /\ job'.drop = {} /\ job'.strip = job.strip \ {k} /\ job'.keep = job.keep
        /\ job'.pc # "remove" => job'.drop = {} /\ job'.strip = {}
    BY <1>2, Zenon DEF Remove
  <2> QED
    BY <1>3, <2>1, Zenon DEF IInv, JobInv
<1> QED
  BY <1>5, <1>6, <1>7, <1>8, <1>9, Zenon DEF IInv

(* onFinish and onError: the transcoder is done with a session. *)
LEMMA SessionEndsStep ==
  ASSUME IInv, NEW k \in Keys, notifiable(k), noCalls, sessionEnds(k)
  PROVE  IInv'
<1>1. /\ k \in live
      /\ removeSession_l(mSessionMap, k)
      /\ watchdog' = WatchdogStopIf(watchdog, State(k) = "RUNNING")
      /\ job' = Update /\ calls' = << >>
      /\ UNCHANGED <<mResourceLost, mThermalThrottling, notice>>
  BY Zenon DEF notifiable, sessionEnds, noCalls, pauseVars
<1>2. /\ mSessionMap \in [live -> SessionRecords]
      /\ \A j \in live : mSessionMap[j].allClientUids = UidsOf(j)
  BY Zenon DEF IInv, SessionTypes, UidsOf
<1>3. /\ live' \subseteq Keys
      /\ mSessionMap' \in [live' -> SessionRecords]
      /\ mCurrentSession' \in Keys \cup {NoSession}
      /\ IsHistory(mUidHistoryMap')
      /\ QueueInv' /\ ClientsInv'
  BY <1>1, <1>2, SessionRemoved, Zenon
<1>4. /\ OnlyCurrentRuns' /\ RunningIsWatched' /\ ActiveWatchesRunning'
      /\ watchdog' \in WatchdogStates
  BY <1>1, EndedSession, Zenon
<1>5. SessionTypes'
  BY <1>1, <1>3, <1>4, JobTypes, CallTypes, Zenon DEF IInv, SessionTypes
<1>6. JobInv'
  BY <1>1, Zenon DEF JobInv, Update, Idle
<1> QED
  BY <1>3, <1>4, <1>5, <1>6, Zenon DEF IInv

(* The watchdog's report fails the session it is about. *)
LEMMA WatchdogTimeoutStep ==
  ASSUME IInv, NEW k \in Keys, onWatchdogTimeout(k)
  PROVE  IInv'
<1> DEFINE w == WatchdogStopIf(watchdog, State(k) = "RUNNING")
<1>1. /\ k \in live
      /\ watchdog.pc = "report" /\ watchdog.sessionKey = k
      /\ removeSession_l(mSessionMap, k)
      /\ watchdog' = [w EXCEPT !.pc = "wait", !.sessionKey = NoSession]
      /\ job' = Update /\ calls' = <<<<"abandon", k>>>>
      /\ UNCHANGED <<mResourceLost, mThermalThrottling, notice>>
  BY Zenon DEF notifiable, onWatchdogTimeout, pauseVars
<1>2. /\ mSessionMap \in [live -> SessionRecords]
      /\ \A j \in live : mSessionMap[j].allClientUids = UidsOf(j)
  BY Zenon DEF IInv, SessionTypes, UidsOf
<1>3. /\ live' = live \ {k} /\ live' \subseteq Keys
      /\ mSessionMap' \in [live' -> SessionRecords]
      /\ \A j \in live' : State(j)' = State(j)
      /\ mCurrentSession' = CurrentWithout(k)
      /\ mCurrentSession' \in Keys \cup {NoSession}
      /\ IsHistory(mUidHistoryMap')
      /\ QueueInv' /\ ClientsInv'
  BY <1>1, <1>2, SessionRemoved, Zenon DEF State
<1>4. w \in WatchdogStates /\ watchdog \in WatchdogStates
  BY WatchdogTypes, Zenon DEF IInv, SessionTypes
<1>5. /\ watchdog' \in WatchdogStates
      /\ watchdog'.mActive = w.mActive /\ watchdog'.mSessionToWatch = w.mSessionToWatch
  BY <1>1, <1>4, Zenon DEF WatchdogStates
<1>6. SessionTypes'
  BY <1>1, <1>3, <1>5, JobTypes, CallTypes, Zenon DEF IInv, SessionTypes, CallOps
<1>7. OnlyCurrentRuns'
  BY <1>3, Zenon DEF IInv, OnlyCurrentRuns, CurrentWithout
<1>8. RunningIsWatched' /\ ActiveWatchesRunning'
  <2>1. CASE State(k) = "RUNNING"
    <3>0. k = mCurrentSession /\ (\A j \in live : State(j) = "RUNNING" => j = k)
      BY <1>1, <2>1, Zenon DEF IInv, OnlyCurrentRuns
    <3>1. \A j \in live' : State(j)' # "RUNNING"
      BY <1>3, <3>0, Zenon
    <3>2. ~w.mActive
      BY <1>4, <2>1, Zenon DEF WatchdogStopIf, WatchdogStop, WatchdogStates
    <3> QED
      BY <1>5, <3>1, <3>2, Zenon DEF RunningIsWatched, ActiveWatchesRunning
  <2>2. CASE State(k) # "RUNNING"
    <3>1. w = watchdog
      BY <2>2, Zenon DEF WatchdogStopIf
    <3>2. ASSUME NEW j \in live', State(j)' = "RUNNING"
          PROVE  watchdog'.mActive /\ watchdog'.mSessionToWatch = j
      <4>1. j \in live /\ j # k /\ State(j) = "RUNNING"
        BY <1>3, <3>2, Zenon
      <4>2. watchdog.mActive /\ watchdog.mSessionToWatch = j
        BY <1>1, <4>1, Zenon DEF IInv, RunningIsWatched
      <4> QED
        BY <1>5, <3>1, <4>2, Zenon
    <3>3. ActiveWatchesRunning'
      BY <1>3, <1>5, <2>2, <3>1, Zenon DEF IInv, ActiveWatchesRunning
    <3> QED
      BY <3>2, <3>3, Zenon DEF RunningIsWatched
  <2> QED
    BY <2>1, <2>2, Zenon
<1>9. JobInv'
  BY <1>1, Zenon DEF JobInv, Update, Idle
<1> QED
  BY <1>3, <1>6, <1>7, <1>8, <1>9, Zenon DEF IInv
(* A report about a session that is gone or was never started is ignored. *)
LEMMA StaleTimeoutStep ==
  ASSUME IInv, NEW k \in Keys, onStaleWatchdogTimeout(k)
  PROVE  IInv'
<1>1. /\ watchdog.sessionKey = k
      /\ k \in live => State(k) = "NOT_STARTED"
      /\ watchdog' = [watchdog EXCEPT !.pc = "wait", !.sessionKey = NoSession]
      /\ calls' = << >>
      /\ UNCHANGED <<mSessionMap, mSessionQueues, mUidSortedList, monitored, topUids,
                     mCurrentSession, mResourceLost, mThermalThrottling, mUidHistoryMap,
                     notice, job>>
  BY Zenon DEF onStaleWatchdogTimeout, notifiable, queueVars, pauseVars, noCalls
<1>2. /\ watchdog' \in WatchdogStates
      /\ watchdog'.mActive = watchdog.mActive
      /\ watchdog'.mSessionToWatch = watchdog.mSessionToWatch
  BY <1>1, Zenon DEF IInv, SessionTypes, WatchdogStates
<1>3. live' = live /\ (\A j : UidsOf(j)' = UidsOf(j) /\ State(j)' = State(j))
  BY <1>1, Zenon DEF live, UidsOf, State
<1>4. QueueInv' /\ (\A j, u : InQueue(j, u)' <=> InQueue(j, u))
  BY <1>1, Zenon DEF IInv, QueueInv, InQueue
<1>5. SessionTypes'
  BY <1>1, <1>2, <1>3, CallTypes, Zenon DEF IInv, SessionTypes
<1>6. ClientsInv'
  BY <1>3, <1>4, Zenon DEF IInv, ClientsInv
<1>7. OnlyCurrentRuns' /\ JobInv'
  BY <1>1, <1>3, Zenon DEF IInv, OnlyCurrentRuns, JobInv
<1>8. RunningIsWatched'
  BY <1>1, <1>2, <1>3, Zenon DEF IInv, RunningIsWatched
<1>9. ActiveWatchesRunning'
  BY <1>2, <1>3, Zenon DEF IInv, ActiveWatchesRunning
<1> QED
  BY <1>4, <1>5, <1>6, <1>7, <1>8, <1>9, Zenon DEF IInv

(* Pausing the current session leaves no session RUNNING and stops the watchdog. *)
LEMMA PausedFacts ==
  ASSUME IInv
  PROVE  /\ MapPaused \in [live -> SessionRecords]
         /\ \A j \in live : /\ MapPaused[j].allClientUids = UidsOf(j)
                            /\ MapPaused[j].state = IF State(j) = "RUNNING" THEN "PAUSED" ELSE State(j)
         /\ WatchdogPaused \in WatchdogStates
         /\ ~WatchdogPaused.mActive
         /\ CallPause \in Seq(CallOps \X Keys)
<1>1. /\ mSessionMap \in [live -> SessionRecords] /\ watchdog \in WatchdogStates
      /\ curRunning \in BOOLEAN
      /\ curRunning => mCurrentSession \in live /\ mCurrentSession \in Keys
  BY Zenon DEF IInv, SessionTypes, OnlyCurrentRuns, curRunning
<1>2. \A j \in live : State(j) = "RUNNING" <=> (curRunning /\ j = mCurrentSession)
  BY <1>1, KeysAssumption, Zenon DEF IInv, OnlyCurrentRuns, curRunning, SessionTypes
<1>3. MapPaused \in [live -> SessionRecords]
  BY <1>1, Zenon DEF MapPaused, SessionRecords, LiveStates
<1>4. \A j \in live : /\ MapPaused[j].allClientUids = UidsOf(j)
                      /\ MapPaused[j].state = IF State(j) = "RUNNING" THEN "PAUSED" ELSE State(j)
  BY <1>1, <1>2, Zenon DEF MapPaused, SessionRecords, UidsOf, State
<1>5. WatchdogPaused \in WatchdogStates
  BY <1>1, WatchdogTypes, Zenon DEF WatchdogPaused
<1>6. ~WatchdogPaused.mActive
  <2>1. CASE curRunning
    BY <1>1, <2>1, Zenon DEF WatchdogPaused, WatchdogStopIf, WatchdogStop,
       WatchdogStates
  <2>2. CASE ~curRunning
    BY <1>2, <2>2, Zenon DEF WatchdogPaused, WatchdogStopIf, IInv, ActiveWatchesRunning
  <2> QED
    BY <2>1, <2>2, Zenon
<1>7. CallPause \in Seq(CallOps \X Keys)
  BY <1>1, CallTypes, Zenon DEF CallPause, CallOps
<1> QED
  BY <1>3, <1>4, <1>5, <1>6, <1>7, Zenon

(* updateCurrentSession_l leaves everything as it is, or pauses globally. *)
LEMMA UpdateDoneStep ==
  ASSUME IInv, NEW top, updateDone(top)
  PROVE  IInv'
<1>1. job' = Idle /\ calls' = << >>
  BY Zenon DEF updateDone, noCalls
<1>2. SessionTypes'
  BY <1>1, JobTypes, CallTypes, Zenon DEF updateDone, untouched, queueVars, pauseVars,
     IInv, SessionTypes, live
<1>3. JobInv'
  BY <1>1, Zenon DEF JobInv, Idle
<1> QED
  BY <1>2, <1>3, QuietStep, Zenon DEF updateDone, untouched, queueVars

(* updateCurrentSession_l that finds nothing to run and pauses what ran. *)
LEMMA NothingToRunStep ==
  ASSUME IInv, updateNothingToRun
  PROVE  IInv'
<1>1. /\ mSessionMap' = MapPaused /\ watchdog' = WatchdogPaused /\ calls' = CallPause
      /\ mCurrentSession' = NoSession /\ job' = Idle
      /\ UNCHANGED <<mSessionQueues, mUidSortedList, monitored, topUids, mResourceLost,
                     mThermalThrottling, mUidHistoryMap, notice>>
  BY Zenon DEF updateNothingToRun, queueVars, pauseVars
<1>2. /\ live' = live
      /\ \A j \in live : UidsOf(j)' = UidsOf(j) /\ State(j)' # "RUNNING"
  BY <1>1, PausedFacts, Zenon DEF live, UidsOf, State
<1>3. QueueInv' /\ (\A j, u : InQueue(j, u)' <=> InQueue(j, u))
  BY <1>1, Zenon DEF IInv, QueueInv, InQueue
<1>4. SessionTypes'
  BY <1>1, <1>2, PausedFacts, JobTypes, Zenon DEF IInv, SessionTypes
<1>5. ClientsInv'
  BY <1>2, <1>3, Zenon DEF IInv, ClientsInv
<1>6. OnlyCurrentRuns' /\ RunningIsWatched' /\ ActiveWatchesRunning'
  BY <1>1, <1>2, PausedFacts, Zenon DEF OnlyCurrentRuns, RunningIsWatched,
     ActiveWatchesRunning
<1>7. JobInv'
  BY <1>1, Zenon DEF JobInv, Idle
<1> QED
  BY <1>3, <1>4, <1>5, <1>6, <1>7, Zenon DEF IInv
(* The front uid has a queue, and when there is any session its queue is not   *)
(* empty.                                                                      *)
LEMMA FrontQueueIsNotEmpty ==
  ASSUME IInv, live # {}, NEW topUid \in AllUids, IsFront(mUidSortedList, topUid)
  PROVE  /\ topUid \in DOMAIN mSessionQueues /\ mSessionQueues[topUid] \in Seq(Keys)
         /\ mSessionQueues[topUid] # << >>
<1>1. ListUids(mUidSortedList) = DOMAIN mSessionQueues
  BY ListUidsOf, Zenon DEF IInv, QueueInv
<1>2. topUid \in DOMAIN mSessionQueues /\ mSessionQueues[topUid] \in Seq(Keys)
  BY <1>1, Zenon DEF IsFront, IInv, QueueInv
<1>3. CASE topUid # OFFLINE_UID
  BY <1>2, <1>3, Zenon DEF IInv, QueueInv
<1>4. CASE topUid = OFFLINE_UID
  <2>1. PICK k \in live : UidsOf(k) # {}
    BY Zenon DEF IInv, ClientsInv
  <2>2. PICK u \in UidsOf(k) : TRUE
    BY <2>1, Zenon
  <2>3. k \in Keys /\ u \in AllUids
    BY <2>2, Zenon DEF IInv, SessionTypes, SessionRecords, UidsOf
  <2>4. u \in DOMAIN mSessionQueues /\ k \in Range(mSessionQueues[u])
    BY <2>2, <2>3, Zenon DEF IInv, ClientsInv, InQueue
  <2>5. u = OFFLINE_UID
    BY <1>1, <1>2, <1>4, <2>4, Zenon DEF IsFront, IInv, QueueInv, IsSorted, IsListOf
  <2> QED
    BY <1>2, <1>4, <2>4, <2>5 DEF Range
<1> QED
  BY <1>2, <1>3, <1>4, Zenon

(* getTopSession_l returns a session of the front uid, or none if the service  *)
(* is paused or has no session.                                                *)
LEMMA TopSessionIsFront ==
  ASSUME IInv, NEW top, IsTopSession(top)
  PROVE  IF live = {} \/ mResourceLost \/ mThermalThrottling THEN top = NoSession
         ELSE top \in live /\ \E u \in UidsOf(top) : IsFront(mUidSortedList, u)
<1> SUFFICES ASSUME live # {}, ~mResourceLost, ~mThermalThrottling
             PROVE  top \in live /\ \E u \in UidsOf(top) : IsFront(mUidSortedList, u)
  BY Zenon DEF IsTopSession
<1>1. PICK topUid \in AllUids :
        /\ IsFront(mUidSortedList, topUid)
        /\ top = IF /\ mCurrentSession # NoSession
                    /\ State(mCurrentSession) = "RUNNING"
                    /\ topUid \in UidsOf(mCurrentSession)
                   THEN mCurrentSession
                   ELSE Head(mSessionQueues[topUid])
  BY Zenon DEF IsTopSession
<1>2. CASE /\ mCurrentSession # NoSession /\ State(mCurrentSession) = "RUNNING"
           /\ topUid \in UidsOf(mCurrentSession)
  BY <1>1, <1>2, Zenon DEF IInv, OnlyCurrentRuns
<1>3. CASE top = Head(mSessionQueues[topUid])
  <2>1. topUid \in DOMAIN mSessionQueues /\ mSessionQueues[topUid] \in Seq(Keys)
          /\ mSessionQueues[topUid] # << >>
    BY <1>1, FrontQueueIsNotEmpty, Zenon
  <2>2. top \in Keys /\ top \in Range(mSessionQueues[topUid])
    <3> DEFINE q == mSessionQueues[topUid]
    <3>1. 1 \in DOMAIN q /\ Head(q) = q[1] /\ q[1] \in Keys
      BY <2>1
    <3> QED
      BY <1>3, <3>1, Zenon DEF Range
  <2>3. top \in live /\ topUid \in UidsOf(top)
    BY <2>1, <2>2, Zenon DEF IInv, ClientsInv, InQueue
  <2> QED
    BY <1>1, <2>3, Zenon
<1> QED
  BY <1>1, <1>2, <1>3, Zenon

(* getTopSession_l never returns a session that does not exist. *)
LEMMA TopSessionIsLive ==
  ASSUME IInv, NEW top, IsTopSession(top), top # NoSession
  PROVE  top \in live
BY TopSessionIsFront, Zenon

(* A session dropped by the pacer. *)
LEMMA DropByPacerStep ==
  ASSUME IInv, NEW top, updateDropByPacer(top)
  PROVE  IInv'
<1>1. /\ top \in live /\ State(top) = "NOT_STARTED" /\ job.pc = "update"
      /\ removeSession_l(MapPaused, top)
      /\ watchdog' = WatchdogPaused /\ calls' = CallPause
      /\ UNCHANGED <<mResourceLost, mThermalThrottling, notice, job>>
  BY TopSessionIsLive, Zenon DEF updateDropByPacer, updating, pauseVars
<1>2. /\ live' = live \ {top} /\ live' \subseteq Keys
      /\ mSessionMap' \in [live' -> SessionRecords]
      /\ \A j \in live' : mSessionMap'[j] = MapPaused[j]
      /\ mCurrentSession' = CurrentWithout(top)
      /\ mCurrentSession' \in Keys \cup {NoSession}
      /\ IsHistory(mUidHistoryMap')
      /\ QueueInv' /\ ClientsInv'
  BY <1>1, PausedFacts, SessionRemoved, Zenon
<1>3. \A j \in live' : State(j)' = IF State(j) = "RUNNING" THEN "PAUSED" ELSE State(j)
  BY <1>2, PausedFacts, Zenon DEF State
<1>4. SessionTypes'
  BY <1>1, <1>2, PausedFacts, Zenon DEF IInv, SessionTypes
<1>5. OnlyCurrentRuns'
  <2>1. mCurrentSession # NoSession => mCurrentSession \in live /\ State(mCurrentSession) # "NOT_STARTED"
    BY Zenon DEF IInv, OnlyCurrentRuns
  <2>2. mCurrentSession' = mCurrentSession
    BY <1>1, <1>2, <2>1, KeysAssumption, Zenon DEF CurrentWithout, IInv, SessionTypes
  <2> QED
    BY <1>1, <1>2, <1>3, <2>1, <2>2, Zenon DEF OnlyCurrentRuns
<1>6. RunningIsWatched' /\ ActiveWatchesRunning'
  BY <1>1, <1>3, PausedFacts, Zenon DEF RunningIsWatched, ActiveWatchesRunning
<1>7. JobInv'
  BY <1>1, Zenon DEF IInv, JobInv
<1> QED
  BY <1>2, <1>4, <1>5, <1>6, <1>7, Zenon DEF IInv

(* The top session becomes the only RUNNING one, and is watched. *)
LEMMA RunTop ==
  ASSUME IInv, NEW top \in live,
         mSessionMap' \in [live -> SessionRecords],
         \A j \in live : /\ mSessionMap'[j].allClientUids = UidsOf(j)
                         /\ mSessionMap'[j].state = IF j = top THEN "RUNNING" ELSE MapPaused[j].state,
         watchdog' = WatchdogStart(WatchdogPaused, top),
         mCurrentSession' = top, job' = Idle,
         calls' \in Seq(CallOps \X Keys), IsHistory(mUidHistoryMap'),
         UNCHANGED <<mSessionQueues, mUidSortedList, monitored, topUids, mResourceLost,
                     mThermalThrottling, notice>>
  PROVE  IInv'
<1>1. /\ live' = live
      /\ \A j \in live : UidsOf(j)' = UidsOf(j) /\ (State(j)' = "RUNNING" <=> j = top)
  BY PausedFacts, Zenon DEF live, UidsOf, State
<1>2. QueueInv' /\ (\A j, u : InQueue(j, u)' <=> InQueue(j, u))
  BY Zenon DEF IInv, QueueInv, InQueue
<1>3. top \in Keys
  BY Zenon DEF IInv, SessionTypes
<1>4. /\ watchdog' \in WatchdogStates
      /\ watchdog'.mActive /\ watchdog'.mSessionToWatch = top
  BY <1>3, PausedFacts, WatchdogTypes, Zenon DEF WatchdogStart, WatchdogStates
<1>5. SessionTypes'
  BY <1>1, <1>3, <1>4, JobTypes, Zenon DEF IInv, SessionTypes
<1>6. ClientsInv'
  BY <1>1, <1>2, Zenon DEF IInv, ClientsInv
<1>7. OnlyCurrentRuns' /\ RunningIsWatched' /\ ActiveWatchesRunning'
  BY <1>1, <1>4, Zenon DEF OnlyCurrentRuns, RunningIsWatched, ActiveWatchesRunning
<1>8. JobInv'
  BY Zenon DEF JobInv, Idle
<1> QED
  BY <1>2, <1>5, <1>6, <1>7, <1>8, Zenon DEF IInv

(* updateCurrentSession_l that starts its choice, with the pacer's consent. *)
LEMMA StartStep ==
  ASSUME IInv, NEW top, updateStart(top)
  PROVE  IInv'
<1> DEFINE noted == {u \in UidsOf(top) : /\ isSubjectToQuota(u, CallingUid[top])
                                         /\ StartAllowed(mUidHistoryMap, u, CallingUid[top])}
<1>1. /\ top \in live /\ top \in Keys
      /\ mSessionMap' = [MapPaused EXCEPT ![top].state = "RUNNING", ![top].paced = noted]
      /\ mUidHistoryMap' = onSessionStarted(mUidHistoryMap, UidsOf(top), CallingUid[top])
      /\ watchdog' = WatchdogStart(WatchdogPaused, top)
      /\ calls' = Append(CallPause, <<"start", top>>)
      /\ mCurrentSession' = top /\ job' = Idle
      /\ UNCHANGED <<mSessionQueues, mUidSortedList, monitored, topUids, mResourceLost,
                     mThermalThrottling, notice>>
  BY TopSessionIsLive, Zenon DEF updateStart, updating, queueVars, pauseVars, IInv,
     SessionTypes
<1>2. UidsOf(top) \in SUBSET AllUids
  BY <1>1, Zenon DEF IInv, SessionTypes, SessionRecords, UidsOf
<1>3. noted \in SUBSET AllUids
  BY <1>2, Zenon
<1> HIDE DEF noted
<1>4. /\ mSessionMap' \in [live -> SessionRecords]
      /\ \A j \in live : /\ mSessionMap'[j].allClientUids = UidsOf(j)
                         /\ mSessionMap'[j].state = IF j = top THEN "RUNNING" ELSE MapPaused[j].state
  BY <1>1, <1>3, PausedFacts, Zenon DEF SessionRecords, LiveStates
<1>5. IsHistory(mUidHistoryMap')
  BY <1>1, <1>2, StartedHistory, Zenon DEF IInv, SessionTypes
<1>6. calls' \in Seq(CallOps \X Keys)
  BY <1>1, PausedFacts, CallTypes, Zenon DEF CallOps
<1> QED
  BY <1>1, <1>4, <1>5, <1>6, RunTop, Zenon

(* updateCurrentSession_l that resumes its choice. *)
LEMMA ResumeStep ==
  ASSUME IInv, NEW top, updateResume(top)
  PROVE  IInv'
<1>1. /\ top \in live /\ top \in Keys
      /\ mSessionMap' = [MapPaused EXCEPT ![top].state = "RUNNING"]
      /\ watchdog' = WatchdogStart(WatchdogPaused, top)
      /\ calls' = Append(CallPause, <<"resume", top>>)
      /\ mCurrentSession' = top /\ job' = Idle
      /\ UNCHANGED <<mSessionQueues, mUidSortedList, monitored, topUids, mResourceLost,
                     mThermalThrottling, mUidHistoryMap, notice>>
  BY TopSessionIsLive, Zenon DEF updateResume, updating, queueVars, pauseVars, IInv,
     SessionTypes
<1>2. /\ mSessionMap' \in [live -> SessionRecords]
      /\ \A j \in live : /\ mSessionMap'[j].allClientUids = UidsOf(j)
                         /\ mSessionMap'[j].state = IF j = top THEN "RUNNING" ELSE MapPaused[j].state
  BY <1>1, PausedFacts, Zenon DEF SessionRecords, LiveStates
<1>3. IsHistory(mUidHistoryMap')
  BY <1>1, Zenon DEF IInv, SessionTypes
<1>4. calls' \in Seq(CallOps \X Keys)
  BY <1>1, PausedFacts, CallTypes, Zenon DEF CallOps
<1> QED
  BY <1>1, <1>2, <1>3, <1>4, RunTop, Zenon

(* The transcoder has lost its resources: the running session is paused in place. *)
LEMMA ResourceLostStep ==
  ASSUME IInv, NEW k \in Keys, onResourceLost(k)
  PROVE  IInv'
<1>1. /\ k \in live /\ State(k) = "RUNNING"
      /\ mSessionMap' = [mSessionMap EXCEPT ![k].state = "PAUSED"]
      /\ watchdog' = WatchdogStop(watchdog)
      /\ calls' = << >> /\ mResourceLost' = TRUE
      /\ UNCHANGED <<mSessionQueues, mUidSortedList, monitored, topUids, mCurrentSession,
                     mThermalThrottling, mUidHistoryMap, notice, job>>
  BY Zenon DEF onResourceLost, notifiable, queueVars, noCalls
<1>2. /\ live' = live
      /\ mSessionMap' \in [live -> SessionRecords]
      /\ \A j \in live : /\ UidsOf(j)' = UidsOf(j)
                         /\ State(j)' = IF j = k THEN "PAUSED" ELSE State(j)
  BY <1>1, Zenon DEF live, IInv, SessionTypes, SessionRecords, LiveStates, UidsOf, State
<1>3. \A j \in live : State(j)' # "RUNNING"
  BY <1>1, <1>2, Zenon DEF IInv, OnlyCurrentRuns
<1>4. QueueInv' /\ (\A j, u : InQueue(j, u)' <=> InQueue(j, u))
  BY <1>1, Zenon DEF IInv, QueueInv, InQueue
<1>5. watchdog' \in WatchdogStates /\ ~watchdog'.mActive
  BY <1>1, WatchdogTypes DEF WatchdogStop, IInv, SessionTypes, WatchdogStates
<1>6. SessionTypes'
  BY <1>1, <1>2, <1>5, CallTypes, Zenon DEF IInv, SessionTypes
<1>7. ClientsInv'
  BY <1>2, <1>4, Zenon DEF IInv, ClientsInv
<1>8. OnlyCurrentRuns'
  BY <1>1, <1>2, <1>3, Zenon DEF IInv, OnlyCurrentRuns
<1>9. RunningIsWatched' /\ ActiveWatchesRunning'
  BY <1>2, <1>3, <1>5, Zenon DEF RunningIsWatched, ActiveWatchesRunning
<1>10. JobInv'
  BY <1>1, <1>2, Zenon DEF IInv, JobInv
<1> QED
  BY <1>4, <1>6, <1>7, <1>8, <1>9, <1>10, Zenon DEF IInv

(* The policies' callbacks that only ask for an update. *)
LEMMA ResourceAvailableStep ==
  ASSUME IInv, onResourceAvailable
  PROVE  IInv'
<1>1. SessionTypes'
  BY JobTypes, CallTypes, Zenon DEF onResourceAvailable, noCalls, queueVars, IInv,
     SessionTypes, live
<1>2. JobInv'
  BY Zenon DEF onResourceAvailable, JobInv, Update, Idle
<1> QED
  BY <1>1, <1>2, QuietStep, Zenon DEF onResourceAvailable, queueVars

(* onThrottlingStarted and onThrottlingStopped up to the scheduling loop. *)
LEMMA ThrottlingStep ==
  ASSUME IInv, NEW started \in BOOLEAN, onThrottling(started)
  PROVE  IInv'
<1>1. SessionTypes'
  BY JobTypes, CallTypes, Zenon DEF onThrottling, noCalls, queueVars, IInv,
     SessionTypes, live
<1>2. JobInv'
  BY Zenon DEF onThrottling, JobInv, Update, Idle
<1> QED
  BY <1>1, <1>2, QuietStep, Zenon DEF onThrottling, queueVars
(* A step of the watchdog's thread. *)
LEMMA WatchdogThreadStep ==
  ASSUME IInv, watchdog' \in WatchdogStates, calls' = << >>,
         RunningIsWatched', ActiveWatchesRunning',
         UNCHANGED <<mSessionMap, mSessionQueues, mUidSortedList, monitored, topUids,
                     mCurrentSession, mResourceLost, mThermalThrottling, mUidHistoryMap,
                     notice, job>>
  PROVE  IInv'
<1>1. live' = live /\ (\A j : UidsOf(j)' = UidsOf(j) /\ State(j)' = State(j))
  BY Zenon DEF live, UidsOf, State
<1>2. QueueInv' /\ (\A j, u : InQueue(j, u)' <=> InQueue(j, u))
  BY Zenon DEF IInv, QueueInv, InQueue
<1>3. SessionTypes'
  BY <1>1, CallTypes, Zenon DEF IInv, SessionTypes
<1>4. ClientsInv'
  BY <1>1, <1>2, Zenon DEF IInv, ClientsInv
<1>5. OnlyCurrentRuns' /\ JobInv'
  BY <1>1, Zenon DEF IInv, OnlyCurrentRuns, JobInv
<1> QED
  BY <1>2, <1>3, <1>4, <1>5, Zenon DEF IInv

(* The watchdog thread begins its timed wait. *)
LEMMA WatchdogWaitStep ==
  ASSUME IInv, watchdogWait
  PROVE  IInv'
<1>1. /\ calls' = << >>
      /\ UNCHANGED <<mSessionMap, mSessionQueues, mUidSortedList, monitored, topUids,
                     mCurrentSession, mResourceLost, mThermalThrottling, mUidHistoryMap,
                     notice, job>>
  BY Zenon DEF watchdogWait, queueVars, pauseVars, noCalls
<1>2. live' = live /\ (\A j : State(j)' = State(j))
  BY <1>1, Zenon DEF live, State
<1>3. watchdog \in WatchdogStates
  BY Zenon DEF IInv, SessionTypes
<1>4. CASE /\ watchdog.pc = "wait" /\ watchdog.mActive
           /\ watchdog' = [watchdog EXCEPT !.pc = "timed"]
  <2>1. /\ watchdog' \in WatchdogStates
        /\ watchdog'.mActive = watchdog.mActive
        /\ watchdog'.mSessionToWatch = watchdog.mSessionToWatch
    BY <1>3, <1>4, Zenon DEF WatchdogStates
  <2>2. RunningIsWatched'
    BY <1>2, <1>4, <2>1, Zenon DEF IInv, RunningIsWatched
  <2>3. ActiveWatchesRunning'
    BY <1>2, <2>1, Zenon DEF IInv, ActiveWatchesRunning
  <2> QED
    BY <1>1, <2>1, <2>2, <2>3, WatchdogThreadStep, Zenon
<1>5. CASE /\ watchdog.pc = "timed" /\ ~watchdog.mActive
           /\ watchdog' = WatchdogStop([watchdog EXCEPT !.pc = "wait"])
  <2>1. [watchdog EXCEPT !.pc = "wait"] \in WatchdogStates
    BY <1>3, Zenon DEF WatchdogStates
  <2>2. watchdog' \in WatchdogStates /\ ~watchdog'.mActive
    BY <1>5, <2>1, WatchdogTypes DEF WatchdogStop, WatchdogStates
  <2>3. \A j \in live : State(j) # "RUNNING"
    BY <1>5, Zenon DEF IInv, RunningIsWatched
  <2>4. RunningIsWatched' /\ ActiveWatchesRunning'
    BY <1>2, <2>2, <2>3, Zenon DEF RunningIsWatched, ActiveWatchesRunning
  <2> QED
    BY <1>1, <2>2, <2>4, WatchdogThreadStep, Zenon
<1> QED
  BY <1>4, <1>5, Zenon DEF watchdogWait

(* The timeout is reported for the session that is RUNNING, if one is. *)
LEMMA WatchdogExpiresStep ==
  ASSUME IInv, watchdogExpires
  PROVE  IInv'
<1> DEFINE w == [watchdog EXCEPT !.pc = "report", !.sessionKey = watchdog.mSessionToWatch]
<1>1. /\ calls' = << >>
      /\ watchdog.pc = "timed" /\ watchdog' = WatchdogStop(w)
      /\ UNCHANGED <<mSessionMap, mSessionQueues, mUidSortedList, monitored, topUids,
                     mCurrentSession, mResourceLost, mThermalThrottling, mUidHistoryMap,
                     notice, job>>
  BY Zenon DEF watchdogExpires, queueVars, pauseVars, noCalls
<1>2. live' = live /\ (\A j : State(j)' = State(j))
  BY <1>1, Zenon DEF live, State
<1>3. watchdog \in WatchdogStates /\ w \in WatchdogStates
  BY Zenon DEF IInv, SessionTypes, WatchdogStates
<1>4. /\ watchdog' \in WatchdogStates /\ ~watchdog'.mActive
      /\ watchdog'.pc = "report" /\ watchdog'.sessionKey = watchdog.mSessionToWatch
  <2>1. w.pc = "report" /\ w.sessionKey = watchdog.mSessionToWatch
    BY <1>3, Zenon DEF WatchdogStates
  <2>2. ASSUME NEW v \in WatchdogStates
        PROVE  /\ ~WatchdogStop(v).mActive /\ WatchdogStop(v).pc = v.pc
               /\ WatchdogStop(v).sessionKey = v.sessionKey
    BY Zenon DEF WatchdogStop, WatchdogStates
  <2> HIDE DEF w
  <2>3. WatchdogStop(w) \in WatchdogStates
    BY <1>3, WatchdogTypes, Zenon
  <2> QED
    BY <1>1, <1>3, <2>1, <2>2, <2>3, Zenon
<1>5. \A j \in live : State(j) = "RUNNING" => watchdog.mSessionToWatch = j
  BY <1>1, Zenon DEF IInv, RunningIsWatched
<1>6. RunningIsWatched' /\ ActiveWatchesRunning'
  BY <1>2, <1>4, <1>5, Zenon DEF RunningIsWatched, ActiveWatchesRunning
<1> QED
  BY <1>1, <1>4, <1>6, WatchdogThreadStep, Zenon

(* A state change of a uid inside the uid policy. *)
LEMMA UidStateChangedStep ==
  ASSUME IInv, NEW uid \in Uids, NEW isUidGone \in BOOLEAN, uidStateChanged(uid, isUidGone)
  PROVE  IInv'
<1>1. PICK top \in TopAfterChange(uid) :
        /\ topUids' = top
        /\ notice' = [top  |-> IF top = ComparedTop THEN {} ELSE top,
                      gone |-> IF isUidGone THEN {uid} ELSE {}]
  BY Zenon DEF uidStateChanged
<1>2. /\ uid \in monitored /\ calls' = << >>
      /\ UNCHANGED <<mSessionMap, mSessionQueues, mUidSortedList, monitored, mCurrentSession,
                     mResourceLost, mThermalThrottling, mUidHistoryMap, watchdog, job>>
  BY Zenon DEF uidStateChanged, pauseVars, noCalls
<1>3. live' = live /\ (\A j : UidsOf(j)' = UidsOf(j) /\ State(j)' = State(j))
  BY <1>2, Zenon DEF live, UidsOf, State
<1>4. topUids' \subseteq monitored /\ monitored \subseteq Uids
  BY <1>1, <1>2, Zenon DEF TopAfterChange, IInv, QueueInv, IsSorted, AllUids
<1>5. QueueInv' /\ (\A j, u : InQueue(j, u)' <=> InQueue(j, u))
  BY <1>2, <1>4, Zenon DEF IInv, QueueInv, InQueue
<1>6. SessionTypes'
  <2>1. notice' \in [top : SUBSET Uids, gone : SUBSET Uids]
    BY <1>1, <1>4, Zenon
  <2> QED
    BY <1>2, <1>3, <2>1, CallTypes, Zenon DEF IInv, SessionTypes
<1>7. ClientsInv'
  BY <1>3, <1>5, Zenon DEF IInv, ClientsInv
<1>8. OnlyCurrentRuns' /\ RunningIsWatched' /\ ActiveWatchesRunning' /\ JobInv'
  BY <1>2, <1>3, Zenon DEF IInv, OnlyCurrentRuns, RunningIsWatched,
     ActiveWatchesRunning, JobInv
<1> QED
  BY <1>5, <1>6, <1>7, <1>8, Zenon DEF IInv

(* More than pacerBurstThresholdMs go by for a uid. *)
LEMMA ThresholdPassesStep ==
  ASSUME IInv, NEW u \in AllUids, burstThresholdPasses(u)
  PROVE  IInv'
<1>1. /\ u \in DOMAIN mUidHistoryMap
      /\ mUidHistoryMap' = TimePasses(mUidHistoryMap, u) /\ calls' = << >>
      /\ UNCHANGED <<mSessionMap, mSessionQueues, mUidSortedList, monitored, topUids,
                     mCurrentSession, mResourceLost, mThermalThrottling, watchdog, notice, job>>
  BY Zenon DEF burstThresholdPasses, queueVars, pauseVars, noCalls
<1>2. SessionTypes'
  BY <1>1, TimePassesHistory, CallTypes, Zenon DEF IInv, SessionTypes, live
<1>3. JobInv'
  <2>1. live' = live /\ (\A j : UidsOf(j)' = UidsOf(j))
    BY <1>1, Zenon DEF live, UidsOf
  <2> QED
    BY <1>1, <2>1, Zenon DEF IInv, JobInv
<1> QED
  BY <1>1, <1>2, <1>3, QuietStep, Zenon
-----------------------------------------------------------------------------
(* The pacer's activity                                                    *)

(* Session k is one for which the pacer has marked u active. *)
Backs(k, u) ==
  /\ k \in live /\ State(k) # "NOT_STARTED"
  /\ u \in UidsOf(k) /\ u \in mSessionMap[k].paced
ActiveUids == {u \in DOMAIN mUidHistoryMap : mUidHistoryMap[u].sessionActive}

(* No uid becomes active, and those that stay so keep their sessions. *)
LEMMA ActivityKept ==
  ASSUME NoLeakedActivity,
         \A u \in ActiveUids' : u \in ActiveUids /\ \A k : Backs(k, u) => Backs(k, u)'
  PROVE  NoLeakedActivity'
<1>1. \A u \in ActiveUids : \E k \in live : Backs(k, u)
  BY Zenon DEF NoLeakedActivity, ActiveUids, Backs
<1>2. \A u \in ActiveUids' : \E k : Backs(k, u)'
  BY <1>1, Zenon
<1> QED
  BY <1>2, Zenon DEF NoLeakedActivity, ActiveUids, Backs

(* Handlers that leave the history alone and take no uid from a session. *)
LEMMA ActivityOfMap ==
  ASSUME NoLeakedActivity, mUidHistoryMap' = mUidHistoryMap, live \subseteq live',
         \A k \in live : /\ State(k) # "NOT_STARTED" => State(k)' # "NOT_STARTED"
                         /\ UidsOf(k) \subseteq UidsOf(k)'
                         /\ mSessionMap'[k].paced = mSessionMap[k].paced
  PROVE  NoLeakedActivity'
<1>1. ActiveUids' = ActiveUids
  BY Zenon DEF ActiveUids
<1>2. \A u, k : Backs(k, u) => Backs(k, u)'
  BY Zenon DEF Backs
<1> QED
  BY <1>1, <1>2, ActivityKept, Zenon

(* A step that leaves the pacer and the sessions alone leaks nothing. *)
LEMMA ActivityUnchanged ==
  ASSUME NoLeakedActivity, UNCHANGED <<mUidHistoryMap, mSessionMap>>
  PROVE  NoLeakedActivity'
BY ActivityOfMap, Zenon DEF live, State, UidsOf

(* A session that ends takes the activity of its uids with it. *)
LEMMA ActivityOfRemoved ==
  ASSUME IInv, NoLeakedActivity, NEW k \in live, NEW m, m \in [live -> SessionRecords],
         \A j \in live : /\ m[j].allClientUids = UidsOf(j)
                         /\ m[j].paced = mSessionMap[j].paced
                         /\ State(j) # "NOT_STARTED" => m[j].state # "NOT_STARTED",
         removeSession_l(m, k)
  PROVE  NoLeakedActivity'
<1>1. live' = live \ {k} /\ \A j \in live' : mSessionMap'[j] = m[j]
  BY SessionRemoved, Zenon
<1>2. PICK runningTime \in Nat :
         mUidHistoryMap' = onSessionCompleted(mUidHistoryMap, UidsOf(k), runningTime)
  BY PacerAssumption DEF removeSession_l
<1>3. ActiveUids' = ActiveUids \ UidsOf(k)
  BY <1>2, Zenon DEF ActiveUids, onSessionCompleted
<1>4. ASSUME NEW u \in ActiveUids', NEW j, Backs(j, u) PROVE Backs(j, u)'
  BY <1>1, <1>3, <1>4, Zenon DEF Backs, State, UidsOf
<1> QED
  BY <1>3, <1>4, ActivityKept, Zenon

(* removeSession_l takes the activity of the session away with it. *)
LEMMA ActivityOfEnded ==
  ASSUME IInv, NoLeakedActivity, NEW k \in live, removeSession_l(mSessionMap, k)
  PROVE  NoLeakedActivity'
BY ActivityOfRemoved, Zenon DEF IInv, SessionTypes, UidsOf, State

(* The uids that leave a session are no longer active. *)
LEMMA ActivityOfStripped ==
  ASSUME IInv, NoLeakedActivity, NEW k \in live, NEW keep, stripSession_l(k, keep)
  PROVE  NoLeakedActivity'
<1>1. /\ live' = live
      /\ \A j \in live : /\ State(j)' = State(j) /\ mSessionMap'[j].paced = mSessionMap[j].paced
                         /\ UidsOf(j)' = IF j = k THEN UidsOf(j) \cap keep ELSE UidsOf(j)
  BY Zenon DEF stripSession_l, IInv, SessionTypes, SessionRecords, live, State, UidsOf
<1>2. mUidHistoryMap' = onSessionCancelled(mUidHistoryMap, UidsOf(k) \ keep)
  BY Zenon DEF stripSession_l
<1>3. ActiveUids' = ActiveUids \ (UidsOf(k) \ keep)
  BY <1>2, Zenon DEF ActiveUids, onSessionCancelled, IInv, SessionTypes, IsHistory,
     UidHistoryEntry
<1>4. ASSUME NEW u \in ActiveUids', NEW j, Backs(j, u) PROVE Backs(j, u)'
  BY <1>1, <1>3, <1>4, Zenon DEF Backs
<1> QED
  BY <1>3, <1>4, ActivityKept, Zenon

(* The session that is paused for another one stays started. *)
LEMMA PausedPaces ==
  ASSUME IInv
  PROVE  \A j \in live : /\ MapPaused[j].paced = mSessionMap[j].paced
                         /\ State(j) # "NOT_STARTED" => MapPaused[j].state # "NOT_STARTED"
BY PausedFacts DEF MapPaused, IInv, SessionTypes, SessionRecords, State

(* onSessionStarted marks uids active for the session that starts; those over  *)
(* their quota are left as they were.                                          *)
LEMMA ActivityOfStarted ==
  ASSUME IInv, NoLeakedActivity, NEW top, updateStart(top)
  PROVE  NoLeakedActivity'
<1> DEFINE subject == {u \in UidsOf(top) : isSubjectToQuota(u, CallingUid[top])}
           noted == {u \in UidsOf(top) : /\ isSubjectToQuota(u, CallingUid[top])
                                         /\ StartAllowed(mUidHistoryMap, u, CallingUid[top])}
<1>1. /\ top \in live /\ State(top) = "NOT_STARTED"
      /\ mSessionMap' = [MapPaused EXCEPT ![top].state = "RUNNING", ![top].paced = noted]
      /\ mUidHistoryMap' = onSessionStarted(mUidHistoryMap, UidsOf(top), CallingUid[top])
  BY TopSessionIsLive, Zenon DEF updateStart, updating
<1>2. ASSUME NEW u \in ActiveUids', u \notin noted PROVE u \in ActiveUids
  <2>1. CASE u \in subject
    <3>1. u \in DOMAIN mUidHistoryMap /\ OverQuota(mUidHistoryMap[u])
      BY <1>2, <2>1, Zenon DEF StartAllowed
    <3>2. mUidHistoryMap'[u] = mUidHistoryMap[u]
      BY <1>1, <2>1, <3>1, Zenon DEF onSessionStarted, StartedEntry
    <3> QED
      BY <1>2, <3>1, <3>2, Zenon DEF ActiveUids
  <2>2. CASE u \notin subject
    BY <1>1, <1>2, <2>2, Zenon DEF ActiveUids, onSessionStarted
  <2> QED
    BY <2>1, <2>2, Zenon
<1> HIDE DEF noted, subject
<1>3. /\ live' = live /\ State(top)' = "RUNNING" /\ mSessionMap'[top].paced = noted
      /\ UidsOf(top)' = UidsOf(top)
      /\ \A j \in live \ {top} : mSessionMap'[j] = MapPaused[j]
  BY <1>1, PausedFacts, Zenon DEF live, State, UidsOf, SessionRecords
<1>4. \A u \in noted : Backs(top, u)'
  BY <1>1, <1>3, Zenon DEF Backs, noted
<1>5. ASSUME NEW u, NEW j, Backs(j, u) PROVE Backs(j, u)'
  <2>1. j \in live \ {top} /\ mSessionMap'[j] = MapPaused[j]
    BY <1>1, <1>3, <1>5, Zenon DEF Backs
  <2> QED
    BY <1>3, <1>5, <2>1, PausedFacts, PausedPaces, Zenon DEF Backs, State, UidsOf
<1>6. \A u \in ActiveUids' : \E j : Backs(j, u)'
  <2>1. \A u \in ActiveUids : \E j \in live : Backs(j, u)
    BY Zenon DEF NoLeakedActivity, ActiveUids, Backs
  <2> QED
    BY <1>2, <1>4, <1>5, <2>1, Zenon
<1> QED
  BY <1>6, Zenon DEF NoLeakedActivity, ActiveUids, Backs

(* Pausing and resuming leave the pacer alone. *)
LEMMA ActivityOfPaused ==
  ASSUME IInv, NoLeakedActivity, NEW top, updateNothingToRun \/ updateResume(top)
  PROVE  NoLeakedActivity'
<1>1. CASE updateNothingToRun
  BY <1>1, PausedFacts, PausedPaces, ActivityOfMap, Zenon DEF updateNothingToRun, live,
     State, UidsOf, IInv, SessionTypes
<1>2. CASE updateResume(top)
  <2>1. /\ top \in live /\ mSessionMap' = [MapPaused EXCEPT ![top].state = "RUNNING"]
        /\ mUidHistoryMap' = mUidHistoryMap
    BY <1>2, TopSessionIsLive, Zenon DEF updateResume, updating
  <2>2. /\ live' = live
        /\ \A j \in live : /\ State(j)' = IF j = top THEN "RUNNING" ELSE MapPaused[j].state
                           /\ UidsOf(j)' = UidsOf(j)
                           /\ mSessionMap'[j].paced = mSessionMap[j].paced
    BY <2>1, PausedFacts, PausedPaces, Zenon DEF live, State, UidsOf, SessionRecords
  <2> QED
    BY <2>1, <2>2, PausedPaces, ActivityOfMap, Zenon
<1> QED
  BY <1>1, <1>2, Zenon

(* Every step keeps the activity of the uids backed. *)
LEMMA ActivityNext == IInv /\ NoLeakedActivity /\ [Next]_vars => NoLeakedActivity'
<1> SUFFICES ASSUME IInv, NoLeakedActivity, [Next]_vars PROVE NoLeakedActivity'
  OBVIOUS
<1>1. ASSUME NEW k \in Keys, NEW u \in AllUids, submit(k, u) \/ addClientUid(k, u)
      PROVE  NoLeakedActivity'
  <2>1. mUidHistoryMap' = mUidHistoryMap
    BY <1>1, Zenon DEF submit, addClientUid
  <2>2. CASE submit(k, u)
    BY <2>1, <2>2, ActivityOfMap, Zenon DEF submit, unusedKey, live, State, UidsOf
  <2>3. CASE addClientUid(k, u)
    <3>1. live' = live /\ \A j \in live : /\ State(j)' = State(j)
                                          /\ UidsOf(j) \subseteq UidsOf(j)'
                                          /\ mSessionMap'[j].paced = mSessionMap[j].paced
      BY <2>3, Zenon DEF addClientUid, live, State, UidsOf, IInv, SessionTypes,
         SessionRecords
    <3> QED
      BY <2>1, <3>1, ActivityOfMap, Zenon
  <2> QED
    BY <1>1, <2>2, <2>3, Zenon
<1>2. ASSUME NEW k \in Keys, cancel(k) \/ cancelAll(ClientOf[k])
      PROVE  NoLeakedActivity'
  BY <1>2, ActivityUnchanged, Zenon DEF cancel, cancelAll, untouched
<1>3. CASE PolicyStep
  BY <1>3, ActivityUnchanged, Zenon DEF PolicyStep, onTopUidsChanged, onUidGone,
     onResourceAvailable, onThrottling, uidStateChanged, untouched
<1>4. ASSUME NEW k \in Keys, onFinish(k) \/ onError(k) \/ onWatchdogTimeout(k)
      PROVE  NoLeakedActivity'
  BY <1>4, ActivityOfEnded, Zenon DEF onFinish, onError, sessionEnds, onWatchdogTimeout,
     notifiable
<1>5. ASSUME NEW k \in Keys, onResourceLost(k)
      PROVE  NoLeakedActivity'
  <2>1. live' = live /\ mUidHistoryMap' = mUidHistoryMap
           /\ \A j \in live : /\ State(j) # "NOT_STARTED" => State(j)' # "NOT_STARTED"
                              /\ UidsOf(j)' = UidsOf(j)
                              /\ mSessionMap'[j].paced = mSessionMap[j].paced
    BY <1>5, Zenon DEF onResourceLost, live, State, UidsOf, IInv, SessionTypes,
       SessionRecords
  <2> QED
    BY <2>1, ActivityOfMap, Zenon
<1>6. ASSUME watchdogWait \/ watchdogExpires \/ \E k \in Keys : onStaleWatchdogTimeout(k)
      PROVE  NoLeakedActivity'
  BY <1>6, ActivityUnchanged, Zenon DEF watchdogWait, watchdogExpires,
     onStaleWatchdogTimeout
<1>7. ASSUME NEW k \in Keys, dropNext(k) \/ stripNext(k)
      PROVE  NoLeakedActivity'
  BY <1>7, ActivityOfEnded, ActivityOfStripped, Zenon DEF dropNext, stripNext, First,
     IInv, JobInv
<1>8. ASSUME NEW top, updateDone(top) \/ updateNothingToRun \/ updateResume(top) \/ updateStart(top)
      PROVE  NoLeakedActivity'
  BY <1>8, ActivityUnchanged, ActivityOfPaused, ActivityOfStarted, Zenon DEF updateDone,
     untouched
<1>9. ASSUME NEW top, updateDropByPacer(top)
      PROVE  NoLeakedActivity'
  <2>1. top \in live /\ removeSession_l(MapPaused, top)
    BY <1>9, TopSessionIsLive, Zenon DEF updateDropByPacer, updating
  <2> QED
    BY <2>1, PausedFacts, PausedPaces, ActivityOfRemoved, Zenon
<1>10. ASSUME NEW u \in AllUids, burstThresholdPasses(u)
       PROVE  NoLeakedActivity'
  <2>1. UNCHANGED mSessionMap
    BY <1>10, Zenon DEF burstThresholdPasses
  <2>2. ActiveUids' = ActiveUids
    BY <1>10, Zenon DEF burstThresholdPasses, TimePasses, ActiveUids, IInv,
       SessionTypes, IsHistory, UidHistoryEntry
  <2>3. \A v, k : Backs(k, v) => Backs(k, v)'
    BY <2>1, Zenon DEF Backs, live, State, UidsOf
  <2> QED
    BY <2>2, <2>3, ActivityKept, Zenon
<1>11. CASE UNCHANGED vars
  BY <1>11, ActivityUnchanged, Zenon DEF vars
<1>12. CASE ClientStep
  BY <1>1, <1>2, <1>12, Zenon DEF ClientStep, AllUids
<1>13. CASE TranscoderStep \/ WatchdogStep
  BY <1>4, <1>5, <1>6, <1>13, Zenon DEF TranscoderStep, WatchdogStep
<1>14. CASE LockedStep
  BY <1>7, <1>8, <1>9, <1>14, Zenon DEF LockedStep
<1> QED
  BY <1>3, <1>10, <1>11, <1>12, <1>13, <1>14, Zenon DEF Next

-----------------------------------------------------------------------------
(* The front uid                                                           *)

(* The steps during which mLock is not held, before and after: what runs stays *)
(* as it is.                                                                   *)
LEMMA ServedUnchanged ==
  ASSUME FrontUidIsServed, job' = job,
         UNCHANGED <<mSessionMap, mUidSortedList, mCurrentSession, mResourceLost, mThermalThrottling>>
  PROVE  FrontUidIsServed'
BY Zenon DEF FrontUidIsServed, locked, live, State, UidsOf

(* A session of the front uid runs. *)
LEMMA ServedByTop ==
  ASSUME IInv, NEW top \in live, IsTopSession(top), live' = live, State(top)' = "RUNNING",
         UidsOf(top)' = UidsOf(top), mCurrentSession' = top,
         UNCHANGED <<mUidSortedList, mResourceLost, mThermalThrottling>>
  PROVE  FrontUidIsServed'
<1>1. top # NoSession
  BY KeysAssumption, Zenon DEF IInv, SessionTypes
<1>2. ~mResourceLost /\ ~mThermalThrottling /\ \E u \in UidsOf(top) : IsFront(mUidSortedList, u)
  BY <1>1, TopSessionIsFront, Zenon
<1>3. State(mCurrentSession)' = "RUNNING" /\ UidsOf(mCurrentSession)' = UidsOf(top)
  BY Zenon DEF State, UidsOf
<1> QED
  BY <1>1, <1>2, <1>3, Zenon DEF FrontUidIsServed

(* A handler that has something left to do holds mLock. *)
LEMMA JobsHoldTheLock ==
  Update.pc # "idle" /\ \A drop, strip, keep : Remove(drop, strip, keep).pc # "idle"
BY Zenon DEF Update, Idle, Remove

(* Every step that releases mLock leaves the front uid served. *)
LEMMA ServedNext == IInv /\ FrontUidIsServed /\ [Next]_vars => FrontUidIsServed'
<1> SUFFICES ASSUME IInv, FrontUidIsServed, [Next]_vars PROVE FrontUidIsServed'
  OBVIOUS
<1>1. CASE job'.pc # "idle"
  BY <1>1, Zenon DEF FrontUidIsServed, locked
<1>2. CASE UNCHANGED vars
  BY <1>2, ServedUnchanged, Zenon DEF vars, queueVars, pauseVars
<1>3. CASE ClientStep
  <2>1. job'.pc # "idle"
    BY <1>3, JobsHoldTheLock, Zenon DEF ClientStep, submit, addClientUid, cancel,
       cancelAll
  <2> QED
    BY <1>1, <2>1, Zenon
<1>4. CASE PolicyStep
  <2>1. ASSUME NEW u \in Uids, NEW isUidGone \in BOOLEAN, uidStateChanged(u, isUidGone)
        PROVE  FrontUidIsServed'
    BY <2>1, ServedUnchanged, Zenon DEF uidStateChanged, pauseVars
  <2>2. ASSUME \/ onTopUidsChanged \/ onResourceAvailable
               \/ \E u \in Uids : onUidGone(u)
               \/ \E b \in BOOLEAN : onThrottling(b)
        PROVE  job'.pc # "idle"
    BY <2>2, JobsHoldTheLock, Zenon DEF onTopUidsChanged, onUidGone,
       onResourceAvailable, onThrottling
  <2> QED
    BY <1>1, <1>4, <2>1, <2>2, Zenon DEF PolicyStep
<1>5. ASSUME NEW k \in Keys, onResourceLost(k)
      PROVE  FrontUidIsServed'
  <2>1. mResourceLost' /\ live' = live /\ k \in live /\ State(k) = "RUNNING"
          /\ \A j \in live : State(j)' = IF j = k THEN "PAUSED" ELSE State(j)
    BY <1>5, Zenon DEF onResourceLost, notifiable, live, State, IInv, SessionTypes,
       SessionRecords
  <2>2. \A j \in live' : State(j)' # "RUNNING"
    BY <2>1, Zenon DEF IInv, OnlyCurrentRuns
  <2> QED
    BY <2>1, <2>2, Zenon DEF FrontUidIsServed
<1>6. ASSUME NEW k \in Keys, onFinish(k) \/ onError(k) \/ onWatchdogTimeout(k)
      PROVE  job'.pc # "idle"
  BY <1>6, JobsHoldTheLock, Zenon DEF onFinish, onError, sessionEnds, onWatchdogTimeout
<1>7. ASSUME watchdogWait \/ watchdogExpires \/ \E k \in Keys : onStaleWatchdogTimeout(k)
      PROVE  FrontUidIsServed'
  BY <1>7, ServedUnchanged, Zenon DEF watchdogWait, watchdogExpires,
     onStaleWatchdogTimeout, queueVars, pauseVars
<1>8. ASSUME NEW k \in Keys, dropNext(k) \/ stripNext(k)
      PROVE  job'.pc # "idle"
  BY <1>8, JobsHoldTheLock, Zenon DEF dropNext, stripNext
<1>9. ASSUME NEW top, updateDone(top)
      PROVE  FrontUidIsServed'
  <2>1. /\ IsTopSession(top) /\ top = mCurrentSession
        /\ top # NoSession => State(top) = "RUNNING"
        /\ UNCHANGED <<mSessionMap, mUidSortedList, mCurrentSession, mResourceLost,
                       mThermalThrottling>>
    BY <1>9, Zenon DEF updateDone, updating, mustSwitch, untouched, queueVars, pauseVars
  <2>2. live' = live /\ \A j : State(j)' = State(j) /\ UidsOf(j)' = UidsOf(j)
    BY <2>1, Zenon DEF live, State, UidsOf
  <2>3. CASE live = {} \/ mResourceLost \/ mThermalThrottling
    <3>1. mCurrentSession = NoSession
      BY <2>1, <2>3, TopSessionIsFront, Zenon
    <3>2. \A j \in live : State(j) # "RUNNING"
      BY <3>1, KeysAssumption, Zenon DEF IInv, OnlyCurrentRuns, SessionTypes
    <3> QED
      BY <2>1, <2>2, <2>3, <3>2, Zenon DEF FrontUidIsServed
  <2>4. CASE ~(live = {} \/ mResourceLost \/ mThermalThrottling)
    <3>1. top \in live
      BY <2>1, <2>4, TopSessionIsFront, Zenon
    <3>2. State(top)' = "RUNNING"
      BY <2>1, <2>2, <3>1, KeysAssumption, Zenon DEF IInv, SessionTypes
    <3> QED
      BY <2>1, <2>2, <3>1, <3>2, ServedByTop, Zenon
  <2> QED
    BY <2>3, <2>4, Zenon
<1>10. CASE updateNothingToRun
  <2>1. /\ IsTopSession(NoSession) /\ mSessionMap' = MapPaused
        /\ UNCHANGED <<mResourceLost, mThermalThrottling>>
    BY <1>10, Zenon DEF updateNothingToRun, updating, pauseVars
  <2>2. live' = live /\ \A j \in live : State(j)' # "RUNNING"
    BY <2>1, PausedFacts, Zenon DEF live, State
  <2>3. live = {} \/ mResourceLost \/ mThermalThrottling
    BY <2>1, TopSessionIsFront, KeysAssumption, Zenon DEF IInv, SessionTypes
  <2> QED
    BY <2>1, <2>2, <2>3, Zenon DEF FrontUidIsServed
<1>11. ASSUME NEW top, updateStart(top) \/ updateResume(top)
       PROVE  FrontUidIsServed'
  <2>1. /\ IsTopSession(top) /\ top \in live /\ mCurrentSession' = top
        /\ UNCHANGED <<mUidSortedList, mResourceLost, mThermalThrottling>>
    BY <1>11, TopSessionIsLive, Zenon DEF updateStart, updateResume, updating,
       queueVars, pauseVars
  <2>2. live' = live /\ State(top)' = "RUNNING" /\ UidsOf(top)' = UidsOf(top)
    <3>1. CASE updateStart(top)
      BY <2>1, <3>1, PausedFacts, Zenon DEF updateStart, live, State, UidsOf,
         SessionRecords
    <3>2. CASE updateResume(top)
      BY <2>1, <3>2, PausedFacts, Zenon DEF updateResume, live, State, UidsOf,
         SessionRecords
    <3> QED
      BY <1>11, <3>1, <3>2, Zenon
  <2> QED
    BY <2>1, <2>2, ServedByTop, Zenon
<1>12. ASSUME NEW top, updateDropByPacer(top)
       PROVE  job'.pc # "idle"
  BY <1>12, Zenon DEF updateDropByPacer, updating
<1>13. ASSUME NEW u \in AllUids, burstThresholdPasses(u)
       PROVE  FrontUidIsServed'
  BY <1>13, ServedUnchanged, Zenon DEF burstThresholdPasses, queueVars, pauseVars
<1>14. CASE TranscoderStep \/ WatchdogStep
  BY <1>1, <1>5, <1>6, <1>7, <1>14, Zenon DEF TranscoderStep, WatchdogStep
<1>15. CASE LockedStep
  BY <1>1, <1>8, <1>9, <1>10, <1>11, <1>12, <1>15, Zenon DEF LockedStep
<1> QED
  BY <1>2, <1>3, <1>4, <1>13, <1>14, <1>15, Zenon DEF Next

-----------------------------------------------------------------------------
(* The theorems                                                            *)

(* The invariant holds when the controller is constructed. *)
LEMMA InitInv == Init => IInv
<1> SUFFICES ASSUME Init PROVE IInv
  OBVIOUS
<1>1. live = {}
  BY DEF Init, live
<1>2. SessionTypes
  <2>1. mSessionMap \in [live -> SessionRecords]
    BY <1>1 DEF Init, live
  <2>2. IsHistory(mUidHistoryMap)
    BY DEF Init, IsHistory
  <2>3. watchdog \in WatchdogStates
    BY Zenon DEF Init, WatchdogStates
  <2>4. mThermalThrottling \in BOOLEAN
    BY Zenon DEF Init
  <2>5. notice \in [top : SUBSET Uids, gone : SUBSET Uids]
    BY Zenon DEF Init, NoNotice
  <2>6. job \in JobStates
    BY Zenon DEF Init, JobStates, Idle
  <2>7. calls \in Seq(CallOps \X Keys)
    BY CallTypes, Zenon DEF Init
  <2> QED
    BY <1>1, <2>1, <2>2, <2>3, <2>4, <2>5, <2>6, <2>7, Zenon DEF Init, SessionTypes
<1>3. QueueInv
  <2>1. DOMAIN mSessionQueues = {OFFLINE_UID} /\ mSessionQueues[OFFLINE_UID] = << >>
    BY Zenon DEF Init
  <2>2. IsSorted(mUidSortedList, {OFFLINE_UID})
    BY DEF Init, IsSorted, IsListOf, AllUids
  <2> QED
    BY <2>1, <2>2 DEF Init, QueueInv, IsInjective
<1>4. ClientsInv
  BY <1>1 DEF Init, ClientsInv, InQueue, Range
<1>5. OnlyCurrentRuns /\ RunningIsWatched /\ ActiveWatchesRunning /\ JobInv
  BY <1>1, Zenon DEF Init, OnlyCurrentRuns, RunningIsWatched, ActiveWatchesRunning,
     JobInv, Idle
<1> QED
  BY <1>2, <1>3, <1>4, <1>5, Zenon DEF IInv

(* A step that leaves the controller alone keeps the invariant. *)
LEMMA StutterInv == IInv /\ UNCHANGED vars => IInv'
<1> SUFFICES ASSUME IInv, UNCHANGED vars PROVE IInv'
  OBVIOUS
<1>1. UNCHANGED <<mSessionMap, mSessionQueues, mUidSortedList, monitored, topUids,
                  mCurrentSession, mResourceLost, mThermalThrottling, mUidHistoryMap,
                  watchdog, calls, notice, job>>
  BY Zenon DEF vars, queueVars, pauseVars
<1>2. SessionTypes'
  BY <1>1, Zenon DEF IInv, SessionTypes, live
<1>3. JobInv'
  <2>1. live' = live /\ (\A j : UidsOf(j)' = UidsOf(j))
    BY <1>1, Zenon DEF live, UidsOf
  <2> QED
    BY <1>1, <2>1, Zenon DEF IInv, JobInv
<1> QED
  BY <1>1, <1>2, <1>3, QuietStep, Zenon

(* Every step keeps the invariant: one case per group of actions. *)
LEMMA NextInv == IInv /\ [Next]_vars => IInv'
<1> SUFFICES ASSUME IInv, [Next]_vars PROVE IInv'
  OBVIOUS
<1>1. CASE ClientStep
  BY <1>1, SubmitStep, AddClientUidStep, CancelStep, CancelAllStep, Zenon DEF ClientStep
<1>2. CASE PolicyStep
  BY <1>2, TopUidsChangedStep, UidGoneStep, ResourceAvailableStep, ThrottlingStep,
     UidStateChangedStep, Zenon DEF PolicyStep
<1>3. CASE TranscoderStep
  BY <1>3, SessionEndsStep, ResourceLostStep, Zenon DEF TranscoderStep, onFinish,
     onError
<1>4. CASE WatchdogStep
  BY <1>4, WatchdogWaitStep, WatchdogExpiresStep, WatchdogTimeoutStep, StaleTimeoutStep,
     Zenon DEF WatchdogStep
<1>5. CASE LockedStep
  BY <1>5, DropNextStep, StripNextStep, NothingToRunStep, UpdateDoneStep,
     DropByPacerStep, StartStep, ResumeStep, Zenon DEF LockedStep
<1>6. CASE \E u \in AllUids : burstThresholdPasses(u)
  BY <1>6, ThresholdPassesStep, Zenon
<1>7. CASE UNCHANGED vars
  BY <1>7, StutterInv, Zenon
<1> QED
  BY <1>1, <1>2, <1>3, <1>4, <1>5, <1>6, <1>7, Zenon DEF Next

(* The inductive invariant says what the checked invariants say. *)
LEMMA InvImplies ==
  IInv => /\ TypeOK /\ QueuesMatchMap /\ ListMatchesQueues /\ MonitoredUidsHaveQueues
          /\ OnlyCurrentRuns /\ RunningIsWatched
<1> SUFFICES ASSUME IInv
             PROVE  /\ TypeOK /\ QueuesMatchMap /\ ListMatchesQueues
                    /\ MonitoredUidsHaveQueues
  BY Zenon DEF IInv
<1>1. QueuesMatchMap
  BY Zenon DEF IInv, QueueInv, ClientsInv, InQueue, QueuesMatchMap
<1>2. ListMatchesQueues /\ MonitoredUidsHaveQueues
  BY Zenon DEF IInv, QueueInv, IsSorted, ListMatchesQueues, MonitoredUidsHaveQueues
<1>3. TypeOK
  <2>1. /\ DOMAIN mSessionQueues \subseteq AllUids
        /\ mSessionQueues \in [DOMAIN mSessionQueues -> Seq(Keys)]
        /\ mUidSortedList \subseteq AllUids \X AllUids
    BY Zenon DEF IInv, QueueInv, IsSorted, IsListOf
  <2>2. monitored \subseteq Uids /\ topUids \subseteq Uids
    BY Zenon DEF IInv, QueueInv, IsSorted, AllUids
  <2>3. DOMAIN mUidHistoryMap \subseteq AllUids /\ mUidHistoryMap \in [DOMAIN mUidHistoryMap -> UidHistoryEntry]
    BY Zenon DEF IInv, SessionTypes, IsHistory
  <2> QED
    BY <2>1, <2>2, <2>3, Zenon DEF IInv, SessionTypes, TypeOK
<1> QED
  BY <1>1, <1>2, <1>3, Zenon

(* The invariant holds in every reachable state. *)
LEMMA InvariantHolds == Spec => []IInv
<1>1. Init => IInv
  BY InitInv, Zenon
<1>2. IInv /\ [Next]_vars => IInv'
  BY NextInv, Zenon
<1> QED
  BY <1>1, <1>2, PTL DEF Spec

(* Every variable of the controller, its watchdog and its pacer keeps its      *)
(* type, through every handler and every interleaving of the threads.          *)
THEOREM TypeCorrectness == Spec => []TypeOK
BY InvariantHolds, InvImplies, PTL

(* validateState_l never fails: for any number of sessions and uids, a session *)
(* is queued exactly for the uids among its clients.                           *)
THEOREM QueuesAreConsistent == Spec => []QueuesMatchMap
BY InvariantHolds, InvImplies, PTL

(* mUidSortedList holds exactly the uids with a queue, the offline uid last,   *)
(* and no real-time queue is empty: *mSessionQueues[topUid].begin() in          *)
(* getTopSession_l is always defined.                                          *)
THEOREM ListIsConsistent == Spec => []ListMatchesQueues
BY InvariantHolds, InvImplies, PTL

(* registerMonitorUid and unregisterMonitorUid are balanced: the uid policy    *)
(* monitors exactly the uids with a real-time queue.                           *)
THEOREM MonitoringIsBalanced == Spec => []MonitoredUidsHaveQueues
BY InvariantHolds, InvImplies, PTL

(* At most one session is RUNNING, and it is mCurrentSession, which never      *)
(* points to a session that was removed.                                       *)
THEOREM OneSessionRuns == Spec => []OnlyCurrentRuns
BY InvariantHolds, InvImplies, PTL

(* No interleaving of the watchdog's thread with the handlers leaves the       *)
(* RUNNING session unwatched.                                                  *)
THEOREM RunningSessionIsWatched == Spec => []RunningIsWatched
BY InvariantHolds, InvImplies, PTL

(* The pacer never counts a session that is gone: cancellation, loss of the    *)
(* uid, completion, error, timeout and the pacer's own drops all end the       *)
(* activity of exactly the uids that lose a started session.                   *)
THEOREM PacerLeaksNothing == Spec => []NoLeakedActivity
<1>1. Init => NoLeakedActivity
  BY DEF Init, NoLeakedActivity
<1> QED
  BY <1>1, InvariantHolds, ActivityNext, PTL DEF Spec

(* Whenever mLock is free the service runs a session of the front uid, unless  *)
(* it has none or is paused globally, and then it runs nothing: no handler     *)
(* forgets to update the current session.                                      *)
THEOREM FrontUidAlwaysServed == Spec => []FrontUidIsServed
<1>1. Init => FrontUidIsServed
  BY DEF Init, FrontUidIsServed, live
<1> QED
  BY <1>1, InvariantHolds, ServedNext, PTL DEF Spec
=============================================================================
