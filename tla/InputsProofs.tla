---------------------------- MODULE InputsProofs ----------------------------
(***************************************************************************)
(* The uid policy's two maps and its cached top state agree, its states    *)
(* settle to the activity manager's, and it implements TopUids, for every  *)
(* set of uids and of importances and any number of events on their way.   *)
(* The thermal policy settles to the device's status, for every set of     *)
(* statuses and any number of changes on their way.  The client manager's  *)
(* registries agree and a client is taken down once, for every set of      *)
(* callbacks and of binder threads and any number of registrations and     *)
(* requests.                                                               *)
(***************************************************************************)
EXTENDS TranscodingUidPolicy, TranscodingThermalPolicy, TranscodingClientManager,
        FiniteSetTheorems, WellFoundedInduction, TLAPS

-----------------------------------------------------------------------------
(* The uid policy and the thermal policy                                     *)

(***************************************************************************)
(* The maps f = mUidStateMap and m = mStateUidMap hold the same uids.      *)
(***************************************************************************)
SameUids(f, m) ==
  /\ f \in [DOMAIN f -> States] /\ DOMAIN f \subseteq Uids
  /\ DOMAIN m \subseteq States
  /\ \A u \in DOMAIN f : f[u] \in DOMAIN m /\ u \in m[f[u]]
  /\ \A s \in DOMAIN m : \A u \in m[s] : u \in DOMAIN f /\ f[u] = s

(***************************************************************************)
(* The states updateTopUid_l chooses from, and the uids with the lowest    *)
(* known state, straight from mUidStateMap.                                *)
(***************************************************************************)
Used(m) == {s \in DOMAIN m : s # IMPORTANCE_UNKNOWN /\ m[s] # {}}

Known(f) == {u \in DOMAIN f : f[u] # IMPORTANCE_UNKNOWN}

Best(f) == {u \in Known(f) : \A v \in Known(f) : f[u] <= f[v]}

UidInv ==
  /\ SameUids(mUidStateMap, mStateUidMap)
  /\ mTopUidState = updateTopUid_l(mStateUidMap)
  /\ importance \in [Uids -> Importances]
  /\ events \in Seq(Uids \X Importances)

(***************************************************************************)
(* A set of naturals has a least element.                                  *)
(***************************************************************************)
LEMMA LeastExists ==
  ASSUME NEW T, T \subseteq Nat, T # {}
  PROVE  \E x \in T : \A y \in T : x <= y
<1>1. PICK x \in T : \A y \in T : ~(<<y, x>> \in OpToRel(<, Nat))
  BY NatLessThanWellFounded, WFMin, Zenon
<1>2. \A y \in T : ~(y < x)
  BY <1>1, Zenon DEF OpToRel
<1> QED
  BY <1>2

(***************************************************************************)
(* updateTopUid_l finds the lowest used state, if there is one.            *)
(***************************************************************************)
LEMMA TopStateIsLeast ==
  ASSUME NEW m, DOMAIN m \subseteq States
  PROVE  /\ Used(m) = {} => updateTopUid_l(m) = IMPORTANCE_UNKNOWN
         /\ Used(m) # {} => /\ updateTopUid_l(m) \in Used(m)
                            /\ \A x \in Used(m) : updateTopUid_l(m) <= x
<1>1. Used(m) \subseteq Nat
  BY ImportanceAssumption, Zenon DEF Used, States
<1>2. Used(m) # {} => \E s \in Used(m) : \A x \in Used(m) : s <= x
  BY <1>1, LeastExists, Zenon
<1>3. updateTopUid_l(m) = IF Used(m) = {} THEN IMPORTANCE_UNKNOWN
                          ELSE CHOOSE s \in Used(m) : \A x \in Used(m) : s <= x
  BY Zenon DEF updateTopUid_l, Used
<1> QED
  BY <1>2, <1>3, Zenon

(***************************************************************************)
(* The uids at the top state are the best ones; without a known state it   *)
(* is the entry of all uids that onUidStateChanged compares with.          *)
(***************************************************************************)
LEMMA TopIsBest ==
  ASSUME NEW f, NEW m, SameUids(f, m)
  PROVE  LET top == updateTopUid_l(m)
         IN  /\ top = IMPORTANCE_UNKNOWN => /\ Known(f) = {} /\ Best(f) = {}
                                            /\ entry(m, top) = DOMAIN f
             /\ top # IMPORTANCE_UNKNOWN => /\ top \in DOMAIN m /\ m[top] = Best(f)
                                            /\ Best(f) # {}
             /\ top \in States
<1> DEFINE top == updateTopUid_l(m)
<1>1. /\ Used(m) = {} => top = IMPORTANCE_UNKNOWN
      /\ Used(m) # {} => top \in Used(m) /\ \A x \in Used(m) : top <= x
  BY TopStateIsLeast, Zenon DEF SameUids
<1>2. \A u \in DOMAIN f : u \in Known(f) <=> f[u] \in Used(m)
  BY Zenon DEF SameUids, Known, Used
<1>3. CASE Used(m) = {}
  <2>1. Known(f) = {} /\ top = IMPORTANCE_UNKNOWN
    BY <1>1, <1>2, <1>3, Zenon DEF Known
  <2>2. entry(m, top) = DOMAIN f
    BY <2>1 DEF entry, Known, SameUids
  <2> QED
    BY <2>1, <2>2, Zenon DEF Best, States
<1>4. CASE Used(m) # {}
  <2>1. top \in DOMAIN m /\ top # IMPORTANCE_UNKNOWN /\ m[top] # {} /\ top \in States
    BY <1>1, <1>4, Zenon DEF Used, SameUids
  <2>2. \A x \in Used(m) : x \in Nat
    BY ImportanceAssumption, Zenon DEF Used, States, SameUids
  <2>3. ASSUME NEW u \in m[top] PROVE u \in Best(f)
    <3>1. u \in DOMAIN f /\ f[u] = top
      BY <2>1, Zenon DEF SameUids
    <3>2. u \in Known(f)
      BY <2>1, <3>1, Zenon DEF Known
    <3>3. \A v \in Known(f) : f[u] <= f[v]
      BY <1>1, <1>2, <1>4, <3>1, Zenon DEF Known
    <3> QED
      BY <3>2, <3>3, Zenon DEF Best
  <2>4. ASSUME NEW u \in Best(f) PROVE u \in m[top]
    <3>1. PICK w : w \in m[top]
      BY <2>1, Zenon
    <3>2. w \in Known(f) /\ f[w] = top /\ w \in DOMAIN f
      BY <2>1, <3>1, Zenon DEF Known, SameUids
    <3>3. u \in DOMAIN f /\ u \in Known(f) /\ f[u] <= f[w]
      BY <3>2, Zenon DEF Best, Known
    <3>4. f[u] \in Used(m) /\ top <= f[u]
      BY <1>1, <1>2, <1>4, <3>3, Zenon
    <3>5. f[u] = top
      BY <1>1, <1>4, <2>2, <3>2, <3>3, <3>4
    <3> QED
      BY <3>3, <3>5, Zenon DEF SameUids
  <2>5. m[top] = Best(f)
    BY <2>3, <2>4, Zenon
  <2> QED
    BY <2>1, <2>5, Zenon
<1> QED
  BY <1>3, <1>4, Zenon

(***************************************************************************)
(* How a change at one uid changes the best uids: f becomes g, in which u  *)
(* has a known state s and the others keep theirs.                         *)
(***************************************************************************)
LEMMA BestWith ==
  ASSUME NEW f, f \in [DOMAIN f -> States],
         NEW g, g \in [DOMAIN g -> States], NEW u \in DOMAIN g,
         DOMAIN g = DOMAIN f \cup {u},
         \A v \in DOMAIN f \ {u} : g[v] = f[v]
  PROVE  /\ Best(f) \ {u} # {} => Best(g) \in {Best(f) \ {u}, Best(f) \cup {u}, {u}}
         /\ u \notin Best(f) /\ Best(f) # {} =>
               Best(g) \in {Best(f), Best(f) \cup {u}, {u}}
         /\ Known(f) = {} => Best(g) = IF g[u] = IMPORTANCE_UNKNOWN THEN {} ELSE {u}
<1>1. \A v \in Known(f) : f[v] \in Nat
  BY ImportanceAssumption, Zenon DEF Known, States
<1>2. \A v \in Known(g) : g[v] \in Nat
  BY ImportanceAssumption, Zenon DEF Known, States
<1>3. \A v : v # u => (v \in Known(g) <=> v \in Known(f)) /\ (v \in Known(f) => g[v] = f[v])
  BY Zenon DEF Known
<1>4. ASSUME NEW w \in Best(f), w # u
      PROVE  Best(g) \in {Best(f) \ {u}, Best(f) \cup {u}, {u}}
  <2>1. w \in Known(f) /\ w \in Known(g) /\ g[w] = f[w] /\ f[w] \in Nat
    BY <1>1, <1>3, <1>4, Zenon DEF Best
  <2>2. \A v \in Known(f) : f[w] <= f[v]
    BY <1>4, Zenon DEF Best
  <2>3. \A v : v # u /\ v \in Best(g) => v \in Best(f)
    <3> SUFFICES ASSUME NEW v, v # u, v \in Best(g) PROVE v \in Best(f)
      OBVIOUS
    <3>1. v \in Known(f) /\ g[v] = f[v] /\ g[v] <= g[w]
      BY <1>3, <2>1, Zenon DEF Best
    <3>2. \A x \in Known(f) : f[v] <= f[x]
      BY <1>1, <2>1, <2>2, <3>1
    <3> QED
      BY <3>1, <3>2, Zenon DEF Best
  <2>4. CASE u \notin Known(g)
    <3>1. \A v : v \in Best(f) /\ v # u => v \in Best(g)
      BY <1>3, <2>4, Zenon DEF Best
    <3>2. u \notin Best(g)
      BY <2>4, Zenon DEF Best
    <3> QED
      BY <2>3, <3>1, <3>2, Zenon
  <2>5. CASE u \in Known(g) /\ g[u] < f[w]
    <3>1. u \in Best(g)
      BY <1>1, <1>2, <1>3, <2>1, <2>2, <2>5 DEF Best
    <3>2. \A v : v \in Best(g) => v = u
      BY <1>1, <1>2, <1>3, <2>1, <2>2, <2>5 DEF Best
    <3> QED
      BY <3>1, <3>2, Zenon
  <2>6. CASE u \in Known(g) /\ f[w] <= g[u]
    <3>1. \A v : v \in Best(f) /\ v # u => v \in Best(g)
      <4> SUFFICES ASSUME NEW v, v \in Best(f), v # u PROVE v \in Best(g)
        OBVIOUS
      <4>1. v \in Known(f) /\ v \in Known(g) /\ g[v] = f[v] /\ f[v] <= f[w]
        BY <1>3, <2>1, Zenon DEF Best
      <4>2. \A x \in Known(g) : g[v] <= g[x]
        <5> SUFFICES ASSUME NEW x \in Known(g) PROVE g[v] <= g[x]
          OBVIOUS
        <5>1. CASE x = u
          BY <1>1, <1>2, <2>1, <2>6, <4>1, <5>1
        <5>2. CASE x # u
          BY <1>3, <4>1, <5>2, Zenon DEF Best
        <5> QED
          BY <5>1, <5>2, Zenon
      <4> QED
        BY <4>1, <4>2, Zenon DEF Best
    <3> QED
      BY <2>3, <3>1, Zenon
  <2> QED
    BY <1>2, <2>1, <2>4, <2>5, <2>6
<1>5. ASSUME Known(f) = {} PROVE Best(g) = IF g[u] = IMPORTANCE_UNKNOWN THEN {} ELSE {u}
  <2>1. \A v \in Known(g) : v = u
    BY <1>3, <1>5, Zenon
  <2>2. u \in Known(g) <=> g[u] # IMPORTANCE_UNKNOWN
    BY Zenon DEF Known
  <2>3. u \in Known(g) => g[u] <= g[u]
    BY <1>2
  <2> QED
    BY <2>1, <2>2, <2>3, Zenon DEF Best
<1>6. u \notin Best(f) => Best(f) \ {u} = Best(f)
  OBVIOUS
<1> QED
  BY <1>4, <1>5, <1>6, Zenon

(***************************************************************************)
(* The same when u leaves.                                                 *)
(***************************************************************************)
LEMMA BestWithout ==
  ASSUME NEW f, f \in [DOMAIN f -> States],
         NEW g, g \in [DOMAIN g -> States], NEW u,
         DOMAIN g = DOMAIN f \ {u},
         \A v \in DOMAIN g : g[v] = f[v]
  PROVE  /\ Best(f) \ {u} # {} => Best(g) = Best(f) \ {u}
         /\ Known(f) = {} => Best(g) = {}
<1>1. \A v \in Known(f) : f[v] \in Nat
  BY ImportanceAssumption, Zenon DEF Known, States
<1>2. \A v : v \in Known(g) <=> v \in Known(f) /\ v # u
  BY Zenon DEF Known
<1>3. \A v \in Known(g) : g[v] = f[v]
  BY Zenon DEF Known
<1>4. ASSUME NEW w \in Best(f), w # u PROVE Best(g) = Best(f) \ {u}
  <2>1. w \in Known(f) /\ w \in Known(g) /\ g[w] = f[w]
    BY <1>2, <1>3, <1>4, Zenon DEF Best
  <2>2. ASSUME NEW v \in Best(g) PROVE v \in Best(f) /\ v # u
    <3>1. v \in Known(f) /\ v # u /\ f[v] <= f[w]
      BY <1>2, <1>3, <2>1, Zenon DEF Best
    <3>2. \A x \in Known(f) : f[w] <= f[x]
      BY <1>4, Zenon DEF Best
    <3>3. \A x \in Known(f) : f[v] <= f[x]
      BY <1>1, <2>1, <3>1, <3>2
    <3> QED
      BY <3>1, <3>3, Zenon DEF Best
  <2>3. ASSUME NEW v \in Best(f), v # u PROVE v \in Best(g)
    BY <1>2, <1>3, <2>3, Zenon DEF Best
  <2> QED
    BY <2>2, <2>3, Zenon
<1>5. Known(f) = {} => Best(g) = {}
  BY <1>2, Zenon DEF Best
<1> QED
  BY <1>4, <1>5, Zenon

(***************************************************************************)
(* registerMonitorUid adds u to both maps.                                 *)
(***************************************************************************)
LEMMA RegisterKeepsMaps ==
  ASSUME NEW u \in Uids, NEW state \in States, SameUids(mUidStateMap, mStateUidMap),
         u \notin DOMAIN mUidStateMap,
         mUidStateMap' = [v \in DOMAIN mUidStateMap \cup {u} |->
                            IF v = u THEN state ELSE mUidStateMap[v]],
         mStateUidMap' = store(mStateUidMap, state, entry(mStateUidMap, state) \cup {u})
  PROVE  SameUids(mUidStateMap', mStateUidMap')
<1>1. /\ DOMAIN mStateUidMap' = DOMAIN mStateUidMap \cup {state}
      /\ mStateUidMap'[state] = entry(mStateUidMap, state) \cup {u}
      /\ \A x \in DOMAIN mStateUidMap : x # state => mStateUidMap'[x] = mStateUidMap[x]
  BY Zenon DEF store
<1>2. /\ DOMAIN mUidStateMap' = DOMAIN mUidStateMap \cup {u}
      /\ mUidStateMap'[u] = state
      /\ \A v \in DOMAIN mUidStateMap : mUidStateMap'[v] = mUidStateMap[v]
  OBVIOUS
<1>3. mUidStateMap' \in [DOMAIN mUidStateMap' -> States] /\ DOMAIN mUidStateMap' \subseteq Uids
  BY <1>2, Zenon DEF SameUids
<1>4. DOMAIN mStateUidMap' \subseteq States
  BY <1>1, Zenon DEF SameUids
<1>5. \A v \in DOMAIN mUidStateMap' :
        mUidStateMap'[v] \in DOMAIN mStateUidMap' /\ v \in mStateUidMap'[mUidStateMap'[v]]
  <2> TAKE v \in DOMAIN mUidStateMap'
  <2>1. CASE v = u
    BY <1>1, <1>2, <2>1, Zenon
  <2>2. CASE v # u
    <3>1. v \in DOMAIN mUidStateMap /\ mUidStateMap'[v] = mUidStateMap[v]
      BY <1>2, <2>2, Zenon
    <3>2. mUidStateMap[v] \in DOMAIN mStateUidMap /\ v \in mStateUidMap[mUidStateMap[v]]
      BY <3>1, Zenon DEF SameUids
    <3> QED
      BY <1>1, <3>1, <3>2, Zenon DEF entry
  <2> QED
    BY <2>1, <2>2, Zenon
<1>6. ASSUME NEW x \in DOMAIN mStateUidMap', NEW v \in mStateUidMap'[x]
      PROVE  v \in DOMAIN mUidStateMap' /\ mUidStateMap'[v] = x
  <2>1. v \in entry(mStateUidMap, x) \/ (v = u /\ x = state)
    BY <1>1 DEF entry
  <2>2. v \in entry(mStateUidMap, x) => v \in DOMAIN mUidStateMap /\ mUidStateMap[v] = x
    BY Zenon DEF SameUids, entry
  <2> QED
    BY <1>2, <2>1, <2>2, Zenon
<1> QED
  BY <1>3, <1>4, <1>5, <1>6, Zenon DEF SameUids

(***************************************************************************)
(* unregisterMonitorUid takes u out of both.                               *)
(***************************************************************************)
LEMMA UnregisterKeepsMaps ==
  ASSUME NEW u \in Uids, SameUids(mUidStateMap, mStateUidMap), unregisterMonitorUid(u)
  PROVE  SameUids(mUidStateMap', mStateUidMap')
<1> DEFINE s    == mUidStateMap[u]
           left == mStateUidMap[s] \ {u}
           D    == IF left = {} THEN DOMAIN mStateUidMap \ {s} ELSE DOMAIN mStateUidMap
<1>1. /\ u \in DOMAIN mUidStateMap
      /\ mStateUidMap' = [x \in D |-> IF x = s THEN left ELSE mStateUidMap[x]]
      /\ mUidStateMap' = [v \in DOMAIN mUidStateMap \ {u} |-> mUidStateMap[v]]
  BY Zenon DEF unregisterMonitorUid
<1>2. s \in DOMAIN mStateUidMap /\ u \in mStateUidMap[s]
  BY <1>1, Zenon DEF SameUids
<1>3. mUidStateMap' \in [DOMAIN mUidStateMap' -> States] /\ DOMAIN mUidStateMap' \subseteq Uids
  BY <1>1, Zenon DEF SameUids
<1>4. DOMAIN mStateUidMap' = D /\ D \subseteq States
  BY <1>1, Zenon DEF SameUids
<1>5. ASSUME NEW v \in DOMAIN mUidStateMap'
      PROVE  mUidStateMap'[v] \in DOMAIN mStateUidMap' /\ v \in mStateUidMap'[mUidStateMap'[v]]
  <2>1. v \in DOMAIN mUidStateMap /\ v # u /\ mUidStateMap'[v] = mUidStateMap[v]
    BY <1>1, Zenon
  <2>2. mUidStateMap[v] \in DOMAIN mStateUidMap /\ v \in mStateUidMap[mUidStateMap[v]]
    BY <2>1, Zenon DEF SameUids
  <2>3. mUidStateMap[v] = s => v \in left
    BY <2>1, <2>2, Zenon
  <2>4. mUidStateMap[v] \in D
    BY <2>2, <2>3, Zenon
  <2> QED
    BY <1>1, <1>4, <2>1, <2>2, <2>3, <2>4, Zenon
<1>6. ASSUME NEW x \in DOMAIN mStateUidMap', NEW v \in mStateUidMap'[x]
      PROVE  v \in DOMAIN mUidStateMap' /\ mUidStateMap'[v] = x
  <2>1. x \in DOMAIN mStateUidMap /\ v \in mStateUidMap[x] /\ (x = s => v # u)
    BY <1>1, <1>4, Zenon
  <2>2. v \in DOMAIN mUidStateMap /\ mUidStateMap[v] = x
    BY <2>1, Zenon DEF SameUids
  <2> QED
    BY <1>1, <2>1, <2>2, Zenon
<1> QED
  BY <1>3, <1>4, <1>5, <1>6, Zenon DEF SameUids

(***************************************************************************)
(* onUidStateChanged moves u from one entry to another; the entries it     *)
(* makes by looking at them are empty.                                     *)
(***************************************************************************)
LEMMA MoveKeepsMaps ==
  ASSUME NEW u \in DOMAIN mUidStateMap, NEW procState \in States, mUidStateMap[u] # procState,
         SameUids(mUidStateMap, mStateUidMap), mTopUidState \in States,
         mUidStateMap' = [mUidStateMap EXCEPT ![u] = procState],
         mStateUidMap' = moved(u, procState)
  PROVE  SameUids(mUidStateMap', mStateUidMap')
<1> DEFINE s       == mUidStateMap[u]
           touched == store(mStateUidMap, mTopUidState, entry(mStateUidMap, mTopUidState))
           without == store(touched, s, touched[s] \ {u})
<1>1. s \in DOMAIN mStateUidMap /\ u \in mStateUidMap[s] /\ s \in States
  BY Zenon DEF SameUids
<1>2. /\ DOMAIN touched = DOMAIN mStateUidMap \cup {mTopUidState}
      /\ \A x \in DOMAIN touched : touched[x] = entry(mStateUidMap, x)
  BY Zenon DEF store, entry
<1>3. /\ DOMAIN without = DOMAIN touched /\ without[s] = mStateUidMap[s] \ {u}
      /\ \A x \in DOMAIN without : x # s => without[x] = entry(mStateUidMap, x)
  <2>1. s \in DOMAIN touched /\ touched[s] = mStateUidMap[s]
    BY <1>1, <1>2, Zenon DEF entry
  <2>2. /\ DOMAIN without = DOMAIN touched \cup {s} /\ without[s] = touched[s] \ {u}
        /\ \A x \in DOMAIN touched : x # s => without[x] = touched[x]
    BY Zenon DEF store
  <2> QED
    BY <1>2, <2>1, <2>2, Zenon
<1>4. /\ DOMAIN mStateUidMap' = DOMAIN without \cup {procState}
      /\ mStateUidMap'[procState] = entry(mStateUidMap, procState) \cup {u}
      /\ \A x \in DOMAIN without : x # procState => mStateUidMap'[x] = without[x]
  <2>1. mStateUidMap' = store(without, procState, entry(without, procState) \cup {u})
    BY Zenon DEF moved
  <2>2. entry(without, procState) = entry(mStateUidMap, procState)
    BY <1>2, <1>3, Zenon DEF entry
  <2> HIDE DEF without
  <2> QED
    BY <2>1, <2>2, Zenon DEF store
<1>5. /\ DOMAIN mUidStateMap' = DOMAIN mUidStateMap /\ mUidStateMap'[u] = procState
      /\ \A v \in DOMAIN mUidStateMap : v # u => mUidStateMap'[v] = mUidStateMap[v]
  BY Zenon DEF SameUids
<1> HIDE DEF touched, without
<1>6. mUidStateMap' \in [DOMAIN mUidStateMap' -> States] /\ DOMAIN mUidStateMap' \subseteq Uids
  BY Zenon DEF SameUids
<1>7. DOMAIN mStateUidMap' \subseteq States
  BY <1>2, <1>3, <1>4, Zenon DEF SameUids
<1>8. ASSUME NEW v \in DOMAIN mUidStateMap'
      PROVE  mUidStateMap'[v] \in DOMAIN mStateUidMap' /\ v \in mStateUidMap'[mUidStateMap'[v]]
  <2>1. CASE v = u
    BY <1>4, <1>5, <2>1, Zenon
  <2>2. CASE v # u
    <3>1. /\ v \in DOMAIN mUidStateMap /\ mUidStateMap'[v] = mUidStateMap[v]
          /\ mUidStateMap[v] \in DOMAIN mStateUidMap /\ v \in mStateUidMap[mUidStateMap[v]]
      BY <1>5, <2>2, Zenon DEF SameUids
    <3> QED
      BY <1>2, <1>3, <1>4, <2>2, <3>1 DEF entry
  <2> QED
    BY <2>1, <2>2, Zenon
<1>9. ASSUME NEW x \in DOMAIN mStateUidMap', NEW v \in mStateUidMap'[x]
      PROVE  v \in DOMAIN mUidStateMap' /\ mUidStateMap'[v] = x
  <2>1. CASE v = u
    <3>1. x = procState
      <4>1. x # s
        BY <1>1, <1>3, <1>4, <2>1, Zenon
      <4>2. u \notin entry(mStateUidMap, x)
        BY <4>1, Zenon DEF SameUids, entry
      <4> QED
        BY <1>3, <1>4, <2>1, <4>1, <4>2, Zenon
    <3> QED
      BY <1>5, <2>1, <3>1, Zenon
  <2>2. CASE v # u
    <3>1. v \in entry(mStateUidMap, x)
      BY <1>1, <1>3, <1>4, <2>2 DEF entry
    <3>2. v \in DOMAIN mUidStateMap /\ mUidStateMap[v] = x
      BY <3>1, Zenon DEF entry, SameUids
    <3> QED
      BY <1>5, <2>2, <3>2, Zenon
  <2> QED
    BY <2>1, <2>2, Zenon
<1> QED
  BY <1>6, <1>7, <1>8, <1>9, Zenon DEF SameUids

(***************************************************************************)
(* One event of the listener thread, spelled out.                          *)
(***************************************************************************)
LEMMA EventStep ==
  ASSUME UidInv, onUidStateChanged
  PROVE  \E u \in Uids, procState \in Importances :
           /\ Head(events) = <<u, procState>>
           /\ \/ /\ u \in DOMAIN mUidStateMap /\ mUidStateMap[u] # procState
                 /\ mUidStateMap' = [mUidStateMap EXCEPT ![u] = procState]
                 /\ mStateUidMap' = moved(u, procState)
                 /\ mTopUidState' = updateTopUid_l(mStateUidMap')
                 /\ told' = [top  |-> ChangedTop(entry(mStateUidMap, mTopUidState),
                                                 mStateUidMap'[mTopUidState']),
                             gone |-> IF procState = GONE THEN {u} ELSE {}]
              \/ UNCHANGED <<mUidStateMap, mStateUidMap, mTopUidState, told>>
<1>1. events # << >> /\ events \in Seq(Uids \X Importances)
  BY Zenon DEF UidInv, onUidStateChanged
<1>2. Head(events) \in Uids \X Importances
  BY <1>1
<1>3. PICK u \in Uids, procState \in Importances : Head(events) = <<u, procState>>
  BY <1>2
<1>4. Head(events)[1] = u /\ Head(events)[2] = procState
  BY <1>3
<1> QED
  BY <1>3, <1>4, Zenon DEF onUidStateChanged, isMonitored

(***************************************************************************)
(* UidInv holds at the start and is kept by every step.                    *)
(***************************************************************************)
LEMMA UidInitInv == UidInit => UidInv
<1> SUFFICES ASSUME UidInit PROVE UidInv
  OBVIOUS
<1>1. SameUids(mUidStateMap, mStateUidMap)
  BY Zenon DEF UidInit, SameUids, States
<1>2. updateTopUid_l(mStateUidMap) = IMPORTANCE_UNKNOWN
  BY Zenon DEF UidInit, updateTopUid_l
<1> QED
  BY <1>1, <1>2 DEF UidInit, UidInv

(* Every step of the uid policy keeps the invariant. *)
LEMMA UidNextInv == UidInv /\ [UidNext]_uidVars => UidInv'
<1> SUFFICES ASSUME UidInv, [UidNext]_uidVars PROVE UidInv'
  OBVIOUS
<1>1. ASSUME NEW u \in Uids, registerMonitorUid(u) PROVE UidInv'
  <2>1. \A state \in ReadStates(u) : state \in States
    BY ImportanceAssumption, Zenon DEF ReadStates, States, UidInv
  <2>2. PICK state \in States :
          /\ mUidStateMap' = [v \in DOMAIN mUidStateMap \cup {u} |->
                                IF v = u THEN state ELSE mUidStateMap[v]]
          /\ mStateUidMap' = store(mStateUidMap, state, entry(mStateUidMap, state) \cup {u})
    BY <1>1, <2>1, Zenon DEF registerMonitorUid
  <2>3. SameUids(mUidStateMap', mStateUidMap')
    BY <1>1, <2>2, RegisterKeepsMaps, Zenon DEF registerMonitorUid, UidInv
  <2> QED
    BY <1>1, <2>3, Zenon DEF registerMonitorUid, UidInv
<1>2. ASSUME NEW u \in Uids, unregisterMonitorUid(u) PROVE UidInv'
  <2>1. SameUids(mUidStateMap', mStateUidMap')
    BY <1>2, UnregisterKeepsMaps, Zenon DEF UidInv
  <2> QED
    BY <1>2, <2>1, Zenon DEF unregisterMonitorUid, UidInv
<1>3. ASSUME NEW u \in Uids, NEW s \in Importances, importanceChanges(u, s) PROVE UidInv'
  <2>1. importance' \in [Uids -> Importances]
    BY <1>3, Zenon DEF importanceChanges, UidInv
  <2>2. events' \in Seq(Uids \X Importances)
    BY <1>3 DEF importanceChanges, UidInv
  <2> QED
    BY <1>3, <2>1, <2>2, Zenon DEF importanceChanges, UidInv
<1>4. CASE onUidStateChanged
  <2>1. events' \in Seq(Uids \X Importances) /\ importance' = importance
    BY <1>4 DEF onUidStateChanged, UidInv
  <2>2. SameUids(mUidStateMap', mStateUidMap') /\ mTopUidState' = updateTopUid_l(mStateUidMap')
    <3>1. PICK u \in Uids, procState \in Importances :
            \/ /\ u \in DOMAIN mUidStateMap /\ mUidStateMap[u] # procState
               /\ mUidStateMap' = [mUidStateMap EXCEPT ![u] = procState]
               /\ mStateUidMap' = moved(u, procState)
               /\ mTopUidState' = updateTopUid_l(mStateUidMap')
            \/ UNCHANGED <<mUidStateMap, mStateUidMap, mTopUidState>>
      BY <1>4, EventStep, Zenon
    <3>2. mTopUidState \in States
      BY TopIsBest, Zenon DEF UidInv
    <3>3. procState \in States
      BY Zenon DEF States
    <3> QED
      BY <3>1, <3>2, <3>3, MoveKeepsMaps, Zenon DEF UidInv
  <2> QED
    BY <2>1, <2>2, Zenon DEF UidInv
<1>5. CASE callBack
  BY <1>5, Zenon DEF callBack, UidInv
<1>6. CASE UNCHANGED uidVars
  BY <1>6, Zenon DEF uidVars, UidInv
<1> QED
  BY <1>1, <1>2, <1>3, <1>4, <1>5, <1>6, Zenon DEF UidNext

(***************************************************************************)
(* mUidStateMap, mStateUidMap and mTopUidState agree in every state of the *)
(* uid policy, so that getTopUids finds the entry it looks up.             *)
(***************************************************************************)
THEOREM UidMapsAgree == UidSpec => []MapsAgree
<1>1. UidInv => MapsAgree
  BY Zenon DEF UidInv, MapsAgree, SameUids, entry
<1> QED
  BY <1>1, UidInitInv, UidNextInv, PTL DEF UidSpec

(***************************************************************************)
(* SettledIsTrue is not inductive: that the states settle to the right     *)
(* values needs that the last event on its way for a uid carries the       *)
(* importance the activity manager has for it.                             *)
(***************************************************************************)
LastIsTrue ==
  \A i \in DOMAIN events :
    (\A j \in DOMAIN events : j > i => events[j][1] # events[i][1]) =>
      events[i][2] = importance[events[i][1]]

SettledInv == UidInv /\ (mRegistered => LastIsTrue) /\ SettledIsTrue

(***************************************************************************)
(* importanceChanges puts its event behind the others.                     *)
(***************************************************************************)
LEMMA ChangeSettles ==
  ASSUME SettledInv, NEW u \in Uids, NEW s \in Importances, importanceChanges(u, s)
  PROVE  (mRegistered => LastIsTrue)' /\ SettledIsTrue'
<1> SUFFICES ASSUME mRegistered PROVE LastIsTrue' /\ SettledIsTrue'
  BY Zenon DEF importanceChanges, SettledIsTrue
<1>1. /\ events \in Seq(Uids \X Importances) /\ events' = Append(events, <<u, s>>)
      /\ importance \in [Uids -> Importances]
      /\ importance' = [importance EXCEPT ![u] = s]
      /\ mUidStateMap' = mUidStateMap
  BY Zenon DEF importanceChanges, SettledInv, UidInv
<1>2. /\ DOMAIN events = 1..Len(events) /\ DOMAIN events' = 1..(Len(events) + 1)
      /\ Len(events) \in Nat
      /\ \A i \in DOMAIN events : events'[i] = events[i] /\ events[i][1] \in Uids
      /\ events'[Len(events) + 1] = <<u, s>>
  BY <1>1
<1>3. LastIsTrue'
  <2> SUFFICES ASSUME NEW i \in DOMAIN events',
                      \A j \in DOMAIN events' : j > i => events'[j][1] # events'[i][1]
               PROVE  events'[i][2] = importance'[events'[i][1]]
    BY Zenon DEF LastIsTrue
  <2>1. CASE i = Len(events) + 1
    BY <1>1, <1>2, <2>1
  <2>2. CASE i # Len(events) + 1
    <3>1. i \in DOMAIN events /\ events'[i] = events[i] /\ events[i][1] # u
      BY <1>2, <2>2
    <3>2. \A j \in DOMAIN events : j > i => events[j][1] # events[i][1]
      BY <1>2, <3>1
    <3>3. events[i][2] = importance[events[i][1]]
      BY <3>1, <3>2, Zenon DEF SettledInv, LastIsTrue
    <3> QED
      BY <1>1, <1>2, <3>1, <3>3, Zenon
  <2> QED
    BY <2>1, <2>2, Zenon
<1>4. SettledIsTrue'
  <2> SUFFICES ASSUME NEW v \in DOMAIN mUidStateMap
               PROVE  \/ \E i \in DOMAIN events' : events'[i][1] = v
                      \/ mUidStateMap[v] \in {importance'[v], IMPORTANCE_UNKNOWN}
    BY <1>1, Zenon DEF SettledIsTrue
  <2>1. CASE v = u
    <3>1. Len(events) + 1 \in DOMAIN events' /\ events'[Len(events) + 1][1] = v
      BY <1>2, <2>1
    <3> QED
      BY <3>1, Zenon
  <2>2. CASE v # u
    <3>1. importance'[v] = importance[v]
      BY <1>1, <2>2, Zenon DEF SettledInv, UidInv, SameUids
    <3>2. DOMAIN events \subseteq DOMAIN events'
      BY <1>2
    <3> QED
      BY <1>2, <3>1, <3>2, Zenon DEF SettledInv, SettledIsTrue
  <2> QED
    BY <2>1, <2>2, Zenon
<1> QED
  BY <1>3, <1>4, Zenon

(***************************************************************************)
(* onUidStateChanged takes the first event: it was the last for its uid,   *)
(* which has the right state then, or there is another.                    *)
(***************************************************************************)
LEMMA EventSettles ==
  ASSUME SettledInv, onUidStateChanged
  PROVE  (mRegistered => LastIsTrue)' /\ SettledIsTrue'
<1> SUFFICES ASSUME mRegistered PROVE LastIsTrue' /\ SettledIsTrue'
  BY Zenon DEF onUidStateChanged, SettledIsTrue
<1>1. /\ events \in Seq(Uids \X Importances) /\ events # << >>
      /\ events' = Tail(events) /\ importance' = importance
  BY Zenon DEF onUidStateChanged, SettledInv, UidInv
<1>2. /\ Len(events) \in Nat \ {0} /\ DOMAIN events = 1..Len(events)
      /\ DOMAIN events' = 1..(Len(events) - 1)
      /\ \A i \in DOMAIN events' : events'[i] = events[i + 1]
  BY <1>1
<1>3. LastIsTrue'
  <2> SUFFICES ASSUME NEW i \in DOMAIN events',
                      \A j \in DOMAIN events' : j > i => events'[j][1] # events'[i][1]
               PROVE  events'[i][2] = importance[events'[i][1]]
    BY <1>1, Zenon DEF LastIsTrue
  <2>1. i + 1 \in DOMAIN events
    BY <1>2
  <2>2. ASSUME NEW j \in DOMAIN events, j > i + 1 PROVE events[j][1] # events[i + 1][1]
    <3>1. j - 1 \in DOMAIN events' /\ j - 1 > i /\ events'[j - 1] = events[(j - 1) + 1]
      BY <1>2, <2>2
    <3>2. (j - 1) + 1 = j
      BY <1>2
    <3> QED
      BY <1>2, <3>1, <3>2, Zenon
  <2> QED
    BY <1>2, <2>1, <2>2, Zenon DEF SettledInv, LastIsTrue
<1>4. SettledIsTrue'
  <2>1. PICK u \in Uids, procState \in Importances :
          /\ Head(events) = <<u, procState>>
          /\ \/ /\ u \in DOMAIN mUidStateMap
                /\ mUidStateMap' = [mUidStateMap EXCEPT ![u] = procState]
             \/ /\ mUidStateMap' = mUidStateMap
                /\ ~(u \in DOMAIN mUidStateMap /\ mUidStateMap[u] # procState)
    <3>1. Head(events) \in Uids \X Importances
      BY <1>1
    <3>2. PICK u \in Uids, procState \in Importances : Head(events) = <<u, procState>>
      BY <3>1
    <3>3. Head(events)[1] = u /\ Head(events)[2] = procState
      BY <3>2
    <3> QED
      BY <3>2, <3>3, Zenon DEF onUidStateChanged, isMonitored
  <2>2. events[1] = <<u, procState>>
    BY <1>1, <2>1
  <2> SUFFICES ASSUME NEW v \in DOMAIN mUidStateMap',
                      ~ \E i \in DOMAIN events' : events'[i][1] = v
               PROVE  mUidStateMap'[v] \in {importance[v], IMPORTANCE_UNKNOWN}
    BY <1>1, Zenon DEF SettledIsTrue
  <2>3. DOMAIN mUidStateMap' = DOMAIN mUidStateMap
    BY <2>1, Zenon DEF SettledInv, UidInv, SameUids
  <2>4. ASSUME NEW j \in DOMAIN events, j > 1 PROVE events[j][1] # v
    <3>1. j - 1 \in DOMAIN events' /\ (j - 1) + 1 = j
      BY <1>2, <2>4
    <3> QED
      BY <1>2, <3>1, Zenon
  <2>5. CASE v = u
    <3>1. mUidStateMap'[v] = procState
      BY <2>1, <2>3, <2>5, Zenon DEF SettledInv, UidInv, SameUids
    <3>2. procState = importance[v]
      <4>1. 1 \in DOMAIN events /\ \A j \in DOMAIN events : j > 1 => events[j][1] # events[1][1]
        BY <1>2, <2>2, <2>4, <2>5
      <4>2. events[1][2] = importance[events[1][1]]
        BY <4>1, Zenon DEF SettledInv, LastIsTrue
      <4> QED
        BY <2>2, <2>5, <4>2
    <3> QED
      BY <3>1, <3>2, Zenon
  <2>6. CASE v # u
    <3>1. mUidStateMap'[v] = mUidStateMap[v]
      BY <2>1, <2>3, <2>6, Zenon DEF SettledInv, UidInv, SameUids
    <3>2. ASSUME NEW j \in DOMAIN events PROVE events[j][1] # v
      <4>1. j = 1 \/ j > 1
        BY <1>2
      <4> QED
        BY <2>2, <2>4, <2>6, <4>1
    <3> QED
      BY <2>3, <3>1, <3>2, Zenon DEF SettledInv, SettledIsTrue
  <2> QED
    BY <2>5, <2>6, Zenon
<1> QED
  BY <1>3, <1>4, Zenon

(***************************************************************************)
(* What registerMonitorUid may read settles.                               *)
(***************************************************************************)
LEMMA RegisterSettles ==
  ASSUME SettledInv, NEW u \in Uids, registerMonitorUid(u)
  PROVE  SettledIsTrue'
<1>1. PICK state \in ReadStates(u) :
        mUidStateMap' = [v \in DOMAIN mUidStateMap \cup {u} |->
                           IF v = u THEN state ELSE mUidStateMap[v]]
  BY Zenon DEF registerMonitorUid
<1>2. UNCHANGED <<mRegistered, importance, events>>
  BY Zenon DEF registerMonitorUid
<1>3. state \in {importance[u], IMPORTANCE_UNKNOWN}
  BY Zenon DEF ReadStates
<1> QED
  BY <1>1, <1>2, <1>3, Zenon DEF SettledInv, SettledIsTrue

(***************************************************************************)
(* Whatever the delay of the events and whatever was read in between:      *)
(* when no event is on its way for a monitored uid, a state that the       *)
(* policy knows is the activity manager's importance of the uid.           *)
(***************************************************************************)
THEOREM UidStatesSettle == UidSpec => []SettledIsTrue
<1>1. UidInit => SettledInv
  <2> SUFFICES ASSUME UidInit PROVE SettledInv
    OBVIOUS
  <2>1. UidInv
    BY UidInitInv, Zenon
  <2>2. DOMAIN events = {} /\ DOMAIN mUidStateMap = {}
    BY DEF UidInit
  <2> QED
    BY <2>1, <2>2, Zenon DEF SettledInv, LastIsTrue, SettledIsTrue
<1>2. SettledInv /\ [UidNext]_uidVars => SettledInv'
  <2> SUFFICES ASSUME SettledInv, [UidNext]_uidVars
               PROVE  (mRegistered => LastIsTrue)' /\ SettledIsTrue'
    BY UidNextInv, Zenon DEF SettledInv
  <2>1. ASSUME NEW u \in Uids, registerMonitorUid(u)
        PROVE  (mRegistered => LastIsTrue)' /\ SettledIsTrue'
    BY <2>1, RegisterSettles, Zenon DEF registerMonitorUid, SettledInv, LastIsTrue
  <2>2. ASSUME NEW u \in Uids, unregisterMonitorUid(u)
        PROVE  (mRegistered => LastIsTrue)' /\ SettledIsTrue'
    BY <2>2, Zenon DEF unregisterMonitorUid, SettledInv, LastIsTrue, SettledIsTrue
  <2>3. ASSUME NEW u \in Uids, NEW s \in Importances, importanceChanges(u, s)
        PROVE  (mRegistered => LastIsTrue)' /\ SettledIsTrue'
    BY <2>3, ChangeSettles, Zenon
  <2>4. CASE onUidStateChanged
    BY <2>4, EventSettles, Zenon
  <2>5. CASE callBack
    BY <2>5, Zenon DEF callBack, SettledInv, LastIsTrue, SettledIsTrue
  <2>6. CASE UNCHANGED uidVars
    BY <2>6, Zenon DEF uidVars, SettledInv, LastIsTrue, SettledIsTrue
  <2> QED
    BY <2>1, <2>2, <2>3, <2>4, <2>5, <2>6, Zenon DEF UidNext
<1> QED
  BY <1>1, <1>2, PTL DEF UidSpec, SettledInv

(***************************************************************************)
(* What the refinement mapping shows of a state: getTopUids are the best   *)
(* uids, there are some as soon as one state is known, and what            *)
(* onUidStateChanged compares with is ComparedTop.                         *)
(***************************************************************************)
LEMMA Shown ==
  ASSUME UidInv
  PROVE  /\ getTopUids = Best(mUidStateMap)
         /\ Best(mUidStateMap) = {} => Known(mUidStateMap) = {}
         /\ Top!ComparedTop = entry(mStateUidMap, mTopUidState)
BY TopIsBest, Zenon DEF UidInv, getTopUids, entry, Top!ComparedTop

(* The same of the uids shown after a step. *)
LEMMA ShownNext ==
  ASSUME UidInv'
  PROVE  /\ getTopUids' = Best(mUidStateMap')
         /\ Known(mUidStateMap') # {} => /\ mStateUidMap'[mTopUidState'] = Best(mUidStateMap')
                                         /\ Best(mUidStateMap') # {}
BY TopIsBest, Zenon DEF UidInv, getTopUids

(***************************************************************************)
(* Every step of the policy is one TopUids allows.                         *)
(***************************************************************************)
LEMMA UidNextTop ==
    UidInv /\ UidInv' /\ [UidNext]_uidVars => [Top!TopNext]_(Top!topVars)
<1> SUFFICES ASSUME UidInv, UidInv', [UidNext]_uidVars
             PROVE  Top!TopNext \/ UNCHANGED Top!topVars
  OBVIOUS
<1> DEFINE f == mUidStateMap
           g == mUidStateMap'
<1>a. getTopUids = Best(f) /\ getTopUids' = Best(g) /\ (Best(f) = {} => Known(f) = {})
  BY Shown, ShownNext, Zenon
<1>b. f \in [DOMAIN f -> States] /\ g \in [DOMAIN g -> States]
  BY Zenon DEF UidInv, SameUids
<1>c. Best(f) \subseteq DOMAIN f /\ Best(g) \subseteq DOMAIN g
  BY Zenon DEF Best, Known
<1>1. ASSUME NEW u \in Uids, registerMonitorUid(u) PROVE Top!TopNext
  <2>1. /\ DOMAIN g = DOMAIN f \cup {u} /\ u \notin DOMAIN f /\ told' = told
        /\ \A v \in DOMAIN f \ {u} : g[v] = f[v]
    BY <1>1, Zenon DEF registerMonitorUid
  <2>2. Best(g) \in {Best(f), Best(f) \cup {u}, {u}}
    <3>1. u \notin Best(f)
      BY <1>c, <2>1, Zenon
    <3> HIDE DEF f, g
    <3>2. Best(f) # {} => Best(g) \in {Best(f), Best(f) \cup {u}, {u}}
      BY <1>b, <2>1, <3>1, BestWith, Zenon
    <3>3. Known(f) = {} => Best(g) \in {{}, {u}}
      BY <1>b, <2>1, BestWith, Zenon
    <3> QED
      BY <1>a, <3>2, <3>3, Zenon
  <2>3. Top!Register(u)
    BY <1>a, <2>1, <2>2, Zenon DEF Top!Register
  <2> QED
    BY <2>3, Zenon DEF Top!TopNext
<1>2. ASSUME NEW u \in Uids, unregisterMonitorUid(u) PROVE Top!TopNext
  <2>1. /\ DOMAIN g = DOMAIN f \ {u} /\ told' = told
        /\ \A v \in DOMAIN g : g[v] = f[v]
    BY <1>2, Zenon DEF unregisterMonitorUid
  <2>2. /\ Best(f) \ {u} # {} => Best(g) = Best(f) \ {u}
        /\ Known(f) = {} => Best(g) = {}
    <3> HIDE DEF f, g
    <3> QED
      BY <1>b, <2>1, BestWithout, Zenon
  <2>3. IF Best(f) \ {u} # {} \/ Best(f) = {} THEN Best(g) = Best(f) \ {u}
                                            ELSE Best(g) \subseteq DOMAIN f \ {u}
    BY <1>a, <1>c, <2>1, <2>2, Zenon
  <2>4. Top!Unregister(u)
    BY <1>a, <2>1, <2>3, Zenon DEF Top!Unregister
  <2> QED
    BY <2>4, Zenon DEF Top!TopNext
<1>3. ASSUME NEW u \in Uids, NEW s \in Importances, importanceChanges(u, s)
      PROVE  UNCHANGED Top!topVars
  BY <1>3, Zenon DEF importanceChanges, Top!topVars, getTopUids
<1>4. CASE onUidStateChanged
  <2>1. PICK u \in Uids, procState \in Importances :
          \/ /\ u \in DOMAIN mUidStateMap
             /\ mUidStateMap' = [mUidStateMap EXCEPT ![u] = procState]
             /\ told' = [top  |-> ChangedTop(entry(mStateUidMap, mTopUidState),
                                             mStateUidMap'[mTopUidState']),
                         gone |-> IF procState = GONE THEN {u} ELSE {}]
          \/ UNCHANGED <<mUidStateMap, mStateUidMap, mTopUidState, told>>
    BY <1>4, EventStep, Zenon
  <2>2. CASE UNCHANGED <<mUidStateMap, mStateUidMap, mTopUidState, told>>
    BY <2>2, Zenon DEF Top!topVars, getTopUids
  <2>3. CASE /\ u \in DOMAIN mUidStateMap
             /\ mUidStateMap' = [mUidStateMap EXCEPT ![u] = procState]
             /\ told' = [top  |-> ChangedTop(entry(mStateUidMap, mTopUidState),
                                             mStateUidMap'[mTopUidState']),
                         gone |-> IF procState = GONE THEN {u} ELSE {}]
    <3>1. /\ DOMAIN g = DOMAIN f /\ DOMAIN g = DOMAIN f \cup {u} /\ u \in DOMAIN g
          /\ g[u] = procState /\ \A v \in DOMAIN f \ {u} : g[v] = f[v]
      BY <2>3, <1>b, Zenon
    <3>2. u \in Known(g)
      BY <3>1, ImportanceAssumption, Zenon DEF Known
    <3>3. mStateUidMap'[mTopUidState'] = Best(g) /\ Best(g) # {}
      BY <3>2, ShownNext, Zenon
    <3>4. \/ Best(g) \in {Best(f) \cup {u}, {u}}
          \/ Best(f) \ {u} # {} /\ Best(g) = Best(f) \ {u}
          \/ Best(f) \ {u} = {} /\ Best(g) \in (SUBSET DOMAIN f) \ {{}}
      <4>1. Best(f) \ {u} # {} => Best(g) \in {Best(f) \ {u}, Best(f) \cup {u}, {u}}
        <5> HIDE DEF f, g
        <5> QED
          BY <1>b, <3>1, BestWith, Zenon
      <4>2. Best(g) \in (SUBSET DOMAIN f) \ {{}}
        BY <1>c, <3>1, <3>3, Zenon
      <4> QED
        BY <4>1, <4>2, Zenon
    <3>5. told = NothingToTell /\ NothingToTell = Top!NoNotice
      BY <1>4, Zenon DEF onUidStateChanged, NothingToTell, Top!NoNotice
    <3>6. told' = [top  |-> IF Best(g) = Top!ComparedTop THEN {} ELSE Best(g),
                   gone |-> IF procState = GONE THEN {u} ELSE {}]
      BY <2>3, <3>3, Shown, Zenon DEF ChangedTop
    <3>7. told' \in [top  : {IF Best(g) = Top!ComparedTop THEN {} ELSE Best(g)},
                     gone : {{}, {u}}]
      BY <3>6, Zenon
    <3>8. Top!Change(u)
      BY <1>a, <3>1, <3>4, <3>5, <3>7, Zenon DEF Top!Change
    <3> QED
      BY <3>8, Zenon DEF Top!TopNext
  <2> QED
    BY <2>1, <2>2, <2>3, Zenon
<1>5. CASE callBack
  <2>1. UNCHANGED <<mUidStateMap, mStateUidMap, mTopUidState>>
    BY <1>5, Zenon DEF callBack
  <2>2. told' = IF told.top # {} THEN [told EXCEPT !.top = {}] ELSE Top!NoNotice
    BY <1>5, Zenon DEF callBack, NothingToTell, Top!NoNotice
  <2>3. Top!Tell
    BY <2>1, <2>2, Zenon DEF Top!Tell, getTopUids
  <2> QED
    BY <2>3, Zenon DEF Top!TopNext
<1>6. CASE UNCHANGED uidVars
  BY <1>6, Zenon DEF uidVars, Top!topVars, getTopUids
<1> QED
  BY <1>1, <1>2, <1>3, <1>4, <1>5, <1>6, Zenon DEF UidNext

(***************************************************************************)
(* The uid policy implements TopUids: registering, unregistering and       *)
(* importance changes move the top uids, and are told, only in the ways    *)
(* the session controller's model allows for.                              *)
(***************************************************************************)
THEOREM UidPolicyImplementsTop == UidSpec => ImplementsTopUids
<1>1. UidInit => Top!TopInit
  BY Zenon DEF UidInit, Top!TopInit, getTopUids, NothingToTell, Top!NoNotice
<1> QED
  BY <1>1, UidInitInv, UidNextInv, UidNextTop, PTL
     DEF UidSpec, ImplementsTopUids, Top!TopSpec

-----------------------------------------------------------------------------
(***************************************************************************)
(* The thermal policy.  The last change on its way carries the status; the *)
(* policy has what the status demands when none is on its way; and the     *)
(* controller has what the policy has, unless a call back is still to come *)
(* or was dropped.                                                         *)
(***************************************************************************)
ThermalTypeOK ==
  /\ startup \in {"listen", "read", "construct", "setCallback", "done"}
  /\ listening \in BOOLEAN /\ unheard \in BOOLEAN
  /\ mIsThrottling \in BOOLEAN /\ throttlesController \in BOOLEAN
  /\ status \in Statuses /\ statusEvents \in Seq(Statuses)
  /\ change \in {"none", "started", "stopped"}

ThermalInv ==
  /\ ThermalTypeOK
  /\ startup = "listen" => ~listening
  /\ ~listening => statusEvents = << >>
  /\ startup \in {"listen", "read"} => change = "none"
  /\ statusEvents # << >> => statusEvents[Len(statusEvents)] = status
  /\ listening /\ startup # "read" /\ statusEvents = << >> =>
       mIsThrottling = needThrottling(status)
  /\ change # "none" => mIsThrottling = (change = "started")
  /\ startup \in {"setCallback", "done"} /\ change = "none" /\ ~unheard =>
       throttlesController = mIsThrottling

(* needThrottling answers yes or no. *)
LEMMA needThrottlingType == \A s \in Statuses : needThrottling(s) \in BOOLEAN
BY StatusAssumption DEF needThrottling

(***************************************************************************)
(* The listener thread takes the first change; if it was the only one, the *)
(* policy has the current status now.                                      *)
(***************************************************************************)
LEMMA StatusChangeKeepsInv ==
  ASSUME ThermalInv, onStatusChange
  PROVE  ThermalInv'
<1> DEFINE isThrottling == needThrottling(Head(statusEvents))
<1>1. /\ statusEvents \in Seq(Statuses) /\ statusEvents # << >>
      /\ change = "none" /\ startup # "read"
      /\ statusEvents' = Tail(statusEvents)
      /\ UNCHANGED <<startup, listening, status, throttlesController, unheard>>
  BY Zenon DEF ThermalInv, ThermalTypeOK, onStatusChange
<1>2. /\ Head(statusEvents) \in Statuses /\ statusEvents' \in Seq(Statuses)
      /\ statusEvents' # << >> => statusEvents'[Len(statusEvents')] = statusEvents[Len(statusEvents)]
      /\ statusEvents' = << >> => Head(statusEvents) = statusEvents[Len(statusEvents)]
  <2>1. Len(statusEvents) \in Nat \ {0} /\ Head(statusEvents) = statusEvents[1]
    BY <1>1
  <2>2. /\ statusEvents' \in Seq(Statuses) /\ Len(statusEvents') = Len(statusEvents) - 1
        /\ \A i \in 1..Len(statusEvents') : statusEvents'[i] = statusEvents[i + 1]
    BY <1>1
  <2>3. statusEvents' # << >> => Len(statusEvents') \in 1..Len(statusEvents')
    BY <2>1, <2>2
  <2>4. statusEvents' = << >> => Len(statusEvents) = 1
    BY <2>1, <2>2
  <2>5. statusEvents' # << >> =>
          statusEvents'[Len(statusEvents')] = statusEvents[Len(statusEvents)]
    BY <2>1, <2>2, <2>3
  <2> QED
    BY <1>1, <2>1, <2>2, <2>4, <2>5
<1>3. isThrottling \in BOOLEAN /\ mIsThrottling \in BOOLEAN
  BY <1>2, needThrottlingType, Zenon DEF ThermalInv, ThermalTypeOK
<1>4. /\ mIsThrottling' = isThrottling
      /\ \/ change' = "none" /\ mIsThrottling' = mIsThrottling
         \/ change' = IF isThrottling THEN "started" ELSE "stopped"
  BY <1>1, Zenon DEF onStatusChange
<1>5. statusEvents' = << >> => isThrottling = needThrottling(status)
  BY <1>1, <1>2, Zenon DEF ThermalInv
<1>6. ThermalTypeOK'
  BY <1>1, <1>2, <1>3, <1>4, Zenon DEF ThermalInv, ThermalTypeOK
<1>7. /\ statusEvents' # << >> => statusEvents'[Len(statusEvents')] = status
      /\ listening /\ startup # "listen"
  <2>1. listening /\ startup # "listen"
    BY <1>1, Zenon DEF ThermalInv
  <2>2. statusEvents[Len(statusEvents)] = status
    BY <1>1, Zenon DEF ThermalInv
  <2> QED
    BY <1>2, <2>1, <2>2, Zenon
<1>8. change' # "none" => mIsThrottling' = (change' = "started")
  BY <1>3, <1>4, Zenon
<1>9. listening' /\ startup' # "read" /\ statusEvents' = << >> =>
        mIsThrottling' = needThrottling(status')
  BY <1>1, <1>4, <1>5, Zenon
<1>10. startup' \in {"setCallback", "done"} /\ change' = "none" /\ ~unheard' =>
         throttlesController' = mIsThrottling'
  BY <1>1, <1>3, <1>4, Zenon DEF ThermalInv
<1> HIDE DEF isThrottling
<1> QED
  BY <1>1, <1>6, <1>7, <1>8, <1>9, <1>10, Zenon DEF ThermalInv

(***************************************************************************)
(* A change of the status goes behind the others.                          *)
(***************************************************************************)
LEMMA StatusKeepsInv ==
  ASSUME ThermalInv, NEW s \in Statuses, statusChanges(s)
  PROVE  ThermalInv'
<1>1. /\ statusEvents \in Seq(Statuses) /\ status' = s
      /\ listening => statusEvents' = Append(statusEvents, s)
      /\ ~listening => statusEvents' = << >>
      /\ UNCHANGED <<startup, listening, mIsThrottling, change, throttlesController, unheard>>
  BY Zenon DEF ThermalInv, ThermalTypeOK, statusChanges
<1>2. listening => /\ statusEvents' \in Seq(Statuses) /\ statusEvents' # << >>
                   /\ statusEvents'[Len(statusEvents')] = s
  BY <1>1
<1>3. ~listening => statusEvents' \in Seq(Statuses)
  BY <1>1
<1>4. ThermalTypeOK'
  BY <1>1, <1>2, <1>3, Zenon DEF ThermalInv, ThermalTypeOK
<1>5. listening' => statusEvents' # << >>
  BY <1>1, <1>2, Zenon
<1> QED
  BY <1>1, <1>2, <1>4, <1>5, Zenon DEF ThermalInv, ThermalTypeOK

(***************************************************************************)
(* When every change has been delivered and none was dropped for want of a *)
(* callback, the controller throttles if and only if the device is hot: in *)
(* whatever order the listener was registered, the status read, the        *)
(* controller constructed and the changes handled.                         *)
(***************************************************************************)
THEOREM ThermalSettles == ThermalSpec => []ThrottlingSettles
<1>1. ThermalInit => ThermalInv
  <2> SUFFICES ASSUME ThermalInit PROVE ThermalInv
    OBVIOUS
  <2>1. statusEvents \in Seq(Statuses)
    BY DEF ThermalInit
  <2>2. ThermalTypeOK
    BY <2>1, Zenon DEF ThermalInit, ThermalTypeOK
  <2> QED
    BY <2>2, Zenon DEF ThermalInit, ThermalInv
<1>2. ThermalInv /\ [ThermalNext]_thermalVars => ThermalInv'
  <2> SUFFICES ASSUME ThermalInv, [ThermalNext]_thermalVars PROVE ThermalInv'
    OBVIOUS
  <2>0. needThrottling(status) \in BOOLEAN
    BY needThrottlingType, Zenon DEF ThermalInv, ThermalTypeOK
  <2>1. CASE registerListener
    BY <2>1, Zenon DEF registerListener, ThermalInv, ThermalTypeOK
  <2>2. CASE readStatus
    BY <2>0, <2>2, Zenon DEF readStatus, CurrentThrottling, ThermalInv, ThermalTypeOK,
       needThrottling
  <2>3. CASE constructController
    BY <2>3, Zenon DEF constructController, ThermalInv, ThermalTypeOK, needThrottling
  <2>4. CASE setCallback
    BY <2>4, Zenon DEF setCallback, ThermalInv, ThermalTypeOK, needThrottling
  <2>5. CASE onStatusChange
    BY <2>5, StatusChangeKeepsInv, Zenon
  <2>6. CASE callThrottling
    BY <2>6, Zenon DEF callThrottling, ThermalInv, ThermalTypeOK, needThrottling
  <2>7. ASSUME NEW s \in Statuses, statusChanges(s) PROVE ThermalInv'
    BY <2>7, StatusKeepsInv, Zenon
  <2>8. CASE UNCHANGED thermalVars
    BY <2>8, Zenon DEF thermalVars, ThermalInv, ThermalTypeOK, needThrottling
  <2> QED
    BY <2>1, <2>2, <2>3, <2>4, <2>5, <2>6, <2>7, <2>8, Zenon DEF ThermalNext
<1>3. ThermalInv => ThrottlingSettles
  BY Zenon DEF ThermalInv, ThrottlingSettles
<1> QED
  BY <1>1, <1>2, <1>3, PTL DEF ThermalSpec

-----------------------------------------------------------------------------
(* The client manager                                                        *)

(***************************************************************************)
(* A thread in addClient with mLock held, and one that takes a client      *)
(* down.                                                                   *)
(***************************************************************************)
Adding(t) == thread[t].pc \in {"link", "insert"}
Ending(t) == thread[t].pc \in {"cancel", "remove"}

ThreadPcs == {"idle", "link", "insert", "id", "submit", "cancelOne", "cancel", "remove"}

ClientsTypeOK ==
  /\ IsFiniteSet(DOMAIN clients) /\ DOMAIN clients = 1..Cardinality(DOMAIN clients)
  /\ clients \in [DOMAIN clients ->
                    [binder : Callbacks, mNextSessionId : Nat, mAbandoned : BOOLEAN]]
  /\ sCookie2Client \subseteq DOMAIN clients /\ mClientIdToClientMap \subseteq DOMAIN clients
  /\ linked \subseteq DOMAIN clients
  /\ thread \in [Threads ->
                   [pc : ThreadPcs, client : DOMAIN clients \cup {NoClient}, session : Nat]]
  /\ \A t \in Threads : thread[t].pc # "idle" => thread[t].client \in DOMAIN clients

(***************************************************************************)
(* While mLock is held by a thread that adds a client, that client can be  *)
(* found by a death notice but is not registered; and what makes the       *)
(* teardown exclusive is that mAbandoned goes with it, and that a client   *)
(* leaves sCookie2Client only at its end.                                  *)
(***************************************************************************)
ClientsInv ==
  /\ ClientsTypeOK
  /\ \A t, o \in Threads : Adding(t) /\ Adding(o) => t = o
  /\ \A t \in Threads : Adding(t) =>
       /\ thread[t].client \notin mClientIdToClientMap
       /\ clients[thread[t].client].binder \notin mRegisteredCallbacks
  /\ \A c \in DOMAIN clients :
       c \in sCookie2Client <=> \/ c \in mClientIdToClientMap
                                \/ \E t \in Threads : Adding(t) /\ thread[t].client = c
  /\ mRegisteredCallbacks = {clients[c].binder : c \in mClientIdToClientMap}
  /\ \A c, d \in mClientIdToClientMap : clients[c].binder = clients[d].binder => c = d
  /\ \A c \in DOMAIN clients : ~clients[c].mAbandoned => c \in sCookie2Client
  /\ \A t \in Threads : Ending(t) =>
       clients[thread[t].client].mAbandoned /\ thread[t].client \in sCookie2Client
  /\ \A t, o \in Threads :
       Ending(t) /\ Ending(o) /\ thread[t].client = thread[o].client => t = o

SessionsOK == sessions \subseteq [client : DOMAIN clients, id : Nat, offline : BOOLEAN]

(***************************************************************************)
(* A step of one thread that touches no registry and no client: the other  *)
(* threads stay where they are.                                            *)
(***************************************************************************)
LEMMA OneThread ==
  ASSUME ClientsTypeOK, NEW t \in Threads, NEW pc, NEW c, NEW s, Goto(t, pc, c, s)
  PROVE  /\ DOMAIN thread' = Threads
         /\ thread'[t].pc = pc /\ thread'[t].client = c /\ thread'[t].session = s
         /\ \A o \in Threads : o # t => thread'[o] = thread[o]
BY Zenon DEF ClientsTypeOK, Goto

(* A thread that moves on without touching a map keeps the invariant. *)
LEMMA QuietStep ==
  ASSUME ClientsInv, NEW t \in Threads,
         NEW pc \in {"idle", "id", "submit", "cancelOne", "remove"},
         NEW c \in DOMAIN clients \cup {NoClient}, NEW s \in Nat, Goto(t, pc, c, s),
         pc # "idle" => c \in DOMAIN clients,
         ~Adding(t), pc = "remove" => Ending(t) /\ c = thread[t].client,
         UNCHANGED <<clients, sCookie2Client, mClientIdToClientMap, mRegisteredCallbacks>>,
         linked' \subseteq linked
  PROVE  ClientsInv'
<1>1. /\ thread'[t].pc = pc /\ thread'[t].client = c /\ thread'[t].session = s
      /\ \A o \in Threads : o # t => thread'[o] = thread[o]
  BY OneThread DEF ClientsInv
<1>2. ClientsTypeOK'
  <2>1. thread' \in [Threads ->
                   [pc : ThreadPcs, client : DOMAIN clients \cup {NoClient}, session : Nat]]
    BY Zenon DEF Goto, ClientsInv, ClientsTypeOK, ThreadPcs
  <2> QED
    BY <1>1, <2>1, Zenon DEF ClientsInv, ClientsTypeOK
<1>3. \A o \in Threads : Adding(o)' <=> Adding(o)
  BY <1>1, Zenon DEF Adding
<1>4. \A o \in Threads : Adding(o)' => thread'[o].client = thread[o].client
  BY <1>1, <1>3, Zenon
<1>5. \A o \in Threads : Ending(o)' => Ending(o) /\ thread'[o].client = thread[o].client
  BY <1>1, Zenon DEF Ending
<1> QED
  BY <1>2, <1>3, <1>4, <1>5 DEF ClientsInv

(***************************************************************************)
(* addClient: the new id is one more than the last, so the client is new   *)
(* to every registry, and mLockFree leaves the thread the only one that    *)
(* adds.                                                                   *)
(***************************************************************************)
LEMMA AddClientInv ==
  ASSUME ClientsInv, NEW t \in Threads, NEW b \in Callbacks, addClient(t, b)
  PROVE  ClientsInv'
<1> DEFINE n  == Cardinality(DOMAIN clients)
           id == n + 1
<1>1. /\ n \in Nat /\ DOMAIN clients = 1..n /\ IsFiniteSet(DOMAIN clients)
      /\ id \notin DOMAIN clients
  BY FS_CardinalityType DEF ClientsInv, ClientsTypeOK
<1>2. /\ thread[t] = Idle /\ mLockFree /\ b \notin mRegisteredCallbacks
      /\ clients' = [c \in DOMAIN clients \cup {id} |->
                       IF c = id THEN [binder |-> b, mNextSessionId |-> 0, mAbandoned |-> FALSE]
                       ELSE clients[c]]
      /\ sCookie2Client' = sCookie2Client \cup {id}
      /\ Goto(t, "link", id, 0)
      /\ UNCHANGED <<mClientIdToClientMap, mRegisteredCallbacks, linked>>
  BY Zenon DEF addClient
<1>3. DOMAIN clients' = DOMAIN clients \cup {id}
  BY <1>2, Zenon
<1>4. IsFiniteSet(DOMAIN clients') /\ DOMAIN clients' = 1..Cardinality(DOMAIN clients')
  <2>1. IsFiniteSet(DOMAIN clients') /\ Cardinality(DOMAIN clients') = n + 1
    BY <1>1, <1>3, FS_AddElement
  <2>2. DOMAIN clients' = 1..(n + 1)
    BY <1>1, <1>3
  <2> QED
    BY <2>1, <2>2, Zenon
<1> HIDE DEF id, n
<1>5. /\ \A c \in DOMAIN clients : clients'[c] = clients[c]
      /\ clients'[id].binder = b /\ clients'[id].mAbandoned = FALSE
      /\ clients'[id].mNextSessionId = 0
  BY <1>1, <1>2, Zenon
<1>6. /\ thread'[t].pc = "link" /\ thread'[t].client = id /\ thread'[t].session = 0
      /\ \A o \in Threads : o # t => thread'[o] = thread[o]
  BY <1>2, OneThread DEF ClientsInv
<1>7. ClientsTypeOK'
  <2>1. clients' \in [DOMAIN clients' ->
                        [binder : Callbacks, mNextSessionId : Nat, mAbandoned : BOOLEAN]]
    BY <1>2, <1>3, Zenon DEF ClientsInv, ClientsTypeOK
  <2>2. thread' \in [Threads ->
                   [pc : ThreadPcs, client : DOMAIN clients' \cup {NoClient}, session : Nat]]
    BY <1>2, <1>3 DEF Goto, ClientsInv, ClientsTypeOK, ThreadPcs
  <2>3. \A o \in Threads : thread'[o].pc # "idle" => thread'[o].client \in DOMAIN clients'
    BY <1>3, <1>6, Zenon DEF ClientsInv, ClientsTypeOK
  <2> QED
    BY <1>2, <1>3, <1>4, <2>1, <2>2, <2>3, Zenon DEF ClientsInv, ClientsTypeOK
<1>8. \A o \in Threads : Adding(o)' <=> o = t
  BY <1>2, <1>6, Zenon DEF Adding, mLockFree
<1>9. \A o \in Threads : Ending(o)' => o # t /\ Ending(o)
  BY <1>6, Zenon DEF Ending
<1>10. \A o \in Threads : Ending(o) => thread[o].client \in DOMAIN clients
  BY Zenon DEF ClientsInv, ClientsTypeOK, Ending
<1>11. mClientIdToClientMap \subseteq DOMAIN clients /\ sCookie2Client \subseteq DOMAIN clients
  BY Zenon DEF ClientsInv, ClientsTypeOK
<1>12. \A c \in DOMAIN clients' :
         c \in sCookie2Client' <=> \/ c \in mClientIdToClientMap'
                                   \/ \E o \in Threads : Adding(o)' /\ thread'[o].client = c
  <2>1. \A o \in Threads : ~Adding(o)
    BY <1>2, Zenon DEF mLockFree, Adding
  <2>2. \A c \in DOMAIN clients : c \in sCookie2Client <=> c \in mClientIdToClientMap
    BY <2>1, Zenon DEF ClientsInv
  <2> QED
    BY <1>1, <1>2, <1>3, <1>6, <1>8, <1>11, <2>2, Zenon
<1>13. mRegisteredCallbacks' = {clients'[c].binder : c \in mClientIdToClientMap'}
  <2>1. \A c \in mClientIdToClientMap : clients'[c].binder = clients[c].binder
    BY <1>5, <1>11, Zenon
  <2>2. mRegisteredCallbacks = {clients[c].binder : c \in mClientIdToClientMap}
    BY Zenon DEF ClientsInv
  <2>3. mClientIdToClientMap' = mClientIdToClientMap /\ mRegisteredCallbacks' = mRegisteredCallbacks
    BY <1>2, Zenon
  <2> QED
    BY <2>1, <2>2, <2>3, Zenon
<1>14. \A c, d \in mClientIdToClientMap' : clients'[c].binder = clients'[d].binder => c = d
  BY <1>2, <1>5, <1>11 DEF ClientsInv
<1>15. \A c \in DOMAIN clients' : ~clients'[c].mAbandoned => c \in sCookie2Client'
  BY <1>2, <1>3, <1>5, Zenon DEF ClientsInv
<1>16. \A o \in Threads : Ending(o)' =>
         clients'[thread'[o].client].mAbandoned /\ thread'[o].client \in sCookie2Client'
  BY <1>2, <1>5, <1>6, <1>9, <1>10, Zenon DEF ClientsInv
<1>17. \A o \in Threads : Adding(o)' =>
         /\ thread'[o].client \notin mClientIdToClientMap'
         /\ clients'[thread'[o].client].binder \notin mRegisteredCallbacks'
  BY <1>1, <1>2, <1>5, <1>6, <1>8, <1>11, Zenon
<1>18. \A o, q \in Threads :
         Ending(o)' /\ Ending(q)' /\ thread'[o].client = thread'[q].client => o = q
  BY <1>6, <1>9, Zenon DEF ClientsInv
<1> QED
  BY <1>7, <1>8, <1>12, <1>13, <1>14, <1>15, <1>16, <1>17, <1>18 DEF ClientsInv

(***************************************************************************)
(* linkToDeath moves on within addClient.                                  *)
(***************************************************************************)
LEMMA LinkInv ==
  ASSUME ClientsInv, NEW t \in Threads, linkToDeath(t)
  PROVE  ClientsInv'
<1> DEFINE c == thread[t].client
<1>1. /\ thread[t].pc = "link" /\ Goto(t, "insert", c, 0)
      /\ linked' \subseteq linked \cup {c}
      /\ UNCHANGED <<clients, sCookie2Client, mClientIdToClientMap, mRegisteredCallbacks>>
  BY Zenon DEF linkToDeath
<1>2. c \in DOMAIN clients
  BY <1>1, Zenon DEF ClientsInv, ClientsTypeOK
<1>3. /\ thread'[t].pc = "insert" /\ thread'[t].client = thread[t].client
      /\ \A o \in Threads : o # t => thread'[o] = thread[o]
  BY <1>1, OneThread DEF ClientsInv
<1>4. ClientsTypeOK'
  <2>1. thread' \in [Threads ->
                   [pc : ThreadPcs, client : DOMAIN clients \cup {NoClient}, session : Nat]]
    BY <1>1, <1>2, Zenon DEF Goto, ClientsInv, ClientsTypeOK, ThreadPcs
  <2> QED
    BY <1>1, <1>2, <1>3, <2>1, Zenon DEF ClientsInv, ClientsTypeOK
<1>5. \A o \in Threads : /\ Adding(o)' <=> Adding(o)
                         /\ Ending(o)' <=> Ending(o)
                         /\ thread'[o].client = thread[o].client
  BY <1>1, <1>3, Zenon DEF Adding, Ending
<1> QED
  BY <1>1, <1>4, <1>5 DEF ClientsInv

(***************************************************************************)
(* insertClient completes the registration.                                *)
(***************************************************************************)
LEMMA InsertInv ==
  ASSUME ClientsInv, NEW t \in Threads, insertClient(t)
  PROVE  ClientsInv'
<1> DEFINE c == thread[t].client
<1>1. /\ thread[t].pc = "insert" /\ Goto(t, "idle", NoClient, 0)
      /\ mRegisteredCallbacks' = mRegisteredCallbacks \cup {clients[c].binder}
      /\ mClientIdToClientMap' = mClientIdToClientMap \cup {c}
      /\ UNCHANGED <<clients, sCookie2Client, linked>>
  BY Zenon DEF insertClient, Return, Goto, Idle
<1>2. /\ c \in DOMAIN clients /\ c \notin mClientIdToClientMap
      /\ clients[c].binder \notin mRegisteredCallbacks
      /\ Adding(t)
  BY <1>1, Zenon DEF ClientsInv, ClientsTypeOK, Adding
<1>3. /\ thread'[t].pc = "idle" /\ thread'[t].client = NoClient /\ thread'[t].session = 0
      /\ \A o \in Threads : o # t => thread'[o] = thread[o]
  BY <1>1, OneThread, Zenon DEF ClientsInv
<1>4. ClientsTypeOK'
  <2>1. thread' \in [Threads ->
                   [pc : ThreadPcs, client : DOMAIN clients \cup {NoClient}, session : Nat]]
    BY <1>1, Zenon DEF Goto, ClientsInv, ClientsTypeOK, ThreadPcs
  <2> QED
    BY <1>1, <1>2, <1>3, <2>1, Zenon DEF ClientsInv, ClientsTypeOK
<1>5. \A o \in Threads : ~Adding(o)'
  BY <1>2, <1>3, Zenon DEF ClientsInv, Adding
<1>6. \A o \in Threads : Ending(o)' => o # t /\ Ending(o)
  BY <1>3, Zenon DEF Ending
<1>7. \A d \in DOMAIN clients : d \in sCookie2Client <=> d \in mClientIdToClientMap \cup {c}
  BY <1>2, Zenon DEF ClientsInv
<1>8. mRegisteredCallbacks' = {clients[d].binder : d \in mClientIdToClientMap'}
  BY <1>1 DEF ClientsInv
<1>9. \A d, e \in mClientIdToClientMap' : clients[d].binder = clients[e].binder => d = e
  <2>1. \A d \in mClientIdToClientMap : clients[d].binder # clients[c].binder
    BY <1>2, Zenon DEF ClientsInv
  <2> QED
    BY <1>1, <2>1, Zenon DEF ClientsInv
<1>10. \A o \in Threads : Ending(o)' =>
         clients[thread'[o].client].mAbandoned /\ thread'[o].client \in sCookie2Client
  BY <1>3, <1>6, Zenon DEF ClientsInv
<1>11. \A o, q \in Threads :
         Ending(o)' /\ Ending(q)' /\ thread'[o].client = thread'[q].client => o = q
  BY <1>3, <1>6, Zenon DEF ClientsInv
<1> QED
  BY <1>1, <1>4, <1>5, <1>7, <1>8, <1>9, <1>10, <1>11 DEF ClientsInv

(***************************************************************************)
(* fetchSessionId counts up mNextSessionId.                                *)
(***************************************************************************)
LEMMA FetchInv ==
  ASSUME ClientsInv, NEW t \in Threads, fetchSessionId(t)
  PROVE  ClientsInv'
<1> DEFINE c == thread[t].client
<1>1. /\ thread[t].pc = "id" /\ Goto(t, "submit", c, clients[c].mNextSessionId)
      /\ clients' = [clients EXCEPT ![c].mNextSessionId = @ + 1]
      /\ UNCHANGED <<sCookie2Client, mClientIdToClientMap, mRegisteredCallbacks, linked>>
  BY Zenon DEF fetchSessionId, NextId
<1>2. c \in DOMAIN clients /\ ~Adding(t)
  BY <1>1, Zenon DEF ClientsInv, ClientsTypeOK, Adding
<1>3. /\ DOMAIN clients' = DOMAIN clients
      /\ \A d \in DOMAIN clients : /\ clients'[d].binder = clients[d].binder
                                   /\ clients'[d].mAbandoned = clients[d].mAbandoned
      /\ clients' \in [DOMAIN clients ->
                        [binder : Callbacks, mNextSessionId : Nat, mAbandoned : BOOLEAN]]
  BY <1>1, <1>2 DEF ClientsInv, ClientsTypeOK
<1>4. clients[c].mNextSessionId \in Nat
  BY <1>2 DEF ClientsInv, ClientsTypeOK
<1>5. /\ thread'[t].pc = "submit" /\ thread'[t].client = thread[t].client
      /\ \A o \in Threads : o # t => thread'[o] = thread[o]
  BY <1>1, OneThread DEF ClientsInv
<1>6. ClientsTypeOK'
  <2>1. thread' \in [Threads ->
                   [pc : ThreadPcs, client : DOMAIN clients \cup {NoClient}, session : Nat]]
    BY <1>1, <1>2, <1>4, Zenon DEF Goto, ClientsInv, ClientsTypeOK, ThreadPcs
  <2> QED
    BY <1>1, <1>2, <1>3, <1>5, <2>1, Zenon DEF ClientsInv, ClientsTypeOK
<1>7. \A o \in Threads : /\ Adding(o)' <=> Adding(o)
                         /\ Ending(o)' <=> Ending(o)
                         /\ thread'[o].client = thread[o].client
                         /\ Adding(o) \/ Ending(o) => thread[o].client \in DOMAIN clients
  BY <1>1, <1>5, Zenon DEF Adding, Ending, ClientsInv, ClientsTypeOK
<1>8. mClientIdToClientMap \subseteq DOMAIN clients
  BY Zenon DEF ClientsInv, ClientsTypeOK
<1>9. mRegisteredCallbacks' = {clients'[d].binder : d \in mClientIdToClientMap'}
  <2>1. \A d \in mClientIdToClientMap : clients'[d].binder = clients[d].binder
    BY <1>3, <1>8, Zenon
  <2>2. mRegisteredCallbacks = {clients[d].binder : d \in mClientIdToClientMap}
    BY Zenon DEF ClientsInv
  <2> QED
    BY <1>1, <2>1, <2>2, Zenon
<1>10. \A d, e \in mClientIdToClientMap' : clients'[d].binder = clients'[e].binder => d = e
  BY <1>1, <1>3, <1>8 DEF ClientsInv
<1>11. \A o \in Threads : Adding(o)' =>
         /\ thread'[o].client \notin mClientIdToClientMap'
         /\ clients'[thread'[o].client].binder \notin mRegisteredCallbacks'
  BY <1>1, <1>3, <1>7 DEF ClientsInv
<1>12. \A o \in Threads : Ending(o)' =>
         clients'[thread'[o].client].mAbandoned /\ thread'[o].client \in sCookie2Client'
  BY <1>1, <1>3, <1>7, Zenon DEF ClientsInv
<1>13. \A d \in DOMAIN clients' : ~clients'[d].mAbandoned => d \in sCookie2Client'
  BY <1>1, <1>3 DEF ClientsInv
<1>14. \A d \in DOMAIN clients' :
         d \in sCookie2Client' <=> \/ d \in mClientIdToClientMap'
                                   \/ \E o \in Threads : Adding(o)' /\ thread'[o].client = d
  BY <1>1, <1>3, <1>7 DEF ClientsInv
<1>15. /\ \A o, q \in Threads : Adding(o)' /\ Adding(q)' => o = q
       /\ \A o, q \in Threads :
            Ending(o)' /\ Ending(q)' /\ thread'[o].client = thread'[q].client => o = q
  BY <1>7, Zenon DEF ClientsInv
<1> QED
  BY <1>6, <1>9, <1>10, <1>11, <1>12, <1>13, <1>14, <1>15, Zenon DEF ClientsInv

(***************************************************************************)
(* The exchange of mAbandoned lets one thread through, and the client can  *)
(* still be found then.                                                    *)
(***************************************************************************)
LEMMA ExchangeInv ==
  ASSUME ClientsInv, NEW t \in Threads, NEW c \in DOMAIN clients, thread[t] = Idle,
         ExchangeAbandoned(t, c), linked' \subseteq linked,
         UNCHANGED <<sCookie2Client, mClientIdToClientMap, mRegisteredCallbacks>>
  PROVE  ClientsInv'
<1>1. CASE clients[c].mAbandoned
  <2>1. UNCHANGED <<clients, thread>>
    BY <1>1, Zenon DEF ExchangeAbandoned
  <2>2. ClientsTypeOK'
    BY <2>1, Zenon DEF ClientsInv, ClientsTypeOK
  <2> QED
    BY <2>1, <2>2 DEF ClientsInv, Adding, Ending
<1>2. CASE ~clients[c].mAbandoned
  <2>1. /\ clients' = [clients EXCEPT ![c].mAbandoned = TRUE] /\ Goto(t, "cancel", c, 0)
    BY <1>2, Zenon DEF ExchangeAbandoned
  <2>2. /\ DOMAIN clients' = DOMAIN clients
        /\ \A d \in DOMAIN clients : /\ clients'[d].binder = clients[d].binder
                                     /\ clients[d].mAbandoned => clients'[d].mAbandoned
        /\ clients'[c].mAbandoned
        /\ clients' \in [DOMAIN clients ->
                          [binder : Callbacks, mNextSessionId : Nat, mAbandoned : BOOLEAN]]
    <3>1. clients \in [DOMAIN clients ->
                          [binder : Callbacks, mNextSessionId : Nat, mAbandoned : BOOLEAN]]
      BY Zenon DEF ClientsInv, ClientsTypeOK
    <3>2. /\ DOMAIN clients' = DOMAIN clients
          /\ clients'[c] = [clients[c] EXCEPT !.mAbandoned = TRUE]
          /\ \A d \in DOMAIN clients : d # c => clients'[d] = clients[d]
      BY <2>1, <3>1, Zenon
    <3>3. /\ clients'[c].binder = clients[c].binder /\ clients'[c].mAbandoned = TRUE
          /\ clients'[c] \in [binder : Callbacks, mNextSessionId : Nat, mAbandoned : BOOLEAN]
      BY <3>1, <3>2, Zenon
    <3>4. clients' \in [DOMAIN clients ->
                          [binder : Callbacks, mNextSessionId : Nat, mAbandoned : BOOLEAN]]
      BY <2>1, <3>1, Zenon
    <3> QED
      BY <3>2, <3>3, <3>4, Zenon
  <2>3. /\ thread'[t].pc = "cancel" /\ thread'[t].client = c
        /\ \A o \in Threads : o # t => thread'[o] = thread[o]
    BY <2>1, OneThread DEF ClientsInv
  <2>4. ClientsTypeOK'
    <3>1. thread' \in [Threads ->
                     [pc : ThreadPcs, client : DOMAIN clients \cup {NoClient}, session : Nat]]
      BY <2>1, Zenon DEF Goto, ClientsInv, ClientsTypeOK, ThreadPcs
    <3> QED
      BY <2>2, <2>3, <3>1, Zenon DEF ClientsInv, ClientsTypeOK
  <2>5. \A o \in Threads :
          /\ Adding(o)' <=> Adding(o)
          /\ Adding(o) => thread'[o].client = thread[o].client
          /\ Adding(o) => thread[o].client \in DOMAIN clients
          /\ Ending(o)' => o = t \/ (Ending(o) /\ thread'[o].client = thread[o].client)
          /\ Ending(o) => thread[o].client \in DOMAIN clients /\ thread[o].client # c
    <3>1. thread[t].pc = "idle"
      BY DEF Idle
    <3>2. \A o \in Threads :
            /\ Adding(o)' <=> Adding(o)
            /\ Adding(o) => thread'[o].client = thread[o].client
            /\ Ending(o)' => o = t \/ (Ending(o) /\ thread'[o].client = thread[o].client)
      BY <2>3, <3>1, Zenon DEF Adding, Ending
    <3>3. \A o \in Threads : Adding(o) \/ Ending(o) => thread[o].client \in DOMAIN clients
      BY Zenon DEF Adding, Ending, ClientsInv, ClientsTypeOK
    <3>4. \A o \in Threads : Ending(o) => thread[o].client # c
      BY <1>2, Zenon DEF ClientsInv
    <3> QED
      BY <3>2, <3>3, <3>4, Zenon
  <2>6. c \in sCookie2Client
    BY <1>2, Zenon DEF ClientsInv
  <2>7. mClientIdToClientMap \subseteq DOMAIN clients
    BY Zenon DEF ClientsInv, ClientsTypeOK
  <2>8. mRegisteredCallbacks' = {clients'[d].binder : d \in mClientIdToClientMap'}
    <3>1. \A d \in mClientIdToClientMap : clients'[d].binder = clients[d].binder
      BY <2>2, <2>7, Zenon
    <3>2. mRegisteredCallbacks = {clients[d].binder : d \in mClientIdToClientMap}
      BY Zenon DEF ClientsInv
    <3> QED
      BY <3>1, <3>2, Zenon
  <2>9. \A d, e \in mClientIdToClientMap' : clients'[d].binder = clients'[e].binder => d = e
    BY <2>2, <2>7 DEF ClientsInv
  <2>10. \A o \in Threads : Adding(o)' =>
           /\ thread'[o].client \notin mClientIdToClientMap'
           /\ clients'[thread'[o].client].binder \notin mRegisteredCallbacks'
    BY <2>2, <2>5, Zenon DEF ClientsInv
  <2>11. \A o \in Threads : Ending(o)' =>
           clients'[thread'[o].client].mAbandoned /\ thread'[o].client \in sCookie2Client'
    BY <2>2, <2>3, <2>5, <2>6, Zenon DEF ClientsInv
  <2>12. \A d \in DOMAIN clients' : ~clients'[d].mAbandoned => d \in sCookie2Client'
    BY <2>2, Zenon DEF ClientsInv
  <2>13. \A d \in DOMAIN clients' :
           d \in sCookie2Client' <=> \/ d \in mClientIdToClientMap'
                                     \/ \E o \in Threads : Adding(o)' /\ thread'[o].client = d
    BY <2>2, <2>5 DEF ClientsInv
  <2>14. /\ \A o, q \in Threads : Adding(o)' /\ Adding(q)' => o = q
         /\ \A o, q \in Threads :
              Ending(o)' /\ Ending(q)' /\ thread'[o].client = thread'[q].client => o = q
    BY <2>3, <2>5, Zenon DEF ClientsInv
  <2> QED
    BY <2>4, <2>8, <2>9, <2>10, <2>11, <2>12, <2>13, <2>14, Zenon DEF ClientsInv
<1> QED
  BY <1>1, <1>2, Zenon

(***************************************************************************)
(* removeClient finds the client registered and takes it out of every      *)
(* registry.                                                               *)
(***************************************************************************)
LEMMA RemoveInv ==
  ASSUME ClientsInv, NEW t \in Threads, removeClient(t)
  PROVE  ClientsInv'
<1> DEFINE c == thread[t].client
<1>1. /\ thread[t].pc = "remove" /\ mLockFree /\ Goto(t, "idle", NoClient, 0)
      /\ clients' = clients
  BY Zenon DEF removeClient, Return, Goto, Idle
<1>2. Ending(t) /\ \A o \in Threads : ~Adding(o)
  BY <1>1, Zenon DEF Ending, Adding, mLockFree
<1>3. /\ c \in DOMAIN clients /\ clients[c].mAbandoned /\ c \in mClientIdToClientMap
  BY <1>1, <1>2, Zenon DEF ClientsInv, ClientsTypeOK
<1>4. /\ linked' = linked \ {c} /\ sCookie2Client' = sCookie2Client \ {c}
      /\ mClientIdToClientMap' = mClientIdToClientMap \ {c}
      /\ mRegisteredCallbacks' = mRegisteredCallbacks \ {clients[c].binder}
  BY <1>3, Zenon DEF removeClient, CallbacksWithout
<1>5. /\ thread'[t].pc = "idle" /\ thread'[t].client = NoClient /\ thread'[t].session = 0
      /\ \A o \in Threads : o # t => thread'[o] = thread[o]
  BY <1>1, OneThread, Zenon DEF ClientsInv
<1>6. ClientsTypeOK'
  <2>1. thread' \in [Threads ->
                   [pc : ThreadPcs, client : DOMAIN clients \cup {NoClient}, session : Nat]]
    BY <1>1, Zenon DEF Goto, ClientsInv, ClientsTypeOK, ThreadPcs
  <2> QED
    BY <1>1, <1>4, <1>5, <2>1, Zenon DEF ClientsInv, ClientsTypeOK
<1>7. \A o \in Threads : /\ ~Adding(o)'
                         /\ Ending(o)' => o # t /\ Ending(o)
  BY <1>2, <1>5, Zenon DEF Ending, Adding
<1>8. mRegisteredCallbacks' = {clients[d].binder : d \in mClientIdToClientMap'}
  <2>1. \A d \in mClientIdToClientMap' : clients[d].binder # clients[c].binder
    BY <1>3, <1>4, Zenon DEF ClientsInv
  <2>2. mRegisteredCallbacks = {clients[d].binder : d \in mClientIdToClientMap}
    BY Zenon DEF ClientsInv
  <2> QED
    BY <1>4, <2>1, <2>2, Zenon
<1>9. \A d, e \in mClientIdToClientMap' : clients[d].binder = clients[e].binder => d = e
  BY <1>4, Zenon DEF ClientsInv
<1>10. \A o \in Threads : Ending(o)' =>
         clients[thread'[o].client].mAbandoned /\ thread'[o].client \in sCookie2Client'
  BY <1>2, <1>4, <1>5, <1>7 DEF ClientsInv
<1>11. \A d \in DOMAIN clients : ~clients[d].mAbandoned => d \in sCookie2Client'
  BY <1>3, <1>4, Zenon DEF ClientsInv
<1>12. \A d \in DOMAIN clients : d \in sCookie2Client' <=> d \in mClientIdToClientMap'
  BY <1>2, <1>4, Zenon DEF ClientsInv
<1>13. \A o, q \in Threads :
         Ending(o)' /\ Ending(q)' /\ thread'[o].client = thread'[q].client => o = q
  BY <1>5, <1>7, Zenon DEF ClientsInv
<1> QED
  BY <1>1, <1>6, <1>7, <1>8, <1>9, <1>10, <1>11, <1>12, <1>13 DEF ClientsInv

(***************************************************************************)
(* ClientsInv holds at the start and is kept by every step.                *)
(***************************************************************************)
LEMMA ClientsInitInv == ClientsInit => ClientsInv
<1> SUFFICES ASSUME ClientsInit PROVE ClientsInv
  OBVIOUS
<1>1. DOMAIN clients = {} /\ clients = << >>
  BY DEF ClientsInit
<1>2. IsFiniteSet(DOMAIN clients) /\ DOMAIN clients = 1..Cardinality(DOMAIN clients)
  BY <1>1, FS_EmptySet
<1>3. \A t \in Threads : thread[t] = Idle
  BY Zenon DEF ClientsInit
<1>4. thread \in [Threads ->
                 [pc : ThreadPcs, client : DOMAIN clients \cup {NoClient}, session : Nat]]
  BY Zenon DEF ClientsInit, Idle, ThreadPcs
<1>5. ClientsTypeOK
  <2>1. clients \in [DOMAIN clients ->
                      [binder : Callbacks, mNextSessionId : Nat, mAbandoned : BOOLEAN]]
    BY <1>1
  <2>2. /\ sCookie2Client \subseteq DOMAIN clients
        /\ mClientIdToClientMap \subseteq DOMAIN clients /\ linked \subseteq DOMAIN clients
    BY Zenon DEF ClientsInit
  <2>3. \A t \in Threads : thread[t].pc = "idle"
    BY <1>3 DEF Idle
  <2> QED
    BY <1>2, <1>4, <2>1, <2>2, <2>3, Zenon DEF ClientsTypeOK
<1>6. \A t \in Threads : ~Adding(t) /\ ~Ending(t)
  BY <1>3 DEF Adding, Ending, Idle
<1> QED
  BY <1>1, <1>5, <1>6, Zenon DEF ClientsInit, ClientsInv

(* Every step of the client manager keeps the invariant. *)
LEMMA ClientsNextInv ==
    ClientsInv /\ SessionsOK /\ [ClientsNext]_clientVars => ClientsInv'
<1> SUFFICES ASSUME ClientsInv, SessionsOK, [ClientsNext]_clientVars PROVE ClientsInv'
  OBVIOUS
<1>1. ASSUME NEW t \in Threads, Continue(t) PROVE ClientsInv'
  <2>1. CASE linkToDeath(t)
    BY <2>1, LinkInv, Zenon
  <2>2. CASE insertClient(t)
    BY <2>2, InsertInv, Zenon
  <2>3. CASE rejectRequest(t)
    <3>1. Goto(t, "idle", NoClient, 0) /\ ~Adding(t)
      BY <2>3, Zenon DEF rejectRequest, Return, Goto, Idle, Adding
    <3> QED
      BY <2>3, <3>1, QuietStep, Zenon DEF rejectRequest
  <2>4. CASE fetchSessionId(t)
    BY <2>4, FetchInv, Zenon
  <2>5. ASSUME NEW offline \in BOOLEAN, submit(t, offline) PROVE ClientsInv'
    <3>1. Goto(t, "idle", NoClient, 0) /\ ~Adding(t)
      BY <2>5, Zenon DEF submit, Return, Goto, Idle, Adding
    <3> QED
      BY <2>5, <3>1, QuietStep, Zenon DEF submit
  <2>6. CASE cancelOne(t)
    <3>1. Goto(t, "idle", NoClient, 0) /\ ~Adding(t)
      BY <2>6, Zenon DEF cancelOne, Return, Goto, Idle, Adding
    <3> QED
      BY <2>6, <3>1, QuietStep, Zenon DEF cancelOne
  <2>7. CASE cancelAll(t)
    <3>1. /\ ~Adding(t) /\ Ending(t) /\ thread[t].client \in DOMAIN clients
          /\ Goto(t, "remove", thread[t].client, 0)
      BY <2>7, Zenon DEF cancelAll, Adding, Ending, ClientsInv, ClientsTypeOK
    <3> QED
      BY <2>7, <3>1, QuietStep, Zenon DEF cancelAll
  <2>8. CASE removeClient(t)
    BY <2>8, RemoveInv, Zenon
  <2> QED
    BY <1>1, <2>1, <2>2, <2>3, <2>4, <2>5, <2>6, <2>7, <2>8, Zenon DEF Continue
<1>2. ASSUME NEW t \in Threads, NEW b \in Callbacks, addClient(t, b) PROVE ClientsInv'
  BY <1>2, AddClientInv, Zenon
<1>3. ASSUME NEW t \in Threads, NEW c \in DOMAIN clients, submitRequest(t, c)
      PROVE  ClientsInv'
  <2>1. Goto(t, "id", c, 0) /\ ~Adding(t)
    BY <1>3 DEF submitRequest, Idle, Adding
  <2> QED
    BY <1>3, <2>1, QuietStep, Zenon DEF submitRequest
<1>4. ASSUME NEW t \in Threads, NEW c \in DOMAIN clients, unregister(t, c)
      PROVE  ClientsInv'
  BY <1>4, ExchangeInv, Zenon DEF unregister
<1>5. ASSUME NEW t \in Threads, NEW c \in DOMAIN clients, binderDied(t, c)
      PROVE  ClientsInv'
  <2>1. CASE FindsClient(c)
    BY <1>5, <2>1, ExchangeInv, Zenon DEF binderDied
  <2>2. CASE ~FindsClient(c)
    <3>1. linked' \subseteq linked
      BY <1>5, Zenon DEF binderDied
    <3>2. UNCHANGED <<clients, thread, sCookie2Client, mClientIdToClientMap,
                      mRegisteredCallbacks>>
      BY <1>5, <2>2, Zenon DEF binderDied
    <3>3. ClientsTypeOK'
      BY <3>1, <3>2, Zenon DEF ClientsInv, ClientsTypeOK
    <3> QED
      BY <3>2, <3>3 DEF ClientsInv, Adding, Ending
  <2> QED
    BY <2>1, <2>2, Zenon
<1>6. ASSUME NEW t \in Threads, NEW s \in sessions, cancelSession(t, s) PROVE ClientsInv'
  <2>1. /\ Goto(t, "cancelOne", s.client, s.id) /\ ~Adding(t)
        /\ s.client \in DOMAIN clients
    BY <1>6 DEF cancelSession, Idle, Adding, NotAbandoned, handedOut
  <2>2. s.id \in Nat
    BY Zenon DEF SessionsOK
  <2> QED
    BY <1>6, <2>1, <2>2, QuietStep, Zenon DEF cancelSession
<1>7. ASSUME UNCHANGED <<clients, sCookie2Client, mClientIdToClientMap, mRegisteredCallbacks,
                         linked, thread>>
      PROVE  ClientsInv'
  <2>1. ClientsTypeOK'
    BY <1>7, Zenon DEF ClientsInv, ClientsTypeOK
  <2> QED
    BY <1>7, <2>1 DEF ClientsInv, Adding, Ending
<1>8. ASSUME NEW b \in Callbacks, processDies(b) PROVE ClientsInv'
  BY <1>7, <1>8, Zenon DEF processDies
<1>9. ASSUME NEW s \in sessions, sessionEnds(s) PROVE ClientsInv'
  BY <1>7, <1>9, Zenon DEF sessionEnds
<1>10. CASE UNCHANGED clientVars
  BY <1>7, <1>10, Zenon DEF clientVars
<1> QED
  BY <1>1, <1>2, <1>3, <1>4, <1>5, <1>6, <1>8, <1>9, <1>10, Zenon DEF ClientsNext

(***************************************************************************)
(* Sessions come one at a time, from a request with a client and an id.    *)
(***************************************************************************)
LEMMA SessionsNext ==
    ClientsInv /\ SessionsOK /\ [ClientsNext]_clientVars => SessionsOK'
<1> SUFFICES ASSUME ClientsInv, SessionsOK, [ClientsNext]_clientVars PROVE SessionsOK'
  OBVIOUS
<1>1. DOMAIN clients \subseteq DOMAIN clients'
  BY Zenon DEF ClientsNext, Continue, addClient, linkToDeath, insertClient,
     rejectRequest, fetchSessionId, submit, cancelOne, cancelAll, removeClient,
     submitRequest, unregister, binderDied, cancelSession, processDies, sessionEnds,
     ExchangeAbandoned, clientVars
<1>2. ASSUME sessions' \subseteq sessions PROVE SessionsOK'
  BY <1>1, <1>2, Zenon DEF SessionsOK
<1>3. ASSUME NEW t \in Threads, NEW offline \in BOOLEAN, submit(t, offline) PROVE SessionsOK'
  <2> DEFINE x == [client |-> thread[t].client, id |-> thread[t].session, offline |-> offline]
  <2>1. sessions' = sessions \cup {x} /\ thread[t].pc = "submit"
    BY <1>3, Zenon DEF submit
  <2>2. x \in [client : DOMAIN clients, id : Nat, offline : BOOLEAN]
    BY <2>1, Zenon DEF ClientsInv, ClientsTypeOK
  <2> HIDE DEF x
  <2> QED
    BY <1>1, <2>1, <2>2, Zenon DEF SessionsOK
<1>4. \/ sessions' \subseteq sessions
      \/ \E t \in Threads, offline \in BOOLEAN : submit(t, offline)
  BY Zenon DEF ClientsNext, Continue, addClient, linkToDeath, insertClient,
     rejectRequest, fetchSessionId, cancelOne, cancelAll, removeClient, submitRequest,
     unregister, binderDied, cancelSession, processDies, sessionEnds, clientVars
<1> QED
  BY <1>2, <1>3, <1>4, Zenon

(* The invariant holds in every reachable state. *)
LEMMA ClientsInvariant == ClientsSpec => [](ClientsInv /\ SessionsOK)
<1>1. ClientsInit => ClientsInv /\ SessionsOK
  BY ClientsInitInv, Zenon DEF ClientsInit, SessionsOK
<1> QED
  BY <1>1, ClientsNextInv, SessionsNext, PTL DEF ClientsSpec

(***************************************************************************)
(* Whenever mLock is free, the callbacks registered are those of the       *)
(* registered clients, each once, and death notices find exactly these     *)
(* clients: for any number of binder threads in addClient, unregister,     *)
(* binderDied and removeClient at once.                                    *)
(***************************************************************************)
THEOREM ClientRegistriesAgree == ClientsSpec => []RegistriesAgree
<1>1. ClientsInv => RegistriesAgree
  <2> SUFFICES ASSUME ClientsInv, mLockFree
               PROVE  /\ mRegisteredCallbacks = {clients[c].binder : c \in mClientIdToClientMap}
                      /\ \A c, d \in mClientIdToClientMap :
                           clients[c].binder = clients[d].binder => c = d
                      /\ sCookie2Client = mClientIdToClientMap
    BY Zenon DEF RegistriesAgree
  <2>1. \A t \in Threads : ~Adding(t)
    BY Zenon DEF mLockFree, Adding
  <2>2. sCookie2Client \subseteq DOMAIN clients /\ mClientIdToClientMap \subseteq DOMAIN clients
    BY Zenon DEF ClientsInv, ClientsTypeOK
  <2>3. \A c \in DOMAIN clients : c \in sCookie2Client <=> c \in mClientIdToClientMap
    BY <2>1, Zenon DEF ClientsInv
  <2>4. sCookie2Client = mClientIdToClientMap
    BY <2>2, <2>3, Zenon
  <2> QED
    BY <2>4, Zenon DEF ClientsInv
<1> QED
  BY <1>1, ClientsInvariant, PTL

(***************************************************************************)
(* However many unregister() calls and death notices of a client overlap,  *)
(* one thread takes it down, and removeClient finds it registered.         *)
(***************************************************************************)
THEOREM ClientTeardownIsExclusive == ClientsSpec => []TeardownIsExclusive
<1>1. ClientsInv => TeardownIsExclusive
  <2> SUFFICES ASSUME ClientsInv, NEW t \in Threads, Ending(t)
               PROVE  /\ \A o \in Threads \ {t} : Ending(o) => thread[o].client # thread[t].client
                      /\ mLockFree => thread[t].client \in mClientIdToClientMap
    BY Zenon DEF TeardownIsExclusive, Ending
  <2>1. \A o \in Threads \ {t} : Ending(o) => thread[o].client # thread[t].client
    BY Zenon DEF ClientsInv
  <2>2. thread[t].client \in sCookie2Client /\ thread[t].client \in DOMAIN clients
    BY Zenon DEF ClientsInv, ClientsTypeOK
  <2>3. mLockFree => \A o \in Threads : ~Adding(o)
    BY Zenon DEF mLockFree, Adding
  <2>4. mLockFree => thread[t].client \in mClientIdToClientMap
    BY <2>2, <2>3, Zenon DEF ClientsInv
  <2> QED
    BY <2>1, <2>4, Zenon
<1> QED
  BY <1>1, ClientsInvariant, PTL

=============================================================================
