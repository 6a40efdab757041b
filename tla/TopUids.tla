------------------------------ MODULE TopUids ------------------------------
(* What the session controller relies on in a UidPolicyInterface: which uids *)
(* it may find on top after each of its calls, and what the policy's         *)
(* callbacks tell it.  TranscodingSessionController has the same alternatives *)
(* in TopAfterRegister, TopAfterUnregister and TopAfterChange; the policy    *)
(* itself is TranscodingUidPolicy, which is shown to implement this module.  *)

CONSTANTS Uids

VARIABLES
  monitored,  \* the uids whose importance is followed
  topUids,    \* what getTopUids returns
  notice      \* what the callbacks still have to tell

topVars == <<monitored, topUids, notice>>

NoNotice == [top |-> {}, gone |-> {}]

ComparedTop == IF topUids = {} THEN monitored ELSE topUids

TopInit ==
  /\ monitored = {} /\ topUids = {}
  /\ notice = NoNotice

(* A new uid leaves the top set alone, joins it or replaces it. *)
Register(u) ==
  /\ monitored' = monitored \cup {u}
  /\ topUids' \in {topUids, topUids \cup {u}, {u}}
  /\ UNCHANGED notice

(* The rest of the top set stays; when there is none, others may follow. *)
Unregister(u) ==
  /\ monitored' = monitored \ {u}
  /\ IF topUids \ {u} # {} \/ topUids = {}
       THEN topUids' = topUids \ {u}
       ELSE topUids' \subseteq monitored \ {u}
  /\ UNCHANGED notice

(* One uid's importance changes: it joins, replaces or leaves the top set, and *)
(* leaving it alone promotes others.  The set is told if it is a different one *)
(* (while no importance is known, one that differs from all the monitored      *)
(* uids: a single uid has nobody to overtake), and a uid is called gone only   *)
(* when it is the one that changed.                                            *)
Change(u) ==
  /\ notice = NoNotice /\ u \in monitored
  /\ \/ topUids' \in {topUids \cup {u}, {u}}
     \/ topUids \ {u} # {} /\ topUids' = topUids \ {u}
     \/ topUids \ {u} = {} /\ topUids' \in (SUBSET monitored) \ {{}}
  /\ notice' \in [top  : {IF topUids' = ComparedTop THEN {} ELSE topUids'},
                  gone : {{}, {u}}]
  /\ UNCHANGED monitored

(* The set is told before the death. *)
Tell ==
  /\ notice' = IF notice.top # {} THEN [notice EXCEPT !.top = {}] ELSE NoNotice
  /\ UNCHANGED <<monitored, topUids>>

TopNext ==
  \/ \E u \in Uids : Register(u) \/ Unregister(u) \/ Change(u)
  \/ Tell

TopSpec == TopInit /\ [][TopNext]_topVars
=============================================================================
