---------------------- MODULE TranscodingClientManager ----------------------
(* TranscodingClientManager and its ClientImpl objects: registration of        *)
(* clients, their requests, and the two ways a client ends, its own            *)
(* unregister() and the death of its process.  Every call runs on some binder  *)
(* thread, so two calls on one client overlap.  Of the session controller      *)
(* only the set of sessions is kept; the death notices of the binder driver    *)
(* are external.                                                               *)
EXTENDS Naturals, FiniteSets

CONSTANTS
  Callbacks,     \* callback binders; each lives in a process of its own
  Threads,       \* the service's binder threads
  NoClient,
  MaxClients,    \* registrations
  MaxSessions    \* requests

VARIABLES
  clients,               \* client id -> the ClientImpl made with that id
  sCookie2Client,        \* ids a death notice can be resolved for
  mClientIdToClientMap,  \* ids of the registered clients
  mRegisteredCallbacks,
  linked,                \* ids with a death notice to come
  died,                  \* callbacks whose process is dead
  sessions,              \* the sessions of the controller
  thread                 \* what each binder thread is executing

clientVars == <<clients, sCookie2Client, mClientIdToClientMap, mRegisteredCallbacks,
                linked, died, sessions, thread>>

Idle == [pc |-> "idle", client |-> NoClient, session |-> 0]

ClientsInit ==
  /\ clients = << >>
  /\ sCookie2Client = {} /\ mClientIdToClientMap = {} /\ mRegisteredCallbacks = {}
  /\ linked = {} /\ died = {} /\ sessions = {}
  /\ thread = [t \in Threads |-> Idle]

Goto(t, pc, c, s) == thread' = [thread EXCEPT ![t] = [pc |-> pc, client |-> c, session |-> s]]
Return(t) == thread' = [thread EXCEPT ![t] = Idle]

(* mLock is held from the duplicate check of addClient to its end. *)
mLockFree == \A t \in Threads : thread[t].pc \notin {"link", "insert"}

(* Clients whose ITranscodingClient has been handed out. *)
handedOut ==
  DOMAIN clients \ {thread[t].client : t \in {t \in Threads : thread[t].pc \in {"link", "insert"}}}

-----------------------------------------------------------------------------
(* addClient: a callback that is registered already is refused.  The new       *)
(* client can be found by a death notice before it is linked to the death.     *)
addClient(t, b) ==
  LET id == Cardinality(DOMAIN clients) + 1
  IN  /\ thread[t] = Idle /\ mLockFree /\ id <= MaxClients
      /\ b \notin mRegisteredCallbacks
      /\ clients' = [c \in DOMAIN clients \cup {id} |->
                       IF c = id THEN [binder |-> b, mNextSessionId |-> 0, mAbandoned |-> FALSE]
                       ELSE clients[c]]
      /\ sCookie2Client' = sCookie2Client \cup {id}
      /\ Goto(t, "link", id, 0)
      /\ UNCHANGED <<mClientIdToClientMap, mRegisteredCallbacks, linked, died, sessions>>

(* AIBinder_linkToDeath fails for a process that is dead by now, and its       *)
(* result is not looked at.                                                    *)
linkToDeath(t) ==
  /\ thread[t].pc = "link"
  /\ linked' = IF clients[thread[t].client].binder \in died THEN linked
               ELSE linked \cup {thread[t].client}
  /\ Goto(t, "insert", thread[t].client, 0)
  /\ UNCHANGED <<clients, sCookie2Client, mClientIdToClientMap, mRegisteredCallbacks,
                 died, sessions>>

insertClient(t) ==
  /\ thread[t].pc = "insert"
  /\ mRegisteredCallbacks' = mRegisteredCallbacks \cup {clients[thread[t].client].binder}
  /\ mClientIdToClientMap' = mClientIdToClientMap \cup {thread[t].client}
  /\ Return(t)
  /\ UNCHANGED <<clients, sCookie2Client, linked, died, sessions>>

-----------------------------------------------------------------------------
(* The check with which every call on a client begins. *)
NotAbandoned(c) == c \in handedOut /\ ~clients[c].mAbandoned

submitRequest(t, c) ==
  /\ thread[t] = Idle /\ NotAbandoned(c)
  /\ Goto(t, "id", c, 0)
  /\ UNCHANGED <<clients, sCookie2Client, mClientIdToClientMap, mRegisteredCallbacks,
                 linked, died, sessions>>

(* An empty path, a negative uid or pid, or a caller that is not trusted. *)
rejectRequest(t) ==
  /\ thread[t].pc = "id"
  /\ Return(t)
  /\ UNCHANGED <<clients, sCookie2Client, mClientIdToClientMap, mRegisteredCallbacks,
                 linked, died, sessions>>

NextId(t) == clients[thread[t].client].mNextSessionId

issuedKeys == UNION {{c} \X (1..clients[c].mNextSessionId) : c \in DOMAIN clients}

fetchSessionId(t) ==
  /\ thread[t].pc = "id" /\ Cardinality(issuedKeys) < MaxSessions
  /\ Goto(t, "submit", thread[t].client, NextId(t))
  /\ clients' = [clients EXCEPT ![thread[t].client].mNextSessionId = @ + 1]
  /\ UNCHANGED <<sCookie2Client, mClientIdToClientMap, mRegisteredCallbacks, linked, died,
                 sessions>>

submit(t, offline) ==
  /\ thread[t].pc = "submit"
  /\ sessions' = sessions \cup
       {[client |-> thread[t].client, id |-> thread[t].session, offline |-> offline]}
  /\ Return(t)
  /\ UNCHANGED <<clients, sCookie2Client, mClientIdToClientMap, mRegisteredCallbacks,
                 linked, died>>

cancelSession(t, s) ==
  /\ thread[t] = Idle /\ NotAbandoned(s.client)
  /\ Goto(t, "cancelOne", s.client, s.id)
  /\ UNCHANGED <<clients, sCookie2Client, mClientIdToClientMap, mRegisteredCallbacks,
                 linked, died, sessions>>

cancelOne(t) ==
  /\ thread[t].pc = "cancelOne"
  /\ sessions' = {s \in sessions : s.client # thread[t].client \/ s.id # thread[t].session}
  /\ Return(t)
  /\ UNCHANGED <<clients, sCookie2Client, mClientIdToClientMap, mRegisteredCallbacks,
                 linked, died>>

-----------------------------------------------------------------------------
(* Variant: mAbandoned is set but not tested. *)
SetAbandoned(t, c) ==
  /\ clients' = [clients EXCEPT ![c].mAbandoned = TRUE]
  /\ Goto(t, "cancel", c, 0)

(* unregister() up to the exchange of mAbandoned: only the first goes on. *)
ExchangeAbandoned(t, c) ==
  IF clients[c].mAbandoned THEN UNCHANGED <<clients, thread>>
  ELSE /\ clients' = [clients EXCEPT ![c].mAbandoned = TRUE]
       /\ Goto(t, "cancel", c, 0)

unregister(t, c) ==
  /\ thread[t] = Idle /\ c \in handedOut
  /\ ExchangeAbandoned(t, c)
  /\ UNCHANGED <<sCookie2Client, mClientIdToClientMap, mRegisteredCallbacks, linked, died,
                 sessions>>

(* Variant: only clients whose registration is complete are found. *)
FindsRegistered(c) == c \in mClientIdToClientMap

FindsClient(c) == c \in sCookie2Client

(* The death notice of a linked client; it comes once. *)
binderDied(t, c) ==
  /\ thread[t] = Idle
  /\ c \in linked /\ clients[c].binder \in died
  /\ linked' = linked \ {c}
  /\ IF FindsClient(c) THEN ExchangeAbandoned(t, c) ELSE UNCHANGED <<clients, thread>>
  /\ UNCHANGED <<sCookie2Client, mClientIdToClientMap, mRegisteredCallbacks, died, sessions>>

(* cancel(clientId, -1): all but the offline sessions of the client. *)
cancelAll(t) ==
  /\ thread[t].pc = "cancel"
  /\ sessions' = {s \in sessions : s.client # thread[t].client \/ s.offline}
  /\ Goto(t, "remove", thread[t].client, 0)
  /\ UNCHANGED <<clients, sCookie2Client, mClientIdToClientMap, mRegisteredCallbacks,
                 linked, died>>

(* Variant: the callback stays registered. *)
CallbacksKept(c) == mRegisteredCallbacks

CallbacksWithout(c) == mRegisteredCallbacks \ {clients[c].binder}

removeClient(t) ==
  LET c == thread[t].client
  IN  /\ thread[t].pc = "remove" /\ mLockFree
      /\ IF c \in mClientIdToClientMap
           THEN /\ linked' = linked \ {c}
                /\ sCookie2Client' = sCookie2Client \ {c}
                /\ mClientIdToClientMap' = mClientIdToClientMap \ {c}
                /\ mRegisteredCallbacks' = CallbacksWithout(c)
           ELSE UNCHANGED <<linked, sCookie2Client, mClientIdToClientMap, mRegisteredCallbacks>>
      /\ Return(t)
      /\ UNCHANGED <<clients, died, sessions>>

-----------------------------------------------------------------------------
(* The environment: processes die, and sessions end in the controller. *)
processDies(b) ==
  /\ b \notin died
  /\ died' = died \cup {b}
  /\ UNCHANGED <<clients, sCookie2Client, mClientIdToClientMap, mRegisteredCallbacks,
                 linked, sessions, thread>>

sessionEnds(s) ==
  /\ sessions' = sessions \ {s}
  /\ UNCHANGED <<clients, sCookie2Client, mClientIdToClientMap, mRegisteredCallbacks,
                 linked, died, thread>>

(* The steps of a call that has begun. *)
Continue(t) ==
  \/ linkToDeath(t) \/ insertClient(t)
  \/ rejectRequest(t) \/ fetchSessionId(t) \/ (\E offline \in BOOLEAN : submit(t, offline))
  \/ cancelOne(t) \/ cancelAll(t) \/ removeClient(t)

ClientsNext ==
  \/ \E t \in Threads :
       \/ Continue(t)
       \/ \E b \in Callbacks : addClient(t, b)
       \/ \E c \in DOMAIN clients : submitRequest(t, c) \/ unregister(t, c) \/ binderDied(t, c)
       \/ \E s \in sessions : cancelSession(t, s)
  \/ \E b \in Callbacks : processDies(b)
  \/ \E s \in sessions : sessionEnds(s)

ClientsSpec == ClientsInit /\ [][ClientsNext]_clientVars

-----------------------------------------------------------------------------
(* Whenever mLock is free, mRegisteredCallbacks holds the binders of the       *)
(* registered clients and of no other (so a binder that left can come back),   *)
(* no binder is registered twice, and exactly the registered clients can be    *)
(* found by a death notice.                                                    *)
RegistriesAgree ==
  mLockFree =>
    /\ mRegisteredCallbacks = {clients[c].binder : c \in mClientIdToClientMap}
    /\ \A c, d \in mClientIdToClientMap : clients[c].binder = clients[d].binder => c = d
    /\ sCookie2Client = mClientIdToClientMap

(* unregister() and a death notice, or two unregister() calls, at once: one    *)
(* thread takes the client down, and it finds the client registered when it    *)
(* gets to removeClient.                                                       *)
TeardownIsExclusive ==
  \A t \in Threads : thread[t].pc \in {"cancel", "remove"} =>
    /\ \A o \in Threads \ {t} :
         thread[o].pc \in {"cancel", "remove"} => thread[o].client # thread[t].client
    /\ mLockFree => thread[t].client \in mClientIdToClientMap

(* A client whose process dies after it was linked to the death is             *)
(* unregistered, also when the notice comes before addClient has returned.     *)
DeadIsForgotten ==
  \A c \in 1..MaxClients :
    (c \in linked /\ clients[c].binder \in died) ~> (c \notin sCookie2Client)

(* "Client will not be able to perform any more transcoding after unregister": *)
(* no session is added for a client that is not registered any more.           *)
NoneAfterUnregister ==
  [][\A s \in sessions' \ sessions : s.client \in mClientIdToClientMap]_sessions
=============================================================================
