--------------------------- MODULE LinkkitGateway ---------------------------
(***************************************************************************)
(* The upstream half of the device model as a gateway uses it: threads of  *)
(* the application call IOT_Linkkit_Connect, _Report and _Close for their  *)
(* sub-devices (impl_linkkit.c), a synchronous call sends its request      *)
(* (dm_manager.c), files it in the message cache (dm_message_cache.c) and  *)
(* waits on a semaphore; the thread in IOT_Linkkit_Yield reads the answers *)
(* (dm_msg_process.c, dm_message.c), queues them for the user (dm_ipc.c)   *)
(* and dispatches them to the waiting call.                                *)
(*                                                                         *)
(* A step is one critical section.  Time is two expirations: a cached      *)
(* message grows old, a wait times out; either may come first.             *)
(***************************************************************************)
EXTENDS Naturals, Sequences, FiniteSets

CONSTANTS Callers,      \* threads of the application
          Dispatcher,   \* the thread that calls IOT_Linkkit_Yield
          Devs,         \* sub-devices, one devid and one name each
          Provisioned,  \* those whose product gave them a device_secret
          MaxId,        \* requests sent in a behaviour
          MaxSets,      \* property-set requests the cloud sends
          CacheMax,     \* CONFIG_MSGCACHE_QUEUE_MAXLEN
          IpcMax,       \* CONFIG_DISPATCH_QUEUE_MAXLEN
          None

Threads == Callers \cup {Dispatcher}
SyncKinds == {"register", "topo_add", "topo_del", "login", "logout"}
Kinds == SyncKinds \cup {"post", "devinfo"}
CachedKinds == Kinds \ {"register", "login", "logout"}
Ops == {"connect", "login", "logout", "topo_del", "post", "close"}
SyncNode == [sem : Nat, ok : BOOLEAN]

ASSUME GatewayAssumption ==
  /\ Dispatcher \notin Callers /\ Provisioned \subseteq Devs /\ None \notin Threads \cup Devs
  /\ None \notin SyncNode
  /\ MaxId \in Nat /\ MaxSets \in Nat /\ CacheMax \in Nat \ {0} /\ IpcMax \in Nat \ {0}

VARIABLES
  call,      \* [Threads -> Call]: the API call a thread is in
  mutex,     \* holder of the linkkit mutex
  panicked,  \* a thread gave back a mutex another one holds: FreeRTOS asserts
  api,       \* holder of the mutex of dm_api.c
  upstream,  \* holder of upstream_mutex
  node,      \* upstream_sync_callback_list: [1..MaxId -> {None} \cup SyncNode]
  cache,     \* dmc_list
  ipc,       \* the message list of dm_ipc.c
  status,    \* [Devs -> dev_status], "none" before and "gone" after its life
  secret,    \* sub-devices that have a device_secret
  rx,        \* the answer being handled, under lock_yield
  disp,      \* what the dispatching thread does
  requests,  \* the request of every message id
  replies,   \* answers on their way
  answered,  \* ids the cloud has answered
  granted,   \* ids it has answered with success
  sets       \* property-set requests so far

apiVars == <<call, mutex, panicked, api>>
listVars == <<upstream, node, cache, ipc>>
devVars == <<status, secret>>
cloudVars == <<requests, replies, answered, granted, sets>>
vars == <<apiVars, listVars, devVars, rx, disp, cloudVars>>

Idle == [op |-> "none", pc |-> "idle", dev |-> None, kind |-> "none", id |-> 0,
         ids |-> {}, ok |-> FALSE]
Called(op, d) == [op |-> op, pc |-> "lock", dev |-> d, kind |-> "none", id |-> 0,
                  ids |-> {}, ok |-> FALSE]
NoRx == [by |-> None, step |-> "none", id |-> 0, ok |-> FALSE]

\* The first request of each call.
FirstKind(op) == CASE op = "connect" -> "register" [] op = "close" -> "none" [] OTHER -> op

InList(d) == status[d] \notin {"none", "gone"}
Cached(id) == \E n \in cache : n.id = id

\* What is left of a call when it reaches the given pc.
Goto(t, pc) == call' = [call EXCEPT ![t].pc = pc]
Finish(t, ok) ==
  call' = [call EXCEPT ![t] = [@ EXCEPT !.pc = "unlock", !.ok = ok, !.kind = "none", !.id = 0]]
NextRequest(t, k) == call' = [call EXCEPT ![t] = [@ EXCEPT !.pc = "send", !.kind = k]]

Init ==
  /\ call = [t \in Threads |-> Idle]
  /\ mutex = None /\ panicked = FALSE /\ api = None /\ upstream = None
  /\ node = [i \in 1..MaxId |-> None]
  /\ cache = {} /\ ipc = <<>>
  /\ status = [d \in Devs |-> "none"] /\ secret = Provisioned
  /\ rx = NoRx /\ disp = [at |-> "yield", id |-> 0, ok |-> FALSE, left |-> 0]
  /\ requests = <<>> /\ replies = {} /\ answered = {} /\ granted = {} /\ sets = 0

-----------------------------------------------------------------------------
(* The calls of the application.                                            *)

\* IOT_Linkkit_Open of a slave does not take the linkkit mutex.
SlaveOpen(d) ==
  /\ status[d] = "none" /\ api = None
  /\ status' = [status EXCEPT ![d] = "authorized"]
  /\ UNCHANGED <<apiVars, listVars, secret, rx, disp, cloudVars>>

Begin(t, op, d) ==
  /\ call[t] = Idle
  /\ call' = [call EXCEPT ![t] = Called(op, d)]
  /\ UNCHANGED <<mutex, panicked, api, listVars, devVars, rx, cloudVars>>

Calls(t) ==
  /\ Len(requests) < MaxId
  /\ \E op \in Ops, d \in Devs : status[d] # "none" /\ Begin(t, op, d)
  /\ UNCHANGED disp

Lock(t) ==
  /\ call[t].pc = "lock" /\ mutex = None
  /\ mutex' = t
  /\ call' = [call EXCEPT ![t] = [@ EXCEPT
       !.pc = IF call[t].op = "close" THEN "destroy" ELSE "send", !.kind = FirstKind(call[t].op)]]
  /\ UNCHANGED <<panicked, api, listVars, devVars, rx, disp, cloudVars>>

SlaveClose(t) ==
  /\ call[t].pc = "destroy" /\ api = None
  /\ status' = [status EXCEPT ![call[t].dev] = IF InList(call[t].dev) THEN "gone" ELSE @]
  /\ Finish(t, TRUE)
  /\ UNCHANGED <<mutex, panicked, api, listVars, secret, rx, disp, cloudVars>>

Registered(t) ==
  call[t].kind = "register" /\ InList(call[t].dev) /\ call[t].dev \in secret

\* A device with a secret is registered already: on to its topology.
AlreadyRegistered(t) ==
  /\ call[t].pc = "send" /\ api = None /\ Registered(t)
  /\ NextRequest(t, "topo_add")
  /\ UNCHANGED <<mutex, panicked, api, listVars, devVars, rx, disp, cloudVars>>

Refuses(t) ==
  \/ ~InList(call[t].dev)
  \/ call[t].kind = "logout" /\ status[call[t].dev] # "logined"

\* No such device, not logged in, or no memory.  A connect that fails here for
\* its second request gives the mutex back before its caller does so again; a
\* login does not look at what became of the device information.
SendFails(t) ==
  /\ call[t].pc = "send" /\ api = None /\ ~Registered(t)
  /\ CASE call[t].kind = "topo_add" -> Goto(t, "unlock_early")
       [] call[t].kind = "devinfo" -> Goto(t, "completed")
       [] OTHER -> Finish(t, FALSE)
  /\ UNCHANGED <<mutex, panicked, api, listVars, devVars, rx, disp, cloudVars>>

\* dm_msg_request ignores what the publication returns: a request that did not
\* leave the device is one the cloud never answers.
Send(t) ==
  /\ call[t].pc = "send" /\ api = None /\ Len(requests) < MaxId
  /\ ~Refuses(t) /\ ~Registered(t)
  /\ api' = t
  /\ requests' = Append(requests, [kind |-> call[t].kind, dev |-> call[t].dev])
  /\ call' = [call EXCEPT ![t] = [@ EXCEPT !.pc = "cache", !.id = Len(requests) + 1,
       !.ids = IF call[t].kind = "devinfo" THEN call[t].ids
               ELSE call[t].ids \cup {Len(requests) + 1}]]
  /\ UNCHANGED <<mutex, panicked, listVars, devVars, rx, disp,
                 replies, answered, granted, sets>>

\* After the request: a synchronous call goes on to its semaphore.
Requested(t) ==
  /\ api' = None
  /\ CASE call[t].kind \in SyncKinds -> Goto(t, "insert")
       [] call[t].kind = "devinfo" -> Goto(t, "completed")
       [] OTHER -> Finish(t, TRUE)

\* Fault: one message too many is let in.
CacheOverfull == Cardinality(cache) <= CacheMax

\* The size is tested before the cache is locked.
CacheHasRoom == Cardinality(cache) < CacheMax

CacheCheck(t) ==
  /\ call[t].pc = "cache"
  /\ IF CacheHasRoom THEN Goto(t, "cache_add") /\ UNCHANGED api ELSE Requested(t)
  /\ UNCHANGED <<mutex, panicked, listVars, devVars, rx, disp, cloudVars>>

CacheAdd(t) ==
  /\ call[t].pc = "cache_add"
  /\ cache' = cache \cup {[id |-> call[t].id, kind |-> call[t].kind, dev |-> call[t].dev,
                           old |-> FALSE]}
  /\ Requested(t)
  /\ UNCHANGED <<mutex, panicked, upstream, node, ipc, devVars, rx, disp, cloudVars>>

InsertNode(t) ==
  /\ call[t].pc = "insert" /\ upstream = None
  /\ node' = [node EXCEPT ![call[t].id] = [sem |-> 0, ok |-> TRUE]]
  /\ Goto(t, "wait")
  /\ UNCHANGED <<mutex, panicked, api, upstream, cache, ipc, devVars, rx, disp, cloudVars>>

SemaphoreTaken(t) ==
  /\ call[t].pc = "wait" /\ node[call[t].id].sem > 0
  /\ node' = [node EXCEPT ![call[t].id].sem = @ - 1]
  /\ Goto(t, "take")
  /\ UNCHANGED <<mutex, panicked, api, upstream, cache, ipc, devVars, rx, disp, cloudVars>>

\* Fault: the result of HAL_SemaphoreWait is not looked at.
TimeoutIsAnswer(t) ==
  /\ call[t].pc = "wait" /\ node[call[t].id].sem = 0
  /\ Goto(t, "take")
  /\ UNCHANGED <<mutex, panicked, api, listVars, devVars, rx, disp, cloudVars>>

\* Fault: the wait has no timeout.
WaitForEver(t) == FALSE /\ UNCHANGED vars

WaitTimesOut(t) ==
  /\ call[t].pc = "wait" /\ node[call[t].id].sem = 0
  /\ Goto(t, "drop")
  /\ UNCHANGED <<mutex, panicked, api, listVars, devVars, rx, disp, cloudVars>>

\* The result is read and the node removed in one critical section.
TakeResult(t) ==
  /\ call[t].pc = "take" /\ upstream = None
  /\ node' = [node EXCEPT ![call[t].id] = None]
  /\ CASE ~node[call[t].id].ok -> Finish(t, FALSE)
       [] node[call[t].id].ok /\ call[t].kind = "register" -> NextRequest(t, "topo_add")
       [] node[call[t].id].ok /\ call[t].kind = "login" -> Goto(t, "subscribe")
       [] OTHER -> Finish(t, TRUE)
  /\ UNCHANGED <<mutex, panicked, api, upstream, cache, ipc, devVars, rx, disp, cloudVars>>

\* Fault: a timed-out call frees its node without upstream_mutex.
DropUnlocked(t) ==
  /\ call[t].pc = "drop"
  /\ node' = [node EXCEPT ![call[t].id] = None]
  /\ Finish(t, FALSE)
  /\ UNCHANGED <<mutex, panicked, api, upstream, cache, ipc, devVars, rx, disp, cloudVars>>

DropNode(t) ==
  /\ call[t].pc = "drop" /\ upstream = None
  /\ node' = [node EXCEPT ![call[t].id] = None]
  /\ Finish(t, FALSE)
  /\ UNCHANGED <<mutex, panicked, api, upstream, cache, ipc, devVars, rx, disp, cloudVars>>

\* The synchronous subscriptions of a device that has logged in: the thread
\* reads the network, with the mutex of dm_api.c.
Subscribe(t) ==
  /\ call[t].pc = "subscribe" /\ api = None
  /\ IF InList(call[t].dev) THEN api' = t /\ Goto(t, "subscribing")
     ELSE UNCHANGED api /\ Finish(t, FALSE)
  /\ UNCHANGED <<mutex, panicked, listVars, devVars, rx, disp, cloudVars>>

\* Then its device information is reported.
Subscribed(t) ==
  /\ call[t].pc = "subscribing" /\ rx.by # t
  /\ api' = None
  /\ NextRequest(t, "devinfo") \/ Finish(t, FALSE)
  /\ UNCHANGED <<mutex, panicked, listVars, devVars, rx, disp, cloudVars>>

\* The callback ITE_INITIALIZE_COMPLETED of the application, with the linkkit
\* mutex still held: it returns, or it calls the API in turn and waits in Lock
\* for the mutex of its own thread.
InitializeCompleted(t) ==
  /\ call[t].pc = "completed"
  /\ \/ Finish(t, TRUE)
     \/ call' = [call EXCEPT ![t] = Called("post", call[t].dev)]
  /\ UNCHANGED <<mutex, panicked, api, listVars, devVars, rx, disp, cloudVars>>

UnlockEarly(t) ==
  /\ call[t].pc = "unlock_early"
  /\ mutex' = None
  /\ Finish(t, FALSE)
  /\ UNCHANGED <<panicked, api, listVars, devVars, rx, disp, cloudVars>>

Unlock(t) ==
  /\ call[t].pc = "unlock"
  /\ mutex' = IF mutex = t THEN None ELSE mutex
  /\ panicked' = (mutex \notin {t, None})
  /\ call' = [call EXCEPT ![t] = Idle]
  /\ UNCHANGED <<api, listVars, devVars, rx, disp, cloudVars>>

-----------------------------------------------------------------------------
(* The cloud: an answer may come late or, never read, not at all.          *)

\* Only the user's event tells what the answer to another request was.
CloudAnswers(id) ==
  /\ id \notin answered
  /\ answered' = answered \cup {id}
  /\ \E ok \in IF requests[id].kind \in SyncKinds THEN BOOLEAN ELSE {TRUE} :
       /\ replies' = replies \cup {[id |-> id, ok |-> ok]}
       /\ granted' = IF ok THEN granted \cup {id} ELSE granted
  /\ UNCHANGED <<apiVars, listVars, devVars, rx, disp, requests, sets>>

-----------------------------------------------------------------------------
(* Receiving, in the yielding thread or in one that subscribes.             *)

Reads(t) ==
  /\ rx = NoRx
  /\ \/ t = Dispatcher /\ disp.at = "yield"
     \/ call[t].pc = "subscribing"

\* The event of a message; the user's own hold nothing the SDK looks at.
Event(kind, id, ok) == IF kind \in SyncKinds THEN [kind |-> kind, id |-> id, ok |-> ok]
                       ELSE [kind |-> "user", id |-> 0, ok |-> TRUE]
SetEvent == [kind |-> "set", id |-> 0, ok |-> TRUE]

\* Fault: the queue has no limit.
ToUserUnbounded(e) == Append(ipc, e)

\* _dm_msg_send_to_user: a full queue refuses the event.
ToUser(e) == IF Len(ipc) < IpcMax THEN Append(ipc, e) ELSE ipc

\* The kinds that need it look for the cached message and find none, or keep
\* the node they found beyond the lock; the others look for the device in the
\* data, which a refusal may lack.
ReceiveReply(t, r) ==
  LET q == requests[r.id]
      found(data) == IF q.kind \in CachedKinds THEN Cached(r.id) ELSE data /\ InList(q.dev)
  IN
  /\ Reads(t)
  /\ replies' = replies \ {r}
  /\ \E data \in {TRUE, r.ok} :
       rx' = [by |-> t, id |-> r.id, ok |-> r.ok,
              step |-> IF found(data) THEN "use" ELSE "remove"]
  /\ UNCHANGED <<apiVars, listVars, devVars, disp, requests, answered, granted, sets>>

StatusAfter == [register |-> "registered", topo_add |-> "attached", topo_del |-> "attached",
                login |-> "logined", logout |-> "attached"]

\* Whose state changes: a node freed since it was found holds anything.
Owners(q) == IF q.kind \in CachedKinds /\ ~Cached(rx.id) THEN Devs \cup {None} ELSE {q.dev}

\* The device's state changes and the user's event is queued.
UseReply ==
  LET q == requests[rx.id] IN
  /\ rx.step = "use"
  /\ \E d \in Owners(q) :
       status' = IF rx.ok /\ q.kind \in SyncKinds /\ d # None /\ InList(d)
                 THEN [status EXCEPT ![d] = StatusAfter[q.kind]] ELSE status
  /\ secret' = IF q.kind = "register" THEN secret \cup {q.dev} ELSE secret
  /\ ipc' = ToUser(Event(q.kind, rx.id, rx.ok))
  /\ rx' = [rx EXCEPT !.step = "remove"]
  /\ UNCHANGED <<apiVars, upstream, node, cache, disp, cloudVars>>

RemoveCached ==
  /\ rx.step = "remove"
  /\ cache' = {n \in cache : n.id # rx.id}
  /\ rx' = NoRx
  /\ UNCHANGED <<apiVars, upstream, node, ipc, devVars, disp, cloudVars>>

ReceivePropertySet(t) ==
  /\ Reads(t) /\ sets < MaxSets
  /\ sets' = sets + 1
  /\ ipc' = ToUser(SetEvent)
  /\ UNCHANGED <<apiVars, upstream, node, cache, devVars, rx, disp,
                 requests, replies, answered, granted>>

-----------------------------------------------------------------------------
(* iotx_dm_dispatch.                                                        *)

GrowsOld(n) ==
  /\ ~n.old
  /\ cache' = (cache \ {n}) \cup {[n EXCEPT !.old = TRUE]}
  /\ UNCHANGED <<apiVars, upstream, node, ipc, devVars, rx, disp, cloudVars>>

\* Old messages leave the cache in the order of their insertion, each with an
\* event for the user that a full queue refuses.
InOrder(ns) ==
  {s \in [1..Cardinality(ns) -> ns] : \A i, j \in DOMAIN s : i < j => s[i].id < s[j].id}
Expires(olds) ==
  /\ disp.at = "yield" /\ rx.by # Dispatcher
  /\ cache' = cache \ olds
  /\ \E order \in InOrder(olds) :
       LET all == ipc \o [i \in DOMAIN order |-> Event(order[i].kind, order[i].id, FALSE)]
       IN  ipc' = SubSeq(all, 1, IF Len(all) <= IpcMax THEN Len(all) ELSE IpcMax)
  /\ disp' = [disp EXCEPT !.at = "dispatch", !.left = IpcMax]
  /\ UNCHANGED <<apiVars, upstream, node, devVars, rx, cloudVars>>

\* Fault: the tick leaves synchronous requests to the call that waits.
TickSparesCalls == Expires({n \in cache : n.old /\ n.kind \notin SyncKinds})
Tick == Expires({n \in cache : n.old})

\* One call dispatches as many messages as the queue is long, no more.
DispatchEnds ==
  /\ disp.at = "dispatch" /\ (ipc = <<>> \/ disp.left = 0)
  /\ disp' = [disp EXCEPT !.at = "yield", !.left = 0]
  /\ UNCHANGED <<apiVars, listVars, devVars, rx, cloudVars>>

Dispatches == disp.at = "dispatch" /\ ipc # <<>> /\ disp.left > 0
Dispatched(at) == disp' = [disp EXCEPT !.at = at, !.left = @ - 1]

\* The answer to a synchronous call: find its node under upstream_mutex ...
DispatchSync ==
  /\ Dispatches /\ Head(ipc).kind \in SyncKinds /\ upstream = None
  /\ ipc' = Tail(ipc)
  /\ IF node[Head(ipc).id] = None THEN UNCHANGED upstream /\ Dispatched("dispatch")
     ELSE /\ upstream' = Dispatcher
          /\ disp' = [at |-> "post", id |-> Head(ipc).id, ok |-> Head(ipc).ok,
                      left |-> disp.left - 1]
  /\ UNCHANGED <<apiVars, node, cache, devVars, rx, cloudVars>>

\* ... then write its result and post its semaphore.
PostResult ==
  /\ disp.at = "post"
  /\ node' = IF node[disp.id] = None THEN node
             ELSE [node EXCEPT ![disp.id] = [sem |-> @.sem + 1, ok |-> disp.ok]]
  /\ upstream' = None
  /\ disp' = [disp EXCEPT !.at = "dispatch", !.id = 0, !.ok = FALSE]
  /\ UNCHANGED <<apiVars, cache, ipc, devVars, rx, cloudVars>>

\* The other events end in a callback of the application, which answers a
\* property-set request with a report of its own.
DispatchEvent ==
  /\ Dispatches /\ Head(ipc).kind \notin SyncKinds
  /\ ipc' = Tail(ipc)
  /\ Dispatched("dispatch")
  /\ UNCHANGED <<apiVars, upstream, node, cache, devVars, rx, cloudVars>>

DispatchPropertySet ==
  /\ Dispatches /\ Head(ipc).kind = "set" /\ Len(requests) < MaxId
  /\ ipc' = Tail(ipc)
  /\ \E d \in Devs :
       call' = [call EXCEPT ![Dispatcher] = Called("post", d)]
  /\ Dispatched("callback")
  /\ UNCHANGED <<mutex, panicked, api, upstream, node, cache, devVars, rx, cloudVars>>

CallbackReturns ==
  /\ disp.at = "callback" /\ call[Dispatcher] = Idle
  /\ disp' = [disp EXCEPT !.at = "dispatch"]
  /\ UNCHANGED <<apiVars, listVars, devVars, rx, cloudVars>>

-----------------------------------------------------------------------------
Step(t) ==
  \/ Lock(t) \/ SlaveClose(t) \/ AlreadyRegistered(t) \/ SendFails(t) \/ Send(t)
  \/ CacheCheck(t) \/ CacheAdd(t) \/ InsertNode(t) \/ SemaphoreTaken(t) \/ WaitTimesOut(t)
  \/ TakeResult(t) \/ DropNode(t) \/ Subscribe(t) \/ Subscribed(t) \/ InitializeCompleted(t)
  \/ UnlockEarly(t) \/ Unlock(t)

Dispatch ==
  \/ Tick \/ DispatchEnds \/ DispatchSync \/ PostResult \/ DispatchEvent
  \/ DispatchPropertySet \/ CallbackReturns

Cloud == \E id \in DOMAIN requests : CloudAnswers(id)

Receive ==
  \/ \E t \in Threads : (\E r \in replies : ReceiveReply(t, r)) \/ ReceivePropertySet(t)
  \/ UseReply \/ RemoveCached

Next ==
  /\ ~panicked
  /\ \/ \E d \in Devs : SlaveOpen(d)
     \/ \E t \in Callers : Calls(t)
     \/ \E t \in Threads : Step(t)
     \/ Dispatch \/ Cloud \/ Receive
     \/ \E n \in cache : GrowsOld(n)

Spec == Init /\ [][Next]_vars

HandlesReply(t) == rx.by = t /\ (UseReply \/ RemoveCached)
Runs(t) ==
  /\ ~panicked
  /\ Step(t) \/ HandlesReply(t) \/ (t = Dispatcher /\ Dispatch)

\* Every thread runs, a mutex given back often enough is taken, ten seconds
\* pass and a semaphore wait ends.
Fairness ==
  /\ \A t \in Threads : WF_vars(Runs(t)) /\ SF_vars(~panicked /\ Lock(t))
  /\ WF_vars(~panicked /\ \E n \in cache : GrowsOld(n))

FairSpec == Spec /\ Fairness

-----------------------------------------------------------------------------
(* Properties.                                                              *)

TypeOK ==
  /\ DOMAIN call = Threads /\ mutex \in Threads \cup {None} /\ api \in Threads \cup {None}
  /\ \A t \in Threads : call[t].id \in 0..MaxId /\ call[t].ids \subseteq 1..MaxId
  /\ panicked \in BOOLEAN /\ upstream \in {None, Dispatcher}
  /\ node \in [1..MaxId -> {None} \cup SyncNode]
  /\ cache \subseteq [id : 1..MaxId, kind : Kinds, dev : Devs, old : BOOLEAN]
  /\ Len(ipc) <= IpcMax
  /\ status \in [Devs -> {"none", "authorized", "registered", "attached", "logined", "gone"}]
  /\ secret \subseteq Devs /\ Len(requests) <= MaxId /\ granted \subseteq answered

\* A synchronous call that returns success was granted by the cloud, request
\* by request: no timeout, no late answer to an earlier call and no node whose
\* result is still zero passes for an answer.
SuccessIsGranted ==
  \A t \in Callers :
    call[t].pc = "unlock" /\ call[t].ok /\ call[t].op \in SyncKinds \cup {"connect"}
      => call[t].ids # {} /\ call[t].ids \subseteq granted

\* The dispatching thread writes the result and posts the semaphore of a call
\* that is still there: its timeout does not free the node in between.
PostIsOnLive == disp.at = "post" => node[disp.id] # None

\* The cache never holds more than its length, though dm_msg_cache_insert tests
\* the size before it takes the lock.
CacheBounded == Cardinality(cache) <= CacheMax

\* A callback of a login called the API: its thread waits for the linkkit mutex
\* that it holds itself, and so does every later call.
Reentered == \E t \in Callers : mutex = t /\ call[t].pc = "lock"

\* Every call returns, also when the thread that would bring its answer waits
\* for the linkkit mutex this call holds - provided that the application does
\* not call the API from the callback of a login, and until the system panics.
CallsReturn ==
  \A t \in Callers : call[t].pc # "idle" ~> call[t].pc = "idle" \/ panicked \/ Reentered

\* No message stays in the cache for ever, answered or not.  When a callback of
\* a login called the API, this holds as long as the dispatching thread makes no
\* call of its own.
CacheDrains ==
  \A id \in 1..MaxId :
    Cached(id) ~> ~Cached(id) \/ panicked \/ (Reentered /\ disp.at = "callback")

=============================================================================
