-------------------------- MODULE LinkkitGatewayProofs --------------------------
(* Proofs about LinkkitGateway, for any number of threads, sub-devices,      *)
(* requests and any lengths of the cache and of the queue.                   *)
EXTENDS LinkkitGateway, FiniteSetTheorems, SequenceTheorems, TLAPS

Pcs == {"idle", "lock", "destroy", "send", "cache", "cache_add", "insert", "wait", "take", "drop",
        "subscribe", "subscribing", "completed", "unlock_early", "unlock"}
Call == [op : Ops \cup {"none"}, pc : Pcs, dev : Devs \cup {None}, kind : Kinds \cup {"none"},
         id : 0..MaxId, ids : SUBSET (1..MaxId), ok : BOOLEAN]
Request == [kind : Kinds, dev : Devs]

\* A call whose success is the cloud's word.
Claims(c) == c.op \in SyncKinds \cup {"connect"}
\* A call that has asked and not had its answer yet.
Asking(c) == c.pc \in {"cache", "cache_add", "insert", "wait", "take", "drop"}

\* What is known of one call: every request it made before the present one was granted.
CallOK(c) ==
  /\ c.pc # "idle" => c.dev \in Devs /\ c.op \in Ops
  /\ c.pc \in {"send", "cache", "cache_add"} => c.kind \in Kinds
  /\ Asking(c) => c.id # 0
  /\ c.pc \in {"insert", "wait", "take", "drop"} => c.kind \in SyncKinds
  /\ c.id <= Len(requests)
  /\ c.kind = "post" => c.op = "post"
  /\ c.pc = "destroy" => c.op = "close"
  /\ c.pc = "lock" => c.ids = {}
  /\ c.kind = "devinfo" => c.ids # {} /\ c.ids \subseteq granted
  /\ c.pc = "send" => c.ids \subseteq granted
  /\ Asking(c) /\ c.kind \in SyncKinds => c.id \in c.ids /\ c.ids \ {c.id} \subseteq granted
  /\ c.pc \in {"subscribe", "subscribing"} => c.ids # {} /\ c.ids \subseteq granted
  /\ c.pc = "completed" => c.kind = "devinfo"
  /\ c.pc = "unlock" /\ c.ok /\ Claims(c) => c.ids # {} /\ c.ids \subseteq granted

\* No two calls have one identifier.
IdsDiffer == \A t, u \in Threads : t # u /\ call[t].id = call[u].id => call[t].id = 0

CloudInv ==
  /\ requests \in Seq(Request) /\ Len(requests) <= MaxId
  /\ granted \subseteq answered
CallsInv ==
  /\ call \in [Threads -> Call]
  /\ \A t \in Threads : CallOK(call[t])
  /\ IdsDiffer

\* The mutex of dm_api.c keeps the size that was tested until the message is filed,
\* and is held while a device subscribes.
CacheNode == [id : 1..MaxId, kind : Kinds, dev : Devs, old : BOOLEAN]
ApiInv ==
  /\ api \in Threads \cup {None}
  /\ \A t \in Threads : call[t].pc \in {"cache", "cache_add", "subscribing"} => api = t
  /\ cache \subseteq CacheNode /\ IsFiniteSet(cache) /\ Cardinality(cache) <= CacheMax
  /\ \A t \in Threads : call[t].pc = "cache_add" => Cardinality(cache) < CacheMax

\* A waiting call has its node, which says "granted" only when the cloud did; the
\* dispatching thread is in the middle of a post exactly while it has upstream_mutex.
Disp == [at : {"yield", "dispatch", "post", "callback"}, id : 0..MaxId, ok : BOOLEAN, left : 0..IpcMax]
HasNode(c) == c.pc \in {"wait", "take", "drop"}
NodeInv ==
  /\ upstream \in {None, Dispatcher}
  /\ node \in [1..MaxId -> {None} \cup SyncNode]
  /\ disp \in Disp
  /\ (disp.at = "post") = (upstream = Dispatcher)
  /\ disp.at = "post" => /\ disp.id # 0 /\ node[disp.id] # None
                         /\ disp.ok => disp.id \in granted
  /\ \A t \in Threads : HasNode(call[t]) =>
       /\ node[call[t].id] # None
       /\ (node[call[t].id].sem > 0 \/ call[t].pc = "take") /\ node[call[t].id].ok
            => call[t].id \in granted

\* What is on its way to the calls says "granted" only when the cloud did.
EventRec == [kind : SyncKinds \cup {"user", "set"}, id : 0..MaxId, ok : BOOLEAN]
EventOK(e) == e \in EventRec /\ (e.kind \in SyncKinds => e.id # 0 /\ (e.ok => e.id \in granted))
Rx == [by : Threads \cup {None}, step : {"none", "use", "remove"}, id : 0..MaxId, ok : BOOLEAN]
EventsInv ==
  /\ ipc \in Seq(EventRec) /\ Len(ipc) <= IpcMax
  /\ \A i \in 1..Len(ipc) : EventOK(ipc[i])
  /\ rx \in Rx
  /\ rx.step # "none" => rx.id \in 1..Len(requests) /\ (rx.ok => rx.id \in granted)
  /\ replies \subseteq [id : 1..MaxId, ok : BOOLEAN]
  /\ \A r \in replies : r.id <= Len(requests) /\ (r.ok => r.id \in granted)

RestInv ==
  /\ mutex \in Threads \cup {None} /\ panicked \in BOOLEAN
  /\ status \in [Devs -> {"none", "authorized", "registered", "attached", "logined", "gone"}]
  /\ secret \subseteq Devs

IInv == CloudInv /\ CallsInv /\ ApiInv /\ NodeInv /\ EventsInv /\ RestInv

-----------------------------------------------------------------------------
(* The steps.                                                                *)

\* Next, one action at a time.
LEMMA NextSteps ==
  ASSUME Next
  PROVE  \/ \E d \in Devs : SlaveOpen(d)
         \/ \E t \in Callers : Calls(t)
         \/ \E t \in Threads :
              \/ Lock(t) \/ SlaveClose(t) \/ AlreadyRegistered(t) \/ SendFails(t) \/ Send(t)
              \/ CacheCheck(t) \/ CacheAdd(t) \/ InsertNode(t) \/ SemaphoreTaken(t) \/ WaitTimesOut(t)
              \/ TakeResult(t) \/ DropNode(t) \/ Subscribe(t) \/ Subscribed(t) \/ InitializeCompleted(t)
              \/ UnlockEarly(t) \/ Unlock(t)
         \/ Tick \/ DispatchEnds \/ DispatchSync \/ PostResult \/ DispatchEvent
         \/ DispatchPropertySet \/ CallbackReturns
         \/ \E id \in DOMAIN requests : CloudAnswers(id)
         \/ \E t \in Threads : (\E r \in replies : ReceiveReply(t, r)) \/ ReceivePropertySet(t)
         \/ UseReply \/ RemoveCached
         \/ \E n \in cache : GrowsOld(n)
BY Zenon DEF Next, Step, Dispatch, Cloud, Receive

\* One call moves on, the others stay where they are.
Moves(t, pc, kind, id, ids, ok) ==
  /\ call' \in [Threads -> Call]
  /\ call'[t].op = call[t].op /\ call'[t].dev = call[t].dev
  /\ call'[t].pc = pc /\ call'[t].kind = kind /\ call'[t].id = id
  /\ call'[t].ids = ids /\ call'[t].ok = ok
  /\ \A u \in Threads \ {t} : call'[u] = call[u]

LEMMA GotoMoves ==
  ASSUME call \in [Threads -> Call], NEW t \in Threads, NEW pc \in Pcs, Goto(t, pc)
  PROVE  Moves(t, pc, call[t].kind, call[t].id, call[t].ids, call[t].ok)
BY DEF Goto, Moves, Call

LEMMA NextMoves ==
  ASSUME call \in [Threads -> Call], NEW t \in Threads, NEW pc \in Pcs,
         NEW kind \in Kinds \cup {"none"},
         call' = [call EXCEPT ![t] = [@ EXCEPT !.pc = pc, !.kind = kind]]
  PROVE  Moves(t, pc, kind, call[t].id, call[t].ids, call[t].ok)
<1> DEFINE c == call[t]
           r == [c EXCEPT !.pc = pc, !.kind = kind]
<1>1. call' = [call EXCEPT ![t] = r] /\ c \in Call
  OBVIOUS
<1>2. /\ r.op = c.op /\ r.dev = c.dev /\ r.pc = pc /\ r.kind = kind
      /\ r.id = c.id /\ r.ids = c.ids /\ r.ok = c.ok
  BY <1>1 DEF Call
<1>3. r \in Call
  BY <1>1 DEF Call
<1> HIDE DEF r
<1> QED BY <1>1, <1>2, <1>3 DEF Moves

LEMMA SentMoves ==
  ASSUME call \in [Threads -> Call], NEW t \in Threads, NEW id \in 0..MaxId,
         NEW ids \in SUBSET (1..MaxId),
         call' = [call EXCEPT ![t] = [@ EXCEPT !.pc = "cache", !.id = id, !.ids = ids]]
  PROVE  Moves(t, "cache", call[t].kind, id, ids, call[t].ok)
<1> DEFINE c == call[t]
           r == [c EXCEPT !.pc = "cache", !.id = id, !.ids = ids]
<1>1. call' = [call EXCEPT ![t] = r] /\ c \in Call
  OBVIOUS
<1>2. /\ r.op = c.op /\ r.dev = c.dev /\ r.pc = "cache" /\ r.kind = c.kind
      /\ r.id = id /\ r.ids = ids /\ r.ok = c.ok
  BY <1>1 DEF Call
<1>3. r \in Call
  BY <1>1 DEF Call, Pcs
<1> HIDE DEF r
<1> QED BY <1>1, <1>2, <1>3 DEF Moves

LEMMA FinishMoves ==
  ASSUME call \in [Threads -> Call], NEW t \in Threads, NEW ok \in BOOLEAN, Finish(t, ok)
  PROVE  Moves(t, "unlock", "none", 0, call[t].ids, ok)
<1> DEFINE c == call[t]
           r == [c EXCEPT !.pc = "unlock", !.ok = ok, !.kind = "none", !.id = 0]
<1>1. call' = [call EXCEPT ![t] = r] /\ c \in Call
  BY DEF Finish
<1>2. /\ r.op = c.op /\ r.dev = c.dev /\ r.pc = "unlock" /\ r.kind = "none"
      /\ r.id = 0 /\ r.ids = c.ids /\ r.ok = ok
  BY <1>1 DEF Call
<1>3. r \in Call
  <2>1. 0 \in 0..MaxId
    BY GatewayAssumption
  <2> QED BY <1>1, <2>1 DEF Call, Pcs
<1> HIDE DEF r
<1> QED BY <1>1, <1>2, <1>3 DEF Moves

\* A call begins, and a call ends.
LEMMA CalledMoves ==
  ASSUME call \in [Threads -> Call], NEW t \in Threads, NEW op \in Ops, NEW d \in Devs,
         call' = [call EXCEPT ![t] = Called(op, d)]
  PROVE  /\ call' \in [Threads -> Call] /\ call'[t] = Called(op, d)
         /\ \A u \in Threads \ {t} : call'[u] = call[u]
<1>1. Called(op, d) \in Call
  BY GatewayAssumption DEF Called, Call, Pcs
<1> HIDE DEF Called
<1> QED BY <1>1

LEMMA IdleMoves ==
  ASSUME call \in [Threads -> Call], NEW t \in Threads, call' = [call EXCEPT ![t] = Idle]
  PROVE  /\ call' \in [Threads -> Call] /\ call'[t] = Idle
         /\ \A u \in Threads \ {t} : call'[u] = call[u]
<1>1. Idle \in Call
  BY GatewayAssumption DEF Idle, Call, Pcs
<1> HIDE DEF Idle
<1> QED BY <1>1

-----------------------------------------------------------------------------
(* The calls.                                                                *)

LEMMA CallTyped ==
  ASSUME call \in [Threads -> Call], NEW t \in Threads
  PROVE  /\ call[t].pc \in Pcs /\ call[t].kind \in Kinds \cup {"none"} /\ call[t].id \in 0..MaxId
         /\ call[t].ids \in SUBSET (1..MaxId) /\ call[t].ok \in BOOLEAN
         /\ call[t].dev \in Devs \cup {None} /\ call[t].op \in Ops \cup {"none"}
BY DEF Call

\* The calls keep their invariant when the cloud and one of them go on.
LEMMA CallsKept ==
  ASSUME CallsInv, call' \in [Threads -> Call], NEW t \in Threads,
         \A u \in Threads \ {t} : call'[u] = call[u],
         Len(requests) \in Nat, Len(requests') \in Nat, Len(requests) <= Len(requests'),
         granted \subseteq granted', CallOK(call[t])',
         \/ call'[t].id = 0 \/ call'[t].id = call[t].id \/ call'[t].id > Len(requests)
  PROVE  CallsInv'
<1>1. \A u \in Threads : CallOK(call[u])'
  <2> TAKE u \in Threads
  <2>1. CASE u = t BY <2>1
  <2>2. CASE u # t
    <3>1. call'[u] = call[u] /\ CallOK(call[u]) /\ call[u].id \in Nat
      BY <2>2, CallTyped DEF CallsInv
    <3> QED BY <3>1 DEF CallOK, Claims, Asking
  <2> QED BY <2>1, <2>2
<1>2. IdsDiffer'
  <2>1. \A u \in Threads : call[u].id \in Nat /\ call[u].id <= Len(requests)
    BY CallTyped DEF CallsInv, CallOK
  <2> QED BY <2>1 DEF CallsInv, IdsDiffer
<1> QED BY <1>1, <1>2 DEF CallsInv

\* The calls keep their invariant when only the cloud goes on.
LEMMA CallsStay ==
  ASSUME CallsInv, UNCHANGED call, UNCHANGED requests, granted \subseteq granted'
  PROVE  CallsInv'
BY DEF CallsInv, CallOK, Claims, Asking, IdsDiffer

LEMMA CallsStep == CloudInv /\ CallsInv /\ NodeInv /\ [Next]_vars => CallsInv'
<1> SUFFICES ASSUME CloudInv, CallsInv, NodeInv, [Next]_vars PROVE CallsInv'
  OBVIOUS
<1> USE GatewayAssumption
<1>0. /\ call \in [Threads -> Call] /\ Len(requests) \in Nat
      /\ \A t \in Threads : CallOK(call[t])
  BY DEF CallsInv, CloudInv
<1>1. ASSUME NEW t \in Threads, UNCHANGED <<requests, granted>>, CallOK(call[t])',
             call' \in [Threads -> Call], \A u \in Threads \ {t} : call'[u] = call[u],
             call'[t].id = 0 \/ call'[t].id = call[t].id
      PROVE  CallsInv'
  BY <1>0, <1>1, CallsKept
<1>2. ASSUME NEW t \in Threads, UNCHANGED <<requests, granted>>,
             NEW op \in Ops, NEW d \in Devs, call' = [call EXCEPT ![t] = Called(op, d)]
      PROVE  CallsInv'
  <2>1. /\ call' \in [Threads -> Call] /\ call'[t] = Called(op, d)
        /\ \A u \in Threads \ {t} : call'[u] = call[u]
    BY <1>0, <1>2, CalledMoves
  <2>2. CallOK(call[t])' /\ call'[t].id = 0
    BY <1>0, <1>2, <2>1 DEF Called, CallOK, Claims, Asking
  <2> QED BY <1>1, <1>2, <2>1, <2>2
<1>3. ASSUME NEW t \in Callers, Calls(t) PROVE CallsInv'
  <2>1. t \in Threads /\ UNCHANGED <<requests, granted>>
    BY <1>3 DEF Calls, Begin, Threads, cloudVars
  <2>2. PICK op \in Ops, d \in Devs : call' = [call EXCEPT ![t] = Called(op, d)]
    BY <1>3 DEF Calls, Begin
  <2> QED BY <1>2, <2>1, <2>2
<1>4. CASE DispatchPropertySet
  <2>1. Dispatcher \in Threads /\ UNCHANGED <<requests, granted>>
    BY <1>4 DEF DispatchPropertySet, Threads, cloudVars
  <2>2. PICK d \in Devs : call' = [call EXCEPT ![Dispatcher] = Called("post", d)]
    BY <1>4 DEF DispatchPropertySet
  <2>3. "post" \in Ops
    BY DEF Ops
  <2> QED BY <1>2, <2>1, <2>2, <2>3
<1>5. ASSUME NEW t \in Threads, Lock(t) PROVE CallsInv'
  <2> DEFINE pc == IF call[t].op = "close" THEN "destroy" ELSE "send"
             kind == FirstKind(call[t].op)
  <2>1. /\ UNCHANGED <<requests, granted>> /\ call[t].pc = "lock"
        /\ call' = [call EXCEPT ![t] = [@ EXCEPT !.pc = pc, !.kind = kind]]
    BY <1>5 DEF Lock, cloudVars
  <2>2. CallOK(call[t]) /\ call[t].op \in Ops /\ call[t].ids = {} /\ call[t].dev \in Devs
    BY <1>0, <2>1 DEF CallOK
  <2>3. /\ pc \in Pcs /\ kind \in Kinds \cup {"none"}
        /\ pc = "send" => kind \in Kinds
        /\ kind = "post" => call[t].op = "post"
        /\ kind # "devinfo"
        /\ pc = "destroy" => call[t].op = "close"
        /\ pc \in {"send", "destroy"}
    BY <2>2 DEF FirstKind, Pcs, Ops, Kinds, SyncKinds
  <2> HIDE DEF pc, kind
  <2>4. Moves(t, pc, kind, call[t].id, call[t].ids, call[t].ok)
    BY <1>0, <2>1, <2>3, NextMoves
  <2>5. CallOK(call[t])'
    BY <1>0, <2>1, <2>2, <2>3, <2>4, CallTyped DEF Moves, CallOK, Claims, Asking
  <2> QED BY <1>1, <2>1, <2>4, <2>5 DEF Moves
<1>6. ASSUME NEW t \in Threads, SlaveClose(t) PROVE CallsInv'
  <2>1. UNCHANGED <<requests, granted>> /\ call[t].pc = "destroy" /\ Finish(t, TRUE)
    BY <1>6 DEF SlaveClose, cloudVars
  <2>2. Moves(t, "unlock", "none", 0, call[t].ids, TRUE)
    BY <1>0, <2>1, FinishMoves
  <2>3. CallOK(call[t])'
    BY <1>0, <2>1, <2>2 DEF Moves, CallOK, Claims, Asking, SyncKinds
  <2> QED BY <1>1, <2>1, <2>2, <2>3 DEF Moves
<1>7. ASSUME NEW t \in Threads, NEW k \in {"topo_add", "devinfo"}, NextRequest(t, k),
             UNCHANGED <<requests, granted>>, call[t].ids \subseteq granted, call[t].pc # "idle",
             k = "devinfo" => call[t].ids # {}
      PROVE  CallsInv'
  <2>1. Moves(t, "send", k, call[t].id, call[t].ids, call[t].ok)
    <3>1. k \in Kinds \cup {"none"} /\ "send" \in Pcs
      BY DEF Kinds, SyncKinds, Pcs
    <3> QED BY <1>0, <1>7, <3>1, NextMoves DEF NextRequest
  <2>2. CallOK(call[t])'
    BY <1>0, <1>7, <2>1, CallTyped DEF Moves, CallOK, Claims, Asking, Kinds, SyncKinds
  <2> QED BY <1>1, <1>7, <2>1, <2>2 DEF Moves
<1>8. ASSUME NEW t \in Threads, AlreadyRegistered(t) PROVE CallsInv'
  <2>1. UNCHANGED <<requests, granted>> /\ call[t].pc = "send" /\ NextRequest(t, "topo_add")
    BY <1>8 DEF AlreadyRegistered, cloudVars
  <2>2. call[t].ids \subseteq granted
    BY <1>0, <2>1 DEF CallOK
  <2> QED BY <1>7, <2>1, <2>2
<1>9. ASSUME NEW t \in Threads, NEW ok \in BOOLEAN, Finish(t, ok), call[t].pc # "idle",
             UNCHANGED <<requests, granted>>,
             ok /\ Claims(call[t]) => call[t].ids # {} /\ call[t].ids \subseteq granted
      PROVE  CallsInv'
  <2>1. Moves(t, "unlock", "none", 0, call[t].ids, ok)
    BY <1>0, <1>9, FinishMoves
  <2>2. CallOK(call[t])'
    BY <1>0, <1>9, <2>1 DEF Moves, CallOK, Claims, Asking
  <2> QED BY <1>1, <1>9, <2>1, <2>2 DEF Moves
<1>10. ASSUME NEW t \in Threads, NEW pc \in Pcs, Goto(t, pc), UNCHANGED <<requests, granted>>,
              CallOK(call[t])'
       PROVE  CallsInv'
  <2>1. Moves(t, pc, call[t].kind, call[t].id, call[t].ids, call[t].ok)
    BY <1>0, <1>10, GotoMoves
  <2> QED BY <1>1, <1>10, <2>1 DEF Moves
<1>11. ASSUME NEW t \in Threads, SendFails(t) PROVE CallsInv'
  <2>1. UNCHANGED <<requests, granted>> /\ call[t].pc = "send"
    BY <1>11 DEF SendFails, cloudVars
  <2>2. CASE call[t].kind = "topo_add"
    <3>1. Goto(t, "unlock_early") /\ "unlock_early" \in Pcs
      BY <1>11, <2>2 DEF SendFails, Pcs
    <3>2. Moves(t, "unlock_early", call[t].kind, call[t].id, call[t].ids, call[t].ok)
      BY <1>0, <3>1, GotoMoves
    <3>3. CallOK(call[t])'
      BY <1>0, <2>1, <2>2, <3>2, CallTyped DEF Moves, CallOK, Claims, Asking
    <3> QED BY <1>10, <2>1, <3>1, <3>3
  <2>3. CASE call[t].kind = "devinfo"
    <3>1. Goto(t, "completed") /\ "completed" \in Pcs
      BY <1>11, <2>3 DEF SendFails, Pcs
    <3>2. Moves(t, "completed", call[t].kind, call[t].id, call[t].ids, call[t].ok)
      BY <1>0, <3>1, GotoMoves
    <3>3. CallOK(call[t])'
      BY <1>0, <2>1, <2>3, <3>2, CallTyped DEF Moves, CallOK, Claims, Asking
    <3> QED BY <1>10, <2>1, <3>1, <3>3
  <2>4. CASE call[t].kind \notin {"topo_add", "devinfo"}
    <3>1. Finish(t, FALSE)
      BY <1>11, <2>4 DEF SendFails
    <3> QED BY <1>9, <2>1, <3>1
  <2> QED BY <2>2, <2>3, <2>4
<1>12. ASSUME NEW t \in Threads, Send(t) PROVE CallsInv'
  <2> DEFINE n == Len(requests) + 1
             ids == IF call[t].kind = "devinfo" THEN call[t].ids ELSE call[t].ids \cup {n}
  <2>1. /\ call[t].pc = "send" /\ n \in 1..MaxId /\ granted' = granted
        /\ requests' = Append(requests, [kind |-> call[t].kind, dev |-> call[t].dev])
        /\ call' = [call EXCEPT ![t] = [@ EXCEPT !.pc = "cache", !.id = n, !.ids = ids]]
    <3>1. call[t].pc = "send" /\ Len(requests) < MaxId /\ granted' = granted
      BY <1>12 DEF Send
    <3>2. requests' = Append(requests, [kind |-> call[t].kind, dev |-> call[t].dev])
      BY <1>12 DEF Send
    <3>3. call' = [call EXCEPT ![t] = [@ EXCEPT !.pc = "cache", !.id = n, !.ids = ids]]
      BY <1>12, Zenon DEF Send
    <3> QED BY <1>0, <3>1, <3>2, <3>3
  <2>2. ids \in SUBSET (1..MaxId)
    BY <1>0, <2>1, CallTyped
  <2>3. Len(requests') = n /\ n \in Nat /\ n > Len(requests) /\ n # 0
    BY <1>0, <2>1 DEF CloudInv
  <2>4. /\ call[t].kind \in SyncKinds => n \in ids /\ ids \ {n} \subseteq granted
        /\ call[t].kind = "devinfo" => ids = call[t].ids
    <3>1. call[t].ids \subseteq granted
      BY <1>0, <2>1 DEF CallOK
    <3>2. call[t].kind \in SyncKinds => call[t].kind # "devinfo"
      BY DEF SyncKinds
    <3> QED BY <3>1, <3>2
  <2> HIDE DEF n, ids
  <2>5. Moves(t, "cache", call[t].kind, n, ids, call[t].ok)
    <3>1. n \in 0..MaxId
      BY <2>1
    <3>2. call' = [call EXCEPT ![t] = [@ EXCEPT !.pc = "cache", !.id = n, !.ids = ids]]
      BY <2>1
    <3> QED BY <1>0, <2>2, <3>1, <3>2, SentMoves, Zenon
  <2>6. CallOK(call[t])'
    BY <1>0, <2>1, <2>3, <2>4, <2>5 DEF Moves, CallOK, Claims, Asking
  <2> QED BY <1>0, <2>1, <2>3, <2>5, <2>6, CallsKept DEF Moves
<1>13. ASSUME NEW t \in Threads, Requested(t), call[t].pc \in {"cache", "cache_add"},
              UNCHANGED <<requests, granted>>
       PROVE  CallsInv'
  <2>1. CallOK(call[t]) /\ call[t].kind \in Kinds /\ Asking(call[t])
    BY <1>0, <1>13 DEF CallOK, Asking
  <2>2. CASE call[t].kind \in SyncKinds
    <3>1. Goto(t, "insert") /\ "insert" \in Pcs
      BY <1>13, <2>2 DEF Requested, Pcs, SyncKinds
    <3>2. Moves(t, "insert", call[t].kind, call[t].id, call[t].ids, call[t].ok)
      BY <1>0, <3>1, GotoMoves
    <3>3. CallOK(call[t])'
      BY <1>13, <2>1, <2>2, <3>2, CallTyped, <1>0 DEF Moves, CallOK, Claims, Asking
    <3> QED BY <1>10, <1>13, <3>1, <3>3
  <2>3. CASE call[t].kind = "devinfo"
    <3>1. Goto(t, "completed") /\ "completed" \in Pcs
      BY <1>13, <2>3 DEF Requested, Pcs, SyncKinds
    <3>2. Moves(t, "completed", call[t].kind, call[t].id, call[t].ids, call[t].ok)
      BY <1>0, <3>1, GotoMoves
    <3>3. CallOK(call[t])'
      BY <1>13, <2>1, <2>3, <3>2, CallTyped, <1>0 DEF Moves, CallOK, Claims, Asking
    <3> QED BY <1>10, <1>13, <3>1, <3>3
  <2>4. CASE call[t].kind = "post"
    <3>1. Finish(t, TRUE)
      BY <1>13, <2>4 DEF Requested, SyncKinds
    <3>2. ~Claims(call[t])
      BY <2>1, <2>4 DEF CallOK, Claims, SyncKinds
    <3> QED BY <1>9, <1>13, <3>1, <3>2
  <2> QED BY <2>1, <2>2, <2>3, <2>4 DEF Kinds
<1>14. ASSUME NEW t \in Threads, CacheCheck(t) PROVE CallsInv'
  <2>1. UNCHANGED <<requests, granted>> /\ call[t].pc = "cache"
    BY <1>14 DEF CacheCheck, cloudVars
  <2>2. CASE CacheHasRoom
    <3>1. Goto(t, "cache_add") /\ "cache_add" \in Pcs
      BY <1>14, <2>2 DEF CacheCheck, Pcs
    <3>2. Moves(t, "cache_add", call[t].kind, call[t].id, call[t].ids, call[t].ok)
      BY <1>0, <3>1, GotoMoves
    <3>3. CallOK(call[t])'
      BY <1>0, <2>1, <3>2, CallTyped DEF Moves, CallOK, Claims, Asking
    <3> QED BY <1>10, <2>1, <3>1, <3>3
  <2>3. CASE ~CacheHasRoom
    BY <1>13, <1>14, <2>1, <2>3 DEF CacheCheck
  <2> QED BY <2>2, <2>3
<1>15. ASSUME NEW t \in Threads, CacheAdd(t) PROVE CallsInv'
  <2>1. UNCHANGED <<requests, granted>> /\ call[t].pc = "cache_add" /\ Requested(t)
    BY <1>15 DEF CacheAdd, cloudVars
  <2> QED BY <1>13, <2>1
<1>16. ASSUME NEW t \in Threads, InsertNode(t) \/ SemaphoreTaken(t) \/ WaitTimesOut(t)
       PROVE  CallsInv'
  <2>1. UNCHANGED <<requests, granted>> /\ call[t].pc \in {"insert", "wait"}
    BY <1>16 DEF InsertNode, SemaphoreTaken, WaitTimesOut, cloudVars
  <2>2. PICK pc \in {"wait", "take", "drop"} : Goto(t, pc)
    BY <1>16 DEF InsertNode, SemaphoreTaken, WaitTimesOut
  <2>3. pc \in Pcs
    BY DEF Pcs
  <2>4. Moves(t, pc, call[t].kind, call[t].id, call[t].ids, call[t].ok)
    BY <1>0, <2>2, <2>3, GotoMoves
  <2>5. CallOK(call[t])'
    BY <1>0, <2>1, <2>4, CallTyped DEF Moves, CallOK, Claims, Asking
  <2> QED BY <1>10, <2>1, <2>2, <2>3, <2>5
<1>17. ASSUME NEW t \in Threads, TakeResult(t) PROVE CallsInv'
  <2>1. UNCHANGED <<requests, granted>> /\ call[t].pc = "take"
    BY <1>17 DEF TakeResult, cloudVars
  <2>2. /\ CallOK(call[t]) /\ call[t].kind \in SyncKinds
        /\ call[t].id \in call[t].ids /\ call[t].ids \ {call[t].id} \subseteq granted
    BY <1>0, <2>1 DEF CallOK, Asking
  <2>3. CASE ~node[call[t].id].ok
    <3>1. Finish(t, FALSE)
      BY <1>17, <2>3 DEF TakeResult
    <3> QED BY <1>9, <2>1, <3>1
  <2>4. CASE node[call[t].id].ok
    <3>1. call[t].id \in granted
      BY <2>1, <2>4 DEF NodeInv, HasNode
    <3>2. call[t].ids \subseteq granted /\ call[t].ids # {}
      BY <2>2, <3>1
    <3>3. NextRequest(t, "topo_add") \/ Goto(t, "subscribe") \/ Finish(t, TRUE)
      BY <1>17, <2>4 DEF TakeResult
    <3>4. CASE NextRequest(t, "topo_add")
      BY <1>7, <2>1, <3>2, <3>4
    <3>5. CASE Goto(t, "subscribe")
      <4>1. Moves(t, "subscribe", call[t].kind, call[t].id, call[t].ids, call[t].ok)
        BY <1>0, <3>5, GotoMoves DEF Pcs
      <4>2. CallOK(call[t])'
        BY <1>0, <2>1, <2>2, <3>2, <4>1, CallTyped DEF Moves, CallOK, Claims, Asking
      <4> QED BY <1>10, <2>1, <3>5, <4>2 DEF Pcs
    <3>6. CASE Finish(t, TRUE)
      BY <1>9, <2>1, <3>2, <3>6
    <3> QED BY <3>3, <3>4, <3>5, <3>6
  <2> QED BY <2>3, <2>4
<1>18. ASSUME NEW t \in Threads, DropNode(t) \/ UnlockEarly(t) PROVE CallsInv'
  <2>1. UNCHANGED <<requests, granted>> /\ call[t].pc # "idle" /\ Finish(t, FALSE)
    BY <1>18 DEF DropNode, UnlockEarly, cloudVars
  <2> QED BY <1>9, <2>1
<1>19. ASSUME NEW t \in Threads, Subscribed(t) PROVE CallsInv'
  <2>1. /\ UNCHANGED <<requests, granted>> /\ call[t].pc = "subscribing"
        /\ NextRequest(t, "devinfo") \/ Finish(t, FALSE)
    BY <1>19 DEF Subscribed, cloudVars
  <2>2. call[t].ids # {} /\ call[t].ids \subseteq granted
    BY <1>0, <2>1 DEF CallOK
  <2> QED BY <1>7, <1>9, <2>1, <2>2
<1>20. ASSUME NEW t \in Threads, Subscribe(t) PROVE CallsInv'
  <2>1. /\ UNCHANGED <<requests, granted>> /\ call[t].pc = "subscribe"
        /\ Goto(t, "subscribing") \/ Finish(t, FALSE)
    BY <1>20 DEF Subscribe, cloudVars
  <2>2. CASE Goto(t, "subscribing")
    <3>1. Moves(t, "subscribing", call[t].kind, call[t].id, call[t].ids, call[t].ok)
      BY <1>0, <2>2, GotoMoves DEF Pcs
    <3>2. CallOK(call[t])'
      BY <1>0, <2>1, <3>1, CallTyped DEF Moves, CallOK, Claims, Asking
    <3> QED BY <1>10, <2>1, <2>2, <3>2 DEF Pcs
  <2> QED BY <1>9, <2>1, <2>2
<1>21. ASSUME NEW t \in Threads, InitializeCompleted(t) PROVE CallsInv'
  <2>1. /\ UNCHANGED <<requests, granted>> /\ call[t].pc = "completed"
        /\ Finish(t, TRUE) \/ call' = [call EXCEPT ![t] = Called("post", call[t].dev)]
    BY <1>21 DEF InitializeCompleted, cloudVars
  <2>2. /\ call[t].ids # {} /\ call[t].ids \subseteq granted
        /\ call[t].dev \in Devs /\ "post" \in Ops
    BY <1>0, <2>1 DEF CallOK, Ops
  <2> QED BY <1>2, <1>9, <2>1, <2>2
<1>22. ASSUME NEW t \in Threads, Unlock(t) PROVE CallsInv'
  <2>1. UNCHANGED <<requests, granted>> /\ call' = [call EXCEPT ![t] = Idle]
    BY <1>22 DEF Unlock, cloudVars
  <2>2. /\ call' \in [Threads -> Call] /\ call'[t] = Idle
        /\ \A u \in Threads \ {t} : call'[u] = call[u]
    BY <1>0, <2>1, IdleMoves
  <2>3. CallOK(call[t])' /\ call'[t].id = 0
    BY <1>0, <2>1, <2>2 DEF Idle, CallOK, Claims, Asking
  <2> QED BY <1>1, <2>1, <2>2, <2>3
<1>23. ASSUME NEW id \in DOMAIN requests, CloudAnswers(id) PROVE CallsInv'
  <2>1. UNCHANGED <<call, requests>> /\ granted \subseteq granted'
    BY <1>23 DEF CloudAnswers, apiVars
  <2> QED BY <2>1, CallsStay
<1>24. ASSUME \/ \E d \in Devs : SlaveOpen(d)
              \/ Tick \/ DispatchEnds \/ DispatchSync \/ PostResult \/ DispatchEvent \/ CallbackReturns
              \/ \E t \in Threads : (\E r \in replies : ReceiveReply(t, r)) \/ ReceivePropertySet(t)
              \/ UseReply \/ RemoveCached
              \/ \E n \in cache : GrowsOld(n)
              \/ UNCHANGED vars
       PROVE  CallsInv'
  <2>1. UNCHANGED <<call, requests, granted>>
    BY <1>24 DEF SlaveOpen, Tick, Expires, DispatchEnds, DispatchSync, PostResult, DispatchEvent,
       CallbackReturns, ReceiveReply, ReceivePropertySet, UseReply, RemoveCached, GrowsOld,
       vars, apiVars, cloudVars
  <2> QED BY <2>1, CallsStay
<1> QED BY <1>3, <1>4, <1>5, <1>6, <1>8, <1>11, <1>12, <1>14, <1>15, <1>16, <1>17, <1>18, <1>19, <1>20,
           <1>21, <1>22, <1>23, <1>24, NextSteps

\* Where a call gets to whose step neither sends, files, nor waits.
LEMMA StepOutcome ==
  ASSUME CallsInv, NEW t \in Threads,
         \/ Lock(t) \/ SlaveClose(t) \/ AlreadyRegistered(t) \/ SendFails(t)
         \/ (CacheCheck(t) /\ ~CacheHasRoom) \/ CacheAdd(t)
         \/ TakeResult(t) \/ DropNode(t) \/ Subscribed(t) \/ InitializeCompleted(t)
         \/ UnlockEarly(t) \/ Unlock(t)
  PROVE  /\ \A u \in Threads \ {t} : call'[u] = call[u]
         /\ call'[t].pc \notin {"cache", "cache_add", "wait", "take", "drop", "subscribing"}
<1> DEFINE Away == /\ \A u \in Threads \ {t} : call'[u] = call[u]
                   /\ call'[t].pc \notin {"cache", "cache_add", "wait", "take", "drop", "subscribing"}
<1>0. call \in [Threads -> Call]
  BY DEF CallsInv
<1>1. ASSUME NEW ok \in BOOLEAN, Finish(t, ok) PROVE Away
  BY <1>0, <1>1, FinishMoves DEF Moves
<1>2. ASSUME NEW k \in {"topo_add", "devinfo"}, NextRequest(t, k) PROVE Away
  <2>1. k \in Kinds \cup {"none"} /\ "send" \in Pcs
    BY DEF Kinds, SyncKinds, Pcs
  <2> QED BY <1>0, <1>2, <2>1, NextMoves DEF NextRequest, Moves
<1>3. ASSUME NEW pc \in {"unlock_early", "insert", "subscribe", "completed"}, Goto(t, pc) PROVE Away
  BY <1>0, <1>3, GotoMoves DEF Pcs, Moves
<1>4. CASE Lock(t)
  <2>1. PICK pc \in {"destroy", "send"} :
          call' = [call EXCEPT ![t] = [@ EXCEPT !.pc = pc, !.kind = FirstKind(call[t].op)]]
    BY <1>4 DEF Lock
  <2>2. \A u \in Threads \ {t} : call'[u] = call[u]
    BY <1>0, <2>1
  <2>3. call'[t] = [call[t] EXCEPT !.pc = pc, !.kind = FirstKind(call[t].op)] /\ call[t] \in Call
    BY <1>0, <2>1
  <2>4. call'[t].pc = pc
    BY <2>3 DEF Call
  <2> QED BY <2>2, <2>4
<1>5. CASE Unlock(t)
  <2>1. call'[t].pc = "idle" /\ \A u \in Threads \ {t} : call'[u] = call[u]
    BY <1>0, <1>5, IdleMoves DEF Unlock, Idle
  <2> QED BY <2>1
<1>6. CASE (CacheCheck(t) /\ ~CacheHasRoom) \/ CacheAdd(t)
  BY <1>1, <1>3, <1>6 DEF CacheCheck, CacheAdd, Requested
<1>7. CASE SlaveClose(t) \/ DropNode(t) \/ UnlockEarly(t)
  BY <1>1, <1>7 DEF SlaveClose, DropNode, UnlockEarly
<1>8. CASE AlreadyRegistered(t) \/ Subscribed(t)
  BY <1>1, <1>2, <1>8 DEF AlreadyRegistered, Subscribed
<1>9. CASE SendFails(t)
  <2>1. Goto(t, "unlock_early") \/ Goto(t, "completed") \/ Finish(t, FALSE)
    BY <1>9 DEF SendFails
  <2> QED BY <1>1, <1>3, <2>1
<1>10. CASE TakeResult(t)
  <2>1. \/ Finish(t, FALSE) \/ Finish(t, TRUE)
        \/ NextRequest(t, "topo_add") \/ Goto(t, "subscribe")
    BY <1>10 DEF TakeResult
  <2> QED BY <1>1, <1>2, <1>3, <2>1
<1>11. CASE InitializeCompleted(t)
  <2>1. Finish(t, TRUE) \/ call' = [call EXCEPT ![t] = Called("post", call[t].dev)]
    BY <1>11 DEF InitializeCompleted
  <2>2. call[t].dev \in Devs /\ "post" \in Ops
    BY <1>11 DEF InitializeCompleted, CallsInv, CallOK, Ops
  <2>3. CASE call' = [call EXCEPT ![t] = Called("post", call[t].dev)]
    <3>1. call'[t] = Called("post", call[t].dev) /\ \A u \in Threads \ {t} : call'[u] = call[u]
      BY <1>0, <2>2, <2>3, CalledMoves
    <3> QED BY <3>1 DEF Called
  <2> QED BY <1>1, <2>1, <2>3
<1> QED BY <1>4, <1>5, <1>6, <1>7, <1>8, <1>9, <1>10, <1>11

\* The steps that begin a call.
LEMMA CalledOutcome ==
  ASSUME CallsInv, (\E t \in Callers : Calls(t)) \/ DispatchPropertySet
  PROVE  \E t \in Threads :
           /\ \A u \in Threads \ {t} : call'[u] = call[u]
           /\ call'[t].pc = "lock"
<1>1. PICK t \in Threads, op \in Ops, d \in Devs : call' = [call EXCEPT ![t] = Called(op, d)]
  <2>1. CASE \E t \in Callers : Calls(t)
    BY <2>1 DEF Calls, Begin, Threads
  <2>2. CASE DispatchPropertySet
    BY <2>2 DEF DispatchPropertySet, Threads, Ops
  <2> QED BY <2>1, <2>2
<1>2. call'[t] = Called(op, d) /\ \A u \in Threads \ {t} : call'[u] = call[u]
  BY <1>1, CalledMoves DEF CallsInv
<1> QED BY <1>2 DEF Called

-----------------------------------------------------------------------------
(* The cloud.                                                                *)

LEMMA CloudStep == CloudInv /\ CallsInv /\ [Next]_vars => CloudInv'
<1> SUFFICES ASSUME CloudInv, CallsInv, [Next]_vars PROVE CloudInv'
  OBVIOUS
<1>1. ASSUME NEW t \in Threads, Send(t) PROVE CloudInv'
  <2>1. /\ call[t].pc = "send" /\ Len(requests) < MaxId /\ UNCHANGED <<granted, answered>>
        /\ requests' = Append(requests, [kind |-> call[t].kind, dev |-> call[t].dev])
    BY <1>1 DEF Send
  <2>2. call[t].kind \in Kinds /\ call[t].dev \in Devs
    BY <2>1 DEF CallsInv, CallOK
  <2>3. [kind |-> call[t].kind, dev |-> call[t].dev] \in Request
    BY <2>2 DEF Request
  <2> QED BY <2>1, <2>3, GatewayAssumption DEF CloudInv
<1>2. ASSUME NEW id \in DOMAIN requests, CloudAnswers(id) PROVE CloudInv'
  BY <1>2 DEF CloudAnswers, CloudInv
<1>3. ASSUME UNCHANGED <<requests, granted, answered>> PROVE CloudInv'
  BY <1>3 DEF CloudInv
<1>4. ASSUME NEW t \in Threads,
             \/ Lock(t) \/ SlaveClose(t) \/ AlreadyRegistered(t) \/ SendFails(t)
             \/ CacheCheck(t) \/ CacheAdd(t) \/ InsertNode(t) \/ SemaphoreTaken(t) \/ WaitTimesOut(t)
             \/ TakeResult(t) \/ DropNode(t) \/ Subscribe(t) \/ Subscribed(t) \/ InitializeCompleted(t)
             \/ UnlockEarly(t) \/ Unlock(t)
      PROVE  UNCHANGED <<requests, granted, answered>>
  BY <1>4 DEF Lock, SlaveClose, AlreadyRegistered, SendFails, CacheCheck, CacheAdd, InsertNode,
     SemaphoreTaken, WaitTimesOut, TakeResult, DropNode, Subscribe, Subscribed, InitializeCompleted,
     UnlockEarly, Unlock, cloudVars
<1>5. ASSUME \/ \E d \in Devs : SlaveOpen(d)
             \/ \E t \in Callers : Calls(t)
             \/ Tick \/ DispatchEnds \/ DispatchSync \/ PostResult \/ DispatchEvent
             \/ DispatchPropertySet \/ CallbackReturns
             \/ \E t \in Threads : (\E r \in replies : ReceiveReply(t, r)) \/ ReceivePropertySet(t)
             \/ UseReply \/ RemoveCached
             \/ \E n \in cache : GrowsOld(n)
             \/ UNCHANGED vars
      PROVE  UNCHANGED <<requests, granted, answered>>
  BY <1>5 DEF SlaveOpen, Calls, Begin, Tick, Expires, DispatchEnds, DispatchSync, PostResult,
     DispatchEvent, DispatchPropertySet, CallbackReturns, ReceiveReply, ReceivePropertySet, UseReply,
     RemoveCached, GrowsOld, vars, cloudVars
<1> QED BY <1>1, <1>2, <1>3, <1>4, <1>5, NextSteps

-----------------------------------------------------------------------------
(* The cache and the mutex of dm_api.c.                                      *)

\* Nothing is filed, and no call comes to where it files or subscribes.
LEMMA ApiKept ==
  ASSUME ApiInv, NEW t \in Threads, \A u \in Threads \ {t} : call'[u] = call[u],
         call'[t].pc \notin {"cache", "cache_add", "subscribing"}, cache' = cache,
         api' = api \/ (api' = None /\ api \in {None, t})
  PROVE  ApiInv'
BY GatewayAssumption DEF ApiInv

LEMMA ApiShrinks ==
  ASSUME ApiInv, UNCHANGED <<call, api>>, cache' \subseteq CacheNode, IsFiniteSet(cache'),
         Cardinality(cache') <= Cardinality(cache)
  PROVE  ApiInv'
<1>1. Cardinality(cache) \in Nat /\ Cardinality(cache') \in Nat
  BY FS_CardinalityType DEF ApiInv
<1> QED BY <1>1, GatewayAssumption DEF ApiInv

LEMMA ApiStep == CloudInv /\ CallsInv /\ ApiInv /\ [Next]_vars => ApiInv'
<1> SUFFICES ASSUME CloudInv, CallsInv, ApiInv, [Next]_vars PROVE ApiInv'
  OBVIOUS
<1> USE GatewayAssumption
<1>0. call \in [Threads -> Call] /\ \A t \in Threads : CallOK(call[t])
  BY DEF CallsInv
<1>1. ASSUME NEW t \in Threads,
             \/ Lock(t) \/ SlaveClose(t) \/ AlreadyRegistered(t) \/ SendFails(t)
             \/ TakeResult(t) \/ DropNode(t) \/ Subscribed(t) \/ InitializeCompleted(t)
             \/ UnlockEarly(t) \/ Unlock(t)
      PROVE  ApiInv'
  <2>1. /\ \A u \in Threads \ {t} : call'[u] = call[u]
        /\ call'[t].pc \notin {"cache", "cache_add", "subscribing"}
    BY <1>1, StepOutcome
  <2>2. cache' = cache /\ (api' = api \/ Subscribed(t))
    BY <1>1 DEF Lock, SlaveClose, AlreadyRegistered, SendFails, TakeResult, DropNode, Subscribed,
                InitializeCompleted, UnlockEarly, Unlock, listVars
  <2>3. Subscribed(t) => api' = None /\ api = t
    BY DEF Subscribed, ApiInv
  <2> QED BY <2>1, <2>2, <2>3, ApiKept
<1>2. ASSUME NEW t \in Threads, InsertNode(t) \/ SemaphoreTaken(t) \/ WaitTimesOut(t)
      PROVE  ApiInv'
  <2>1. UNCHANGED <<api, cache>>
    BY <1>2 DEF InsertNode, SemaphoreTaken, WaitTimesOut, listVars
  <2>2. PICK pc \in {"wait", "take", "drop"} : Goto(t, pc)
    BY <1>2 DEF InsertNode, SemaphoreTaken, WaitTimesOut
  <2>3. /\ \A u \in Threads \ {t} : call'[u] = call[u]
        /\ call'[t].pc \notin {"cache", "cache_add", "subscribing"}
    BY <1>0, <2>2, GotoMoves DEF Moves, Pcs
  <2> QED BY <2>1, <2>3, ApiKept
<1>3. CASE (\E t \in Callers : Calls(t)) \/ DispatchPropertySet
  <2>1. PICK t \in Threads :
          call'[t].pc = "lock" /\ \A u \in Threads \ {t} : call'[u] = call[u]
    BY <1>3, CalledOutcome
  <2>2. UNCHANGED <<api, cache>>
    BY <1>3 DEF Calls, Begin, DispatchPropertySet, listVars
  <2> QED BY <2>1, <2>2, ApiKept
<1>4. ASSUME NEW t \in Threads, Send(t) PROVE ApiInv'
  <2>1. api = None /\ api' = t /\ UNCHANGED cache
    BY <1>4 DEF Send, listVars
  <2>2. \A u \in Threads : call[u].pc \notin {"cache", "cache_add", "subscribing"}
    BY <2>1 DEF ApiInv, Threads
  <2>3. \E r : r.pc = "cache" /\ call' = [call EXCEPT ![t] = r]
    <3> DEFINE r == [call[t] EXCEPT !.pc = "cache", !.id = Len(requests) + 1,
                       !.ids = IF call[t].kind = "devinfo" THEN call[t].ids
                               ELSE call[t].ids \cup {Len(requests) + 1}]
    <3>1. call' = [call EXCEPT ![t] = r]
      BY <1>4 DEF Send
    <3>2. r.pc = "cache"
      <4>1. call[t] \in Call
        BY <1>0
      <4> QED BY <4>1 DEF Call
    <3> HIDE DEF r
    <3> QED BY <3>1, <3>2
  <2>4. call'[t].pc = "cache" /\ \A u \in Threads \ {t} : call'[u] = call[u]
    BY <1>0, <2>3
  <2> QED BY <2>1, <2>2, <2>4 DEF ApiInv
<1>5. ASSUME NEW t \in Threads, CacheCheck(t) PROVE ApiInv'
  <2>1. cache' = cache /\ call[t].pc = "cache" /\ api = t
    BY <1>5 DEF CacheCheck, listVars, ApiInv
  <2>2. CASE CacheHasRoom
    <3>1. Goto(t, "cache_add") /\ api' = api
      BY <1>5, <2>2 DEF CacheCheck
    <3>2. call'[t].pc = "cache_add" /\ \A u \in Threads \ {t} : call'[u] = call[u]
      BY <1>0, <3>1, GotoMoves DEF Moves, Pcs
    <3> QED BY <2>1, <2>2, <3>1, <3>2 DEF ApiInv, CacheHasRoom
  <2>3. CASE ~CacheHasRoom
    <3>1. /\ \A u \in Threads \ {t} : call'[u] = call[u]
          /\ call'[t].pc \notin {"cache", "cache_add", "subscribing"}
      BY <1>5, <2>3, StepOutcome
    <3>2. api' = None
      BY <1>5, <2>3 DEF CacheCheck, Requested
    <3> QED BY <2>1, <3>1, <3>2, ApiKept
  <2> QED BY <2>2, <2>3
<1>6. ASSUME NEW t \in Threads, CacheAdd(t) PROVE ApiInv'
  <2> DEFINE n == [id |-> call[t].id, kind |-> call[t].kind, dev |-> call[t].dev, old |-> FALSE]
  <2>1. cache' = cache \cup {n} /\ api' = None /\ call[t].pc = "cache_add"
    BY <1>6 DEF CacheAdd, Requested
  <2>2. n \in CacheNode
    <3>1. call[t].id \in 1..MaxId /\ call[t].kind \in Kinds /\ call[t].dev \in Devs
      BY <1>0, <2>1, CallTyped DEF CallOK, Asking
    <3> QED BY <3>1 DEF CacheNode
  <2> HIDE DEF n
  <2>3. api = t /\ IsFiniteSet(cache) /\ Cardinality(cache) < CacheMax /\ Cardinality(cache) \in Nat
    BY <2>1, FS_CardinalityType DEF ApiInv
  <2>4. IsFiniteSet(cache') /\ Cardinality(cache') <= CacheMax
    <3>1. /\ IsFiniteSet(cache')
          /\ Cardinality(cache') = IF n \in cache THEN Cardinality(cache) ELSE Cardinality(cache) + 1
      BY <2>1, <2>3, FS_AddElement
    <3> QED BY <2>3, <3>1
  <2>5. /\ \A u \in Threads \ {t} : call'[u] = call[u]
        /\ call'[t].pc \notin {"cache", "cache_add", "subscribing"}
    BY <1>6, StepOutcome
  <2>6. \A u \in Threads : call'[u].pc \notin {"cache", "cache_add", "subscribing"}
    BY <2>3, <2>5 DEF ApiInv
  <2> QED BY <2>1, <2>2, <2>4, <2>6 DEF ApiInv
<1>7. CASE Tick \/ RemoveCached
  <2>1. UNCHANGED <<call, api>> /\ cache' \subseteq cache
    BY <1>7 DEF Tick, Expires, RemoveCached, apiVars
  <2>2. IsFiniteSet(cache') /\ Cardinality(cache') <= Cardinality(cache)
    BY <2>1, FS_Subset DEF ApiInv
  <2> QED BY <2>1, <2>2, ApiShrinks DEF ApiInv
<1>8. ASSUME NEW n \in cache, GrowsOld(n) PROVE ApiInv'
  <2> DEFINE o == [n EXCEPT !.old = TRUE]
             rest == cache \ {n}
  <2>1. UNCHANGED <<call, api>> /\ cache' = rest \cup {o}
    BY <1>8 DEF GrowsOld, apiVars
  <2>2. o \in CacheNode /\ IsFiniteSet(cache) /\ Cardinality(cache) \in Nat
    BY FS_CardinalityType DEF ApiInv, CacheNode
  <2>3. IsFiniteSet(rest) /\ Cardinality(rest) = Cardinality(cache) - 1
    BY <2>2, FS_RemoveElement
  <2> HIDE DEF o, rest
  <2>4. IsFiniteSet(cache') /\ Cardinality(cache') <= Cardinality(cache)
    BY <2>1, <2>2, <2>3, FS_AddElement
  <2>5. rest \subseteq cache
    BY DEF rest
  <2> QED BY <2>1, <2>2, <2>4, <2>5, ApiShrinks DEF ApiInv
<1>9. ASSUME \/ \E d \in Devs : SlaveOpen(d)
             \/ DispatchEnds \/ DispatchSync \/ PostResult \/ DispatchEvent \/ CallbackReturns
             \/ \E id \in DOMAIN requests : CloudAnswers(id)
             \/ \E t \in Threads : (\E r \in replies : ReceiveReply(t, r)) \/ ReceivePropertySet(t)
             \/ UseReply \/ UNCHANGED vars
      PROVE  ApiInv'
  <2>1. UNCHANGED <<call, api, cache>>
    BY <1>9 DEF SlaveOpen, DispatchEnds, DispatchSync, PostResult, DispatchEvent, CallbackReturns,
       CloudAnswers, ReceiveReply, ReceivePropertySet, UseReply, vars, apiVars, listVars
  <2> QED BY <2>1 DEF ApiInv
<1>10. ASSUME NEW t \in Threads, Subscribe(t) PROVE ApiInv'
  <2>1. api = None /\ cache' = cache
    BY <1>10 DEF Subscribe, listVars
  <2>2. CASE api' = t /\ Goto(t, "subscribing")
    <3>1. \A u \in Threads : call[u].pc \notin {"cache", "cache_add", "subscribing"}
      BY <2>1 DEF ApiInv, Threads
    <3>2. call'[t].pc = "subscribing" /\ \A u \in Threads \ {t} : call'[u] = call[u]
      BY <1>0, <2>2, GotoMoves DEF Moves, Pcs
    <3> QED BY <2>1, <2>2, <3>1, <3>2 DEF ApiInv
  <2>3. CASE api' = api /\ Finish(t, FALSE)
    <3>1. call'[t].pc = "unlock" /\ \A u \in Threads \ {t} : call'[u] = call[u]
      BY <1>0, <2>3, FinishMoves DEF Moves
    <3> QED BY <2>1, <2>3, <3>1, ApiKept
  <2> QED BY <1>10, <2>2, <2>3 DEF Subscribe
<1> QED BY <1>1, <1>2, <1>3, <1>4, <1>5, <1>6, <1>7, <1>8, <1>9, <1>10, NextSteps

-----------------------------------------------------------------------------
(* The nodes of the waiting calls.                                           *)

\* The nodes stay, and no call comes to where it has one.
LEMMA NodeKept ==
  ASSUME NodeInv, NEW t \in Threads, \A u \in Threads \ {t} : call'[u] = call[u],
         ~HasNode(call[t])', UNCHANGED <<upstream, node, disp>>, granted \subseteq granted'
  PROVE  NodeInv'
<1>1. ASSUME NEW u \in Threads, HasNode(call[u])'
      PROVE  /\ node'[call'[u].id] # None
             /\ (node'[call'[u].id].sem > 0 \/ call'[u].pc = "take") /\ node'[call'[u].id].ok
                  => call'[u].id \in granted'
  <2>1. u # t /\ call'[u] = call[u]
    BY <1>1
  <2>2. HasNode(call[u])
    BY <1>1, <2>1 DEF HasNode
  <2> QED BY <2>1, <2>2 DEF NodeInv
<1> QED BY <1>1 DEF NodeInv

\* A dispatching thread that is not in the middle of a post.
LEMMA DispKept ==
  ASSUME NodeInv, UNCHANGED <<upstream, node, granted>>, disp' \in Disp,
         disp.at # "post", disp'.at # "post",
         NEW t \in Threads, \A u \in Threads \ {t} : call'[u] = call[u],
         call' = call \/ ~HasNode(call[t])'
  PROVE  NodeInv'
<1>1. ASSUME NEW u \in Threads, HasNode(call[u])'
      PROVE  /\ node'[call'[u].id] # None
             /\ (node'[call'[u].id].sem > 0 \/ call'[u].pc = "take") /\ node'[call'[u].id].ok
                  => call'[u].id \in granted'
  <2>1. call'[u] = call[u]
    BY <1>1
  <2>2. HasNode(call[u])
    BY <1>1, <2>1 DEF HasNode
  <2> QED BY <2>1, <2>2 DEF NodeInv
<1> QED BY <1>1 DEF NodeInv

\* The node of the call that moves changes, those of the others stay.
LEMMA OwnNodeChanges ==
  ASSUME CallsInv, NodeInv, NEW t \in Threads, \A u \in Threads \ {t} : call'[u] = call[u],
         call'[t].id = call[t].id \/ ~HasNode(call[t])', Asking(call[t]),
         NEW n \in {None} \cup SyncNode, node' = [node EXCEPT ![call[t].id] = n],
         UNCHANGED <<upstream, disp, granted>>, disp.at # "post" \/ n # None,
         HasNode(call[t])' => /\ n # None
                              /\ (n.sem > 0 \/ call'[t].pc = "take") /\ n.ok
                                   => call[t].id \in granted
  PROVE  NodeInv'
<1> DEFINE k == call[t].id
<1>1. k # 0 /\ k \in 1..MaxId
  BY CallTyped DEF CallsInv, CallOK
<1>2. /\ node' \in [1..MaxId -> {None} \cup SyncNode] /\ node'[k] = n
      /\ \A i \in 1..MaxId \ {k} : node'[i] = node[i]
  BY <1>1 DEF NodeInv
<1>3. ASSUME NEW u \in Threads, HasNode(call[u])'
      PROVE  /\ node'[call'[u].id] # None
             /\ (node'[call'[u].id].sem > 0 \/ call'[u].pc = "take") /\ node'[call'[u].id].ok
                  => call'[u].id \in granted'
  <2>1. CASE u = t
    BY <1>2, <1>3, <2>1
  <2>2. CASE u # t
    <3>1. call'[u] = call[u] /\ HasNode(call[u])
      BY <1>3, <2>2 DEF HasNode
    <3>2. call[u].id \in 1..MaxId /\ call[u].id # k
      BY <1>1, <2>2, <3>1, CallTyped DEF CallsInv, CallOK, Asking, HasNode, IdsDiffer
    <3> QED BY <1>2, <3>1, <3>2 DEF NodeInv
  <2> QED BY <2>1, <2>2
<1>4. disp.at = "post" => node'[disp.id] # None
  BY <1>2 DEF NodeInv, Disp
<1> QED BY <1>2, <1>3, <1>4 DEF NodeInv

LEMMA DispUpdated ==
  ASSUME NEW d \in Disp, NEW at \in {"yield", "dispatch", "callback"}, NEW left \in 0..IpcMax
  PROVE  /\ [d EXCEPT !.at = at, !.left = left] \in Disp
         /\ [d EXCEPT !.at = at, !.left = left].at = at
         /\ [d EXCEPT !.at = at] \in Disp /\ [d EXCEPT !.at = at].at = at
         /\ [d EXCEPT !.at = at, !.id = 0, !.ok = FALSE] \in Disp
         /\ [d EXCEPT !.at = at, !.id = 0, !.ok = FALSE].at = at
         /\ d.left > 0 => d.left - 1 \in 0..IpcMax
<1>1. /\ d.left \in 0..IpcMax /\ IpcMax \in Nat /\ 0 \in 0..MaxId
      /\ at \in {"yield", "dispatch", "post", "callback"}
  BY GatewayAssumption DEF Disp
<1>2. d.left > 0 => d.left - 1 \in 0..IpcMax
  BY <1>1
<1>3. [d EXCEPT !.at = at, !.left = left] \in Disp /\ [d EXCEPT !.at = at, !.left = left].at = at
  BY <1>1 DEF Disp
<1>4. [d EXCEPT !.at = at] \in Disp /\ [d EXCEPT !.at = at].at = at
  BY <1>1 DEF Disp
<1>5. /\ [d EXCEPT !.at = at, !.id = 0, !.ok = FALSE] \in Disp
      /\ [d EXCEPT !.at = at, !.id = 0, !.ok = FALSE].at = at
  BY <1>1 DEF Disp
<1> QED BY <1>2, <1>3, <1>4, <1>5

LEMMA NodeStep == CloudInv /\ CallsInv /\ EventsInv /\ NodeInv /\ [Next]_vars => NodeInv'
<1> SUFFICES ASSUME CloudInv, CallsInv, EventsInv, NodeInv, [Next]_vars PROVE NodeInv'
  OBVIOUS
<1> USE GatewayAssumption
<1>0. call \in [Threads -> Call] /\ \A t \in Threads : CallOK(call[t])
  BY DEF CallsInv
<1>1. ASSUME NEW t \in Threads,
             \/ Lock(t) \/ SlaveClose(t) \/ AlreadyRegistered(t) \/ SendFails(t)
             \/ (CacheCheck(t) /\ ~CacheHasRoom) \/ CacheAdd(t)
             \/ Subscribed(t) \/ InitializeCompleted(t)
             \/ UnlockEarly(t) \/ Unlock(t)
      PROVE  NodeInv'
  <2>1. /\ \A u \in Threads \ {t} : call'[u] = call[u]
        /\ ~HasNode(call[t])'
    BY <1>1, StepOutcome DEF HasNode
  <2>2. UNCHANGED <<upstream, node, disp>> /\ granted \subseteq granted'
    BY <1>1 DEF Lock, SlaveClose, AlreadyRegistered, SendFails, CacheCheck, CacheAdd, Subscribed,
                InitializeCompleted, UnlockEarly, Unlock, listVars, cloudVars
  <2> QED BY <2>1, <2>2, NodeKept
<1>2. ASSUME NEW t \in Threads, CacheCheck(t), CacheHasRoom PROVE NodeInv'
  <2>1. Goto(t, "cache_add") /\ UNCHANGED <<upstream, node, disp, granted>>
    BY <1>2 DEF CacheCheck, listVars, cloudVars
  <2>2. (\A u \in Threads \ {t} : call'[u] = call[u]) /\ ~HasNode(call[t])'
    BY <1>0, <2>1, GotoMoves DEF Moves, Pcs, HasNode
  <2> QED BY <2>1, <2>2, NodeKept
<1>3. ASSUME NEW t \in Threads, Send(t) PROVE NodeInv'
  <2> DEFINE r == [call[t] EXCEPT !.pc = "cache", !.id = Len(requests) + 1,
                     !.ids = IF call[t].kind = "devinfo" THEN call[t].ids
                             ELSE call[t].ids \cup {Len(requests) + 1}]
  <2>1. call' = [call EXCEPT ![t] = r] /\ UNCHANGED <<upstream, node, disp, granted>>
    BY <1>3 DEF Send, listVars
  <2>2. r.pc = "cache"
    <3>1. call[t] \in Call
      BY <1>0
    <3> QED BY <3>1 DEF Call
  <2> HIDE DEF r
  <2>3. (\A u \in Threads \ {t} : call'[u] = call[u]) /\ ~HasNode(call[t])'
    BY <1>0, <2>1, <2>2 DEF HasNode
  <2> QED BY <2>1, <2>3, NodeKept
<1>4. ASSUME NEW t \in Callers, Calls(t) PROVE NodeInv'
  <2>1. PICK u \in Threads :
          call'[u].pc = "lock" /\ \A v \in Threads \ {u} : call'[v] = call[v]
    BY <1>4, CalledOutcome
  <2>2. UNCHANGED <<upstream, node, disp, granted>>
    BY <1>4 DEF Calls, Begin, listVars, cloudVars
  <2> QED BY <2>1, <2>2, NodeKept DEF HasNode
<1>5. ASSUME NEW t \in Threads, TakeResult(t) \/ DropNode(t) PROVE NodeInv'
  <2>1. /\ \A u \in Threads \ {t} : call'[u] = call[u]
        /\ ~HasNode(call[t])'
    BY <1>5, StepOutcome DEF HasNode
  <2>2. /\ upstream = None /\ node' = [node EXCEPT ![call[t].id] = None]
        /\ UNCHANGED <<upstream, disp, granted>> /\ Asking(call[t])
    BY <1>5 DEF TakeResult, DropNode, cloudVars, Asking
  <2>3. disp.at # "post"
    BY <2>2 DEF NodeInv, Threads
  <2> QED BY <2>1, <2>2, <2>3, OwnNodeChanges
<1>6. ASSUME NEW t \in Threads, InsertNode(t) PROVE NodeInv'
  <2> DEFINE n == [sem |-> 0, ok |-> TRUE]
  <2>1. /\ upstream = None /\ node' = [node EXCEPT ![call[t].id] = n] /\ Goto(t, "wait")
        /\ UNCHANGED <<upstream, disp, granted>> /\ Asking(call[t])
    BY <1>6 DEF InsertNode, cloudVars, Asking
  <2>2. /\ \A u \in Threads \ {t} : call'[u] = call[u]
        /\ call'[t].id = call[t].id /\ call'[t].pc = "wait"
    BY <1>0, <2>1, GotoMoves DEF Moves, Pcs
  <2>3. n \in SyncNode /\ n # None /\ n.sem = 0
    <3>1. n \in SyncNode /\ n.sem = 0
      BY DEF SyncNode
    <3> QED BY <3>1
  <2>4. disp.at # "post"
    BY <2>1 DEF NodeInv, Threads
  <2> HIDE DEF n
  <2>5. ~(n.sem > 0 \/ call'[t].pc = "take")
    BY <2>2, <2>3
  <2> QED BY <2>1, <2>2, <2>3, <2>4, <2>5, OwnNodeChanges
<1>7. ASSUME NEW t \in Threads, SemaphoreTaken(t) PROVE NodeInv'
  <2> DEFINE k == call[t].id
             n == [node[k] EXCEPT !.sem = @ - 1]
  <2>1. /\ call[t].pc = "wait" /\ node[k].sem > 0 /\ Goto(t, "take")
        /\ node' = [node EXCEPT ![k] = n]
        /\ UNCHANGED <<upstream, disp, granted>> /\ Asking(call[t]) /\ HasNode(call[t])
    BY <1>7 DEF SemaphoreTaken, cloudVars, Asking, HasNode
  <2>2. /\ \A u \in Threads \ {t} : call'[u] = call[u]
        /\ call'[t].id = k
    BY <1>0, <2>1, GotoMoves DEF Moves, Pcs
  <2>3. node[k] \in SyncNode /\ (node[k].ok => k \in granted)
    <3>1. k \in 1..MaxId
      BY <1>0, <2>1, CallTyped DEF CallOK
    <3> QED BY <2>1, <3>1 DEF NodeInv
  <2>4. n \in SyncNode /\ n # None /\ n.ok = node[k].ok
    BY <2>1, <2>3 DEF SyncNode
  <2> HIDE DEF n
  <2> QED BY <2>1, <2>2, <2>3, <2>4, OwnNodeChanges
<1>8. ASSUME NEW t \in Threads, WaitTimesOut(t) PROVE NodeInv'
  <2>1. call[t].pc = "wait" /\ Goto(t, "drop") /\ UNCHANGED <<upstream, node, disp, granted>>
    BY <1>8 DEF WaitTimesOut, listVars, cloudVars
  <2>2. /\ \A u \in Threads \ {t} : call'[u] = call[u]
        /\ call'[t].id = call[t].id /\ call'[t].pc = "drop"
    BY <1>0, <2>1, GotoMoves DEF Moves, Pcs
  <2>3. \A u \in Threads : HasNode(call[u])' =>
          call'[u].id = call[u].id /\ HasNode(call[u]) /\ (call'[u].pc = "take" => call[u].pc = "take")
    <3> TAKE u \in Threads
    <3>1. CASE u = t
      BY <2>1, <2>2, <3>1 DEF HasNode
    <3>2. CASE u # t
      BY <2>2, <3>2 DEF HasNode
    <3> QED BY <3>1, <3>2
  <2> QED BY <2>1, <2>3 DEF NodeInv
<1>9. CASE PostResult
  <2> DEFINE k == disp.id
             n == [sem |-> node[k].sem + 1, ok |-> disp.ok]
  <2>1. /\ disp.at = "post" /\ k \in 1..MaxId /\ node[k] \in SyncNode
        /\ disp.ok \in BOOLEAN /\ (disp.ok => k \in granted)
    BY <1>9 DEF PostResult, NodeInv, Disp
  <2>2. /\ node' = [node EXCEPT ![k] = n] /\ upstream' = None
        /\ disp' = [disp EXCEPT !.at = "dispatch", !.id = 0, !.ok = FALSE]
        /\ UNCHANGED <<call, granted>>
    <3>1. node[k] # None
      BY <2>1
    <3> QED BY <1>9, <3>1 DEF PostResult, apiVars, cloudVars
  <2>3. n \in SyncNode /\ n # None /\ n.ok = disp.ok
    BY <2>1 DEF SyncNode
  <2> HIDE DEF n
  <2>4. /\ node' \in [1..MaxId -> {None} \cup SyncNode] /\ node'[k] = n
        /\ \A i \in 1..MaxId \ {k} : node'[i] = node[i]
    BY <2>1, <2>2, <2>3 DEF NodeInv
  <2>5. disp' \in Disp /\ disp'.at = "dispatch"
    <3>1. disp \in Disp /\ 0 \in 0..IpcMax
      BY DEF NodeInv
    <3> QED BY <2>2, <3>1, DispUpdated
  <2>6. ASSUME NEW u \in Threads, HasNode(call[u])
        PROVE  /\ node'[call[u].id] # None
               /\ (node'[call[u].id].sem > 0 \/ call[u].pc = "take") /\ node'[call[u].id].ok
                    => call[u].id \in granted
    <3>1. call[u].id \in 1..MaxId
      BY <1>0, <2>6, CallTyped DEF CallOK, Asking, HasNode
    <3>2. CASE call[u].id = k
      BY <2>1, <2>3, <2>4, <3>2
    <3>3. CASE call[u].id # k
      BY <2>4, <2>6, <3>1, <3>3 DEF NodeInv
    <3> QED BY <3>2, <3>3
  <2>7. upstream' # Dispatcher
    BY <2>2 DEF Threads
  <2> QED BY <2>2, <2>4, <2>5, <2>6, <2>7 DEF NodeInv, HasNode
<1>10. CASE DispatchSync
  <2> DEFINE e == Head(ipc)
  <2>1. EventOK(e) /\ e.kind \in SyncKinds
    <3>1. ipc # <<>> /\ e.kind \in SyncKinds
      BY <1>10 DEF DispatchSync, Dispatches
    <3>2. e = ipc[1] /\ 1 \in 1..Len(ipc)
      BY <3>1 DEF EventsInv
    <3> QED BY <3>1, <3>2 DEF EventsInv
  <2>2. e.id # 0 /\ e.id \in 0..MaxId /\ e.ok \in BOOLEAN /\ (e.ok => e.id \in granted)
    BY <2>1 DEF EventOK, EventRec
  <2>3. /\ disp.at = "dispatch" /\ disp.left - 1 \in 0..IpcMax /\ disp.left > 0
        /\ UNCHANGED <<call, node, granted>>
    BY <1>10 DEF DispatchSync, Dispatches, NodeInv, Disp, apiVars, cloudVars
  <2> HIDE DEF e
  <2>4. CASE node[e.id] = None
    <3>1. UNCHANGED upstream /\ disp' = [disp EXCEPT !.at = "dispatch", !.left = @ - 1]
      BY <1>10, <2>4 DEF DispatchSync, Dispatched, e
    <3>2. disp' \in Disp /\ disp'.at = "dispatch"
      BY <2>3, <3>1 DEF NodeInv, Disp
    <3> QED BY <2>3, <3>1, <3>2, DispKept DEF Threads
  <2>5. CASE node[e.id] # None
    <3>1. /\ upstream' = Dispatcher
          /\ disp' = [at |-> "post", id |-> e.id, ok |-> e.ok, left |-> disp.left - 1]
      BY <1>10, <2>5 DEF DispatchSync, e
    <3>2. /\ disp' \in Disp /\ disp'.at = "post" /\ disp'.id = e.id /\ disp'.ok = e.ok
      BY <2>2, <2>3, <3>1 DEF Disp
    <3> QED BY <2>2, <2>3, <2>5, <3>1, <3>2 DEF NodeInv, HasNode
  <2> QED BY <2>4, <2>5
<1>11. CASE Tick \/ DispatchEnds \/ DispatchEvent \/ CallbackReturns
  <2>1. /\ disp.at \in {"yield", "dispatch", "callback"} /\ UNCHANGED <<call, upstream, node, granted>>
        /\ \/ disp' = [disp EXCEPT !.at = "dispatch", !.left = IpcMax]
           \/ disp' = [disp EXCEPT !.at = "yield", !.left = 0]
           \/ disp.left > 0 /\ disp' = [disp EXCEPT !.at = "dispatch", !.left = disp.left - 1]
           \/ disp' = [disp EXCEPT !.at = "dispatch"]
    BY <1>11 DEF Tick, Expires, DispatchEnds, DispatchEvent, Dispatches, Dispatched, CallbackReturns,
                 apiVars, listVars, cloudVars
  <2>2. disp' \in Disp /\ disp'.at # "post"
    <3>1. disp \in Disp /\ IpcMax \in 0..IpcMax /\ 0 \in 0..IpcMax
      BY DEF NodeInv
    <3>2. CASE disp' = [disp EXCEPT !.at = "dispatch", !.left = IpcMax]
      BY <3>1, <3>2, DispUpdated
    <3>3. CASE disp' = [disp EXCEPT !.at = "yield", !.left = 0]
      BY <3>1, <3>3, DispUpdated
    <3>4. CASE disp.left > 0 /\ disp' = [disp EXCEPT !.at = "dispatch", !.left = disp.left - 1]
      BY <3>1, <3>4, DispUpdated
    <3>5. CASE disp' = [disp EXCEPT !.at = "dispatch"]
      BY <3>1, <3>5, DispUpdated
    <3> QED BY <2>1, <3>2, <3>3, <3>4, <3>5
  <2> QED BY <2>1, <2>2, DispKept DEF Threads
<1>12. CASE DispatchPropertySet
  <2>1. /\ disp.at = "dispatch" /\ disp.left > 0 /\ UNCHANGED <<upstream, node, granted>>
        /\ disp' = [disp EXCEPT !.at = "callback", !.left = disp.left - 1]
    BY <1>12 DEF DispatchPropertySet, Dispatches, Dispatched, cloudVars
  <2>2. disp' \in Disp /\ disp'.at # "post"
    <3>1. disp \in Disp /\ IpcMax \in 0..IpcMax /\ 0 \in 0..IpcMax
      BY DEF NodeInv
    <3> QED BY <2>1, <3>1, DispUpdated
  <2>3. PICK t \in Threads :
          call'[t].pc = "lock" /\ \A u \in Threads \ {t} : call'[u] = call[u]
    BY <1>12, CalledOutcome
  <2>4. ~HasNode(call[t])'
    BY <2>3 DEF HasNode
  <2> QED BY <2>1, <2>2, <2>3, <2>4, DispKept
<1>13. ASSUME \/ \E d \in Devs : SlaveOpen(d)
              \/ \E id \in DOMAIN requests : CloudAnswers(id)
              \/ \E t \in Threads : (\E r \in replies : ReceiveReply(t, r)) \/ ReceivePropertySet(t)
              \/ UseReply \/ RemoveCached
              \/ \E n \in cache : GrowsOld(n)
              \/ UNCHANGED vars
       PROVE  NodeInv'
  <2>1. UNCHANGED <<call, upstream, node, disp>> /\ granted \subseteq granted'
    BY <1>13 DEF SlaveOpen, CloudAnswers, ReceiveReply, ReceivePropertySet, UseReply, RemoveCached,
                 GrowsOld, vars, apiVars, listVars, cloudVars
  <2> QED BY <2>1 DEF NodeInv, HasNode
<1>14. ASSUME NEW t \in Threads, Subscribe(t) PROVE NodeInv'
  <2>1. /\ UNCHANGED <<upstream, node, disp, granted>>
        /\ Goto(t, "subscribing") \/ Finish(t, FALSE)
    BY <1>14 DEF Subscribe, listVars, cloudVars
  <2>2. (\A u \in Threads \ {t} : call'[u] = call[u]) /\ ~HasNode(call[t])'
    BY <1>0, <2>1, GotoMoves, FinishMoves DEF Moves, Pcs, HasNode
  <2> QED BY <2>1, <2>2, NodeKept
<1> QED BY <1>1, <1>2, <1>3, <1>4, <1>5, <1>6, <1>7, <1>8, <1>9, <1>10, <1>11, <1>12, <1>13,
           <1>14, NextSteps

-----------------------------------------------------------------------------
(* The answers and the events on their way.                                  *)

QueueOK(q) == q \in Seq(EventRec) /\ Len(q) <= IpcMax /\ \A i \in 1..Len(q) : EventOK(q[i])

LEMMA EventMade ==
  ASSUME NEW kind, NEW id \in 0..MaxId, NEW ok \in BOOLEAN,
         kind \in SyncKinds => id # 0 /\ (ok => id \in granted)
  PROVE  EventOK(Event(kind, id, ok))
<1>1. 0 \in 0..MaxId
  BY GatewayAssumption
<1> QED BY <1>1 DEF EventOK, EventRec, Event, SyncKinds

LEMMA QueuedForUser ==
  ASSUME QueueOK(ipc), NEW e, EventOK(e)
  PROVE  QueueOK(ToUser(e))
<1>1. CASE Len(ipc) < IpcMax
  <2>1. ToUser(e) = Append(ipc, e) /\ e \in EventRec /\ ipc \in Seq(EventRec)
    BY <1>1 DEF ToUser, EventOK, QueueOK
  <2>2. /\ Append(ipc, e) \in Seq(EventRec) /\ Len(Append(ipc, e)) = Len(ipc) + 1
        /\ \A i \in 1..(Len(ipc) + 1) : Append(ipc, e)[i] = IF i <= Len(ipc) THEN ipc[i] ELSE e
    BY <2>1
  <2>3. Len(ipc) + 1 <= IpcMax /\ Len(ipc) \in Nat
    BY <1>1, <2>1, GatewayAssumption
  <2> QED BY <2>1, <2>2, <2>3 DEF QueueOK
<1>2. CASE ~(Len(ipc) < IpcMax)
  BY <1>2 DEF ToUser
<1> QED BY <1>1, <1>2

LEMMA QueueTail ==
  ASSUME QueueOK(ipc), ipc # <<>>
  PROVE  QueueOK(Tail(ipc))
<1>1. /\ ipc \in Seq(EventRec) /\ Len(ipc) \in Nat /\ Len(ipc) > 0
      /\ Tail(ipc) \in Seq(EventRec) /\ Len(Tail(ipc)) = Len(ipc) - 1
      /\ \A i \in 1..(Len(ipc) - 1) : Tail(ipc)[i] = ipc[i + 1]
  BY DEF QueueOK
<1> QED BY <1>1, GatewayAssumption DEF QueueOK

\* What the tick leaves in the queue.
LEMMA QueueExpires ==
  ASSUME QueueOK(ipc), NEW n \in Nat, NEW new \in [1..n -> EventRec],
         \A i \in 1..n : EventOK(new[i]),
         NEW q, q = SubSeq(ipc \o new, 1, IF Len(ipc \o new) <= IpcMax THEN Len(ipc \o new) ELSE IpcMax)
  PROVE  QueueOK(q)
<1> DEFINE all == ipc \o new
           m == IF Len(all) <= IpcMax THEN Len(all) ELSE IpcMax
<1>1. ipc \in Seq(EventRec) /\ new \in Seq(EventRec) /\ Len(new) = n
  BY DEF QueueOK
<1>2. /\ all \in Seq(EventRec) /\ Len(all) = Len(ipc) + Len(new)
      /\ \A i \in 1..(Len(ipc) + Len(new)) :
           all[i] = IF i <= Len(ipc) THEN ipc[i] ELSE new[i - Len(ipc)]
  BY <1>1, ConcatProperties, Zenon
<1>3. \A i \in 1..Len(all) : EventOK(all[i])
  <2> TAKE i \in 1..Len(all)
  <2>1. Len(ipc) \in Nat /\ Len(new) = n /\ i \in Nat
    BY <1>1, <1>2
  <2>2. CASE i <= Len(ipc)
    <3>1. i \in 1..Len(ipc) /\ all[i] = ipc[i]
      BY <1>2, <2>1, <2>2
    <3> QED BY <3>1 DEF QueueOK
  <2>3. CASE ~(i <= Len(ipc))
    <3>1. i - Len(ipc) \in 1..n /\ all[i] = new[i - Len(ipc)]
      BY <1>2, <2>1, <2>3
    <3> QED BY <3>1
  <2> QED BY <2>2, <2>3
<1> HIDE DEF all
<1>4. m \in 0..Len(all) /\ m <= IpcMax /\ Len(all) \in Nat
  BY <1>2, GatewayAssumption
<1> HIDE DEF m
<1>5. q = SubSeq(all, 1, m)
  BY DEF all, m
<1>6. q \in Seq(EventRec) /\ Len(q) = m /\ \A i \in 1..m : q[i] = all[i]
  <2>1. m \in Nat /\ \A i \in 1..m : all[i] \in EventRec
    BY <1>2, <1>4
  <2>2. /\ SubSeq(all, 1, m) \in Seq(EventRec)
        /\ Len(SubSeq(all, 1, m)) = IF 1 <= m THEN m - 1 + 1 ELSE 0
        /\ \A i \in 1..(m - 1 + 1) : SubSeq(all, 1, m)[i] = all[1 + i - 1]
    <3>1. 1 \in Int /\ m \in Int
      BY <2>1
    <3> QED BY <2>1, <3>1, SubSeqProperties
  <2>3. Len(q) = m
    <3>1. (IF 1 <= m THEN m - 1 + 1 ELSE 0) = m
      BY <2>1
    <3> QED BY <1>5, <2>2, <3>1, Zenon
  <2>4. \A i \in 1..m : 1 + i - 1 = i /\ i \in 1..(m - 1 + 1)
    BY <2>1
  <2>5. \A i \in 1..m : q[i] = all[i]
    BY <1>5, <2>2, <2>4, Zenon
  <2> QED BY <1>5, <2>2, <2>3, <2>5
<1> QED BY <1>3, <1>4, <1>6 DEF QueueOK

\* What holds of an answer, an event or the queue goes on holding while the cloud goes on.
LEMMA EventsGrow ==
  ASSUME NEW q, QueueOK(q), ipc' = q, granted \subseteq granted'
  PROVE  ipc' \in Seq(EventRec) /\ Len(ipc') <= IpcMax /\ \A i \in 1..Len(ipc') : EventOK(ipc[i])'
<1>1. \A i \in 1..Len(q) : EventOK(q[i])
  BY DEF QueueOK
<1> QED BY <1>1 DEF QueueOK, EventOK

\* The queue and what is being read change, the cloud does not.
LEMMA EventsKept ==
  ASSUME EventsInv, UNCHANGED <<requests, granted>>, QueueOK(ipc'), replies' \subseteq replies,
         rx' \in Rx,
         rx'.step # "none" => rx'.id \in 1..Len(requests) /\ (rx'.ok => rx'.id \in granted)
  PROVE  EventsInv'
<1>1. \A i \in 1..Len(ipc') : EventOK(ipc[i])'
  BY DEF QueueOK, EventOK
<1> QED BY <1>1 DEF EventsInv, QueueOK

\* The queue and the readers rest, the cloud goes on.
LEMMA EventsStay ==
  ASSUME EventsInv, UNCHANGED <<ipc, rx>>, granted \subseteq granted',
         Len(requests) \in Nat, Len(requests') \in Nat, Len(requests) <= Len(requests'),
         replies' \subseteq [id : 1..MaxId, ok : BOOLEAN],
         \A r \in replies' : r \in replies \/ (r.id <= Len(requests') /\ (r.ok => r.id \in granted'))
  PROVE  EventsInv'
<1>1. \A i \in 1..Len(ipc') : EventOK(ipc[i])'
  BY DEF EventsInv, EventOK
<1>2. \A r \in replies' : r.id <= Len(requests') /\ (r.ok => r.id \in granted')
  <2> TAKE r \in replies'
  <2>1. CASE r \in replies
    <3>1. r.id \in Nat
      BY <2>1 DEF EventsInv
    <3> QED BY <2>1, <3>1 DEF EventsInv
  <2> QED BY <2>1
<1>3. rx'.step # "none" => rx'.id \in 1..Len(requests') /\ (rx'.ok => rx'.id \in granted')
  BY DEF EventsInv
<1> QED BY <1>1, <1>2, <1>3 DEF EventsInv

LEMMA EventsStep == CloudInv /\ CallsInv /\ ApiInv /\ EventsInv /\ [Next]_vars => EventsInv'
<1> SUFFICES ASSUME CloudInv, CallsInv, ApiInv, EventsInv, [Next]_vars PROVE EventsInv'
  OBVIOUS
<1> USE GatewayAssumption
<1>0. /\ QueueOK(ipc) /\ Len(requests) \in Nat /\ Len(requests) <= MaxId /\ rx \in Rx
      /\ rx.step # "none" => rx.id \in 1..Len(requests) /\ (rx.ok => rx.id \in granted)
  BY DEF EventsInv, QueueOK, CloudInv
<1>1. ASSUME UNCHANGED <<requests, granted, replies, rx>>, QueueOK(ipc') PROVE EventsInv'
  BY <1>0, <1>1, EventsKept
<1>2. ASSUME NEW t \in Threads, Send(t) PROVE EventsInv'
  <2>1. /\ UNCHANGED <<ipc, rx, replies, granted>>
        /\ requests' = Append(requests, [kind |-> call[t].kind, dev |-> call[t].dev])
    BY <1>2 DEF Send, listVars
  <2>2. Len(requests') = Len(requests) + 1
    BY <2>1 DEF CloudInv
  <2>3. replies \subseteq [id : 1..MaxId, ok : BOOLEAN]
    BY DEF EventsInv
  <2> QED BY <1>0, <2>1, <2>2, <2>3, EventsStay
<1>3. ASSUME NEW id \in DOMAIN requests, CloudAnswers(id) PROVE EventsInv'
  <2>1. id \in 1..Len(requests) /\ id \in 1..MaxId
    BY <1>0 DEF CloudInv
  <2>2. PICK ok \in BOOLEAN :
          /\ replies' = replies \cup {[id |-> id, ok |-> ok]}
          /\ granted' = IF ok THEN granted \cup {id} ELSE granted
    BY <1>3 DEF CloudAnswers
  <2>3. UNCHANGED <<ipc, rx, requests>> /\ granted \subseteq granted' /\ (ok => id \in granted')
    BY <1>3, <2>2 DEF CloudAnswers, listVars
  <2>4. replies' \subseteq [id : 1..MaxId, ok : BOOLEAN]
    BY <2>1, <2>2 DEF EventsInv
  <2>5. \A r \in replies' : r \in replies \/ (r.id <= Len(requests') /\ (r.ok => r.id \in granted'))
    BY <2>1, <2>2, <2>3
  <2> QED BY <1>0, <2>3, <2>4, <2>5, EventsStay
<1>4. ASSUME NEW t \in Threads, NEW r \in replies, ReceiveReply(t, r) PROVE EventsInv'
  <2>1. /\ r.id \in 1..MaxId /\ r.ok \in BOOLEAN /\ r.id <= Len(requests)
        /\ r.ok => r.id \in granted
    BY DEF EventsInv
  <2>2. UNCHANGED <<ipc, requests, granted>> /\ replies' \subseteq replies
    BY <1>4 DEF ReceiveReply, listVars
  <2>3. PICK step \in {"use", "remove"} :
          rx' = [by |-> t, id |-> r.id, ok |-> r.ok, step |-> step]
    BY <1>4 DEF ReceiveReply
  <2>4. rx' \in Rx /\ rx'.id = r.id /\ rx'.ok = r.ok
    BY <2>1, <2>3 DEF Rx
  <2>5. r.id \in 1..Len(requests)
    BY <1>0, <2>1
  <2> QED BY <1>0, <2>1, <2>2, <2>4, <2>5, EventsKept
<1>5. ASSUME NEW t \in Threads, ReceivePropertySet(t) PROVE EventsInv'
  <2>1. ipc' = ToUser(SetEvent) /\ UNCHANGED <<requests, granted, replies, rx>>
    BY <1>5 DEF ReceivePropertySet
  <2>2. EventOK(SetEvent)
    BY DEF EventOK, EventRec, SyncKinds, SetEvent
  <2> QED BY <1>0, <1>1, <2>1, <2>2, QueuedForUser
<1>6. CASE UseReply
  <2> DEFINE q == requests[rx.id]
  <2>1. /\ rx.step = "use" /\ ipc' = ToUser(Event(q.kind, rx.id, rx.ok))
        /\ rx' = [rx EXCEPT !.step = "remove"] /\ UNCHANGED <<requests, granted, replies>>
    BY <1>6 DEF UseReply, cloudVars
  <2>2. rx.id \in 0..MaxId /\ rx.id # 0 /\ rx.ok \in BOOLEAN /\ (rx.ok => rx.id \in granted)
    BY <1>0, <2>1 DEF Rx
  <2>3. EventOK(Event(q.kind, rx.id, rx.ok))
    BY <2>2, EventMade
  <2>4. QueueOK(ipc')
    BY <1>0, <2>1, <2>3, QueuedForUser
  <2>5. rx' \in Rx /\ rx'.id = rx.id /\ rx'.ok = rx.ok
    BY <1>0, <2>1 DEF Rx
  <2> QED BY <1>0, <2>1, <2>4, <2>5, EventsKept
<1>7. CASE RemoveCached
  <2>1. rx' = NoRx /\ UNCHANGED <<ipc, requests, granted, replies>>
    BY <1>7 DEF RemoveCached, cloudVars
  <2>2. rx' \in Rx /\ rx'.step = "none"
    BY <2>1 DEF NoRx, Rx
  <2> QED BY <1>0, <2>1, <2>2, EventsKept
<1>8. CASE Tick
  <2> DEFINE olds == {n \in cache : n.old}
  <2>1. PICK order \in InOrder(olds) :
          LET all == ipc \o [i \in DOMAIN order |-> Event(order[i].kind, order[i].id, FALSE)]
          IN  ipc' = SubSeq(all, 1, IF Len(all) <= IpcMax THEN Len(all) ELSE IpcMax)
    BY <1>8 DEF Tick, Expires
  <2>2. PICK n \in Nat : order \in [1..n -> olds]
    <3>1. IsFiniteSet(olds)
      BY FS_Subset DEF ApiInv
    <3>2. Cardinality(olds) \in Nat
      BY <3>1, FS_CardinalityType
    <3> QED BY <3>2 DEF InOrder
  <2> DEFINE new == [i \in 1..n |-> Event(order[i].kind, order[i].id, FALSE)]
  <2>3. \A i \in 1..n : EventOK(Event(order[i].kind, order[i].id, FALSE))
    <3> TAKE i \in 1..n
    <3>1. order[i] \in CacheNode
      BY <2>2 DEF ApiInv
    <3>2. order[i].id \in 0..MaxId /\ order[i].id # 0
      BY <3>1 DEF CacheNode
    <3> QED BY <3>2, EventMade
  <2>4. new \in [1..n -> EventRec] /\ \A i \in 1..n : EventOK(new[i])
    BY <2>3 DEF EventOK
  <2>5. ipc' = SubSeq(ipc \o new, 1, IF Len(ipc \o new) <= IpcMax THEN Len(ipc \o new) ELSE IpcMax)
    <3>1. DOMAIN order = 1..n
      BY <2>2
    <3> QED BY <2>1, <3>1
  <2> HIDE DEF new
  <2>6. QueueOK(ipc')
    BY <1>0, <2>4, <2>5, QueueExpires
  <2>7. UNCHANGED <<requests, granted, replies, rx>>
    BY <1>8 DEF Tick, Expires, cloudVars
  <2> QED BY <1>1, <2>6, <2>7
<1>9. CASE DispatchSync \/ DispatchEvent \/ DispatchPropertySet
  <2>1. ipc # <<>> /\ ipc' = Tail(ipc) /\ UNCHANGED <<requests, granted, replies, rx>>
    BY <1>9 DEF DispatchSync, DispatchEvent, DispatchPropertySet, Dispatches, cloudVars
  <2> QED BY <1>0, <1>1, <2>1, QueueTail
<1>10. ASSUME NEW t \in Threads,
              \/ Lock(t) \/ SlaveClose(t) \/ AlreadyRegistered(t) \/ SendFails(t)
              \/ CacheCheck(t) \/ CacheAdd(t) \/ InsertNode(t) \/ SemaphoreTaken(t) \/ WaitTimesOut(t)
              \/ TakeResult(t) \/ DropNode(t) \/ Subscribe(t) \/ Subscribed(t) \/ InitializeCompleted(t)
              \/ UnlockEarly(t) \/ Unlock(t)
       PROVE  UNCHANGED <<ipc, rx, requests, granted, replies>>
  BY <1>10 DEF Lock, SlaveClose, AlreadyRegistered, SendFails, CacheCheck, CacheAdd, InsertNode,
     SemaphoreTaken, WaitTimesOut, TakeResult, DropNode, Subscribe, Subscribed, InitializeCompleted,
     UnlockEarly, Unlock, listVars, cloudVars
<1>11. ASSUME \/ \E d \in Devs : SlaveOpen(d)
              \/ \E t \in Callers : Calls(t)
              \/ DispatchEnds \/ PostResult \/ CallbackReturns
              \/ \E n \in cache : GrowsOld(n)
              \/ UNCHANGED vars
       PROVE  UNCHANGED <<ipc, rx, requests, granted, replies>>
  BY <1>11 DEF SlaveOpen, Calls, Begin, DispatchEnds, PostResult, CallbackReturns, GrowsOld,
     vars, listVars, cloudVars
<1>12. ASSUME UNCHANGED <<ipc, rx, requests, granted, replies>> PROVE EventsInv'
  BY <1>12 DEF EventsInv, EventOK
<1> QED BY <1>2, <1>3, <1>4, <1>5, <1>6, <1>7, <1>8, <1>9, <1>10, <1>11, <1>12, NextSteps

-----------------------------------------------------------------------------
(* The mutexes and the devices.                                              *)

LEMMA RestStep == CloudInv /\ EventsInv /\ RestInv /\ [Next]_vars => RestInv'
<1> SUFFICES ASSUME CloudInv, EventsInv, RestInv, [Next]_vars PROVE RestInv'
  OBVIOUS
<1> USE DEF RestInv
<1>1. ASSUME NEW d \in Devs, SlaveOpen(d) PROVE RestInv'
  BY <1>1 DEF SlaveOpen, apiVars
<1>2. ASSUME NEW t \in Threads, Lock(t) PROVE RestInv'
  BY <1>2 DEF Lock, devVars
<1>3. ASSUME NEW t \in Threads, SlaveClose(t) PROVE RestInv'
  BY <1>3 DEF SlaveClose
<1>4. ASSUME NEW t \in Threads, UnlockEarly(t) \/ Unlock(t) PROVE RestInv'
  BY <1>4 DEF UnlockEarly, Unlock, devVars
<1>5. CASE UseReply
  <2> DEFINE q == requests[rx.id]
  <2>1. rx.step = "use" /\ UNCHANGED <<mutex, panicked>>
    BY <1>5 DEF UseReply, apiVars
  <2>2. q \in Request
    BY <2>1 DEF EventsInv, CloudInv
  <2>3. q.dev \in Devs
    BY <2>2 DEF Request
  <2>4. PICK d \in Owners(q) :
          status' = IF rx.ok /\ q.kind \in SyncKinds /\ d # None /\ InList(d)
                    THEN [status EXCEPT ![d] = StatusAfter[q.kind]] ELSE status
    BY <1>5 DEF UseReply
  <2>5. q.kind \in SyncKinds => StatusAfter[q.kind] \in {"registered", "attached", "logined"}
    BY DEF StatusAfter, SyncKinds
  <2>6. status' \in [Devs -> {"none", "authorized", "registered", "attached", "logined", "gone"}]
    <3> HIDE DEF q
    <3> QED BY <2>4, <2>5
  <2>7. secret' \subseteq Devs
    <3>1. secret' = IF q.kind = "register" THEN secret \cup {q.dev} ELSE secret
      BY <1>5 DEF UseReply
    <3> QED BY <2>3, <3>1
  <2> QED BY <2>1, <2>6, <2>7
<1>6. ASSUME NEW t \in Threads,
             \/ AlreadyRegistered(t) \/ SendFails(t) \/ Send(t)
             \/ CacheCheck(t) \/ CacheAdd(t) \/ InsertNode(t) \/ SemaphoreTaken(t) \/ WaitTimesOut(t)
             \/ TakeResult(t) \/ DropNode(t) \/ Subscribe(t) \/ Subscribed(t) \/ InitializeCompleted(t)
      PROVE  UNCHANGED <<mutex, panicked, status, secret>>
  BY <1>6 DEF AlreadyRegistered, SendFails, Send, CacheCheck, CacheAdd, InsertNode,
     SemaphoreTaken, WaitTimesOut, TakeResult, DropNode, Subscribe, Subscribed, InitializeCompleted,
     devVars
<1>7. ASSUME \/ \E t \in Callers : Calls(t)
             \/ Tick \/ DispatchEnds \/ DispatchSync \/ PostResult \/ DispatchEvent
             \/ DispatchPropertySet \/ CallbackReturns
             \/ \E id \in DOMAIN requests : CloudAnswers(id)
             \/ \E t \in Threads : (\E r \in replies : ReceiveReply(t, r)) \/ ReceivePropertySet(t)
             \/ RemoveCached
             \/ \E n \in cache : GrowsOld(n)
             \/ UNCHANGED vars
      PROVE  UNCHANGED <<mutex, panicked, status, secret>>
  BY <1>7, Zenon DEF Calls, Begin, Tick, Expires, DispatchEnds, DispatchSync, PostResult, DispatchEvent,
     DispatchPropertySet, CallbackReturns, CloudAnswers, ReceiveReply, ReceivePropertySet,
     RemoveCached, GrowsOld, vars, apiVars, devVars
<1>8. ASSUME UNCHANGED <<mutex, panicked, status, secret>> PROVE RestInv'
  BY <1>8
<1> QED BY <1>1, <1>2, <1>3, <1>4, <1>5, <1>6, <1>7, <1>8, NextSteps

-----------------------------------------------------------------------------
(* The invariant.                                                            *)

LEMMA InitInv == Init => IInv
<1> SUFFICES ASSUME Init PROVE IInv
  OBVIOUS
<1> USE GatewayAssumption DEF Init
<1>1. CloudInv
  BY DEF CloudInv
<1>2. CallsInv
  <2>1. Idle \in Call
    BY DEF Idle, Call, Pcs
  <2>2. CallOK(Idle)
    BY DEF CallOK, Idle, Asking, Claims
  <2> QED BY <2>1, <2>2 DEF CallsInv, IdsDiffer, Idle
<1>3. ApiInv
  <2>1. IsFiniteSet({}) /\ Cardinality({}) = 0
    BY FS_EmptySet
  <2> QED BY <2>1 DEF ApiInv, Idle
<1>4. NodeInv
  BY DEF NodeInv, Disp, HasNode, Idle, Threads
<1>5. EventsInv
  BY DEF EventsInv, Rx, NoRx
<1>6. RestInv
  BY DEF RestInv
<1> QED BY <1>1, <1>2, <1>3, <1>4, <1>5, <1>6 DEF IInv

LEMMA Invariant == Spec => []IInv
<1>1. Init => IInv
  BY InitInv
<1>2. IInv /\ [Next]_vars => IInv'
  BY CloudStep, CallsStep, ApiStep, NodeStep, EventsStep, RestStep DEF IInv
<1> QED BY <1>1, <1>2, PTL DEF Spec

\* Every variable keeps its type, the queue of dm_ipc.c stays within its length
\* and the cloud grants no request that it has not answered.
THEOREM TypeCorrect == Spec => []TypeOK
<1>1. IInv => TypeOK
  <2> SUFFICES ASSUME IInv PROVE TypeOK
    OBVIOUS
  <2>1. \A t \in Threads : call[t].id \in 0..MaxId /\ call[t].ids \subseteq 1..MaxId
    BY DEF IInv, CallsInv, Call
  <2>2. DOMAIN call = Threads
    BY DEF IInv, CallsInv
  <2> QED BY <2>1, <2>2 DEF IInv, CloudInv, ApiInv, CacheNode, NodeInv, EventsInv, RestInv, TypeOK
<1> QED BY <1>1, Invariant, PTL

\* A call of IOT_Linkkit_Connect or IOT_Linkkit_Report that waits for the cloud
\* returns success only when the cloud granted every request it made: the result
\* in its node is never left over, never another call's and never a timeout.
THEOREM SuccessGranted == Spec => []SuccessIsGranted
<1>1. IInv => SuccessIsGranted
  BY DEF IInv, CallsInv, CallOK, Claims, SuccessIsGranted, Threads
<1> QED BY <1>1, Invariant, PTL

\* upstream_mutex keeps a node that is being posted from the timeout that frees it.
THEOREM PostOnLive == Spec => []PostIsOnLive
<1>1. IInv => PostIsOnLive
  BY DEF IInv, NodeInv, PostIsOnLive
<1> QED BY <1>1, Invariant, PTL

\* The size that dm_msg_cache_insert tested without the lock still holds when the
\* message is filed: every caller holds the mutex of dm_api.c across the two.
THEOREM CacheWithinBound == Spec => []CacheBounded
<1>1. IInv => CacheBounded
  BY DEF IInv, ApiInv, CacheBounded
<1> QED BY <1>1, Invariant, PTL

=============================================================================
