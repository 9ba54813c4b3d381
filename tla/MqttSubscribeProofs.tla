------------------------- MODULE MqttSubscribeProofs -------------------------
(* Proofs about MqttSubscribe, for any finite number of threads, any        *)
(* filters, any number of packet identifiers and of lost connections.       *)
EXTENDS MqttSubscribe, FiniteSetTheorems, SequenceTheorems, TLAPS

\* Next, one action at a time.
LEMMA NextSteps ==
  ASSUME Next
  PROVE  \/ \E t \in Callers :
              \/ \E kind \in {"sync", "async"}, f \in Filters : SubscribeBegin(t, kind, f)
              \/ SubscribeSent(t) \/ SubscribeRefused(t) \/ SubscribeFails(t) \/ InsertHandler(t)
              \/ ReturnAtOnce(t) \/ WaitForAck(t) \/ InsertNode(t) \/ YieldDone(t)
              \/ ScanSuccess(t) \/ ScanNack(t) \/ ScanNothing(t) \/ LoopAgain(t) \/ LoopTimeout(t)
              \/ UnsubscribeRefused(t) \/ UnsubscribeFails(t)
              \/ \E f \in Filters : UnsubscribeSent(t, f)
         \/ \E t \in Threads : RecvSuback(t) \/ RecvUnsuback(t)
         \/ CallbackReturns \/ BrokerAnswers \/ ConnectionLost \/ Reconnected
         \/ UNCHANGED vars
BY Zenon DEF Next, SubscribeStep, UnsubscribeStep, YieldStep, NoIdsLeft

-----------------------------------------------------------------------------
(* The calls.  A call that is under way with an identifier has it for itself. *)

Pcs == {"idle", "send", "insert", "flag", "node", "yield", "scan", "loop", "succeeded", "failed"}
Request == [type : {"SUBSCRIBE", "UNSUBSCRIBE"}, id : Ids, filter : Filters]
Answer == [type : {"SUBACK", "NACK", "UNSUBACK"}, id : Ids]

\* Callers that are about to take an identifier.
Sending == {t \in Callers : At(t, "send")}
Active(t) == call[t].pc \in {"insert", "flag", "node", "yield", "scan", "loop"}
Waits(t) == call[t].pc \in {"yield", "scan", "loop"}

CallOK(t) ==
  /\ call[t].pc \in {"idle", "send", "insert", "flag", "node"} => ~call[t].subed
  /\ call[t].pc = "send" => call[t].ret = 0
  /\ call[t].pc \in {"insert", "node"} => call[t].ret # 0
  /\ call[t].subed => call[t].ret # 0
  /\ call[t].ret <= packet_id
  /\ call[t].pc = "succeeded" /\ call[t].subed => call[t].ret \in acked
RetsDiffer ==
  \A t, u \in Callers : t # u /\ Active(t) /\ Active(u) /\ call[t].ret = call[u].ret
                          => call[t].ret = 0

\* What is known of the calls and of the counter they take identifiers from.
CallsInv ==
  /\ call \in [Callers -> Call]
  /\ packet_id \in 0..MaxPacketId
  /\ packet_id + Cardinality(Sending) <= MaxPacketId
  /\ acked \subseteq Ids
  /\ \A t \in Callers : CallOK(t)
  /\ RetsDiffer

\* A step that moves one call, or none, on to another pc.
Moves(t, pc, ret, subed) ==
  /\ call'[t].pc = pc /\ call'[t].ret = ret /\ call'[t].subed = subed
  /\ \A u \in Callers \ {t} : call'[u] = call[u]

LEMMA GotoMoves ==
  ASSUME call \in [Callers -> Call], NEW t \in Callers, NEW pc \in Pcs, Goto(t, pc)
  PROVE  call' \in [Callers -> Call] /\ Moves(t, pc, call[t].ret, call[t].subed)
BY DEF Goto, Moves, Call, Pcs

LEMMA AgainCall ==
  ASSUME NEW c \in Call
  PROVE  LET r == [c EXCEPT !.pc = "loop", !.ret = 0, !.subed = FALSE]
         IN  r \in Call /\ r.pc = "loop" /\ r.ret = 0 /\ r.subed = FALSE
<1>1. 0 \in 0..MaxPacketId
  BY SubscribeAssumption
<1> QED BY <1>1 DEF Call

\* Sending grows and shrinks by the caller that moves.
LEMMA SendingCount ==
  ASSUME NEW t \in Callers, NEW pc \in Pcs, NEW ret, NEW subed, Moves(t, pc, ret, subed)
  PROVE  /\ IsFiniteSet(Sending) /\ IsFiniteSet(Sending')
         /\ Cardinality(Sending) \in Nat /\ Cardinality(Sending') \in Nat
         /\ (pc = "send" /\ ~At(t, "send")) => Cardinality(Sending') = Cardinality(Sending) + 1
         /\ (pc # "send" /\ At(t, "send")) => Cardinality(Sending') = Cardinality(Sending) - 1
         /\ (pc = "send") = At(t, "send") => Cardinality(Sending') = Cardinality(Sending)
<1>1. IsFiniteSet(Sending) /\ IsFiniteSet(Sending')
  BY SubscribeAssumption, FS_Subset DEF Sending
<1>2. Cardinality(Sending) \in Nat /\ Cardinality(Sending') \in Nat
  BY <1>1, FS_CardinalityType
<1>3. CASE pc = "send" /\ ~At(t, "send")
  <2>1. Sending' = Sending \cup {t} /\ t \notin Sending
    BY <1>3 DEF Sending, At, Moves
  <2> QED BY <1>1, <1>2, <1>3, <2>1, FS_AddElement
<1>4. CASE pc # "send" /\ At(t, "send")
  <2>1. Sending' = Sending \ {t} /\ t \in Sending
    BY <1>4 DEF Sending, At, Moves
  <2> QED BY <1>1, <1>2, <1>4, <2>1, FS_RemoveElement
<1>5. CASE (pc = "send") = At(t, "send")
  <2>1. Sending' = Sending
    BY <1>5 DEF Sending, At, Moves
  <2> QED BY <1>1, <1>2, <1>5, <2>1
<1> QED BY <1>1, <1>2, <1>3, <1>4, <1>5

\* The calls keep their invariant when one of them moves as the code lets it.
LEMMA MoveKeepsCalls ==
  ASSUME CallsInv, call' \in [Callers -> Call], acked' = acked,
         NEW t \in Callers, NEW pc \in Pcs, NEW ret \in 0..MaxPacketId, NEW subed \in BOOLEAN,
         Moves(t, pc, ret, subed),
         packet_id' \in Nat, packet_id' >= packet_id,
         packet_id' + Cardinality(Sending') <= MaxPacketId,
         CallOK(t)',
         Active(t)' => ret = 0 \/ ret > packet_id \/ (Active(t) /\ ret = call[t].ret)
  PROVE  CallsInv'
<1>1. packet_id' \in 0..MaxPacketId
  BY SendingCount, SubscribeAssumption
<1>2. \A u \in Callers : CallOK(u)'
  <2> TAKE u \in Callers
  <2>1. CASE u = t BY <2>1
  <2>2. CASE u # t
    <3>1. call'[u] = call[u] /\ call[u].ret \in Nat
      BY <2>2 DEF Moves, CallsInv, Call
    <3> QED BY <3>1 DEF CallsInv, CallOK
  <2> QED BY <2>1, <2>2
<1>3. \A u \in Callers \ {t} : call'[u] = call[u] /\ call[u].ret \in Nat /\ call[u].ret <= packet_id
  BY DEF Moves, CallsInv, Call, CallOK
<1>4. call'[t].ret = ret
  BY DEF Moves
<1>5. RetsDiffer'
  <2> SUFFICES ASSUME NEW a \in Callers, NEW b \in Callers,
                      a # b, Active(a)', Active(b)', call'[a].ret = call'[b].ret
               PROVE  call'[a].ret = 0
    BY DEF RetsDiffer
  <2>1. CASE a = t
    <3>1. Active(b) BY <1>3, <2>1 DEF Active
    <3> QED BY <1>3, <1>4, <2>1, <3>1 DEF CallsInv, RetsDiffer
  <2>2. CASE b = t
    <3>1. Active(a) BY <1>3, <2>2 DEF Active
    <3> QED BY <1>3, <1>4, <2>2, <3>1 DEF CallsInv, RetsDiffer
  <2>3. CASE a # t /\ b # t
    BY <1>3, <2>3 DEF CallsInv, RetsDiffer, Active
  <2> QED BY <2>1, <2>2, <2>3
<1> QED BY <1>1, <1>2, <1>5 DEF CallsInv

LEMMA CallsInit == Init => CallsInv
<1> SUFFICES ASSUME Init PROVE CallsInv
  OBVIOUS
<1> DEFINE First == [pc : {"idle"}, kind : {"sync"}, filter : Filters, ret : {0}, subed : {FALSE}]
<1>0. call \in [Callers -> First] /\ packet_id = 0 /\ acked = {}
  BY DEF Init
<1>1. /\ call \in [Callers -> Call]
      /\ \A t \in Callers : call[t].pc = "idle" /\ call[t].ret = 0 /\ call[t].subed = FALSE
  <2>1. \A r \in First : r \in Call /\ r.pc = "idle" /\ r.ret = 0 /\ r.subed = FALSE
    <3> TAKE r \in First
    <3>1. r = [pc |-> "idle", kind |-> "sync", filter |-> r.filter, ret |-> 0, subed |-> FALSE]
          /\ r.filter \in Filters
      OBVIOUS
    <3>2. 0 \in 0..MaxPacketId
      BY SubscribeAssumption
    <3> QED BY <3>1, <3>2 DEF Call
  <2> HIDE DEF First
  <2> QED BY <1>0, <2>1
<1>2. Sending = {}
  BY <1>1 DEF Sending, At
<1>3. Cardinality(Sending) = 0
  BY <1>2, FS_EmptySet
<1> QED BY <1>0, <1>1, <1>3, SubscribeAssumption DEF CallsInv, CallOK, RetsDiffer, Active

\* A step that leaves the calls alone may still take an identifier, or read an answer.
LEMMA StillKeepsCalls ==
  ASSUME CallsInv, UNCHANGED call, acked \subseteq acked', acked' \subseteq Ids,
         packet_id' \in Nat, packet_id' >= packet_id,
         packet_id' + Cardinality(Sending) <= MaxPacketId
  PROVE  CallsInv'
<1>1. Sending' = Sending
  BY DEF Sending, At
<1>2. Cardinality(Sending) \in Nat
  BY SubscribeAssumption, FS_Subset, FS_CardinalityType DEF Sending
<1>3. packet_id' \in 0..MaxPacketId
  BY <1>2, SubscribeAssumption
<1>4. \A t \in Callers : CallOK(t)'
  <2> TAKE t \in Callers
  <2>1. call'[t] = call[t] /\ call[t].ret \in Nat
    BY DEF CallsInv, Call
  <2> QED BY <2>1 DEF CallsInv, CallOK
<1>5. RetsDiffer'
  BY DEF CallsInv, RetsDiffer, Active
<1> QED BY <1>1, <1>3, <1>4, <1>5 DEF CallsInv

\* A move that neither takes an identifier nor gets ready to.
LEMMA QuietMove ==
  ASSUME CallsInv, call' \in [Callers -> Call], acked' = acked, packet_id' = packet_id,
         NEW t \in Callers, NEW pc \in Pcs, NEW ret \in 0..MaxPacketId, NEW subed \in BOOLEAN,
         Moves(t, pc, ret, subed), pc # "send", call[t].pc # "send",
         CallOK(t)', Active(t)' => ret = 0 \/ (Active(t) /\ ret = call[t].ret)
  PROVE  CallsInv'
<1>1. Cardinality(Sending') = Cardinality(Sending)
  BY SendingCount DEF At
<1>2. /\ packet_id' \in Nat /\ packet_id' >= packet_id
      /\ packet_id' + Cardinality(Sending') <= MaxPacketId
  BY <1>1, SubscribeAssumption DEF CallsInv
<1> QED BY <1>2, MoveKeepsCalls, Zenon

\* The packets in flight.
PacketsInv == c2s \in Seq(Request) /\ s2c \in Seq(Answer)

\* The nodes of list_sub_sync_ack: no two have one identifier, each belongs to a call that
\* waits, and one that was granted has had its SUBACK.
NodesInv ==
  /\ list_sub_sync_ack \in Seq(SyncNode)
  /\ \A i, j \in DOMAIN list_sub_sync_ack :
       list_sub_sync_ack[i].packet_id = list_sub_sync_ack[j].packet_id => i = j
  /\ \A i \in DOMAIN list_sub_sync_ack :
       list_sub_sync_ack[i].ack_type = "SUCCESS" => list_sub_sync_ack[i].packet_id \in acked
  /\ NodesAreOwned

\* One action at a time: what it does to the call that takes the step.
LEMMA CallsStep == CallsInv /\ PacketsInv /\ NodesInv /\ [Next]_vars => CallsInv'
<1> SUFFICES ASSUME CallsInv, PacketsInv, NodesInv, [Next]_vars PROVE CallsInv'
  OBVIOUS
<1> USE SubscribeAssumption
<1>0. /\ call \in [Callers -> Call] /\ packet_id \in Nat /\ Cardinality(Sending) \in Nat
      /\ packet_id + Cardinality(Sending) <= MaxPacketId
      /\ \A t \in Callers : CallOK(t) /\ call[t].ret \in 0..MaxPacketId /\ call[t].subed \in BOOLEAN
  <2>1. Cardinality(Sending) \in Nat
    BY FS_Subset, FS_CardinalityType DEF Sending
  <2> QED BY <2>1 DEF CallsInv, Call
<1>1. ASSUME NEW t \in Callers, NEW kind \in {"sync", "async"}, NEW f \in Filters,
             SubscribeBegin(t, kind, f)
      PROVE  CallsInv'
  <2>1. call' \in [Callers -> Call] /\ Moves(t, "send", 0, FALSE)
    BY <1>0, <1>1 DEF SubscribeBegin, Moves, Call
  <2>2. packet_id' = packet_id /\ acked' = acked /\ ~At(t, "send")
        /\ packet_id + Cardinality(Sending) < MaxPacketId
    BY <1>1 DEF SubscribeBegin, Idle, At, IdsLeft, Sending
  <2>3. Cardinality(Sending') = Cardinality(Sending) + 1
    BY <2>1, <2>2, SendingCount DEF Pcs
  <2>4. CallOK(t)' /\ ~Active(t)'
    BY <1>0, <2>1, <2>2 DEF Moves, CallOK, Active
  <2>5. /\ packet_id' \in Nat /\ packet_id' >= packet_id
        /\ packet_id' + Cardinality(Sending') <= MaxPacketId
        /\ 0 \in 0..MaxPacketId /\ "send" \in Pcs
    BY <1>0, <2>2, <2>3 DEF Pcs
  <2> QED BY <2>1, <2>2, <2>4, <2>5, MoveKeepsCalls, Zenon
<1>2. ASSUME NEW t \in Callers, SubscribeSent(t) PROVE CallsInv'
  <2>1. /\ packet_id' = packet_id + 1 /\ acked' = acked /\ At(t, "send")
        /\ call[t].subed = FALSE
    BY <1>0, <1>2 DEF SubscribeSent, TakeId, At, CallOK
  <2>2. Sending # {} /\ packet_id + 1 \in 0..MaxPacketId
    <3>1. t \in Sending /\ IsFiniteSet(Sending)
      BY <2>1, FS_Subset DEF Sending
    <3>2. Cardinality(Sending) # 0
      BY <3>1, FS_EmptySet
    <3> QED BY <1>0, <3>1, <3>2
  <2>3. call' \in [Callers -> Call] /\ Moves(t, "insert", packet_id + 1, FALSE)
    BY <1>0, <1>2, <2>1, <2>2 DEF SubscribeSent, Moves, Call
  <2>4. Cardinality(Sending') = Cardinality(Sending) - 1
    BY <2>1, <2>3, SendingCount DEF Pcs
  <2>5. /\ CallOK(t)' /\ packet_id' \in Nat /\ packet_id' >= packet_id
        /\ packet_id' + Cardinality(Sending') <= MaxPacketId
        /\ packet_id + 1 > packet_id /\ FALSE \in BOOLEAN /\ "insert" \in Pcs
    BY <1>0, <2>1, <2>2, <2>3, <2>4 DEF Moves, CallOK, Pcs
  <2> QED BY <2>1, <2>2, <2>3, <2>5, MoveKeepsCalls, Zenon
<1>3. ASSUME NEW t \in Callers, SubscribeRefused(t) \/ SubscribeFails(t) PROVE CallsInv'
  <2>1. /\ packet_id' = packet_id + 1 /\ acked' = acked /\ At(t, "send")
        /\ call[t].subed = FALSE /\ call[t].ret = 0
    BY <1>0, <1>3 DEF SubscribeRefused, SubscribeFails, TakeId, At, CallOK
  <2>2. PICK pc \in {"flag", "failed"} : Goto(t, pc)
    BY <1>3 DEF SubscribeRefused, SubscribeFails
  <2>3. call' \in [Callers -> Call] /\ Moves(t, pc, 0, FALSE)
    BY <1>0, <2>1, <2>2, GotoMoves DEF Pcs
  <2>4. Cardinality(Sending') = Cardinality(Sending) - 1
    BY <2>1, <2>3, SendingCount DEF Pcs
  <2>5. /\ CallOK(t)' /\ packet_id' \in Nat /\ packet_id' >= packet_id
        /\ packet_id' + Cardinality(Sending') <= MaxPacketId
        /\ 0 \in 0..MaxPacketId /\ FALSE \in BOOLEAN /\ pc \in Pcs
    BY <1>0, <2>1, <2>3, <2>4 DEF Moves, CallOK, Pcs
  <2> QED BY <2>1, <2>3, <2>5, MoveKeepsCalls, Zenon
<1>4. ASSUME NEW t \in Callers, NEW pc \in Pcs \ {"send"}, Goto(t, pc),
             acked' = acked, packet_id' = packet_id, call[t].pc # "send", CallOK(t)',
             Active(t)' => Active(t)
      PROVE  CallsInv'
  <2>1. call' \in [Callers -> Call] /\ Moves(t, pc, call[t].ret, call[t].subed)
    BY <1>0, <1>4, GotoMoves
  <2>2. call[t].ret \in 0..MaxPacketId /\ call[t].subed \in BOOLEAN
    BY <1>0
  <2> QED BY <1>4, <2>1, <2>2, QuietMove, Zenon
<1>5. ASSUME NEW t \in Callers, InsertHandler(t) PROVE CallsInv'
  <2>1. acked' = acked /\ packet_id' = packet_id
    BY <1>5 DEF InsertHandler
  <2>2. PICK pc \in {"flag", "idle"} : Goto(t, pc)
    BY <1>5 DEF InsertHandler
  <2>3. Moves(t, pc, call[t].ret, call[t].subed) /\ call' \in [Callers -> Call]
    BY <1>0, <2>2, GotoMoves DEF Pcs
  <2>4. CallOK(t)' /\ (Active(t)' => Active(t)) /\ call[t].pc # "send"
    BY <1>0, <1>5, <2>1, <2>3 DEF InsertHandler, Goto, At, Moves, CallOK, Active
  <2> QED BY <1>0, <2>1, <2>2, <2>4, <1>4 DEF Pcs
<1>6. ASSUME NEW t \in Callers, ReturnAtOnce(t) PROVE CallsInv'
  <2>1. acked' = acked /\ packet_id' = packet_id
    BY <1>6 DEF ReturnAtOnce
  <2>2. PICK pc \in {"failed", "succeeded"} : Goto(t, pc)
    BY <1>6 DEF ReturnAtOnce
  <2>3. Moves(t, pc, call[t].ret, call[t].subed) /\ call' \in [Callers -> Call]
    BY <1>0, <2>2, GotoMoves DEF Pcs
  <2>4. CallOK(t)' /\ (Active(t)' => Active(t)) /\ call[t].pc # "send"
    BY <1>0, <1>6, <2>1, <2>3 DEF ReturnAtOnce, Goto, At, Moves, CallOK, Active
  <2> QED BY <1>0, <2>1, <2>2, <2>4, <1>4 DEF Pcs
<1>7. ASSUME NEW t \in Callers, WaitForAck(t) PROVE CallsInv'
  <2>1. acked' = acked /\ packet_id' = packet_id
    BY <1>7 DEF WaitForAck
  <2>2. PICK pc \in {"yield", "node"} : Goto(t, pc)
    BY <1>7 DEF WaitForAck
  <2>3. Moves(t, pc, call[t].ret, call[t].subed) /\ call' \in [Callers -> Call]
    BY <1>0, <2>2, GotoMoves DEF Pcs
  <2>4. CallOK(t)' /\ (Active(t)' => Active(t)) /\ call[t].pc # "send"
    BY <1>0, <1>7, <2>1, <2>3 DEF WaitForAck, Goto, At, Moves, CallOK, Active
  <2> QED BY <1>0, <2>1, <2>2, <2>4, <1>4 DEF Pcs
<1>8. ASSUME NEW t \in Callers, YieldDone(t) PROVE CallsInv'
  <2>1. acked' = acked /\ packet_id' = packet_id
    BY <1>8 DEF YieldDone
  <2>2. PICK pc \in {"scan"} : Goto(t, pc)
    BY <1>8 DEF YieldDone
  <2>3. Moves(t, pc, call[t].ret, call[t].subed) /\ call' \in [Callers -> Call]
    BY <1>0, <2>2, GotoMoves DEF Pcs
  <2>4. CallOK(t)' /\ (Active(t)' => Active(t)) /\ call[t].pc # "send"
    BY <1>0, <1>8, <2>1, <2>3 DEF YieldDone, Goto, At, Moves, CallOK, Active
  <2> QED BY <1>0, <2>1, <2>2, <2>4, <1>4 DEF Pcs
<1>9. ASSUME NEW t \in Callers, ScanNothing(t) PROVE CallsInv'
  <2>1. acked' = acked /\ packet_id' = packet_id
    BY <1>9 DEF ScanNothing
  <2>2. PICK pc \in {"loop"} : Goto(t, pc)
    BY <1>9 DEF ScanNothing
  <2>3. Moves(t, pc, call[t].ret, call[t].subed) /\ call' \in [Callers -> Call]
    BY <1>0, <2>2, GotoMoves DEF Pcs
  <2>4. CallOK(t)' /\ (Active(t)' => Active(t)) /\ call[t].pc # "send"
    BY <1>0, <1>9, <2>1, <2>3 DEF ScanNothing, Goto, At, Moves, CallOK, Active
  <2> QED BY <1>0, <2>1, <2>2, <2>4, <1>4 DEF Pcs
<1>10. ASSUME NEW t \in Callers, LoopTimeout(t) PROVE CallsInv'
  <2>1. acked' = acked /\ packet_id' = packet_id
    BY <1>10 DEF LoopTimeout
  <2>2. PICK pc \in {"failed"} : Goto(t, pc)
    BY <1>10 DEF LoopTimeout
  <2>3. Moves(t, pc, call[t].ret, call[t].subed) /\ call' \in [Callers -> Call]
    BY <1>0, <2>2, GotoMoves DEF Pcs
  <2>4. CallOK(t)' /\ (Active(t)' => Active(t)) /\ call[t].pc # "send"
    BY <1>0, <1>10, <2>1, <2>3 DEF LoopTimeout, Goto, At, Moves, CallOK, Active
  <2> QED BY <1>0, <2>1, <2>2, <2>4, <1>4 DEF Pcs
<1>11. ASSUME NEW t \in Callers, ScanSuccess(t) PROVE CallsInv'
  <2>1. acked' = acked /\ packet_id' = packet_id /\ Goto(t, "succeeded") /\ call[t].pc = "scan"
    BY <1>11 DEF ScanSuccess, At
  <2>2. call[t].ret \in acked
    BY <1>11 DEF ScanSuccess, OwnNode, NodesInv
  <2>3. Moves(t, "succeeded", call[t].ret, call[t].subed)
    BY <2>1, GotoMoves, <1>0 DEF Pcs
  <2>4. CallOK(t)' /\ ~Active(t)'
    BY <1>0, <2>1, <2>2, <2>3 DEF Moves, CallOK, Active
  <2> QED BY <2>1, <2>4, <1>4 DEF Pcs
<1>12. ASSUME NEW t \in Callers, InsertNode(t) PROVE CallsInv'
  <2>1. acked' = acked /\ packet_id' = packet_id /\ call[t].pc = "node"
    BY <1>12 DEF InsertNode, At
  <2>2. call' \in [Callers -> Call] /\ Moves(t, "yield", call[t].ret, TRUE)
    BY <1>0, <1>12 DEF InsertNode, Moves, Call
  <2>3. CallOK(t)' /\ Active(t) /\ call[t].ret \in 0..MaxPacketId
    BY <1>0, <2>1, <2>2 DEF Moves, CallOK, Active
  <2>4. "yield" \in Pcs /\ TRUE \in BOOLEAN
    BY DEF Pcs
  <2>5. call[t].pc # "send" /\ "yield" # "send"
    BY <2>1
  <2> QED BY <2>1, <2>2, <2>3, <2>4, <2>5, QuietMove, Zenon
<1>13. ASSUME NEW t \in Callers, ScanNack(t) PROVE CallsInv'
  <2>1. acked' = acked /\ packet_id' = packet_id /\ call[t].pc = "scan"
    BY <1>13 DEF ScanNack, At
  <2>2. call' \in [Callers -> Call] /\ Moves(t, "loop", 0, FALSE)
    <3> DEFINE r == [call[t] EXCEPT !.pc = "loop", !.ret = 0, !.subed = FALSE]
    <3>1. call' = [call EXCEPT ![t] = r]
      BY <1>13 DEF ScanNack
    <3>2. r \in Call /\ r.pc = "loop" /\ r.ret = 0 /\ r.subed = FALSE
      BY <1>0, AgainCall
    <3> HIDE DEF r
    <3> QED BY <1>0, <3>1, <3>2 DEF Moves
  <2>3. CallOK(t)' /\ 0 \in 0..MaxPacketId /\ FALSE \in BOOLEAN
    BY <1>0, <2>1, <2>2 DEF Moves, CallOK
  <2>4. "loop" \in Pcs /\ call[t].pc # "send" /\ "loop" # "send"
    BY <2>1 DEF Pcs
  <2> QED BY <2>1, <2>2, <2>3, <2>4, QuietMove, Zenon
<1>14. ASSUME NEW t \in Callers, LoopAgain(t) PROVE CallsInv'
  <2>1. acked' = acked /\ packet_id' = packet_id /\ call[t].pc = "loop"
    BY <1>14 DEF LoopAgain, At
  <2>2. CASE call[t].ret # 0
    <3>1. Goto(t, "yield")
      BY <1>14, <2>2 DEF LoopAgain
    <3>2. Moves(t, "yield", call[t].ret, call[t].subed)
      BY <1>0, <3>1, GotoMoves DEF Pcs
    <3>3. CallOK(t)' /\ Active(t)
      BY <1>0, <2>1, <3>2 DEF Moves, CallOK, Active
    <3> QED BY <2>1, <3>1, <3>3, <1>4 DEF Pcs
  <2>3. CASE call[t].ret = 0
    <3>1. Goto(t, "send") /\ packet_id + Cardinality(Sending) < MaxPacketId
      BY <1>14, <2>3 DEF LoopAgain, IdsLeft, Sending
    <3>2. call' \in [Callers -> Call] /\ Moves(t, "send", 0, FALSE)
      <4>1. call[t].subed = FALSE
        BY <1>0, <2>3 DEF CallOK
      <4> QED BY <1>0, <2>3, <3>1, <4>1, GotoMoves DEF Pcs
    <3>3. Cardinality(Sending') = Cardinality(Sending) + 1
      BY <2>1, <3>2, SendingCount DEF Pcs, At
    <3>4. /\ CallOK(t)' /\ ~Active(t)' /\ packet_id' \in Nat /\ packet_id' >= packet_id
          /\ packet_id' + Cardinality(Sending') <= MaxPacketId
          /\ 0 \in 0..MaxPacketId /\ FALSE \in BOOLEAN /\ "send" \in Pcs
      BY <1>0, <2>1, <3>1, <3>2, <3>3 DEF Moves, CallOK, Active, Pcs
    <3> QED BY <2>1, <3>2, <3>4, MoveKeepsCalls, Zenon
  <2> QED BY <2>2, <2>3
<1>15. ASSUME NEW t \in Callers,
             \/ UnsubscribeRefused(t) \/ UnsubscribeFails(t)
             \/ \E f \in Filters : UnsubscribeSent(t, f)
      PROVE  CallsInv'
  <2>1. UNCHANGED <<call, acked>> /\ packet_id' = packet_id + 1
        /\ packet_id + Cardinality(Sending) < MaxPacketId
    BY <1>15 DEF UnsubscribeRefused, UnsubscribeFails, UnsubscribeSent, IdsLeft, Sending, TakeId
  <2> QED BY <1>0, <2>1, StillKeepsCalls DEF CallsInv
<1>16. ASSUME NEW t \in Threads, RecvSuback(t) PROVE CallsInv'
  <2>1. UNCHANGED <<call, packet_id>> /\ s2c # <<>>
    BY <1>16 DEF RecvSuback
  <2>2. Head(s2c).id \in Ids
    <3>1. Head(s2c) \in Answer
      BY <2>1 DEF PacketsInv
    <3> QED BY <3>1 DEF Answer
  <2>3. acked \subseteq acked' /\ acked' \subseteq Ids
    BY <1>16, <2>2 DEF RecvSuback, CallsInv
  <2> QED BY <1>0, <2>1, <2>3, StillKeepsCalls
<1>17. CASE \/ \E t \in Threads : RecvUnsuback(t)
           \/ CallbackReturns \/ BrokerAnswers \/ ConnectionLost \/ Reconnected \/ UNCHANGED vars
  <2>1. UNCHANGED <<call, acked, packet_id>>
    BY <1>17 DEF RecvUnsuback, CallbackReturns, BrokerAnswers, ConnectionLost, Reconnected, vars
  <2> QED BY <1>0, <2>1, StillKeepsCalls DEF CallsInv
<1> QED BY <1>1, <1>2, <1>3, <1>4, <1>5, <1>6, <1>7, <1>8, <1>9, <1>10, <1>11, <1>12, <1>13, <1>14, <1>15, <1>16, <1>17, NextSteps

-----------------------------------------------------------------------------
(* Packets in flight and the other variables of the client.                 *)

LEMMA PacketsStep == CallsInv /\ PacketsInv /\ [Next]_vars /\ CallsInv' => PacketsInv'
<1> SUFFICES ASSUME CallsInv, PacketsInv, [Next]_vars, CallsInv' PROVE PacketsInv'
  OBVIOUS
<1>1. packet_id' = packet_id + 1 => packet_id' \in Ids
  BY DEF CallsInv, Ids
<1>2. ASSUME NEW t \in Callers, SubscribeSent(t) PROVE PacketsInv'
  <2>1. call[t].filter \in Filters
    BY DEF CallsInv, Call
  <2> QED BY <1>1, <1>2, <2>1 DEF SubscribeSent, TakeId, PacketsInv, Request
<1>3. ASSUME NEW t \in Callers, NEW f \in Filters, UnsubscribeSent(t, f) PROVE PacketsInv'
  BY <1>1, <1>3 DEF UnsubscribeSent, TakeId, PacketsInv, Request
<1>4. ASSUME NEW t \in Threads, RecvSuback(t) \/ RecvUnsuback(t) PROVE PacketsInv'
  BY <1>4 DEF RecvSuback, RecvUnsuback, PacketsInv
<1>5. CASE BrokerAnswers
  <2>1. Head(c2s) \in Request /\ Tail(c2s) \in Seq(Request)
    BY <1>5 DEF BrokerAnswers, PacketsInv
  <2>2. PICK type \in {"SUBACK", "NACK", "UNSUBACK"} :
          s2c' = Append(s2c, [type |-> type, id |-> Head(c2s).id])
    BY <1>5 DEF BrokerAnswers
  <2> QED BY <1>5, <2>1, <2>2 DEF BrokerAnswers, PacketsInv, Request, Answer
<1>6. ASSUME Breaks PROVE PacketsInv'
  BY <1>6 DEF Breaks, PacketsInv
<1>7. ASSUME UNCHANGED <<c2s, s2c>> PROVE PacketsInv'
  BY <1>7 DEF PacketsInv
<1>8. ASSUME NEW t \in Callers,
             \/ \E kind \in {"sync", "async"}, f \in Filters : SubscribeBegin(t, kind, f)
             \/ SubscribeRefused(t) \/ InsertHandler(t) \/ ReturnAtOnce(t) \/ WaitForAck(t)
             \/ InsertNode(t) \/ YieldDone(t) \/ ScanSuccess(t) \/ ScanNack(t) \/ ScanNothing(t)
             \/ LoopAgain(t) \/ LoopTimeout(t) \/ UnsubscribeRefused(t)
      PROVE  UNCHANGED <<c2s, s2c>>
  BY <1>8 DEF SubscribeBegin, SubscribeRefused, InsertHandler, ReturnAtOnce, WaitForAck, InsertNode,
              YieldDone, ScanSuccess, ScanNack, ScanNothing, LoopAgain, LoopTimeout,
              UnsubscribeRefused
<1>9. ASSUME NEW t \in Callers, SubscribeFails(t) \/ UnsubscribeFails(t) PROVE PacketsInv'
  BY <1>6, <1>9 DEF SubscribeFails, UnsubscribeFails
<1>10. CASE ConnectionLost BY <1>6, <1>10 DEF ConnectionLost
<1>11. CASE CallbackReturns \/ Reconnected \/ UNCHANGED vars
  BY <1>7, <1>11 DEF CallbackReturns, Reconnected, vars
<1> QED BY <1>2, <1>3, <1>4, <1>5, <1>7, <1>8, <1>9, <1>10, <1>11, NextSteps
-----------------------------------------------------------------------------
(* The nodes.                                                               *)

LEMMA WithoutElements ==
  ASSUME NEW S, NEW s \in Seq(S), NEW i \in 1..Len(s)
  PROVE  /\ Without(s, i) \in Seq(S) /\ Len(Without(s, i)) = Len(s) - 1
         /\ \A j \in 1..(Len(s) - 1) : Without(s, i)[j] = s[IF j < i THEN j ELSE j + 1]
<1> DEFINE a == SubSeq(s, 1, i - 1)
           b == SubSeq(s, i + 1, Len(s))
<1>1. /\ a \in Seq(S) /\ Len(a) = i - 1
      /\ \A j \in 1..(i - 1) : a[j] = s[j]
  OBVIOUS
<1>2. /\ b \in Seq(S) /\ Len(b) = Len(s) - i
      /\ \A j \in 1..(Len(s) - i) : b[j] = s[i + j]
  OBVIOUS
<1>3. Without(s, i) = a \o b
  BY DEF Without
<1> HIDE DEF a, b
<1>4. /\ a \o b \in Seq(S) /\ Len(a \o b) = Len(s) - 1
      /\ \A j \in 1..(Len(s) - 1) : (a \o b)[j] = IF j < i THEN a[j] ELSE b[j - (i - 1)]
  <2>1. /\ a \o b \in Seq(S) /\ Len(a \o b) = Len(a) + Len(b)
        /\ \A j \in 1..(Len(a) + Len(b)) :
             (a \o b)[j] = IF j <= Len(a) THEN a[j] ELSE b[j - Len(a)]
    <3>1. a \in Seq(S) /\ b \in Seq(S)
      BY <1>1, <1>2
    <3> QED BY <3>1, ConcatProperties, Zenon
  <2>2. Len(a) = i - 1 /\ Len(a) + Len(b) = Len(s) - 1 /\ i \in Nat /\ Len(s) \in Nat
    BY <1>1, <1>2
  <2>3. \A j \in 1..(Len(s) - 1) : (j <= Len(a)) = (j < i)
    BY <2>2
  <2> QED BY <2>1, <2>2, <2>3
<1>5. ASSUME NEW j \in 1..(Len(s) - 1) PROVE (a \o b)[j] = s[IF j < i THEN j ELSE j + 1]
  <2>1. Len(s) \in Nat /\ i \in Nat /\ j \in Nat
    OBVIOUS
  <2>2. CASE j < i
    <3>1. j \in 1..(i - 1)
      BY <2>1, <2>2
    <3> QED BY <1>1, <1>4, <2>2, <3>1
  <2>3. CASE ~(j < i)
    <3>1. j - (i - 1) \in 1..(Len(s) - i) /\ i + (j - (i - 1)) = j + 1
      BY <2>1, <2>3
    <3>2. b[j - (i - 1)] = s[j + 1]
      BY <1>2, <3>1
    <3> QED BY <1>4, <2>3, <3>2
  <2> QED BY <2>2, <2>3
<1> QED BY <1>3, <1>4, <1>5

LEMMA TailIsWithout ==
  ASSUME NEW S, NEW s \in Seq(S), s # <<>>
  PROVE  Tail(s) = Without(s, 1) /\ 1 \in 1..Len(s) /\ Head(s) = s[1]
<1>1. Len(s) > 0 /\ Tail(s) \in Seq(S) /\ Len(Tail(s)) = Len(s) - 1
      /\ \A j \in 1..(Len(s) - 1) : Tail(s)[j] = s[j + 1]
  OBVIOUS
<1>2. 1 \in 1..Len(s) /\ Head(s) = s[1]
  BY <1>1
<1>3. /\ Without(s, 1) \in Seq(S) /\ Len(Without(s, 1)) = Len(s) - 1
      /\ \A j \in 1..(Len(s) - 1) : Without(s, 1)[j] = s[j + 1]
  BY <1>2, WithoutElements
<1> QED BY <1>1, <1>2, <1>3, SeqEqual

\* The list stays; the call that moves goes on waiting, or has no node on it.
LEMMA OwnersStay ==
  ASSUME NodesInv, UNCHANGED list_sub_sync_ack, acked' = acked,
         NEW t \in Callers, NEW pc, NEW ret, NEW subed, Moves(t, pc, ret, subed),
         \/ Waits(t)' /\ ret = call[t].ret
         \/ ~Waits(t)
         \/ \A i \in DOMAIN list_sub_sync_ack : list_sub_sync_ack[i].packet_id # call[t].ret
  PROVE  NodesInv'
<1>1. NodesAreOwned'
  <2> SUFFICES ASSUME NEW i \in DOMAIN list_sub_sync_ack
               PROVE  \E u \in Callers : /\ call'[u].ret = list_sub_sync_ack[i].packet_id
                                          /\ call'[u].pc \in {"yield", "scan", "loop"}
    BY DEF NodesAreOwned
  <2>1. PICK u \in Callers : call[u].ret = list_sub_sync_ack[i].packet_id /\ Waits(u)
    BY DEF NodesInv, NodesAreOwned, Waits
  <2>2. CASE u = t
    <3>1. Waits(t)' /\ call'[t].ret = call[t].ret
      BY <2>1, <2>2 DEF Moves
    <3> QED BY <2>1, <2>2, <3>1 DEF Waits
  <2>3. CASE u # t
    BY <2>1, <2>3 DEF Moves, Waits
  <2> QED BY <2>2, <2>3
<1> QED BY <1>1 DEF NodesInv

\* The call that moves takes its node with it.
LEMMA NodeGone ==
  ASSUME NodesInv, acked' = acked,
         NEW t \in Callers, NEW pc, NEW ret, NEW subed, Moves(t, pc, ret, subed),
         NEW k \in DOMAIN list_sub_sync_ack, list_sub_sync_ack[k].packet_id = call[t].ret,
         list_sub_sync_ack' = Without(list_sub_sync_ack, k)
  PROVE  NodesInv'
<1> DEFINE l == list_sub_sync_ack
           At0(j) == IF j < k THEN j ELSE j + 1
<1>1. l \in Seq(SyncNode) /\ k \in 1..Len(l)
  BY DEF NodesInv
<1>2. /\ l' \in Seq(SyncNode) /\ Len(l') = Len(l) - 1
      /\ \A j \in 1..(Len(l) - 1) : l'[j] = l[At0(j)]
  BY <1>1, WithoutElements
<1>3. DOMAIN l = 1..Len(l) /\ DOMAIN l' = 1..(Len(l) - 1) /\ Len(l) \in Nat
  BY <1>1, <1>2
<1>4. \A j \in DOMAIN l' : At0(j) \in DOMAIN l /\ At0(j) # k /\ l'[j] = l[At0(j)]
  BY <1>1, <1>2, <1>3
<1>5. \A i, j \in DOMAIN l' : At0(i) = At0(j) => i = j
  BY <1>1, <1>3
<1>6. /\ \A i, j \in DOMAIN l : l[i].packet_id = l[j].packet_id => i = j
      /\ \A i \in DOMAIN l : l[i].ack_type = "SUCCESS" => l[i].packet_id \in acked
      /\ \A i \in DOMAIN l : \E u \in Callers : call[u].ret = l[i].packet_id /\ Waits(u)
      /\ l[k].packet_id = call[t].ret
  BY DEF NodesInv, NodesAreOwned, Waits
<1> HIDE DEF At0
<1>7. \A i \in DOMAIN l' : \E u \in Callers : call'[u].ret = l'[i].packet_id /\ Waits(u)'
  <2> TAKE i \in DOMAIN l'
  <2>1. PICK u \in Callers : call[u].ret = l'[i].packet_id /\ Waits(u)
    BY <1>4, <1>6
  <2>2. u # t
    BY <1>1, <1>3, <1>4, <1>6, <2>1
  <2> QED BY <2>1, <2>2 DEF Moves, Waits
<1>8. NodesAreOwned'
  BY <1>7 DEF NodesAreOwned, Waits
<1> QED BY <1>2, <1>4, <1>5, <1>6, <1>8 DEF NodesInv

LEMMA NodesStep == CallsInv /\ PacketsInv /\ NodesInv /\ [Next]_vars => NodesInv'
<1> SUFFICES ASSUME CallsInv, PacketsInv, NodesInv, [Next]_vars PROVE NodesInv'
  OBVIOUS
<1> USE SubscribeAssumption
<1>0. /\ call \in [Callers -> Call]
      /\ \A t \in Callers : CallOK(t) /\ call[t].ret \in 0..MaxPacketId
      /\ list_sub_sync_ack \in Seq(SyncNode)
  BY DEF CallsInv, NodesInv, Call
<1>1. ASSUME NEW t \in Callers, NEW pc \in Pcs, Goto(t, pc), UNCHANGED <<list_sub_sync_ack, acked>>,
             \/ Waits(t) => pc \in {"yield", "scan", "loop"}
             \/ \A i \in DOMAIN list_sub_sync_ack : list_sub_sync_ack[i].packet_id # call[t].ret
      PROVE  NodesInv'
  <2>1. Moves(t, pc, call[t].ret, call[t].subed)
    BY <1>0, <1>1, GotoMoves
  <2>2. \/ Waits(t)' /\ call[t].ret = call[t].ret
        \/ ~Waits(t)
        \/ \A i \in DOMAIN list_sub_sync_ack : list_sub_sync_ack[i].packet_id # call[t].ret
    BY <1>1, <2>1 DEF Moves, Waits
  <2>3. UNCHANGED list_sub_sync_ack /\ acked' = acked
    BY <1>1
  <2> QED BY <2>1, <2>2, <2>3, OwnersStay, Zenon
<1>2. ASSUME NEW t \in Callers, NEW kind \in {"sync", "async"}, NEW f \in Filters,
             SubscribeBegin(t, kind, f)
      PROVE  NodesInv'
  <2>1. Moves(t, "send", 0, FALSE) /\ ~Waits(t) /\ UNCHANGED list_sub_sync_ack /\ acked' = acked
    BY <1>0, <1>2 DEF SubscribeBegin, Moves, Call, Idle, Waits
  <2> QED BY <2>1, OwnersStay
<1>3. ASSUME NEW t \in Callers, SubscribeSent(t) PROVE NodesInv'
  <2>1. /\ Moves(t, "insert", packet_id', call[t].subed) /\ ~Waits(t)
        /\ UNCHANGED list_sub_sync_ack /\ acked' = acked
    BY <1>0, <1>3 DEF SubscribeSent, Moves, Call, At, Waits
  <2> QED BY <2>1, OwnersStay
<1>4. ASSUME NEW t \in Callers,
             \/ SubscribeRefused(t) \/ SubscribeFails(t) \/ InsertHandler(t)
             \/ ReturnAtOnce(t) \/ WaitForAck(t)
      PROVE  NodesInv'
  <2>1. UNCHANGED <<list_sub_sync_ack, acked>> /\ ~Waits(t)
    BY <1>4 DEF SubscribeRefused, SubscribeFails, InsertHandler, ReturnAtOnce, WaitForAck, At, Waits
  <2>2. PICK pc \in Pcs : Goto(t, pc)
    BY <1>4 DEF SubscribeRefused, SubscribeFails, InsertHandler, ReturnAtOnce, WaitForAck, Pcs
  <2> QED BY <1>1, <2>1, <2>2
<1>5. ASSUME NEW t \in Callers, YieldDone(t) \/ ScanNothing(t) PROVE NodesInv'
  <2>1. UNCHANGED <<list_sub_sync_ack, acked>>
    BY <1>5 DEF YieldDone, ScanNothing
  <2>2. PICK pc \in {"scan", "loop"} : Goto(t, pc)
    BY <1>5 DEF YieldDone, ScanNothing
  <2> QED BY <1>1, <2>1, <2>2 DEF Pcs
<1>6. ASSUME NEW t \in Callers, LoopAgain(t) PROVE NodesInv'
  <2>1. UNCHANGED <<list_sub_sync_ack, acked>> /\ Goto(t, IF call[t].ret = 0 THEN "send" ELSE "yield")
    BY <1>6 DEF LoopAgain
  <2>2. \A i \in DOMAIN list_sub_sync_ack : list_sub_sync_ack[i].packet_id # 0
    <3> TAKE i \in DOMAIN list_sub_sync_ack
    <3>1. list_sub_sync_ack[i] \in SyncNode
      BY <1>0
    <3> QED BY <3>1 DEF SyncNode, Ids
  <2>3. CASE call[t].ret = 0
    <3>1. Goto(t, "send") /\ "send" \in Pcs
      BY <2>1, <2>3 DEF Pcs
    <3>2. \A i \in DOMAIN list_sub_sync_ack : list_sub_sync_ack[i].packet_id # call[t].ret
      BY <2>2, <2>3
    <3> QED BY <1>1, <2>1, <3>1, <3>2, Zenon
  <2>4. CASE call[t].ret # 0
    <3>1. Goto(t, "yield") /\ "yield" \in Pcs /\ "yield" \in {"yield", "scan", "loop"}
      BY <2>1, <2>4 DEF Pcs
    <3> QED BY <1>1, <2>1, <3>1, Zenon
  <2> QED BY <2>3, <2>4
<1>7. ASSUME NEW t \in Callers, InsertNode(t) PROVE NodesInv'
  <2> DEFINE l == list_sub_sync_ack
             n == [packet_id |-> call[t].ret, ack_type |-> "UNDEF"]
  <2>1. /\ At(t, "node") /\ l' = Append(l, n) /\ acked' = acked
        /\ call[t].ret \in Ids /\ call[t].ret # 0
    BY <1>0, <1>7 DEF InsertNode, CallOK, At, Ids
  <2>2. Moves(t, "yield", call[t].ret, TRUE)
    BY <1>0, <1>7 DEF InsertNode, Moves, Call
  <2>3. n \in SyncNode /\ n.packet_id = call[t].ret /\ n.ack_type = "UNDEF"
    BY <2>1 DEF SyncNode
  <2> HIDE DEF n
  <2>4. /\ l' \in Seq(SyncNode) /\ DOMAIN l' = 1..(Len(l) + 1) /\ DOMAIN l = 1..Len(l)
        /\ Len(l) \in Nat /\ \A i \in 1..Len(l) : l'[i] = l[i]
        /\ l'[Len(l) + 1] = n
    BY <1>0, <2>1, <2>3
  <2>5. \A i \in DOMAIN l' : i \in DOMAIN l \/ i = Len(l) + 1
    BY <2>4
  <2>6. \A i \in DOMAIN l : l[i].packet_id # call[t].ret
    <3> TAKE i \in DOMAIN l
    <3>1. PICK u \in Callers : call[u].ret = l[i].packet_id /\ Waits(u)
      BY DEF NodesInv, NodesAreOwned, Waits
    <3>2. u # t /\ Active(u) /\ Active(t)
      BY <2>1, <3>1 DEF Waits, Active, At
    <3> QED BY <2>1, <3>1, <3>2 DEF CallsInv, RetsDiffer
  <2>7. \A i, j \in DOMAIN l' : l'[i].packet_id = l'[j].packet_id => i = j
    BY <2>3, <2>4, <2>5, <2>6 DEF NodesInv
  <2>8. \A i \in DOMAIN l' : l'[i].ack_type = "SUCCESS" => l'[i].packet_id \in acked
    BY <2>3, <2>4, <2>5 DEF NodesInv
  <2>9. NodesAreOwned'
    <3> SUFFICES ASSUME NEW i \in DOMAIN l'
                 PROVE  \E u \in Callers : /\ call'[u].ret = l'[i].packet_id
                                            /\ call'[u].pc \in {"yield", "scan", "loop"}
      BY DEF NodesAreOwned
    <3>1. CASE i = Len(l) + 1
      BY <2>2, <2>3, <2>4, <3>1 DEF Moves
    <3>2. CASE i \in DOMAIN l
      <4>1. PICK u \in Callers : call[u].ret = l[i].packet_id /\ Waits(u)
        BY <3>2 DEF NodesInv, NodesAreOwned, Waits
      <4>2. u # t
        BY <2>1, <4>1 DEF Waits, At
      <4> QED BY <2>2, <2>4, <3>2, <4>1, <4>2 DEF Moves, Waits
    <3> QED BY <2>5, <3>1, <3>2
  <2> QED BY <2>1, <2>4, <2>7, <2>8, <2>9 DEF NodesInv
<1>8. ASSUME NEW t \in Callers, ScanSuccess(t) \/ ScanNack(t) PROVE NodesInv'
  <2>1. /\ list_sub_sync_ack # <<>> /\ Head(list_sub_sync_ack).packet_id = call[t].ret
        /\ list_sub_sync_ack' = Tail(list_sub_sync_ack) /\ acked' = acked
    BY <1>8 DEF ScanSuccess, ScanNack, OwnNode
  <2>2. /\ Tail(list_sub_sync_ack) = Without(list_sub_sync_ack, 1)
        /\ 1 \in DOMAIN list_sub_sync_ack /\ list_sub_sync_ack[1].packet_id = call[t].ret
    BY <1>0, <2>1, TailIsWithout
  <2>3. PICK r : call' = [call EXCEPT ![t] = r]
    BY <1>8 DEF ScanSuccess, ScanNack, Goto
  <2>4. Moves(t, r.pc, r.ret, r.subed)
    BY <1>0, <2>3 DEF Moves
  <2>5. list_sub_sync_ack' = Without(list_sub_sync_ack, 1)
    BY <2>1, <2>2
  <2> QED BY <2>1, <2>2, <2>4, <2>5, NodeGone, Zenon
<1>9. ASSUME NEW t \in Callers, LoopTimeout(t) PROVE NodesInv'
  <2>1. Goto(t, "failed") /\ acked' = acked
    BY <1>9 DEF LoopTimeout
  <2>2. Moves(t, "failed", call[t].ret, call[t].subed)
    BY <1>0, <2>1, GotoMoves DEF Pcs
  <2>3. CASE UNCHANGED list_sub_sync_ack
             /\ \A i \in DOMAIN list_sub_sync_ack : list_sub_sync_ack[i].packet_id # call[t].ret
    BY <1>1, <2>1, <2>3 DEF Pcs
  <2>4. ASSUME NEW k \in DOMAIN list_sub_sync_ack, list_sub_sync_ack[k].packet_id = call[t].ret,
               list_sub_sync_ack' = Without(list_sub_sync_ack, k)
        PROVE  NodesInv'
    BY <2>1, <2>2, <2>4, NodeGone
  <2> QED BY <1>9, <2>3, <2>4 DEF LoopTimeout
<1>10. ASSUME NEW t \in Threads, RecvSuback(t) PROVE NodesInv'
  <2> DEFINE l == list_sub_sync_ack
  <2>1. PICK p \in Answer :
          /\ p.type \in {"SUBACK", "NACK"}
          /\ l' = [i \in DOMAIN l |->
                     IF l[i].packet_id = p.id
                     THEN [l[i] EXCEPT !.ack_type = IF p.type = "SUBACK" THEN "SUCCESS" ELSE "NACK"]
                     ELSE l[i]]
          /\ acked' = IF p.type = "SUBACK" THEN acked \cup {p.id} ELSE acked
    <3>1. Head(s2c) \in Answer
      BY <1>10 DEF RecvSuback, PacketsInv
    <3> QED BY <1>10, <3>1 DEF RecvSuback
  <2>2. DOMAIN l' = DOMAIN l /\ acked \subseteq acked' /\ UNCHANGED call
    BY <1>10, <2>1 DEF RecvSuback
  <2>3. \A i \in DOMAIN l :
          /\ l'[i] \in SyncNode /\ l'[i].packet_id = l[i].packet_id
          /\ l'[i].ack_type = "SUCCESS" => l'[i].packet_id \in acked'
    <3> TAKE i \in DOMAIN l
    <3>1. l[i] \in SyncNode /\ (l[i].ack_type = "SUCCESS" => l[i].packet_id \in acked)
      BY <1>0 DEF NodesInv
    <3>2. CASE l[i].packet_id = p.id /\ p.type = "SUBACK"
      <4>1. l'[i] = [l[i] EXCEPT !.ack_type = "SUCCESS"] /\ p.id \in acked'
        BY <2>1, <3>2
      <4> QED BY <3>1, <3>2, <4>1 DEF SyncNode
    <3>3. CASE l[i].packet_id = p.id /\ p.type # "SUBACK"
      <4>1. l'[i] = [l[i] EXCEPT !.ack_type = "NACK"]
        BY <2>1, <3>3
      <4> QED BY <3>1, <4>1 DEF SyncNode
    <3>4. CASE l[i].packet_id # p.id
      BY <2>1, <2>2, <3>1, <3>4
    <3> QED BY <3>2, <3>3, <3>4
  <2>4. l' \in Seq(SyncNode)
    <3>1. DOMAIN l = 1..Len(l) /\ Len(l) \in Nat
      BY <1>0
    <3>2. l' \in [1..Len(l) -> SyncNode]
      BY <2>1, <2>2, <2>3, <3>1
    <3> QED BY <3>1, <3>2
  <2>5. NodesAreOwned'
    BY <2>2, <2>3 DEF NodesInv, NodesAreOwned
  <2> QED BY <2>2, <2>3, <2>4, <2>5 DEF NodesInv
<1>11. ASSUME UNCHANGED <<call, list_sub_sync_ack, acked>> PROVE NodesInv'
  BY <1>11 DEF NodesInv, NodesAreOwned
<1>12. CASE \/ \E t \in Callers : UnsubscribeRefused(t) \/ UnsubscribeFails(t)
                                 \/ \E f \in Filters : UnsubscribeSent(t, f)
            \/ \E t \in Threads : RecvUnsuback(t)
            \/ CallbackReturns \/ BrokerAnswers \/ ConnectionLost \/ Reconnected \/ UNCHANGED vars
  BY <1>11, <1>12 DEF UnsubscribeRefused, UnsubscribeFails, UnsubscribeSent, RecvUnsuback,
                      CallbackReturns, BrokerAnswers, ConnectionLost, Reconnected, vars
<1> QED BY <1>2, <1>3, <1>4, <1>5, <1>6, <1>7, <1>8, <1>9, <1>10, <1>12, NextSteps

-----------------------------------------------------------------------------
(* The theorems.                                                            *)

\* The rest of TypeOK: the variables the invariants above do not speak of.
RestInv ==
  /\ client_state \in {"CONNECTED", "DISCONNECTED"}
  /\ list_sub_handle \subseteq Handler
  /\ in_callback \in Threads \cup {NoThread}
  /\ faults \in 0..MaxFaults

LEMMA RestStep == CallsInv /\ RestInv /\ [Next]_vars => RestInv'
<1> SUFFICES ASSUME CallsInv, RestInv, [Next]_vars PROVE RestInv'
  OBVIOUS
<1>1. /\ client_state' \in {"CONNECTED", "DISCONNECTED"}
      /\ UNCHANGED faults \/ (faults < MaxFaults /\ faults' = faults + 1)
  BY NextSteps DEF RestInv, Breaks, SubscribeBegin, SubscribeSent, SubscribeRefused, SubscribeFails,
     InsertHandler, ReturnAtOnce, WaitForAck, InsertNode, YieldDone, ScanSuccess, ScanNack,
     ScanNothing, LoopAgain, LoopTimeout, UnsubscribeRefused, UnsubscribeFails, UnsubscribeSent,
     RecvSuback, RecvUnsuback, CallbackReturns, BrokerAnswers, ConnectionLost, Reconnected, vars
<1>2. faults' \in 0..MaxFaults
  BY <1>1, SubscribeAssumption DEF RestInv
<1>3. in_callback' \in Threads \cup {NoThread}
  BY NextSteps DEF RestInv, SubscribeBegin, SubscribeSent, SubscribeRefused, SubscribeFails,
     InsertHandler, ReturnAtOnce, WaitForAck, InsertNode, YieldDone, ScanSuccess, ScanNack,
     ScanNothing, LoopAgain, LoopTimeout, UnsubscribeRefused, UnsubscribeFails, UnsubscribeSent,
     RecvSuback, RecvUnsuback, CallbackReturns, BrokerAnswers, ConnectionLost, Reconnected, vars
<1>4. \/ list_sub_handle' \subseteq list_sub_handle
      \/ \E t \in Callers : InsertHandler(t)
  BY NextSteps DEF SubscribeBegin, SubscribeSent, SubscribeRefused, SubscribeFails,
     ReturnAtOnce, WaitForAck, InsertNode, YieldDone, ScanSuccess, ScanNack,
     ScanNothing, LoopAgain, LoopTimeout, UnsubscribeRefused, UnsubscribeFails, UnsubscribeSent,
     RecvSuback, RecvUnsuback, CallbackReturns, BrokerAnswers, ConnectionLost, Reconnected, vars
<1>5. ASSUME NEW t \in Callers, InsertHandler(t) PROVE list_sub_handle' \subseteq Handler
  <2>1. call[t].filter \in Filters
    BY DEF CallsInv, Call
  <2> QED BY <1>5, <2>1 DEF InsertHandler, Handler, RestInv
<1> QED BY <1>1, <1>2, <1>3, <1>4, <1>5 DEF RestInv

\* The inductive invariant.
IInv == CallsInv /\ PacketsInv /\ NodesInv /\ RestInv

LEMMA Invariant == Spec => []IInv
<1>1. Init => IInv
  <2> SUFFICES ASSUME Init PROVE IInv
    OBVIOUS
  <2>1. c2s = <<>> /\ s2c = <<>> /\ list_sub_sync_ack = <<>>
    BY DEF Init
  <2>2. PacketsInv
    BY <2>1 DEF PacketsInv
  <2>3. NodesInv
    BY <2>1 DEF NodesInv, NodesAreOwned
  <2>4. RestInv
    BY SubscribeAssumption DEF Init, RestInv
  <2> QED BY <2>2, <2>3, <2>4, CallsInit DEF IInv
<1>2. IInv /\ [Next]_vars => IInv'
  BY CallsStep, PacketsStep, NodesStep, RestStep DEF IInv
<1> QED BY <1>1, <1>2, PTL DEF Spec

\* Types, for any number of threads, identifiers and lost connections: what is on the
\* lists and in flight is what wrapper_mqtt_subscribe_sync and _iotx_mqtt_event_handle_sub
\* put there, and no identifier of the counter is beyond its bound.
THEOREM TypeCorrect == Spec => []TypeOK
<1>1. IInv => TypeOK
  <2> SUFFICES ASSUME IInv PROVE TypeOK
    OBVIOUS
  <2>1. \A i \in DOMAIN c2s : c2s[i].type \in {"SUBSCRIBE", "UNSUBSCRIBE"} /\ c2s[i].id \in Ids
    <3> TAKE i \in DOMAIN c2s
    <3>1. c2s[i] \in Request
      BY DEF IInv, PacketsInv
    <3> QED BY <3>1 DEF Request
  <2>2. \A i \in DOMAIN s2c : s2c[i].type \in {"SUBACK", "NACK", "UNSUBACK"} /\ s2c[i].id \in Ids
    <3> TAKE i \in DOMAIN s2c
    <3>1. s2c[i] \in Answer
      BY DEF IInv, PacketsInv
    <3> QED BY <3>1 DEF Answer
  <2>3. /\ call \in [Callers -> Call] /\ packet_id \in 0..MaxPacketId /\ acked \subseteq Ids
        /\ list_sub_sync_ack \in Seq(SyncNode)
    BY DEF IInv, CallsInv, NodesInv
  <2> QED BY <2>1, <2>2, <2>3 DEF IInv, RestInv, TypeOK
<1> QED BY <1>1, Invariant, PTL

\* A synchronous subscription that waited and succeeded was granted that very request,
\* whichever thread read its SUBACK (iotx_mqtt_client.c, wrapper_mqtt_subscribe_sync).
THEOREM WaitedSuccessGranted == Spec => []WaitedSuccessIsGranted
<1>1. IInv => WaitedSuccessIsGranted
  BY DEF IInv, CallsInv, CallOK, WaitedSuccessIsGranted, At
<1> QED BY <1>1, Invariant, PTL

\* Every node of list_sub_sync_ack has a call that will take it off the list, so none is
\* left at its head to end every later walk of wrapper_mqtt_subscribe_sync.
THEOREM NodesOwned == Spec => []NodesAreOwned
<1>1. IInv => NodesAreOwned
  BY DEF IInv, NodesInv
<1> QED BY <1>1, Invariant, PTL
=============================================================================
