----------------------------- MODULE CoapServer -----------------------------
(***************************************************************************)
(* The local CoAP server of coap_server/server: its list of sent messages  *)
(* (CoAPMessage.c), its observers (CoAPObserve.c) and its thread           *)
(* (CoAPServer.c), with the users this firmware has.                       *)
(*                                                                         *)
(*  - A notifier broadcasts a NON request over and over (awss_notify.c);   *)
(*    the request is kept on the list until its notifier cancels it.       *)
(*  - The access point of the device answers switchap with a CON response  *)
(*    (awss_dev_ap.c), inside the thread that reads the network.           *)
(*  - A Wi-Fi scan is sent to the observers of the list (awss_wifimgr.c).  *)
(*                                                                         *)
(* A step is one critical section.  Time is the expiry of a deadline.      *)
(***************************************************************************)
EXTENDS Naturals, FiniteSets

CONSTANTS Notifiers,  \* AWSS_NOTIFY_DEV_BIND_TOKEN, _SUCCESS, _DEV_RAND_SIGN
          Phones,     \* remote addresses
          Observing,  \* those that may observe the Wi-Fi list
          PhoneIds,   \* message ids the phones give their requests
          MaxId,      \* COAP_MAX_MESSAGE_ID
          MaxCount,   \* send_maxcount
          Retries,    \* COAP_MAX_RETRY_COUNT
          MaxSends,   \* messages in a behaviour
          None

ASSUME CoapAssumption ==
  /\ IsFiniteSet(Notifiers) /\ IsFiniteSet(Phones)
  /\ Observing \subseteq Phones /\ None \notin Notifiers \cup Phones
  /\ MaxId \in Nat \ {0} /\ PhoneIds \subseteq 0..MaxId
  /\ MaxCount \in Nat /\ Retries \in Nat \ {0} /\ MaxSends \in Nat

VARIABLES
  message_id,  \* the next id of the device's own messages
  sendlist,    \* the nodes; no numbers them in the order of the list
  count,       \* sendlist.count
  list_mutex,  \* holder of sendlist.list_mutex between two steps
  obsserver,   \* [Phones -> {"no", "NON", "CON"}]: the observers
  obs_mutex,   \* holder of obsserver.list_mutex between two steps
  notify,      \* [Notifiers -> [pc, msgid]]: g_notify_msg_id
  coap,        \* CoAPServer_yield: where it is, the node in its hands
  scan,        \* the scan timer: observers to notify, message to file
  deinit,      \* CoAPServer_deinit
  heard,       \* nodes whose handler has heard a result
  reheard,     \* one heard a second result
  sends        \* messages so far, sent or not

listVars == <<sendlist, count, list_mutex>>
obsVars == <<obsserver, obs_mutex, scan>>
toldVars == <<heard, reheard>>
histVars == <<toldVars, sends>>
vars == <<message_id, listVars, obsVars, notify, coap, deinit, histVars>>

Kinds == {"notify", "resp", "obs"}
Node == [no : Nat, kind : Kinds, owner : Notifiers \cup Phones, msgid : 0..MaxId,
         retrans_count : 0..Retries, due : BOOLEAN]
\* No node in hand, but perhaps an id.
Id(id) == [no |-> 0, kind |-> "none", owner |-> None, msgid |-> id, retrans_count |-> 0,
           due |-> FALSE]
NoNode == Id(0)

Kept(x) == x.kind = "notify"
Alive == deinit # "done"
ListFree == list_mutex = None /\ Alive
ObsFree == obs_mutex = None /\ Alive
At(pc) == coap.pc = pc

\* list_for_each_entry with a break: the first node that answers the test.
First(S, x) == x \in S /\ \A y \in S : x.no <= y.no

Init ==
  /\ message_id = 1
  /\ sendlist = {} /\ count = 0 /\ list_mutex = None
  /\ obsserver = [p \in Phones |-> "no"] /\ obs_mutex = None
  /\ scan = [todo |-> {}, filing |-> None, msgid |-> 0]
  /\ notify = [n \in Notifiers |-> [pc |-> "idle", msgid |-> 0]]
  /\ coap = [pc |-> "read", node |-> NoNode]
  /\ deinit = "no"
  /\ heard = {} /\ reheard = FALSE /\ sends = 0

-----------------------------------------------------------------------------
(* The list.                                                                *)

\* After 65535 comes 1, and 1 again: the wrap does not advance.
MessageIdGen == IF message_id = MaxId THEN 1 ELSE message_id
\* Fault: the id is read and not advanced.
NextIdStays == message_id
NextMessageId == IF message_id = MaxId THEN 1 ELSE message_id + 1

\* The write comes first, the node after it: a full list drops the node of a
\* message that is on the air.
Add(kind, owner, id) ==
  IF count >= MaxCount THEN UNCHANGED <<sendlist, count>>
  ELSE /\ sendlist' = sendlist \cup
            {[no |-> sends + 1, kind |-> kind, owner |-> owner, msgid |-> id, due |-> FALSE,
              retrans_count |-> IF kind = "notify" THEN 0 ELSE Retries]}
       /\ count' = count + 1

WithId(id) == {x \in sendlist : x.msgid = id}

\* CoAPMessageId_cancel takes every node with the id.
Cancel(id) ==
  /\ sendlist' = sendlist \ WithId(id)
  /\ count' = count - Cardinality(WithId(id))

Remove(x) ==
  /\ sendlist' = sendlist \ {x}
  /\ count' = count - 1

\* Only the response to switchap has a handler.
Told(x) ==
  /\ heard' = heard \cup (IF x.kind = "resp" THEN {x.no} ELSE {})
  /\ reheard' = (reheard \/ (x.kind = "resp" /\ x.no \in heard))

\* MaxSends leaves room for the messages that are being sent.
Sending == Cardinality({n \in Notifiers : notify[n].pc \in {"send", "add"}})
           + Cardinality(scan.todo) + (IF scan.filing = None THEN 0 ELSE 1)
RoomFor(k) == sends + Sending + k <= MaxSends

-----------------------------------------------------------------------------
(* Notifications: awss_notify_dev_info and the end of a campaign.           *)

\* Fault: the next notification is sent without a cancel of the last.
SendOverOld(n) ==
  /\ deinit = "no" /\ notify[n].pc = "idle" /\ ListFree
  /\ RoomFor(1)
  /\ notify' = [notify EXCEPT ![n].pc = "send"]
  /\ UNCHANGED <<message_id, listVars, obsVars, coap, deinit, histVars>>

CancelOld(n) ==
  /\ deinit = "no" /\ notify[n].pc = "idle" /\ ListFree
  /\ RoomFor(1)
  /\ Cancel(notify[n].msgid)
  /\ notify' = [notify EXCEPT ![n].pc = "send"]
  /\ UNCHANGED <<message_id, list_mutex, obsVars, coap, deinit, histVars>>

\* A new id, remembered before the message is written.
Send(n) ==
  /\ notify[n].pc = "send"
  /\ message_id' = NextMessageId
  /\ \E written \in BOOLEAN :
       /\ notify' = [notify EXCEPT ![n] = [pc |-> IF written THEN "add" ELSE "idle",
                                          msgid |-> MessageIdGen]]
       /\ sends' = IF written THEN sends ELSE sends + 1
  /\ UNCHANGED <<listVars, obsVars, coap, deinit, toldVars>>

AddNotify(n) ==
  /\ notify[n].pc = "add" /\ ListFree
  /\ Add("notify", n, notify[n].msgid) /\ sends' = sends + 1
  /\ notify' = [notify EXCEPT ![n].pc = "idle"]
  /\ UNCHANGED <<message_id, list_mutex, obsVars, coap, deinit, toldVars>>

\* Answered, tried AWSS_NOTIFY_CNT_MAX times, or stopped.
GiveUp(n) ==
  /\ deinit = "no" /\ notify[n].pc = "idle" /\ notify[n].msgid # 0 /\ ListFree
  /\ Cancel(notify[n].msgid)
  /\ notify' = [notify EXCEPT ![n].pc = "clear"]
  /\ UNCHANGED <<message_id, list_mutex, obsVars, coap, deinit, histVars>>

Clear(n) ==
  /\ notify[n].pc = "clear"
  /\ notify' = [notify EXCEPT ![n] = [pc |-> "idle", msgid |-> 0]]
  /\ UNCHANGED <<message_id, listVars, obsVars, coap, deinit, histVars>>

-----------------------------------------------------------------------------
(* The thread of the server: CoAPMessage_cycle.                             *)

Goto(pc) == coap' = [coap EXCEPT !.pc = pc]
Holding(pc, x) == coap' = [pc |-> pc, node |-> x]

\* Fault: a response takes its node off the list and does not count it.
AnswerNotCounted ==
  /\ At("read") /\ ListFree
  /\ \E x \in sendlist :
       /\ sendlist' = IF Kept(x) THEN sendlist ELSE sendlist \ {x}
       /\ Holding("answered", x)
  /\ UNCHANGED <<message_id, count, list_mutex, obsVars, notify, deinit, histVars>>

\* A response from a phone.  Its token finds the node: a notification stays, a
\* CON message leaves the list.
Answer ==
  /\ At("read") /\ ListFree
  /\ \E x \in sendlist :
       /\ \/ Kept(x) /\ UNCHANGED <<sendlist, count>>
          \/ ~Kept(x) /\ Remove(x)
       /\ Holding("answered", x)
  /\ UNCHANGED <<message_id, list_mutex, obsVars, notify, deinit, histVars>>

\* The handler, without the lock, and then the memory of a CON message is
\* freed.  The code reads node->keep to tell; when the notifier cancelled its
\* node in between, it reads freed memory, and the step is the outcome in which
\* the memory still says KEEPING.
Answered ==
  /\ At("answered")
  /\ Told(coap.node)
  /\ Holding("read", NoNode)
  /\ UNCHANGED <<message_id, listVars, obsVars, notify, deinit, sends>>

\* Fault: the handler hears the ACK and the response stays.
AckLeaves ==
  /\ At("read") /\ ListFree
  /\ \E x \in sendlist :
       /\ First(WithId(x.msgid), x)
       /\ ~Kept(x)
       /\ Told(x)
  /\ UNCHANGED <<message_id, listVars, obsVars, notify, coap, deinit, sends>>

\* An ACK or a RST carries an id: only a CON response leaves the list.  The
\* handler runs under list_mutex.
Ack ==
  /\ At("read") /\ ListFree
  /\ \E x \in sendlist :
       /\ First(WithId(x.msgid), x)
       /\ ~Kept(x)
       /\ Remove(x) /\ Told(x)
  /\ UNCHANGED <<message_id, list_mutex, obsVars, notify, coap, deinit, sends>>

\* switchap: the CON response, which a failed write keeps off the list, has the
\* id of the request; a request that makes sense is followed by a wait for the
\* acknowledgment, in this very thread.
SwitchAp ==
  /\ At("read") /\ ListFree /\ RoomFor(1)
  /\ \E p \in Phones, id \in PhoneIds :
       /\ Add("resp", p, id) \/ UNCHANGED <<sendlist, count>>
       /\ Holding("wait", Id(id)) \/ UNCHANGED coap
  /\ sends' = sends + 1
  /\ UNCHANGED <<message_id, list_mutex, obsVars, notify, deinit, toldVars>>

\* 2 s later, or at once when an earlier response was acknowledged: the handler
\* makes nothing of a response or a timeout.
WaitEnds ==
  /\ At("wait") /\ ListFree
  /\ Cancel(coap.node.msgid)
  /\ Holding("read", NoNode)
  /\ UNCHANGED <<message_id, list_mutex, obsVars, notify, deinit, histVars>>

\* getWifiList with the Observe option; the type of the request is the type
\* of the notifications to come.
Observe ==
  /\ At("read") /\ ObsFree
  /\ \E p \in Observing, type \in {"NON", "CON"} :
       obsserver' = [obsserver EXCEPT ![p] = IF @ = "no" THEN type ELSE @]
  /\ UNCHANGED <<message_id, listVars, obs_mutex, scan, notify, coap, deinit, histVars>>

\* waittime without a datagram ends CoAPMessage_process.
ReadTimeout ==
  /\ At("read")
  /\ Holding("retransmit", NoNode)
  /\ UNCHANGED <<message_id, listVars, obsVars, notify, deinit, histVars>>

\* Fault: one retransmission too many.
ResentPastZero(x) == IF x.due THEN [x EXCEPT !.retrans_count = @ - 1, !.due = FALSE] ELSE x

\* Fault: a retransmission is not counted.
ResentForEver(x) == IF x.due /\ x.retrans_count > 0 THEN [x EXCEPT !.due = FALSE] ELSE x

Resent(x) == IF x.due /\ x.retrans_count > 0
             THEN [x EXCEPT !.retrans_count = @ - 1, !.due = FALSE] ELSE x

Retransmit ==
  /\ At("retransmit") /\ ListFree
  /\ sendlist' = {Resent(x) : x \in sendlist}
  /\ Goto("expire")
  /\ UNCHANGED <<message_id, count, list_mutex, obsVars, notify, deinit, histVars>>

Expired == {x \in sendlist : ~Kept(x) /\ x.retrans_count = 0 /\ x.due}

\* Check_timeout takes the first one and, with list_mutex, asks for the lock
\* of the observers.
Expire ==
  /\ At("expire") /\ ListFree
  /\ \E x \in Expired : First(Expired, x) /\ Remove(x) /\ Holding("unhook", x)
  /\ list_mutex' = "coap"
  /\ UNCHANGED <<message_id, obsVars, notify, deinit, histVars>>

Unhook ==
  /\ At("unhook") /\ ObsFree
  /\ obsserver' = [obsserver EXCEPT ![coap.node.owner] = "no"]
  /\ list_mutex' = None
  /\ Goto("report")
  /\ UNCHANGED <<message_id, sendlist, count, obs_mutex, scan, notify, deinit, histVars>>

Report ==
  /\ At("report")
  /\ Told(coap.node)
  /\ Holding("expire", NoNode)
  /\ UNCHANGED <<message_id, listVars, obsVars, notify, deinit, sends>>

\* Fault: the thread does not look at g_coap_running.
CyclesOn ==
  /\ At("expire") /\ ListFree /\ Expired = {}
  /\ Goto("read")
  /\ UNCHANGED <<message_id, listVars, obsVars, notify, deinit, histVars>>

\* The next cycle, or the end of the thread.
CycleEnds ==
  /\ At("expire") /\ ListFree /\ Expired = {}
  /\ Goto(IF deinit = "no" THEN "read" ELSE "exited")
  /\ UNCHANGED <<message_id, listVars, obsVars, notify, deinit, histVars>>

-----------------------------------------------------------------------------
(* The scan timer: CoAPObsServer_notify sends under the lock of the list of  *)
(* observers.                                                                *)

ScanResult ==
  /\ deinit = "no" /\ ObsFree
  /\ LET found == {p \in Phones : obsserver[p] # "no"} IN
       /\ RoomFor(Cardinality(found))
       /\ scan' = [scan EXCEPT !.todo = found]
  /\ obs_mutex' = "scan"
  /\ UNCHANGED <<message_id, listVars, obsserver, notify, coap, deinit, histVars>>

\* A CON notification that was written is to be filed.
NotifyObserver(p) ==
  /\ obs_mutex = "scan" /\ scan.filing = None /\ p \in scan.todo
  /\ message_id' = NextMessageId
  /\ \E filing \in {p, None} :
       /\ filing = p => obsserver[p] = "CON"
       /\ scan' = [todo |-> scan.todo \ {p}, filing |-> filing, msgid |-> MessageIdGen]
       /\ sends' = IF filing = p THEN sends ELSE sends + 1
  /\ UNCHANGED <<listVars, obsserver, obs_mutex, notify, coap, deinit, toldVars>>

FileNotification ==
  /\ scan.filing # None /\ ListFree
  /\ Add("obs", scan.filing, scan.msgid) /\ sends' = sends + 1
  /\ scan' = [scan EXCEPT !.filing = None]
  /\ UNCHANGED <<message_id, list_mutex, obsserver, obs_mutex, notify, coap, deinit, toldVars>>

ScanSent ==
  /\ obs_mutex = "scan" /\ scan.filing = None /\ scan.todo = {}
  /\ obs_mutex' = None
  /\ UNCHANGED <<message_id, listVars, obsserver, scan, notify, coap, deinit, histVars>>

-----------------------------------------------------------------------------
(* Time and the end.                                                         *)

Due(x) ==
  /\ x \in sendlist /\ ~x.due /\ ~Kept(x)
  /\ sendlist' = (sendlist \ {x}) \cup {[x EXCEPT !.due = TRUE]}
  /\ UNCHANGED <<message_id, count, list_mutex, obsVars, notify, coap, deinit, histVars>>

\* awss_bind_deinit stops the notifiers first.
Deinit ==
  /\ deinit = "no"
  /\ \A n \in Notifiers : notify[n] = [pc |-> "idle", msgid |-> 0]
  /\ deinit' = "waiting"
  /\ UNCHANGED <<message_id, listVars, obsVars, notify, coap, histVars>>

\* The thread has posted the semaphore: the context is freed.
DeinitReturns ==
  /\ deinit = "waiting" /\ At("exited") /\ obs_mutex = None
  /\ deinit' = "done"
  /\ sendlist' = {} /\ count' = 0
  /\ UNCHANGED <<message_id, list_mutex, obsVars, notify, coap, histVars>>

Coap == Answered \/ WaitEnds \/ Retransmit \/ Expire \/ Unhook \/ Report \/ CycleEnds
Notifier(n) == Send(n) \/ AddNotify(n) \/ Clear(n)
Scan == (\E p \in Phones : NotifyObserver(p)) \/ FileNotification \/ ScanSent
Next ==
  \/ Coap \/ Answer \/ Ack \/ SwitchAp \/ Observe \/ ReadTimeout
  \/ \E n \in Notifiers : CancelOld(n) \/ GiveUp(n) \/ Notifier(n)
  \/ ScanResult \/ Scan
  \/ \E x \in sendlist : Due(x)
  \/ Deinit \/ DeinitReturns

Spec == Init /\ [][Next]_vars

\* The threads run, a deadline passes, and the network falls silent for
\* waittime again and again: CoAPMessage_process has no other way out.  A
\* thread that waits for the lock of the observers gets it in the end.
FairSpec ==
  /\ Spec /\ WF_vars(Coap) /\ SF_vars(Unhook) /\ SF_vars(ReadTimeout) /\ WF_vars(Scan) /\ WF_vars(DeinitReturns)
  /\ \A n \in Notifiers : WF_vars(Notifier(n))
  /\ \A k \in 1..MaxSends : WF_vars(\E x \in sendlist : x.no = k /\ Due(x))

-----------------------------------------------------------------------------
(* Properties.                                                               *)

\* Types.
TypeOK ==
  /\ message_id \in 1..MaxId
  /\ sendlist \subseteq Node /\ count \in Nat /\ list_mutex \in {None, "coap"}
  /\ obsserver \in [Phones -> {"no", "NON", "CON"}] /\ obs_mutex \in {None, "scan"}
  /\ scan \in [todo : SUBSET Phones, filing : Phones \cup {None}, msgid : 0..MaxId]
  /\ notify \in [Notifiers -> [pc : {"idle", "send", "add", "clear"}, msgid : 0..MaxId]]
  /\ coap \in [pc : {"read", "answered", "wait", "retransmit", "expire", "unhook", "report",
                     "exited"},
               node : Node \cup {Id(id) : id \in 0..MaxId}]
  /\ deinit \in {"no", "waiting", "done"}
  /\ heard \subseteq Nat /\ reheard \in BOOLEAN /\ sends \in Nat

\* A kept request never times out, so only its notifier can take it off the
\* list: each one on the list has the id its notifier remembers, and there is
\* one for a notifier.  Forgotten ones would fill the list for ever.
KeptIsRemembered ==
  /\ \A x \in sendlist : Kept(x) => x.msgid = notify[x.owner].msgid
  /\ \A x, y \in sendlist : Kept(x) /\ Kept(y) /\ x.owner = y.owner => x = y

\* The counter that the code tests against send_maxcount is the length of the
\* list, whichever of a cancel by id, an ACK, a response and a timeout takes it
\* down.  CoAPMessage_cancel, which does so too, has no caller.
CountIsLength == count = Cardinality(sendlist) /\ count <= MaxCount

\* The handler of a CON response hears one result, and hears it after the
\* response left the list, whether an ACK, a response of the phone, a timeout or
\* a cancel came first.
HandledOnce ==
  /\ ~reheard
  /\ \A x \in sendlist : x.no \notin heard

\* While message ids do not repeat, a notification leaves the list only by a
\* step of its notifier: no cancel of another thread hits it.
NotifierOwnsNode ==
  [][\A x \in sendlist : Kept(x) /\ x \notin sendlist' =>
       notify[x.owner] # notify'[x.owner] \/ deinit' = "done"]_vars

\* Every CON message leaves the list: acknowledged, given up or cancelled.
ResponsesSettle ==
  \A k \in 1..MaxSends :
    (\E x \in sendlist : x.no = k /\ ~Kept(x)) ~> ~(\E x \in sendlist : x.no = k)

\* CoAPServer_deinit gets the semaphore of the thread it stops.
DeinitEnds == deinit = "waiting" ~> deinit = "done"
=============================================================================
