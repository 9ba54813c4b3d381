-------------------------- MODULE CoapServerProofs --------------------------
(* Proofs about CoapServer, for any notifiers and phones, any length of the *)
(* list and any number of messages.                                         *)
EXTENDS CoapServer, FiniteSetTheorems, TLAPS

\* Next, one action at a time.
LEMMA NextSteps ==
  ASSUME Next
  PROVE  \/ Answered \/ WaitEnds \/ Retransmit \/ Expire \/ Unhook \/ Report \/ CycleEnds
         \/ Answer \/ Ack \/ SwitchAp \/ Observe \/ ReadTimeout
         \/ \E n \in Notifiers : CancelOld(n) \/ GiveUp(n) \/ Send(n) \/ AddNotify(n) \/ Clear(n)
         \/ ScanResult \/ FileNotification \/ ScanSent
         \/ \E p \in Phones : NotifyObserver(p)
         \/ \E x \in sendlist : Due(x)
         \/ Deinit \/ DeinitReturns
BY DEF Next, Coap, Notifier, Scan

-----------------------------------------------------------------------------
(* The list: its nodes have numbers of their own, its counter is its length. *)

NodesInv ==
  /\ sendlist \subseteq Node /\ sends \in Nat
  /\ IsFiniteSet(sendlist) /\ count = Cardinality(sendlist) /\ count <= MaxCount
  /\ \A x \in sendlist : x.no \in 1..sends
  /\ \A x, y \in sendlist : x.no = y.no => x = y

LEMMA Shrinks ==
  ASSUME NodesInv, NEW T, T \subseteq sendlist, sendlist' = sendlist \ T,
         count' = count - Cardinality(T), sends' = sends
  PROVE  NodesInv'
<1>1. IsFiniteSet(sendlist \ T) /\ Cardinality(sendlist \ T) = Cardinality(sendlist) - Cardinality(T)
  <2>1. sendlist \cap T = T
    OBVIOUS
  <2> QED BY <2>1, FS_Difference DEF NodesInv
<1>2. IsFiniteSet(T) /\ Cardinality(T) \in Nat /\ Cardinality(sendlist) \in Nat
  BY FS_Subset, FS_CardinalityType DEF NodesInv
<1>3. count' = Cardinality(sendlist') /\ count' <= MaxCount
  BY <1>1, <1>2, CoapAssumption DEF NodesInv
<1> QED BY <1>1, <1>3 DEF NodesInv

LEMMA WithIdIn ==
  ASSUME NEW id
  PROVE  WithId(id) \subseteq sendlist
BY DEF WithId

LEMMA RemovesOne ==
  ASSUME NodesInv, NEW x \in sendlist, Remove(x), sends' = sends
  PROVE  NodesInv'
<1>1. Cardinality({x}) = 1
  BY FS_Singleton
<1> QED BY <1>1, Shrinks DEF Remove

\* A node added last has the greatest number.
LEMMA Grows ==
  ASSUME NodesInv, sends' = sends + 1, NEW kind \in Kinds, NEW owner \in Notifiers \cup Phones,
         NEW id \in 0..MaxId, Add(kind, owner, id)
  PROVE  NodesInv'
<1>1. CASE count >= MaxCount
  BY <1>1 DEF Add, NodesInv
<1>2. CASE ~(count >= MaxCount)
  <2> DEFINE new == [no |-> sends + 1, kind |-> kind, owner |-> owner, msgid |-> id, due |-> FALSE,
                     retrans_count |-> IF kind = "notify" THEN 0 ELSE Retries]
  <2>1. sendlist' = sendlist \cup {new} /\ count' = count + 1
    BY <1>2 DEF Add
  <2>2. new \in Node /\ new.no = sends + 1 /\ new.no \in 1..(sends + 1)
    BY CoapAssumption DEF Node, NodesInv
  <2>3. \A x \in sendlist : x.no \in 1..sends /\ x.no \in 1..(sends + 1) /\ x.no # sends + 1
    BY DEF NodesInv
  <2>4. new \notin sendlist
    BY <2>2, <2>3
  <2>5. IsFiniteSet(sendlist') /\ Cardinality(sendlist') = count + 1
    BY <2>1, <2>4, FS_AddElement DEF NodesInv
  <2>6. count \in Nat
    BY FS_CardinalityType DEF NodesInv
  <2>7. count' <= MaxCount
    BY <2>1, <2>6, <1>2, CoapAssumption
  <2> HIDE DEF new
  <2>8. \A x, y \in sendlist' : x.no = y.no => x = y
    BY <2>1, <2>2, <2>3 DEF NodesInv
  <2> QED BY <2>1, <2>2, <2>3, <2>5, <2>7, <2>8 DEF NodesInv
<1> QED BY <1>1, <1>2

\* A retransmission or a deadline changes neither the number nor the identity
\* of a node.
LEMMA ResentType ==
  ASSUME NEW x \in Node
  PROVE  /\ Resent(x) \in Node /\ Resent(x).no = x.no /\ Resent(x).kind = x.kind
         /\ Resent(x).owner = x.owner /\ Resent(x).msgid = x.msgid
<1>1. x = [no |-> x.no, kind |-> x.kind, owner |-> x.owner, msgid |-> x.msgid,
           retrans_count |-> x.retrans_count, due |-> x.due] /\ x.retrans_count \in 0..Retries
  BY DEF Node
<1>2. CASE x.due /\ x.retrans_count > 0
  <2>1. x.retrans_count - 1 \in 0..Retries
    BY <1>1, <1>2, CoapAssumption
  <2>2. Resent(x) = [x EXCEPT !.retrans_count = @ - 1, !.due = FALSE]
    BY <1>2 DEF Resent
  <2> QED BY <2>1, <2>2 DEF Node
<1>3. CASE ~(x.due /\ x.retrans_count > 0)
  <2>1. Resent(x) = x
    BY <1>3 DEF Resent
  <2> QED BY <2>1
<1> QED BY <1>2, <1>3

LEMMA Renewed ==
  ASSUME NodesInv, sendlist' = {Resent(x) : x \in sendlist}, count' = count, sends' = sends
  PROVE  NodesInv'
<1> DEFINE f == [x \in sendlist |-> Resent(x)]
<1>1. \A x \in sendlist : Resent(x) \in Node /\ Resent(x).no = x.no
  BY ResentType DEF NodesInv
<1>2. f \in Bijection(sendlist, sendlist')
  <2>1. f \in [sendlist -> sendlist']
    OBVIOUS
  <2>2. \A x, y \in sendlist : f[x] = f[y] => x = y
    BY <1>1 DEF NodesInv
  <2>3. \A y \in sendlist' : \E x \in sendlist : f[x] = y
    OBVIOUS
  <2> QED BY <2>1, <2>2, <2>3 DEF Bijection, Injection, Surjection, IsInjective
<1>3. IsFiniteSet(sendlist') /\ Cardinality(sendlist') = Cardinality(sendlist)
  BY <1>2, FS_Bijection DEF ExistsBijection, NodesInv
<1>4. \A x, y \in sendlist' : x.no = y.no => x = y
  <2> SUFFICES ASSUME NEW x \in sendlist', NEW y \in sendlist', x.no = y.no
               PROVE  x = y
    OBVIOUS
  <2>1. PICK a \in sendlist : x = Resent(a)
    OBVIOUS
  <2>2. PICK b \in sendlist : y = Resent(b)
    OBVIOUS
  <2>3. a = b
    BY <2>1, <2>2, <1>1 DEF NodesInv
  <2> QED BY <2>1, <2>2, <2>3
<1>5. \A x \in sendlist' : x \in Node /\ x.no \in 1..sends
  BY <1>1 DEF NodesInv
<1> HIDE DEF f
<1> QED BY <1>3, <1>4, <1>5 DEF NodesInv

LEMMA ComesDue ==
  ASSUME NodesInv, NEW x \in sendlist, Due(x)
  PROVE  NodesInv'
<1> DEFINE y == [x EXCEPT !.due = TRUE]
<1>1. y \in Node /\ y.no = x.no /\ x.due = FALSE /\ y.due = TRUE
  BY DEF NodesInv, Node, Due
<1>2. sendlist' = (sendlist \ {x}) \cup {y} /\ count' = count /\ sends' = sends
  BY DEF Due, histVars
<1>3. y \notin sendlist
  BY <1>1 DEF NodesInv
<1> HIDE DEF y
<1>4. IsFiniteSet(sendlist') /\ Cardinality(sendlist') = Cardinality(sendlist)
  <2>1. IsFiniteSet(sendlist \ {x}) /\ Cardinality(sendlist \ {x}) = Cardinality(sendlist) - 1
    BY FS_RemoveElement DEF NodesInv
  <2>2. Cardinality(sendlist) \in Nat
    BY FS_CardinalityType DEF NodesInv
  <2> QED BY <1>2, <1>3, <2>1, <2>2, FS_AddElement
<1>5. \A a, b \in sendlist' : a.no = b.no => a = b
  BY <1>1, <1>2 DEF NodesInv
<1> QED BY <1>1, <1>2, <1>4, <1>5 DEF NodesInv
LEMMA NodesKept ==
  ASSUME TypeOK, NodesInv, Next
  PROVE  NodesInv'
<1>0. MaxId \in Nat /\ PhoneIds \subseteq 0..MaxId /\ MaxCount \in Nat
  BY CoapAssumption
<1>1. ASSUME sendlist' = sendlist, count' = count, sends' = sends
      PROVE  NodesInv'
  BY <1>1 DEF NodesInv
<1>2. ASSUME sendlist' = sendlist, count' = count, sends' = sends + 1
      PROVE  NodesInv'
  BY <1>2 DEF NodesInv
<1>3. ASSUME NEW id, Cancel(id), sends' = sends
      PROVE  NodesInv'
  BY <1>3, Shrinks, WithIdIn DEF Cancel
<1>4. CASE \E n \in Notifiers : CancelOld(n) \/ GiveUp(n)
  BY <1>4, <1>3 DEF CancelOld, GiveUp, histVars
<1>5. CASE \E n \in Notifiers : Send(n)
  BY <1>5, <1>1, <1>2 DEF Send, listVars
<1>6. ASSUME NEW n \in Notifiers, AddNotify(n)
      PROVE  NodesInv'
  <2>1. notify[n].msgid \in 0..MaxId
    BY DEF TypeOK
  <2>2. Add("notify", n, notify[n].msgid) /\ sends' = sends + 1
    BY <1>6 DEF AddNotify
  <2> QED BY <2>1, <2>2, Grows DEF Kinds
<1>7. CASE Ack
  <2>1. PICK x \in sendlist : Remove(x) /\ sends' = sends
    BY <1>7 DEF Ack
  <2> QED BY <2>1, RemovesOne
<1>8. CASE SwitchAp
  <2>1. PICK p \in Phones, id \in PhoneIds : Add("resp", p, id) \/ UNCHANGED <<sendlist, count>>
    BY <1>8 DEF SwitchAp
  <2>2. id \in 0..MaxId /\ sends' = sends + 1
    BY <1>0, <1>8 DEF SwitchAp
  <2> QED BY <1>2, <2>1, <2>2, Grows DEF Kinds
<1>9. CASE WaitEnds
  BY <1>9, <1>3 DEF WaitEnds, histVars
<1>10. CASE Retransmit
  BY <1>10, Renewed DEF Retransmit, histVars
<1>11. CASE Expire
  <2>1. PICK x \in Expired : Remove(x) /\ sends' = sends
    BY <1>11 DEF Expire, histVars
  <2> QED BY <2>1, RemovesOne DEF Expired
<1>12. CASE \E p \in Phones : NotifyObserver(p)
  BY <1>12, <1>1, <1>2 DEF NotifyObserver, listVars
<1>13. CASE FileNotification
  <2>1. scan.filing \in Phones /\ scan.msgid \in 0..MaxId
    BY <1>13 DEF FileNotification, TypeOK
  <2>2. Add("obs", scan.filing, scan.msgid) /\ sends' = sends + 1
    BY <1>13 DEF FileNotification
  <2> QED BY <2>1, <2>2, Grows DEF Kinds
<1>14. CASE \E x \in sendlist : Due(x)
  BY <1>14, ComesDue
<1>15. CASE DeinitReturns
  BY <1>15, <1>0, FS_EmptySet DEF DeinitReturns, NodesInv, histVars
<1>16. CASE \/ Answered \/ Unhook \/ Report \/ CycleEnds \/ Observe \/ ReadTimeout
            \/ \E n \in Notifiers : Clear(n)
            \/ ScanResult \/ ScanSent \/ Deinit
  BY <1>16, <1>1 DEF Answered, Unhook, Report, CycleEnds, Observe, ReadTimeout, Clear,
     ScanResult, ScanSent, Deinit, listVars, histVars
<1>17. CASE Answer
  <2>1. PICK x \in sendlist : UNCHANGED <<sendlist, count>> \/ Remove(x)
    BY <1>17 DEF Answer
  <2>2. sends' = sends
    BY <1>17 DEF Answer, histVars
  <2> QED BY <1>1, <2>1, <2>2, RemovesOne
<1> QED
  BY <1>4, <1>5, <1>6, <1>7, <1>8, <1>9, <1>10, <1>11, <1>12, <1>13, <1>14, <1>15, <1>16, <1>17, NextSteps

LEMMA CoapTypes ==
  ASSUME TypeOK, NodesInv, Next
  PROVE  coap' \in [pc : {"read", "answered", "wait", "retransmit", "expire", "unhook", "report",
                         "exited"},
                    node : Node \cup {Id(id) : id \in 0..MaxId}]
<1> DEFINE Held == Node \cup {Id(id) : id \in 0..MaxId}
<1> DEFINE Pc == {"read", "answered", "wait", "retransmit", "expire", "unhook", "report", "exited"}
<1>1. coap \in [pc : Pc, node : Held] /\ sendlist \subseteq Held
  BY DEF TypeOK
<1>2. 0 \in 0..MaxId
  BY CoapAssumption
<1>3. NoNode \in Held
  BY <1>2 DEF NoNode
<1>4. \A id \in PhoneIds : Id(id) \in Held
  BY CoapAssumption
<1> SUFFICES coap' \in [pc : Pc, node : Held]
  OBVIOUS
<1> HIDE DEF Held
<1>5. CASE coap' = coap
  BY <1>1, <1>5
<1>6. CASE Answer \/ Answered \/ SwitchAp \/ WaitEnds \/ ReadTimeout \/ Retransmit \/ Expire
           \/ Unhook \/ Report \/ CycleEnds
  <2>1. ASSUME NEW pc \in Pc, NEW x \in Held, Holding(pc, x)
        PROVE  coap' \in [pc : Pc, node : Held]
    BY <2>1 DEF Holding
  <2>2. ASSUME NEW pc \in Pc, Goto(pc)
        PROVE  coap' \in [pc : Pc, node : Held]
    BY <1>1, <2>2 DEF Goto
  <2>3. CASE Answer \/ Answered \/ WaitEnds \/ ReadTimeout \/ Report
    BY <1>1, <1>3, <2>1, <2>3 DEF Answer, Answered, WaitEnds, ReadTimeout, Report
  <2>4. CASE SwitchAp
    BY <1>4, <1>5, <2>1, <2>4 DEF SwitchAp
  <2>5. CASE Expire
    BY <1>1, <2>1, <2>5 DEF Expire, Expired
  <2>6. CASE Retransmit \/ Unhook \/ CycleEnds
    BY <2>2, <2>6 DEF Retransmit, Unhook, CycleEnds
  <2> QED BY <1>6, <2>3, <2>4, <2>5, <2>6
<1>7. CASE ~(Answer \/ Answered \/ SwitchAp \/ WaitEnds \/ ReadTimeout \/ Retransmit \/ Expire
             \/ Unhook \/ Report \/ CycleEnds)
  BY <1>5, <1>7, NextSteps DEF Ack, Observe, CancelOld, GiveUp, Send, AddNotify, Clear, ScanResult,
     FileNotification, ScanSent, NotifyObserver, Due, Deinit, DeinitReturns
<1> QED BY <1>6, <1>7

LEMMA TypeKept ==
  ASSUME TypeOK, NodesInv, Next
  PROVE  TypeOK'
<1>1. sendlist' \subseteq Node /\ count' \in Nat /\ sends' \in Nat
  BY NodesKept, FS_CardinalityType DEF NodesInv
<1>2. /\ message_id' \in 1..MaxId
      /\ scan' \in [todo : SUBSET Phones, filing : Phones \cup {None}, msgid : 0..MaxId]
  <2>1. NextMessageId \in 1..MaxId /\ MessageIdGen \in 0..MaxId
    BY CoapAssumption DEF NextMessageId, MessageIdGen, TypeOK
  <2>2. message_id \in 1..MaxId
        /\ scan \in [todo : SUBSET Phones, filing : Phones \cup {None}, msgid : 0..MaxId]
    BY DEF TypeOK
  <2>3. CASE UNCHANGED <<message_id, scan>>
    BY <2>2, <2>3
  <2>4. CASE \E n \in Notifiers : Send(n)
    BY <2>1, <2>2, <2>4 DEF Send, obsVars
  <2>5. ASSUME NEW p \in Phones, NotifyObserver(p)
        PROVE  /\ message_id' \in 1..MaxId
               /\ scan' \in [todo : SUBSET Phones, filing : Phones \cup {None}, msgid : 0..MaxId]
    BY <2>1, <2>2, <2>5 DEF NotifyObserver
  <2>6. CASE ScanResult \/ FileNotification
    BY <2>2, <2>6 DEF ScanResult, FileNotification
  <2>7. CASE ~((\E n \in Notifiers : Send(n)) \/ (\E p \in Phones : NotifyObserver(p))
               \/ ScanResult \/ FileNotification)
    BY <2>3, <2>7, NextSteps DEF Answered, WaitEnds, Retransmit, Expire, Unhook, Report, CycleEnds,
       Answer, Ack, SwitchAp, Observe, ReadTimeout, CancelOld, GiveUp, AddNotify, Clear, ScanSent,
       Due, Deinit, DeinitReturns, obsVars
  <2> QED BY <2>4, <2>5, <2>6, <2>7
<1>3. notify' \in [Notifiers -> [pc : {"idle", "send", "add", "clear"}, msgid : 0..MaxId]]
  <2>1. MessageIdGen \in 0..MaxId /\ 0 \in 0..MaxId
    BY CoapAssumption DEF MessageIdGen, TypeOK
  <2>2. notify \in [Notifiers -> [pc : {"idle", "send", "add", "clear"}, msgid : 0..MaxId]]
    BY DEF TypeOK
  <2>3. CASE notify' = notify
    BY <2>2, <2>3
  <2>4. ASSUME NEW n \in Notifiers, CancelOld(n) \/ GiveUp(n) \/ Send(n) \/ AddNotify(n) \/ Clear(n)
        PROVE  notify' \in [Notifiers -> [pc : {"idle", "send", "add", "clear"}, msgid : 0..MaxId]]
    BY <2>1, <2>2, <2>4 DEF CancelOld, GiveUp, Send, AddNotify, Clear
  <2>5. CASE ~\E n \in Notifiers : CancelOld(n) \/ GiveUp(n) \/ Send(n) \/ AddNotify(n) \/ Clear(n)
    BY <2>3, <2>5, NextSteps DEF Answered, WaitEnds, Retransmit, Expire, Unhook, Report, CycleEnds,
       Answer, Ack, SwitchAp, Observe, ReadTimeout, ScanResult, FileNotification, ScanSent,
       NotifyObserver, Due, Deinit, DeinitReturns
  <2> QED BY <2>4, <2>5
<1>4. /\ obsserver' \in [Phones -> {"no", "NON", "CON"}] /\ obs_mutex' \in {None, "scan"}
      /\ list_mutex' \in {None, "coap"}
  <2>1. /\ obsserver \in [Phones -> {"no", "NON", "CON"}] /\ obs_mutex \in {None, "scan"}
        /\ list_mutex \in {None, "coap"}
    BY DEF TypeOK
  <2>2. CASE UNCHANGED <<obsserver, obs_mutex, list_mutex>>
    BY <2>1, <2>2
  <2>3. CASE Observe \/ Unhook \/ ScanResult \/ ScanSent \/ Expire
    BY <2>1, <2>3 DEF Observe, Unhook, ScanResult, ScanSent, Expire, listVars, obsVars
  <2>4. CASE ~(Observe \/ Unhook \/ ScanResult \/ ScanSent \/ Expire)
    BY <2>2, <2>4, NextSteps DEF Answered, WaitEnds, Retransmit, Report, CycleEnds, Answer, Ack,
       SwitchAp, ReadTimeout, CancelOld, GiveUp, Send, AddNotify, Clear, FileNotification,
       NotifyObserver, Due, Deinit, DeinitReturns, listVars, obsVars
  <2> QED BY <2>3, <2>4
<1>5. deinit' \in {"no", "waiting", "done"}
  BY NextSteps DEF TypeOK, Answered, WaitEnds, Retransmit, Expire, Unhook, Report, CycleEnds, Answer,
     Ack, SwitchAp, Observe, ReadTimeout, CancelOld, GiveUp, Send, AddNotify, Clear, ScanResult,
     FileNotification, ScanSent, NotifyObserver, Due, Deinit, DeinitReturns
<1>6. heard' \subseteq Nat /\ reheard' \in BOOLEAN
  <2>1. heard \subseteq Nat /\ reheard \in BOOLEAN
    BY DEF TypeOK
  <2>2. CASE UNCHANGED toldVars
    BY <2>1, <2>2 DEF toldVars
  <2>3. ASSUME NEW x, x.no \in Nat, Told(x)
        PROVE  heard' \subseteq Nat /\ reheard' \in BOOLEAN
    BY <2>1, <2>3 DEF Told
  <2>4. coap.node.no \in Nat /\ \A x \in sendlist : x.no \in Nat
    BY DEF TypeOK, Node, Id
  <2>5. CASE Report
    BY <2>3, <2>4, <2>5 DEF Report
  <2>6. CASE Ack
    BY <2>3, <2>4, <2>6 DEF Ack
  <2>7. CASE Answered
    BY <2>3, <2>4, <2>7 DEF Answered
  <2>8. CASE ~(Report \/ Ack \/ Answered)
    BY <2>2, <2>8, NextSteps DEF WaitEnds, Retransmit, Expire, Unhook, CycleEnds, Answer,
       SwitchAp, Observe, ReadTimeout, CancelOld, GiveUp, Send, AddNotify, Clear, ScanResult,
       FileNotification, ScanSent, NotifyObserver, Due, Deinit, DeinitReturns, histVars
  <2> QED BY <2>5, <2>6, <2>7, <2>8
<1> QED BY <1>1, <1>2, <1>3, <1>4, <1>5, <1>6, CoapTypes DEF TypeOK

LEMMA StutterKeeps ==
  ASSUME TypeOK, NodesInv, UNCHANGED vars
  PROVE  TypeOK' /\ NodesInv'
BY DEF TypeOK, NodesInv, vars, listVars, obsVars, histVars, toldVars

LEMMA InitNodes ==
  ASSUME Init
  PROVE  TypeOK /\ NodesInv
<1>1. IsFiniteSet({}) /\ Cardinality({}) = 0
  BY FS_EmptySet
<1>2. NodesInv
  BY <1>1, CoapAssumption DEF Init, NodesInv
<1>3. 0 \in 0..MaxId /\ 1 \in 1..MaxId
  BY CoapAssumption
<1>4. coap = [pc |-> "read", node |-> Id(0)]
  BY DEF Init, NoNode
<1>5. coap \in [pc : {"read", "answered", "wait", "retransmit", "expire", "unhook", "report",
                    "exited"},
               node : Node \cup {Id(id) : id \in 0..MaxId}]
  BY <1>3, <1>4
<1> QED BY <1>2, <1>3, <1>5 DEF Init, TypeOK

\* Every state of the server and its users has its type: no counter of
\* retransmissions below zero, ids within 16 bits.
THEOREM TypeCorrect == Spec => []TypeOK
<1>1. Init => TypeOK /\ NodesInv
  BY InitNodes
<1>2. TypeOK /\ NodesInv /\ [Next]_vars => TypeOK' /\ NodesInv'
  BY TypeKept, NodesKept, StutterKeeps
<1> QED BY <1>1, <1>2, PTL DEF Spec

LEMMA NodesAlways == Spec => [](TypeOK /\ NodesInv)
<1>1. Init => TypeOK /\ NodesInv
  BY InitNodes
<1>2. TypeOK /\ NodesInv /\ [Next]_vars => TypeOK' /\ NodesInv'
  BY TypeKept, NodesKept, StutterKeeps
<1> QED BY <1>1, <1>2, PTL DEF Spec

\* The counter of the list is its length, at most send_maxcount, however
\* additions, cancels, acknowledgments, responses and timeouts interleave.
THEOREM ListCounted == Spec => []CountIsLength
<1>1. NodesInv => CountIsLength
  BY DEF NodesInv, CountIsLength
<1> QED BY <1>1, NodesAlways, PTL
-----------------------------------------------------------------------------
(* Kept requests.  While one of a notifier is on the list, the notifier is   *)
(* idle and remembers its id: only then can a cancel by that id find it.      *)

KeptInv ==
  /\ \A x \in sendlist : Kept(x) =>
       x.owner \in Notifiers /\ x.msgid = notify[x.owner].msgid /\ notify[x.owner].pc = "idle"
  /\ \A x, y \in sendlist : Kept(x) /\ Kept(y) /\ x.owner = y.owner => x = y

\* Kept nodes only go, and their notifiers stay as they are.
LEMMA KeptShrinks ==
  ASSUME KeptInv, \A x \in sendlist' : Kept(x) => x \in sendlist,
         \A x \in sendlist' : Kept(x) => notify'[x.owner] = notify[x.owner]
  PROVE  KeptInv'
BY DEF KeptInv, Kept

LEMMA AddedOthers ==
  ASSUME NEW kind \in {"resp", "obs"}, NEW owner, NEW id, Add(kind, owner, id)
  PROVE  \A x \in sendlist' : Kept(x) => x \in sendlist
BY DEF Add, Kept

\* A notifier that cancels takes its request off the list.
LEMMA KeptCancelled ==
  ASSUME TypeOK, KeptInv, NEW n \in Notifiers, Cancel(notify[n].msgid),
         NEW pc, notify' = [notify EXCEPT ![n].pc = pc]
  PROVE  KeptInv'
<1>1. \A x \in sendlist' : x \in sendlist /\ (Kept(x) => x.owner # n)
  BY DEF Cancel, WithId, KeptInv
<1>2. \A x \in sendlist' : Kept(x) => notify'[x.owner] = notify[x.owner]
  BY <1>1 DEF TypeOK, KeptInv
<1> QED BY <1>1, <1>2, KeptShrinks

LEMMA KeptAdded ==
  ASSUME TypeOK, KeptInv, NEW n \in Notifiers, AddNotify(n)
  PROVE  KeptInv'
<1> DEFINE new == [no |-> sends + 1, kind |-> "notify", owner |-> n, msgid |-> notify[n].msgid,
                   due |-> FALSE, retrans_count |-> 0]
<1>1. \A x \in sendlist' : x \in sendlist \/ x = new
  BY DEF AddNotify, Add
<1>2. new.owner = n /\ new.msgid = notify[n].msgid
  OBVIOUS
<1>3. \A x \in sendlist : Kept(x) => x.owner # n
  BY DEF AddNotify, KeptInv
<1>4. /\ notify'[n].pc = "idle" /\ notify'[n].msgid = notify[n].msgid
      /\ \A m \in Notifiers \ {n} : notify'[m] = notify[m]
  BY DEF AddNotify, TypeOK
<1> HIDE DEF new
<1> QED BY <1>1, <1>2, <1>3, <1>4 DEF KeptInv, Kept

LEMMA KeptKept ==
  ASSUME TypeOK, KeptInv, Next
  PROVE  KeptInv'
<1>1. CASE \E n \in Notifiers : CancelOld(n) \/ GiveUp(n)
  BY <1>1, KeptCancelled DEF CancelOld, GiveUp
<1>2. ASSUME NEW n \in Notifiers, Send(n) \/ Clear(n)
      PROVE  KeptInv'
  <2>1. \A x \in sendlist : Kept(x) => x.owner \in Notifiers \ {n}
    BY <1>2 DEF Send, Clear, KeptInv
  <2>2. sendlist' = sendlist /\ \A m \in Notifiers \ {n} : notify'[m] = notify[m]
    BY <1>2 DEF Send, Clear, TypeOK, listVars
  <2> QED BY <2>1, <2>2, KeptShrinks
<1>3. CASE \E n \in Notifiers : AddNotify(n)
  BY <1>3, KeptAdded
<1>4. CASE SwitchAp
  <2>1. \A x \in sendlist' : Kept(x) => x \in sendlist
    BY <1>4, AddedOthers DEF SwitchAp
  <2> QED BY <1>4, <2>1, KeptShrinks DEF SwitchAp
<1>5. CASE FileNotification
  BY <1>5, AddedOthers, KeptShrinks DEF FileNotification
<1>6. CASE Retransmit
  <2>1. \A x \in sendlist : Resent(x).kind = x.kind /\ Resent(x).owner = x.owner
                            /\ Resent(x).msgid = x.msgid
    BY ResentType DEF TypeOK
  <2>2. sendlist' = {Resent(x) : x \in sendlist} /\ notify' = notify
    BY <1>6 DEF Retransmit
  <2>3. \A y \in sendlist' : \E x \in sendlist : y = Resent(x)
    BY <2>2
  <2> QED BY <2>1, <2>2, <2>3 DEF KeptInv, Kept
<1>7. ASSUME NEW x \in sendlist, Due(x)
      PROVE  KeptInv'
  <2>1. \A y \in sendlist' : Kept(y) => y \in sendlist
    BY <1>7 DEF Due, Kept, TypeOK, Node
  <2>2. notify' = notify
    BY <1>7 DEF Due
  <2> QED BY <2>1, <2>2, KeptShrinks
<1>8. CASE Answer \/ Ack \/ WaitEnds \/ Expire \/ DeinitReturns
  <2>1. sendlist' \subseteq sendlist /\ notify' = notify
    BY <1>8 DEF Answer, Ack, WaitEnds, Expire, DeinitReturns, Remove, Cancel
  <2> QED BY <2>1, KeptShrinks
<1>9. CASE \/ Answered \/ Unhook \/ Report \/ CycleEnds \/ Observe \/ ReadTimeout
           \/ ScanResult \/ ScanSent \/ Deinit \/ \E p \in Phones : NotifyObserver(p)
  <2>1. sendlist' = sendlist /\ notify' = notify
    BY <1>9 DEF Answered, Unhook, Report, CycleEnds, Observe, ReadTimeout, ScanResult,
       ScanSent, Deinit, NotifyObserver, listVars
  <2> QED BY <2>1, KeptShrinks
<1> QED BY <1>1, <1>2, <1>3, <1>4, <1>5, <1>6, <1>7, <1>8, <1>9, NextSteps

\* A kept request on the list is the one its notifier remembers, and the only
\* one: cancelling by the remembered id leaves none behind.
THEOREM KeptRemembered == Spec => []KeptIsRemembered
<1>1. Init => KeptInv
  BY DEF Init, KeptInv
<1>2. TypeOK /\ KeptInv /\ [Next]_vars => KeptInv'
  <2>1. ASSUME KeptInv, UNCHANGED vars
        PROVE  KeptInv'
    BY <2>1 DEF KeptInv, Kept, vars, listVars
  <2> QED BY <2>1, KeptKept
<1>3. KeptInv => KeptIsRemembered
  BY DEF KeptInv, KeptIsRemembered
<1> QED BY <1>1, <1>2, <1>3, TypeCorrect, PTL DEF Spec

-----------------------------------------------------------------------------
(* Results.  A node is heard when it is off the list, and a node in the      *)
(* hands of Check_timeout or CoAPRespMessage_handle is neither on the list    *)
(* nor heard.                                                                 *)

\* A node that the thread has taken off the list.
InHand(c) == c.pc \in {"unhook", "report"} \/ (c.pc = "answered" /\ ~Kept(c.node))

HeardInv ==
  /\ ~reheard /\ heard \subseteq 1..sends
  /\ \A x \in sendlist : x.no \notin heard
  /\ InHand(coap) =>
       coap.node.no \in (1..sends) \ heard /\ \A x \in sendlist : x.no # coap.node.no

\* Nothing is heard, and the nodes of the list are old ones or new numbers.
LEMMA HeardStays ==
  ASSUME NodesInv, HeardInv, UNCHANGED toldVars, sends' \in {sends, sends + 1},
         \A y \in sendlist' : y.no = sends + 1 \/ \E x \in sendlist : y.no = x.no,
         InHand(coap)' => InHand(coap) /\ coap'.node = coap.node
  PROVE  HeardInv'
BY DEF NodesInv, HeardInv, toldVars

LEMMA AddedNumber ==
  ASSUME NEW kind, NEW owner, NEW id, Add(kind, owner, id)
  PROVE  \A y \in sendlist' : y.no = sends + 1 \/ \E x \in sendlist : y.no = x.no
BY DEF Add

LEMMA HeardKept ==
  ASSUME TypeOK, NodesInv, HeardInv, Next
  PROVE  HeardInv'
<1>1. CASE Ack
  <2>1. PICK x \in sendlist : Remove(x) /\ Told(x)
    BY <1>1 DEF Ack
  <2>2. coap' = coap /\ sends' = sends /\ coap.pc = "read"
    BY <1>1 DEF Ack, At
  <2>3. x.no \in 1..sends /\ \A y \in sendlist' : y \in sendlist /\ y.no # x.no
    BY <2>1 DEF NodesInv, Remove
  <2> QED BY <2>1, <2>2, <2>3 DEF HeardInv, InHand, Told
<1>2. CASE Report
  <2>1. Told(coap.node) /\ sendlist' = sendlist /\ sends' = sends /\ coap.pc = "report"
    BY <1>2 DEF Report, At, listVars
  <2>2. coap'.pc = "expire"
    BY <1>2 DEF Report, Holding
  <2> QED BY <2>1, <2>2 DEF HeardInv, InHand, Told
<1>3. CASE Expire
  <2>1. PICK x \in sendlist : Remove(x) /\ coap' = [pc |-> "unhook", node |-> x]
    BY <1>3 DEF Expire, Expired, Holding
  <2>2. UNCHANGED <<toldVars, sends>>
    BY <1>3 DEF Expire, histVars
  <2>3. x.no \in 1..sends /\ \A y \in sendlist' : y \in sendlist /\ y.no # x.no
    BY <2>1 DEF NodesInv, Remove
  <2>4. coap'.node = x
    BY <2>1
  <2> QED BY <2>2, <2>3, <2>4 DEF HeardInv, toldVars
<1>4. CASE Unhook
  <2>1. coap'.pc = "report" /\ coap'.node = coap.node /\ coap.pc = "unhook"
    BY <1>4 DEF Unhook, Goto, At, TypeOK
  <2>2. UNCHANGED <<toldVars, sends, sendlist>>
    BY <1>4 DEF Unhook, histVars
  <2> QED BY <2>1, <2>2 DEF HeardInv, InHand, toldVars
<1>5. CASE WaitEnds \/ Retransmit \/ ReadTimeout \/ CycleEnds \/ SwitchAp
  <2>1. ~InHand(coap)'
    BY <1>5 DEF WaitEnds, Retransmit, ReadTimeout, CycleEnds, SwitchAp, Holding,
       Goto, At, TypeOK, InHand
  <2>2. UNCHANGED toldVars /\ sends' \in {sends, sends + 1}
    BY <1>5 DEF WaitEnds, Retransmit, ReadTimeout, CycleEnds, SwitchAp, histVars
  <2>3. \A y \in sendlist' : y.no = sends + 1 \/ \E x \in sendlist : y.no = x.no
    <3>1. CASE sendlist' \subseteq sendlist
      BY <3>1
    <3>2. CASE SwitchAp
      BY <3>2, AddedNumber DEF SwitchAp
    <3>3. CASE Retransmit
      BY <3>3, ResentType DEF Retransmit, TypeOK
    <3> QED BY <1>5, <3>1, <3>2, <3>3 DEF WaitEnds, ReadTimeout, CycleEnds, Cancel, listVars
  <2> QED BY <2>1, <2>2, <2>3, HeardStays
<1>6. CASE \/ \E n \in Notifiers : CancelOld(n) \/ GiveUp(n) \/ Send(n) \/ AddNotify(n) \/ Clear(n)
           \/ Observe \/ ScanResult \/ FileNotification \/ ScanSent
           \/ \E p \in Phones : NotifyObserver(p)
           \/ \E x \in sendlist : Due(x)
           \/ Deinit \/ DeinitReturns
  <2>1. coap' = coap /\ UNCHANGED toldVars /\ sends' \in {sends, sends + 1}
    BY <1>6 DEF CancelOld, GiveUp, Send, AddNotify, Clear, Observe, ScanResult, FileNotification,
       ScanSent, NotifyObserver, Due, Deinit, DeinitReturns, histVars
  <2>2. \A y \in sendlist' : y.no = sends + 1 \/ \E x \in sendlist : y.no = x.no
    <3>1. CASE sendlist' \subseteq sendlist
      BY <3>1
    <3>2. CASE (\E n \in Notifiers : AddNotify(n)) \/ FileNotification
      BY <3>2, AddedNumber DEF AddNotify, FileNotification
    <3>3. CASE \E x \in sendlist : Due(x)
      BY <3>3 DEF Due, TypeOK, Node
    <3> QED BY <1>6, <3>1, <3>2, <3>3 DEF CancelOld, GiveUp, Send, Clear, Observe, ScanResult,
           ScanSent, NotifyObserver, Deinit, DeinitReturns, Cancel, listVars
  <2>3. InHand(coap)' => InHand(coap) /\ coap'.node = coap.node
    BY <2>1 DEF InHand
  <2> QED BY <2>1, <2>2, <2>3, HeardStays
<1>7. CASE Answer
  <2>1. PICK x \in sendlist :
          /\ \/ Kept(x) /\ sendlist' = sendlist
             \/ ~Kept(x) /\ Remove(x)
          /\ coap' = [pc |-> "answered", node |-> x]
    BY <1>7 DEF Answer, Holding
  <2>2. UNCHANGED <<toldVars, sends>>
    BY <1>7 DEF Answer, histVars
  <2>3. coap'.node = x /\ coap'.pc = "answered"
    BY <2>1
  <2>4. CASE Kept(x) /\ sendlist' = sendlist
    BY <2>2, <2>3, <2>4 DEF HeardInv, InHand, toldVars
  <2>5. CASE ~Kept(x) /\ Remove(x)
    <3>1. x.no \in 1..sends /\ \A y \in sendlist' : y \in sendlist /\ y.no # x.no
      BY <2>5 DEF NodesInv, Remove
    <3> QED BY <2>2, <2>3, <3>1 DEF HeardInv, toldVars
  <2> QED BY <2>1, <2>4, <2>5
<1>8. CASE Answered
  <2>1. /\ Told(coap.node) /\ sendlist' = sendlist /\ sends' = sends
        /\ coap.pc = "answered" /\ coap'.pc = "read"
    BY <1>8 DEF Answered, Holding, At, listVars
  <2>2. CASE Kept(coap.node)
    BY <2>1, <2>2 DEF HeardInv, InHand, Told, Kept
  <2>3. CASE ~Kept(coap.node)
    BY <2>1, <2>3 DEF HeardInv, InHand, Told
  <2> QED BY <2>2, <2>3
<1> QED BY <1>1, <1>2, <1>3, <1>4, <1>5, <1>6, <1>7, <1>8, NextSteps

\* The handler of a confirmable response hears at most one result, ACK, response
\* or timeout, and only when its node is off the list.
THEOREM HeardOnce == Spec => []HandledOnce
<1>1. Init => HeardInv
  BY DEF Init, HeardInv, InHand
<1>2. TypeOK /\ NodesInv /\ HeardInv /\ [Next]_vars => HeardInv'
  <2>1. ASSUME HeardInv, UNCHANGED vars
        PROVE  HeardInv'
    BY <2>1 DEF HeardInv, InHand, vars, listVars, histVars, toldVars
  <2> QED BY <2>1, HeardKept
<1>3. HeardInv => HandledOnce
  BY DEF HeardInv, HandledOnce
<1> QED BY <1>1, <1>2, <1>3, NodesAlways, PTL DEF Spec
-----------------------------------------------------------------------------
(* Cancels.  Every id is paid for with one of the messages of a behaviour:   *)
(* while these are fewer than the ids, no id comes back, and a cancel by id   *)
(* takes the request of the notifier that cancels and no other.               *)

\* Behaviours in which the ids stay below the wrap, and the phones choose others.
IdsDoNotRepeat == MaxSends < MaxId /\ PhoneIds \cap 1..MaxSends = {}

Adding == {n \in Notifiers : notify[n].pc = "add"}
Waiting == {n \in Notifiers : notify[n].pc \in {"send", "add"}}
Filing == IF scan.filing = None THEN 0 ELSE 1

\* No id is given before its message has its room.
RoomInv ==
  /\ sends + Cardinality(Waiting) + Cardinality(scan.todo) + Filing <= MaxSends
  /\ message_id <= 1 + sends + Cardinality(Adding) + Filing

LEMMA RoomNumbers ==
  ASSUME TypeOK
  PROVE  /\ IsFiniteSet(Waiting) /\ IsFiniteSet(Adding) /\ IsFiniteSet(scan.todo)
         /\ Cardinality(Waiting) \in Nat /\ Cardinality(Adding) \in Nat
         /\ Cardinality(scan.todo) \in Nat /\ Filing \in {0, 1}
         /\ sends \in Nat /\ message_id \in Nat /\ message_id >= 1
         /\ MaxSends \in Nat /\ MaxId \in Nat /\ MaxId >= 1
<1>1. Waiting \subseteq Notifiers /\ Adding \subseteq Notifiers /\ scan.todo \subseteq Phones
  BY DEF TypeOK, Waiting, Adding
<1>2. IsFiniteSet(Waiting) /\ IsFiniteSet(Adding) /\ IsFiniteSet(scan.todo)
  BY <1>1, CoapAssumption, FS_Subset
<1>3. /\ Cardinality(Waiting) \in Nat /\ Cardinality(Adding) \in Nat
      /\ Cardinality(scan.todo) \in Nat
  BY <1>2, FS_CardinalityType
<1> QED BY <1>2, <1>3, CoapAssumption DEF TypeOK, Filing

LEMMA RoomForLeaves ==
  ASSUME TypeOK, NEW k \in Nat, RoomFor(k)
  PROVE  sends + Cardinality(Waiting) + Cardinality(scan.todo) + Filing + k <= MaxSends
<1> DEFINE w == Cardinality(Waiting)
           t == Cardinality(scan.todo)
           g == Filing
<1>1. w \in Nat /\ t \in Nat /\ g \in {0, 1} /\ sends \in Nat /\ MaxSends \in Nat
  BY RoomNumbers
<1>2. sends + (w + t + g) + k <= MaxSends
  BY DEF RoomFor, Sending, Waiting, Filing
<1> HIDE DEF w, t, g
<1>3. sends + w + t + g + k <= MaxSends
  BY <1>1, <1>2
<1> QED BY <1>3 DEF w, t, g

\* The next id is at most one more.
LEMMA NextIdIsNext ==
  ASSUME TypeOK
  PROVE  /\ NextMessageId <= message_id + 1
         /\ message_id < MaxId => NextMessageId = message_id + 1 /\ MessageIdGen = message_id
BY RoomNumbers DEF NextMessageId, MessageIdGen

LEMMA RoomKept ==
  ASSUME TypeOK, TypeOK', RoomInv, Next
  PROVE  RoomInv'
<1> DEFINE w == Cardinality(Waiting)
           a == Cardinality(Adding)
           t == Cardinality(scan.todo)
           g == Filing
           z == Cardinality(Waiting')
           b == Cardinality(Adding')
           u == Cardinality(scan'.todo)
           h == Filing'
           i == message_id
           j == message_id'
           r == sends
           s == sends'
\* RoomInv in numbers.
<1>1. /\ w \in Nat /\ a \in Nat /\ t \in Nat /\ g \in {0, 1} /\ r \in Nat /\ i \in Nat
      /\ MaxSends \in Nat /\ i >= 1
      /\ r + w + t + g <= MaxSends /\ i <= 1 + r + a + g
  BY RoomNumbers DEF RoomInv
<1>2. /\ z \in Nat /\ b \in Nat /\ u \in Nat /\ h \in {0, 1} /\ s \in Nat /\ j \in Nat
  <2>1. Waiting' \subseteq Notifiers /\ Adding' \subseteq Notifiers /\ scan'.todo \subseteq Phones
    BY DEF TypeOK, Waiting, Adding
  <2>2. IsFiniteSet(Waiting') /\ IsFiniteSet(Adding') /\ IsFiniteSet(scan'.todo)
    BY <2>1, CoapAssumption, FS_Subset
  <2>3. z \in Nat /\ b \in Nat /\ u \in Nat
    BY <2>2, FS_CardinalityType
  <2> QED BY <2>3, CoapAssumption DEF TypeOK, Filing
<1>3. ASSUME s + z + u + h <= MaxSends, j <= 1 + s + b + h PROVE RoomInv'
  BY <1>3 DEF RoomInv
<1>4. IsFiniteSet(Waiting) /\ IsFiniteSet(Adding) /\ IsFiniteSet(scan.todo)
  BY RoomNumbers
<1>5. scan' = scan => u = t /\ h = g
  BY DEF Filing
<1>6. Waiting' = Waiting => z = w
  OBVIOUS
<1>7. Adding' = Adding => b = a
  OBVIOUS
<1>8. NextMessageId <= i + 1 /\ NextMessageId \in Nat
  BY NextIdIsNext, RoomNumbers DEF NextMessageId
<1>9. ASSUME NEW n, n \notin Waiting, Waiting' = Waiting \cup {n} PROVE z = w + 1
  <2> HIDE DEF Waiting
  <2> QED BY <1>4, <1>9, FS_AddElement
<1>10. ASSUME NEW n, n \in Waiting, Waiting' = Waiting \ {n} PROVE z = w - 1
  BY <1>4, <1>10, FS_RemoveElement
<1>11. ASSUME NEW n, n \notin Adding, Adding' = Adding \cup {n} PROVE b = a + 1
  BY <1>4, <1>11, FS_AddElement
<1>12. ASSUME NEW n, n \in Adding, Adding' = Adding \ {n} PROVE b = a - 1
  BY <1>4, <1>12, FS_RemoveElement
<1>13. ASSUME NEW p, p \in scan.todo, scan'.todo = scan.todo \ {p} PROVE u = t - 1 /\ t >= 1
  <2>1. u = t - 1
    BY <1>4, <1>13, FS_RemoveElement
  <2> HIDE DEF u, t
  <2> QED BY <1>1, <1>2, <2>1
<1>14. CASE \E n \in Notifiers : CancelOld(n)
  <2>1. PICK n \in Notifiers : CancelOld(n)
    BY <1>14
  <2>2. n \notin Waiting /\ Waiting' = Waiting \cup {n} /\ Adding' = Adding
    BY <2>1 DEF CancelOld, TypeOK, Waiting, Adding
  <2>3. r + w + t + g + 1 <= MaxSends
    BY <2>1, RoomForLeaves DEF CancelOld
  <2>4. z = w + 1 /\ b = a /\ u = t /\ h = g /\ s = r /\ j = i
    BY <1>5, <1>9, <2>1, <2>2 DEF CancelOld, obsVars, histVars
  <2> HIDE DEF w, a, t, g, z, b, u, h, i, j, r, s
  <2> QED BY <1>1, <1>3, <2>3, <2>4
<1>15. CASE \E n \in Notifiers : Send(n)
  <2>1. PICK n \in Notifiers : Send(n)
    BY <1>15
  <2>2. n \in Waiting /\ n \notin Adding /\ notify[n].pc = "send"
    BY <2>1 DEF Send, Waiting, Adding
  <2>3. j = NextMessageId /\ u = t /\ h = g
    BY <1>5, <2>1 DEF Send, obsVars
  <2>4. \/ Waiting' = Waiting /\ Adding' = Adding \cup {n} /\ s = r
        \/ Waiting' = Waiting \ {n} /\ Adding' = Adding /\ s = r + 1
    <3>1. PICK written \in BOOLEAN :
            /\ notify' = [notify EXCEPT ![n] = [pc |-> IF written THEN "add" ELSE "idle",
                                                msgid |-> MessageIdGen]]
            /\ sends' = IF written THEN sends ELSE sends + 1
      BY <2>1 DEF Send
    <3>2. notify'[n].pc = (IF written THEN "add" ELSE "idle")
          /\ \A m \in Notifiers : m # n => notify'[m] = notify[m]
      BY <3>1 DEF TypeOK
    <3>3. CASE written
      BY <2>2, <3>1, <3>2, <3>3 DEF Waiting, Adding
    <3>4. CASE ~written
      BY <2>2, <3>1, <3>2, <3>4 DEF Waiting, Adding
    <3> QED BY <3>3, <3>4
  <2>5. \/ z = w /\ b = a + 1 /\ s = r
        \/ z = w - 1 /\ b = a /\ s = r + 1
    BY <1>6, <1>7, <1>10, <1>11, <2>2, <2>4
  <2> HIDE DEF w, a, t, g, z, b, u, h, i, j, r, s
  <2> QED BY <1>1, <1>2, <1>3, <1>8, <2>3, <2>5
<1>16. CASE \E n \in Notifiers : AddNotify(n)
  <2>1. PICK n \in Notifiers : AddNotify(n)
    BY <1>16
  <2>2. /\ n \in Waiting /\ Waiting' = Waiting \ {n}
        /\ n \in Adding /\ Adding' = Adding \ {n}
    BY <2>1 DEF AddNotify, TypeOK, Waiting, Adding
  <2>3. z = w - 1 /\ b = a - 1 /\ u = t /\ h = g /\ s = r + 1 /\ j = i
    BY <1>5, <1>10, <1>12, <2>1, <2>2 DEF AddNotify, obsVars
  <2> HIDE DEF w, a, t, g, z, b, u, h, i, j, r, s
  <2> QED BY <1>1, <1>2, <1>3, <2>3
<1>17. CASE \E n \in Notifiers : GiveUp(n) \/ Clear(n)
  <2>1. Waiting' = Waiting /\ Adding' = Adding
    BY <1>17 DEF GiveUp, Clear, TypeOK, Waiting, Adding
  <2>2. u = t /\ h = g /\ s = r /\ j = i
    BY <1>5, <1>17 DEF GiveUp, Clear, obsVars, histVars
  <2>3. z = w /\ b = a
    BY <2>1
  <2> HIDE DEF w, a, t, g, z, b, u, h, i, j, r, s
  <2> QED BY <1>1, <1>3, <2>2, <2>3
<1>18. CASE SwitchAp
  <2>1. Waiting' = Waiting /\ Adding' = Adding
    BY <1>18 DEF SwitchAp, Waiting, Adding
  <2>2. z = w /\ b = a /\ u = t /\ h = g /\ s = r + 1 /\ j = i
    BY <1>5, <1>18, <2>1 DEF SwitchAp, obsVars
  <2>3. r + w + t + g + 1 <= MaxSends
    BY <1>18, RoomForLeaves DEF SwitchAp
  <2> HIDE DEF w, a, t, g, z, b, u, h, i, j, r, s
  <2> QED BY <1>1, <1>3, <2>2, <2>3
<1>19. CASE ScanResult
  <2>1. Waiting' = Waiting /\ Adding' = Adding /\ s = r /\ j = i /\ h = g
    BY <1>19 DEF ScanResult, Waiting, Adding, Filing, histVars, TypeOK
  <2>2. RoomFor(Cardinality(scan'.todo))
    BY <1>19 DEF ScanResult, TypeOK
  <2>3. r + w + t + g + u <= MaxSends
    <3>1. u \in Nat
      BY <1>2
    <3> QED BY <2>2, <3>1, RoomForLeaves
  <2>4. z = w /\ b = a
    BY <2>1
  <2> HIDE DEF w, a, t, g, z, b, u, h, i, j, r, s
  <2> QED BY <1>1, <1>2, <1>3, <2>1, <2>3, <2>4
<1>20. CASE \E p \in Phones : NotifyObserver(p)
  <2>1. PICK p \in Phones : NotifyObserver(p)
    BY <1>20
  <2>2. Waiting' = Waiting /\ Adding' = Adding /\ j = NextMessageId /\ g = 0
    BY <2>1 DEF NotifyObserver, Waiting, Adding, Filing
  <2>3. /\ p \in scan.todo /\ scan'.todo = scan.todo \ {p}
        /\ \/ h = 1 /\ s = r
           \/ h = 0 /\ s = r + 1
    <3>1. PICK filing \in {p, None} :
            /\ scan' = [todo |-> scan.todo \ {p}, filing |-> filing, msgid |-> MessageIdGen]
            /\ sends' = IF filing = p THEN sends ELSE sends + 1
      BY <2>1 DEF NotifyObserver
    <3>2. p # None
      BY CoapAssumption
    <3> QED BY <2>1, <3>1, <3>2 DEF NotifyObserver, Filing
  <2>4. u = t - 1 /\ t >= 1
    BY <1>13, <2>3
  <2>5. z = w /\ b = a
    BY <2>2
  <2> HIDE DEF w, a, t, g, z, b, u, h, i, j, r, s
  <2> QED BY <1>1, <1>2, <1>3, <1>8, <2>2, <2>3, <2>4, <2>5
<1>21. CASE FileNotification
  <2>1. Waiting' = Waiting /\ Adding' = Adding /\ j = i /\ g = 1 /\ s = r + 1
    BY <1>21 DEF FileNotification, Waiting, Adding, Filing
  <2>2. h = 0 /\ u = t
    BY <1>21 DEF FileNotification, Filing, TypeOK
  <2>3. z = w /\ b = a
    BY <2>1
  <2> HIDE DEF w, a, t, g, z, b, u, h, i, j, r, s
  <2> QED BY <1>1, <1>3, <2>1, <2>2, <2>3
<1>22. CASE \/ Answered \/ WaitEnds \/ Retransmit \/ Expire \/ Unhook \/ Report \/ CycleEnds
            \/ Answer \/ Ack \/ Observe \/ ReadTimeout \/ ScanSent
            \/ (\E x \in sendlist : Due(x)) \/ Deinit \/ DeinitReturns
  <2>1. notify' = notify /\ scan' = scan /\ j = i /\ s = r
    BY <1>22 DEF Answered, WaitEnds, Retransmit, Expire, Unhook, Report, CycleEnds, Answer, Ack,
       Observe, ReadTimeout, ScanSent, Due, Deinit, DeinitReturns, obsVars, histVars
  <2>2. Waiting' = Waiting /\ Adding' = Adding
    BY <2>1 DEF Waiting, Adding
  <2>3. z = w /\ b = a /\ u = t /\ h = g
    BY <1>5, <2>1, <2>2
  <2> HIDE DEF w, a, t, g, z, b, u, h, i, j, r, s
  <2> QED BY <1>1, <1>3, <2>1, <2>3
<1> QED BY <1>14, <1>15, <1>16, <1>17, <1>18, <1>19, <1>20, <1>21, <1>22, NextSteps

\* The ids given so far are those of the messages of the behaviour.
LEMMA IdsBelowWrap ==
  ASSUME TypeOK, RoomInv, IdsDoNotRepeat
  PROVE  /\ message_id <= MaxSends + 1
         /\ \A n \in Notifiers : notify[n].pc = "send" => message_id < MaxId
         /\ scan.todo # {} /\ scan.filing = None => message_id < MaxId
<1> DEFINE w == Cardinality(Waiting)
           a == Cardinality(Adding)
           t == Cardinality(scan.todo)
           g == Filing
<1>1. /\ w \in Nat /\ a \in Nat /\ t \in Nat /\ g \in {0, 1} /\ sends \in Nat /\ message_id \in Nat
      /\ MaxSends \in Nat /\ MaxId \in Nat /\ MaxSends < MaxId
      /\ sends + w + t + g <= MaxSends /\ message_id <= 1 + sends + a + g
  BY RoomNumbers DEF RoomInv, IdsDoNotRepeat
<1>2. IsFiniteSet(Waiting) /\ IsFiniteSet(Adding) /\ IsFiniteSet(scan.todo)
  BY RoomNumbers
<1>3. a <= w
  <2>1. Adding \subseteq Waiting
    BY DEF Adding, Waiting
  <2> QED BY <1>2, <2>1, FS_Subset
<1>4. ASSUME NEW n \in Notifiers, notify[n].pc = "send" PROVE a + 1 <= w
  <2>1. Adding \cup {n} \subseteq Waiting /\ n \notin Adding
    BY <1>4 DEF Adding, Waiting
  <2>2. Cardinality(Adding \cup {n}) = a + 1
    <3> HIDE DEF Adding
    <3> QED BY <1>2, <2>1, FS_AddElement
  <2>3. Cardinality(Adding \cup {n}) <= w
    <3> HIDE DEF Adding, Waiting
    <3> QED BY <1>2, <2>1, FS_Subset
  <2> QED BY <2>2, <2>3
<1>5. scan.todo # {} => t >= 1
  <2>1. scan.todo # {} => t # 0
    BY <1>2, FS_EmptySet
  <2> HIDE DEF t
  <2> QED BY <1>1, <2>1
<1>6. scan.filing = None => g = 0
  BY DEF Filing
<1> HIDE DEF w, a, t, g
<1>7. message_id <= MaxSends + 1
  BY <1>1, <1>3
<1>8. ASSUME NEW n \in Notifiers, notify[n].pc = "send" PROVE message_id < MaxId
  <2>1. a + 1 <= w
    BY <1>4, <1>8
  <2> QED BY <1>1, <2>1
<1>9. scan.todo # {} /\ scan.filing = None => message_id < MaxId
  BY <1>1, <1>3, <1>5, <1>6
<1> QED BY <1>7, <1>8, <1>9

\* The parts of OwnIdInv.
OwnIds ==
  \A n \in Notifiers :
    /\ notify[n].msgid < message_id
    /\ notify[n].pc = "add" => notify[n].msgid # 0
    /\ \A m \in Notifiers : notify[m].msgid = notify[n].msgid => m = n \/ notify[n].msgid = 0
StillKept == \A x \in sendlist : Kept(x) => x.msgid # 0 /\ x.retrans_count = 0
PhonesId == coap.pc = "wait" => coap.node.msgid \in PhoneIds

LEMMA OwnIdsKept ==
  ASSUME TypeOK, RoomInv, IdsDoNotRepeat, OwnIds, Next
  PROVE  OwnIds'
<1>1. message_id \in Nat /\ message_id >= 1 /\ \A n \in Notifiers : notify[n].msgid \in Nat
  BY CoapAssumption DEF TypeOK
<1>2. ASSUME NEW n \in Notifiers, Send(n) PROVE OwnIds'
  <2>1. message_id < MaxId
    BY <1>2, IdsBelowWrap DEF Send
  <2>2. message_id' = message_id + 1 /\ MessageIdGen = message_id
    BY <1>2, <2>1, NextIdIsNext DEF Send
  <2>3. notify'[n].msgid = message_id /\ \A m \in Notifiers : m # n => notify'[m] = notify[m]
    BY <1>2, <2>2 DEF Send, TypeOK
  <2> QED BY <1>1, <2>2, <2>3 DEF OwnIds
<1>3. ASSUME NEW n \in Notifiers, CancelOld(n) \/ AddNotify(n) \/ GiveUp(n) PROVE OwnIds'
  <2>1. /\ message_id' = message_id
        /\ \A m \in Notifiers : notify'[m].msgid = notify[m].msgid
                                /\ (notify'[m].pc = "add" => notify[m].pc = "add")
    BY <1>3 DEF CancelOld, AddNotify, GiveUp, TypeOK
  <2> QED BY <2>1 DEF OwnIds
<1>4. ASSUME NEW n \in Notifiers, Clear(n) PROVE OwnIds'
  <2>1. /\ message_id' = message_id /\ notify'[n].msgid = 0 /\ notify'[n].pc = "idle"
        /\ \A m \in Notifiers : m # n => notify'[m] = notify[m]
    BY <1>4 DEF Clear, TypeOK
  <2> QED BY <1>1, <2>1 DEF OwnIds
<1>5. ASSUME NEW p \in Phones, NotifyObserver(p) PROVE OwnIds'
  <2>1. scan.todo # {} /\ scan.filing = None
    BY <1>5 DEF NotifyObserver
  <2>2. message_id' = message_id + 1 /\ notify' = notify
    BY <1>5, <2>1, IdsBelowWrap, NextIdIsNext DEF NotifyObserver
  <2> QED BY <1>1, <2>2 DEF OwnIds
<1>6. CASE UNCHANGED <<message_id, notify>>
  BY <1>6 DEF OwnIds
<1> QED
  BY <1>2, <1>3, <1>4, <1>5, <1>6, NextSteps DEF Answered, WaitEnds, Retransmit, Expire, Unhook,
     Report, CycleEnds, Answer, Ack, SwitchAp, Observe, ReadTimeout, ScanResult, FileNotification,
     ScanSent, Due, Deinit, DeinitReturns

\* What a step leaves of the kept nodes, and what it adds to them.
LEMMA KeptNodes ==
  ASSUME TypeOK, StillKept, Next
  PROVE  /\ \A x \in sendlist' : Kept(x) =>
              \/ x \in sendlist
              \/ \E n \in Notifiers : /\ notify[n].pc = "add"
                                      /\ x.msgid = notify[n].msgid /\ x.retrans_count = 0
         /\ \A x \in sendlist : Kept(x) /\ x \notin sendlist' =>
              \/ \E n \in Notifiers : (CancelOld(n) \/ GiveUp(n)) /\ x.msgid = notify[n].msgid
              \/ WaitEnds /\ x.msgid = coap.node.msgid
              \/ deinit' = "done"
<1> DEFINE Old == \A x \in sendlist' : Kept(x) => x \in sendlist
           All == \A x \in sendlist : Kept(x) => x \in sendlist'
<1>1. ASSUME NEW n \in Notifiers, CancelOld(n) \/ GiveUp(n)
      PROVE  Old /\ \A x \in sendlist : x \notin sendlist' => x.msgid = notify[n].msgid
  BY <1>1 DEF CancelOld, GiveUp, Cancel, WithId
<1>2. ASSUME WaitEnds
      PROVE  Old /\ \A x \in sendlist : x \notin sendlist' => x.msgid = coap.node.msgid
  BY <1>2 DEF WaitEnds, Cancel, WithId
<1>3. ASSUME NEW n \in Notifiers, AddNotify(n)
      PROVE  /\ All
             /\ \A x \in sendlist' : x \in sendlist \/ /\ notify[n].pc = "add"
                                                       /\ x.msgid = notify[n].msgid
                                                       /\ x.retrans_count = 0
  BY <1>3 DEF AddNotify, Add
<1>4. CASE SwitchAp \/ FileNotification
  <2>1. Old
    BY <1>4, AddedOthers DEF SwitchAp, FileNotification
  <2>2. All
    BY <1>4 DEF SwitchAp, FileNotification, Add
  <2> QED BY <2>1, <2>2
<1>5. CASE Retransmit
  <2>1. sendlist' = {Resent(x) : x \in sendlist}
    BY <1>5 DEF Retransmit
  <2>2. \A x \in sendlist : (Kept(x) => Resent(x) = x) /\ (Kept(Resent(x)) => Kept(x))
    <3> TAKE x \in sendlist
    <3>1. Resent(x).kind = x.kind
      BY ResentType DEF TypeOK
    <3>2. Kept(x) => Resent(x) = x
      BY DEF StillKept, Resent
    <3> QED BY <3>1, <3>2 DEF Kept
  <2>3. Old
    <3> SUFFICES ASSUME NEW y \in sendlist', Kept(y) PROVE y \in sendlist
      OBVIOUS
    <3>1. PICK x \in sendlist : y = Resent(x)
      BY <2>1
    <3> QED BY <2>2, <3>1
  <2>4. All
    <3> SUFFICES ASSUME NEW x \in sendlist, Kept(x) PROVE x \in sendlist'
      OBVIOUS
    <3>1. Resent(x) = x
      BY <2>2
    <3> QED BY <2>1, <3>1
  <2> QED BY <2>3, <2>4
<1>6. ASSUME NEW x \in sendlist, Due(x) PROVE Old /\ All
  BY <1>6 DEF Due, Kept, TypeOK, Node
<1>7. CASE Answer \/ Ack \/ Expire
  BY <1>7 DEF Answer, Ack, Expire, Expired, Remove
<1>8. CASE DeinitReturns
  BY <1>8 DEF DeinitReturns
<1>9. CASE \/ Answered \/ Unhook \/ Report \/ CycleEnds \/ Observe \/ ReadTimeout
           \/ (\E n \in Notifiers : Send(n) \/ Clear(n))
           \/ ScanResult \/ ScanSent \/ Deinit \/ \E p \in Phones : NotifyObserver(p)
  <2>1. sendlist' = sendlist
    BY <1>9 DEF Answered, Unhook, Report, CycleEnds, Observe, ReadTimeout, Send, Clear,
       ScanResult, ScanSent, Deinit, NotifyObserver, listVars
  <2> QED BY <2>1
<1>10. CASE \E n \in Notifiers : CancelOld(n) \/ GiveUp(n)
  BY <1>1, <1>10
<1>11. CASE WaitEnds
  BY <1>2, <1>11
<1>12. CASE \E n \in Notifiers : AddNotify(n)
  BY <1>3, <1>12
<1>13. CASE \E x \in sendlist : Due(x)
  BY <1>6, <1>13
<1> QED BY <1>4, <1>5, <1>7, <1>8, <1>9, <1>10, <1>11, <1>12, <1>13, NextSteps

LEMMA StillKeptKept ==
  ASSUME TypeOK, OwnIds, StillKept, Next
  PROVE  StillKept'
<1>1. \A x \in sendlist' : Kept(x) => x \in sendlist \/ (x.msgid # 0 /\ x.retrans_count = 0)
  <2> SUFFICES ASSUME NEW x \in sendlist', Kept(x), x \notin sendlist
               PROVE  x.msgid # 0 /\ x.retrans_count = 0
    OBVIOUS
  <2>1. PICK n \in Notifiers : /\ notify[n].pc = "add"
                               /\ x.msgid = notify[n].msgid /\ x.retrans_count = 0
    BY KeptNodes
  <2> QED BY <2>1 DEF OwnIds
<1> QED BY <1>1 DEF StillKept, Kept

LEMMA PhonesIdKept ==
  ASSUME TypeOK, PhonesId, Next
  PROVE  PhonesId'
<1>1. CASE coap' = coap
  BY <1>1 DEF PhonesId
<1>2. CASE SwitchAp
  <2>1. PICK p \in Phones, id \in PhoneIds : Holding("wait", Id(id)) \/ UNCHANGED coap
    BY <1>2 DEF SwitchAp
  <2>2. CASE Holding("wait", Id(id))
    BY <2>2 DEF Holding, Id, PhonesId
  <2> QED BY <1>1, <2>1, <2>2
<1>3. CASE Answered \/ Answer \/ WaitEnds \/ ReadTimeout \/ Retransmit \/ Expire \/ Unhook \/ Report
           \/ CycleEnds
  <2>1. coap'.pc # "wait"
    BY <1>3 DEF Answered, Answer, WaitEnds, ReadTimeout, Retransmit, Expire, Unhook, Report,
       CycleEnds, Holding, Goto, TypeOK
  <2> QED BY <2>1 DEF PhonesId
<1> QED BY <1>1, <1>2, <1>3, NextSteps DEF Ack, Observe, CancelOld, GiveUp, Send, AddNotify, Clear,
     ScanResult, FileNotification, ScanSent, NotifyObserver, Due, Deinit, DeinitReturns

\* A cancel finds only what its caller sent.
LEMMA CancelsOwn ==
  ASSUME TypeOK, RoomInv, IdsDoNotRepeat, KeptInv, OwnIds, StillKept, PhonesId, Next,
         NEW x \in sendlist, Kept(x), x \notin sendlist'
  PROVE  notify[x.owner] # notify'[x.owner] \/ deinit' = "done"
<1>1. x.owner \in Notifiers /\ x.msgid = notify[x.owner].msgid /\ x.msgid # 0
  BY DEF KeptInv, StillKept
<1>2. CASE \E n \in Notifiers : (CancelOld(n) \/ GiveUp(n)) /\ x.msgid = notify[n].msgid
  <2>1. PICK n \in Notifiers : (CancelOld(n) \/ GiveUp(n)) /\ x.msgid = notify[n].msgid
    BY <1>2
  <2>2. x.owner = n
    BY <1>1, <2>1 DEF OwnIds
  <2>3. notify'[n].pc # notify[n].pc
    BY <2>1 DEF CancelOld, GiveUp, TypeOK
  <2> QED BY <2>2, <2>3
<1>3. CASE WaitEnds /\ x.msgid = coap.node.msgid
  <2>1. x.msgid \in PhoneIds
    BY <1>3 DEF WaitEnds, At, PhonesId
  <2>2. x.msgid < message_id /\ message_id <= MaxSends + 1
    BY <1>1, IdsBelowWrap DEF OwnIds
  <2>3. x.msgid \in 1..MaxSends
    <3>1. x.msgid \in Nat /\ message_id \in Nat /\ MaxSends \in Nat
      BY <1>1, CoapAssumption DEF TypeOK
    <3> QED BY <1>1, <2>2, <3>1
  <2> QED BY <2>1, <2>3 DEF IdsDoNotRepeat
<1> QED BY <1>2, <1>3, KeptNodes

\* As long as there are more ids than messages and the phones choose others, a kept request
\* leaves the list only by a step of its own notifier, whatever is cancelled at the same time.
THEOREM OnlyOwnersCancel == ASSUME IdsDoNotRepeat PROVE Spec => NotifierOwnsNode
<1> DEFINE I == TypeOK /\ RoomInv /\ KeptInv /\ OwnIds /\ StillKept /\ PhonesId
<1>1. Init => I
  <2> SUFFICES ASSUME Init PROVE I
    OBVIOUS
  <2>1. Waiting = {} /\ Adding = {} /\ scan.todo = {} /\ Filing = 0 /\ sends = 0 /\ message_id = 1
    BY DEF Init, Waiting, Adding, Filing
  <2>2. RoomInv
    <3>1. Cardinality({}) = 0
      BY FS_EmptySet
    <3> QED BY <2>1, <3>1, CoapAssumption DEF RoomInv
  <2>3. OwnIds
    BY DEF Init, OwnIds
  <2> QED BY <2>2, <2>3, InitNodes DEF Init, KeptInv, StillKept, PhonesId
<1>2. I /\ TypeOK' /\ [Next]_vars => I'
  <2>1. ASSUME I, UNCHANGED vars PROVE I'
    BY <2>1 DEF vars, listVars, obsVars, histVars, toldVars, TypeOK, RoomInv, KeptInv, OwnIds,
       StillKept, PhonesId, Kept, Waiting, Adding, Filing
  <2>2. ASSUME I, TypeOK', Next PROVE I'
    BY <2>2, RoomKept, KeptKept, OwnIdsKept, StillKeptKept, PhonesIdKept
  <2> HIDE DEF I
  <2> QED BY <2>1, <2>2
<1>3. I /\ [Next]_vars =>
        [\A x \in sendlist : Kept(x) /\ x \notin sendlist' =>
           notify[x.owner] # notify'[x.owner] \/ deinit' = "done"]_vars
  BY CancelsOwn
<1> HIDE DEF I
<1> QED BY <1>1, <1>2, <1>3, TypeCorrect, PTL DEF Spec, NotifierOwnsNode
=============================================================================
