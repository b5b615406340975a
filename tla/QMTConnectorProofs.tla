--------------------------- MODULE QMTConnectorProofs ---------------------------
(***************************************************************************)
(* What the QMT order channel keeps for any number of callers, handler     *)
(* threads, retries, duplicated deliveries and restarts.                   *)
(***************************************************************************)
EXTENDS QMTConnector, SequenceTheorems, WellFoundedInduction, TLAPS

-----------------------------------------------------------------------------
(* Looking orders up *)

(* A nonempty set of places has a first one.                                *)
LEMMA FirstExists ==
  ASSUME NEW S \in SUBSET Nat, S # {}
  PROVE  \E i \in S : \A j \in S : i <= j
<1>1. PICK i \in S : \A j \in S : <<j, i>> \notin OpToRel(<, Nat)
  BY NatLessThanWellFounded, WFMin
<1>2. ASSUME NEW j \in S PROVE i <= j
  <2>1. ~ (j < i)
    BY <1>1 DEF OpToRel
  <2> QED
    BY <2>1
<1> QED
  BY <1>2

LEMMA FirstOfIsMember ==
  ASSUME NEW S \in SUBSET (Nat \ {0})
  PROVE  /\ FirstOf(S) = 0 <=> S = {}
         /\ S # {} => FirstOf(S) \in S
BY FirstExists DEF FirstOf

(* _order_by_client_id and the search of _cancel_order return an order of   *)
(* the book exactly when there is one to return.                            *)
LEMMA Lookups ==
  ASSUME orders \in Seq(Order), NEW client, NEW id
  PROVE  /\ OrderByClientId(client) = 0 =>
              \A i \in DOMAIN orders : orders[i].client # client
         /\ OrderByClientId(client) # 0 => OrderByClientId(client) \in DOMAIN orders
         /\ OrderByIdentifier(id) # 0 => OrderByIdentifier(id) \in DOMAIN orders
<1>1. DOMAIN orders \subseteq Nat \ {0}
  OBVIOUS
<1>2. {i \in DOMAIN orders : orders[i].client = client} \in SUBSET (Nat \ {0})
  BY <1>1
<1>3. {i \in DOMAIN orders : orders[i].id = id} \in SUBSET (Nat \ {0})
  BY <1>1
<1> QED
  BY <1>2, <1>3, FirstOfIsMember DEF OrderByClientId, OrderByIdentifier

-----------------------------------------------------------------------------
(* Type correctness *)

CreatingStages == {"number", "bump", "append"}

(* What a thread creates an order from names an order.                      *)
SubmitsNameOrders ==
  \A n \in 1 .. Len(requests) :
    requests[n].kind = "submit" =>
      requests[n].client \in ClientIds /\ requests[n].terms \in Terms

CreatorsSubmit ==
  \A t \in Threads :
    thread[t].pc \in CreatingStages => RequestOf(t).kind = "submit"

QInv == QMTTypeOK /\ SubmitsNameOrders /\ CreatorsSubmit

(* Requests are never taken back.                                           *)
RequestsStay ==
  /\ Len(requests) \in Nat /\ Len(requests') \in Nat
  /\ Len(requests) <= Len(requests')
  /\ \A n \in 1 .. Len(requests) : requests'[n] = requests[n]

LEMMA ErrorsAreAnswers ==
  ASSUME NEW outcome \in Outcomes
  PROVE  Error(outcome) \in Answers
BY DEF Error, Answer, Answers

LEMMA IdleIsThreadState == IdleThread \in ThreadState
BY ErrorsAreAnswers DEF IdleThread, Fresh, ThreadState, Outcomes

LEMMA ThreadMoves ==
  ASSUME QInv, NEW t \in Threads, NEW pc, Goto(t, pc)
  PROVE  /\ thread'[t].pc = pc
         /\ thread'[t].nonce = thread[t].nonce
         /\ \A u \in Threads \ {t} : thread'[u] = thread[u]
<1>1. thread[t] \in ThreadState
  BY DEF QInv, QMTTypeOK
<1> QED
  BY <1>1 DEF QInv, QMTTypeOK, Goto, ThreadState

LEMMA ThreadAnswers ==
  ASSUME QInv, NEW t \in Threads, NEW answer, AnswerWith(t, answer)
  PROVE  /\ thread'[t].pc = "audit"
         /\ thread'[t].nonce = thread[t].nonce
         /\ \A u \in Threads \ {t} : thread'[u] = thread[u]
<1>1. thread[t] \in ThreadState
  BY DEF QInv, QMTTypeOK
<1> QED
  BY <1>1 DEF QInv, QMTTypeOK, AnswerWith, ThreadState

(* A step that only moves one thread, keeping its request.                  *)
LEMMA ThreadType ==
  ASSUME QInv, NEW t \in Threads, requests' = requests,
         thread' \in [Threads -> ThreadState],
         \A u \in Threads \ {t} : thread'[u] = thread[u],
         thread'[t].nonce = thread[t].nonce, thread[t].pc # "idle",
         thread'[t].pc \in CreatingStages => RequestOf(t).kind = "submit"
  PROVE  /\ \A u \in Threads : thread'[u].pc # "idle" =>
              thread'[u].nonce \in 1 .. Len(requests')
         /\ SubmitsNameOrders' /\ CreatorsSubmit'
BY DEF QInv, QMTTypeOK, SubmitsNameOrders, CreatorsSubmit, RequestOf

LEMMA AnswerType ==
  ASSUME QInv, NEW t \in Threads, NEW answer \in Answers, thread[t].pc # "idle",
         AnswerWith(t, answer), requests' = requests
  PROVE  /\ thread' \in [Threads -> ThreadState]
         /\ \A u \in Threads : thread'[u].pc # "idle" =>
              thread'[u].nonce \in 1 .. Len(requests')
         /\ SubmitsNameOrders' /\ CreatorsSubmit'
<1>1. thread' \in [Threads -> ThreadState]
  <2>1. thread[t] \in ThreadState
    BY DEF QInv, QMTTypeOK
  <2>2. [thread[t] EXCEPT !.pc = "audit", !.answer = answer] \in ThreadState
    BY <2>1 DEF ThreadState
  <2> QED
    BY <2>2 DEF AnswerWith, QInv, QMTTypeOK
<1> QED
  BY <1>1, ThreadAnswers, ThreadType DEF CreatingStages

LEMMA GotoType ==
  ASSUME QInv, NEW t \in Threads, thread[t].pc # "idle", requests' = requests,
         NEW pc \in {"handle", "number", "append", "reply"}, Goto(t, pc),
         pc \in CreatingStages => RequestOf(t).kind = "submit"
  PROVE  /\ thread' \in [Threads -> ThreadState]
         /\ \A u \in Threads : thread'[u].pc # "idle" =>
              thread'[u].nonce \in 1 .. Len(requests')
         /\ SubmitsNameOrders' /\ CreatorsSubmit'
<1>1. thread' \in [Threads -> ThreadState]
  <2>1. thread[t] \in ThreadState
    BY DEF QInv, QMTTypeOK
  <2>2. [thread[t] EXCEPT !.pc = pc] \in ThreadState
    BY <2>1 DEF ThreadState
  <2> QED
    BY <2>2 DEF Goto, QInv, QMTTypeOK
<1> QED
  BY <1>1, ThreadMoves, ThreadType

LEMMA InitQ == Init => QInv
<1> SUFFICES ASSUME Init PROVE QInv
  OBVIOUS
<1>1. QMTTypeOK
  BY IdleIsThreadState, ConnectorAssumption
  DEF Init, QMTTypeOK, IdleThread, Fresh, FirstOrderId
<1> QED
  BY <1>1 DEF Init, QInv, SubmitsNameOrders, CreatorsSubmit, CreatingStages, IdleThread,
      Fresh

(* The parts of the type invariant besides the threads', for a step that    *)
(* sends nothing.                                                           *)
LEMMA AdapterType ==
  ASSUME QInv, NEW c \in Callers, Adapter(c)
  PROVE  QInv'
<1> USE DEF QInv, QMTTypeOK
<1>1. ASSUME NEW r \in Request, Send(c, r),
             r.kind = "submit" => r.client \in ClientIds /\ r.terms \in Terms
      PROVE  QInv'
  <2>1. /\ requests' = Append(requests, r)
        /\ requests' \in Seq(Request)
        /\ Len(requests') = Len(requests) + 1
        /\ Len(requests') <= MaxRequests
    BY <1>1, ConnectorAssumption DEF Send
  <2>2. RequestsStay
    BY <2>1 DEF RequestsStay
  <2>3. requests'[Len(requests')] = r
    BY <2>1
  <2>4. 1 .. Len(requests) \subseteq 1 .. Len(requests')
    BY <2>2 DEF RequestsStay
  <2>5. waiting' \in [Callers -> 0 .. Len(requests')]
    BY <1>1, <2>1, <2>2 DEF Send, RequestsStay
  <2>6. QMTTypeOK'
    BY <1>1, <2>1, <2>4, <2>5 DEF Send, bookVars
  <2>7. SubmitsNameOrders'
    BY <1>1, <2>1, <2>2, <2>3 DEF SubmitsNameOrders, RequestsStay
  <2>8. CreatorsSubmit'
    BY <1>1, <2>2 DEF Send, CreatorsSubmit, CreatingStages, RequestOf, RequestsStay
  <2> QED
    BY <2>6, <2>7, <2>8
<1>2. ASSUME NEW client \in ClientIds, NEW terms \in Terms, PlaceOrder(c, client, terms)
      PROVE  QInv'
  BY <1>1, <1>2 DEF PlaceOrder, Request
<1>3. ASSUME NEW e \in clientAudit, CancelOrder(c, e.answer.id)
      PROVE  QInv'
  <2>1. e.answer.id \in Nat
    BY DEF Answers
  <2> QED
    BY <1>1, <1>3, <2>1 DEF CancelOrder, Request
<1>4. ASSUME GiveUp(c)
      PROVE  QInv'
  <2>1. waiting[c] \in 1 .. Len(requests)
    BY <1>4 DEF GiveUp
  <2>2. Error("refused") \in Answers
    BY ErrorsAreAnswers DEF Outcomes
  <2>3. QMTTypeOK'
    BY <1>4, <2>1, <2>2 DEF GiveUp, bookVars
  <2> QED
    BY <1>4, <2>3 DEF GiveUp, SubmitsNameOrders, CreatorsSubmit, RequestOf
<1> QED
  BY <1>2, <1>3, <1>4 DEF Adapter

(* Everything but the threads stays, or changes as said.                    *)
LEMMA HandlerType ==
  ASSUME QInv, NEW t \in Threads, Handler(t)
  PROVE  QInv' /\ requests' = requests
<1> USE DEF QInv, QMTTypeOK, callerVars, bookVars
<1> DEFINE ThreadsFine ==
             /\ thread' \in [Threads -> ThreadState]
             /\ \A u \in Threads : thread'[u].pc # "idle" =>
                  thread'[u].nonce \in 1 .. Len(requests')
             /\ SubmitsNameOrders' /\ CreatorsSubmit'
<1>0. /\ thread[t] \in ThreadState
      /\ thread[t].pc # "idle" => RequestOf(t) \in Request
  BY DEF RequestOf
<1>1. ASSUME NEW n \in DOMAIN requests, Deliver(t, n)
      PROVE  QInv' /\ requests' = requests
  <2>1. n \in 1 .. Len(requests)
    BY <1>1
  <2>2. Fresh("gate", n) \in ThreadState
    BY <2>1, ErrorsAreAnswers DEF Fresh, ThreadState, Outcomes
  <2>3. /\ thread' \in [Threads -> ThreadState]
        /\ thread'[t].nonce = n
        /\ \A u \in Threads \ {t} : thread'[u] = thread[u]
    BY <1>1, <2>2 DEF Deliver, Fresh
  <2>5. \A u \in Threads : thread'[u].pc # "idle" =>
          thread'[u].nonce \in 1 .. Len(requests')
    BY <1>1, <2>1, <2>3 DEF Deliver
  <2>6. delivered' \subseteq 1 .. Len(requests)
    BY <1>1, <2>1 DEF Deliver
  <2>8. duplicates' \in 0 .. MaxDuplicates
    <3>1. CASE duplicates' = duplicates
      BY <3>1
    <3>2. CASE duplicates < MaxDuplicates /\ duplicates' = duplicates + 1
      BY <3>2, ConnectorAssumption
    <3> QED
      BY <1>1, <3>1, <3>2 DEF Deliver
  <2>7. QMTTypeOK'
    BY <1>1, <2>3, <2>5, <2>6, <2>8 DEF Deliver
  <2>4. SubmitsNameOrders' /\ CreatorsSubmit'
    BY <1>1 DEF Deliver, SubmitsNameOrders, CreatorsSubmit, CreatingStages, RequestOf,
                Fresh
  <2> QED
    BY <1>1, <2>4, <2>7 DEF Deliver
<1>2. ASSUME Verify(t)
      PROVE  QInv' /\ requests' = requests
  <2>1. ThreadsFine
    BY <1>2, GotoType DEF Verify, CreatingStages
  <2> QED
    BY <1>2, <2>1 DEF Verify
<1>3. ASSUME RejectSignature(t)
      PROVE  QInv' /\ requests' = requests
  <2>1. ThreadsFine
    BY <1>3, AnswerType, ErrorsAreAnswers DEF RejectSignature, Outcomes
  <2> QED
    BY <1>3, <2>1 DEF RejectSignature
<1>4. ASSUME RefuseOrder(t)
      PROVE  QInv' /\ requests' = requests
  <2>1. ThreadsFine
    BY <1>4, AnswerType, ErrorsAreAnswers DEF RefuseOrder, Handling, Outcomes
  <2> QED
    BY <1>4, <2>1 DEF RefuseOrder
<1>5. ASSUME Replay(t)
      PROVE  QInv' /\ requests' = requests
  <2> DEFINE i == OrderByClientId(RequestOf(t).client)
             answer == IF orders[i].terms = RequestOf(t).terms
                       THEN Answer("replay", orders[i].id, orders[i].client,
                                   orders[i].terms)
                       ELSE Error("conflict")
  <2>1. i \in DOMAIN orders
    BY <1>5, Lookups DEF Replay
  <2>2. orders[i] \in Order
    BY <2>1
  <2>3. answer \in Answers
    BY <2>2, ErrorsAreAnswers DEF Order, Answer, Answers, Outcomes
  <2>4. AnswerWith(t, answer) /\ thread[t].pc # "idle"
    BY <1>5 DEF Replay, Handling
  <2>5. requests' = requests
    BY <1>5 DEF Replay
  <2> HIDE DEF answer
  <2>6. ThreadsFine
    BY <2>3, <2>4, <2>5, AnswerType
  <2> QED
    BY <1>5, <2>6 DEF Replay
<1>6. ASSUME StartOrder(t)
      PROVE  QInv' /\ requests' = requests
  <2>1. thread[t].pc # "idle" /\ RequestOf(t).kind = "submit" /\ requests' = requests
    BY <1>6 DEF StartOrder, Handling
  <2>2. ThreadsFine
    BY <1>6, <2>1, GotoType DEF StartOrder
  <2>3. RequestOf(t).client \in ClientIds
    BY <2>1 DEF SubmitsNameOrders, RequestOf
  <2>4. raced' \in [client : SUBSET ClientIds, id : SUBSET Nat]
    BY <1>6, <2>3 DEF StartOrder
  <2> QED
    BY <1>6, <2>2, <2>4 DEF StartOrder
<1>7. ASSUME ReadOrderId(t)
      PROVE  QInv' /\ requests' = requests
  <2>1. /\ thread' \in [Threads -> ThreadState]
        /\ thread'[t].nonce = thread[t].nonce
        /\ \A u \in Threads \ {t} : thread'[u] = thread[u]
    BY <1>7, <1>0 DEF ReadOrderId, ThreadState
  <2>2. ThreadsFine
    BY <1>7, <2>1, ThreadType DEF ReadOrderId, CreatorsSubmit, CreatingStages
  <2>3. raced' \in [client : SUBSET ClientIds, id : SUBSET Nat]
    BY <1>7 DEF ReadOrderId
  <2> QED
    BY <1>7, <2>2, <2>3 DEF ReadOrderId
<1>8. ASSUME BumpOrderId(t)
      PROVE  QInv' /\ requests' = requests
  <2>1. ThreadsFine
    BY <1>8, GotoType DEF BumpOrderId, CreatorsSubmit, CreatingStages
  <2> QED
    BY <1>8, <2>1 DEF BumpOrderId
<1>9. ASSUME AppendOrder(t)
      PROVE  QInv' /\ requests' = requests
  <2> DEFINE r == RequestOf(t)
             o == [id |-> thread[t].id, client |-> r.client, terms |-> r.terms,
                   status |-> "submitted", nonce |-> thread[t].nonce]
  <2>1. r.client \in ClientIds /\ r.terms \in Terms
    BY <1>9, <1>0
    DEF AppendOrder, Appended, CreatorsSubmit, SubmitsNameOrders, RequestOf, CreatingStages
  <2>2. o \in Order
    BY <2>1, <1>0 DEF Order, ThreadState
  <2>3. orders' \in Seq(Order)
    BY <1>9, <2>2 DEF AppendOrder, Appended
  <2>4. Answer("accepted", thread[t].id, r.client, r.terms) \in Answers
    BY <2>1, <1>0 DEF Answer, Answers, Outcomes, ThreadState
  <2>5. /\ thread' \in [Threads -> ThreadState]
        /\ thread'[t].nonce = thread[t].nonce
        /\ thread'[t].pc = "audit"
        /\ \A u \in Threads \ {t} : thread'[u] = thread[u]
    BY <1>9, <1>0, <2>4 DEF AppendOrder, Appended, ThreadState
  <2>6. ThreadsFine
    BY <1>9, <2>5, ThreadType DEF AppendOrder, Appended, CreatingStages
  <2> QED
    BY <1>9, <2>3, <2>6 DEF AppendOrder, Appended
<1>10. ASSUME Cancel(t)
       PROVE  QInv' /\ requests' = requests
  <2>1. OrderByIdentifier(RequestOf(t).id) \in DOMAIN orders
    BY <1>10, Lookups DEF Cancel
  <2>2. orders' \in Seq(Order)
    <3> DEFINE i == OrderByIdentifier(RequestOf(t).id)
    <3>1. [orders[i] EXCEPT !.status = "cancelled"] \in Order
      <4>1. orders[i] \in Order
        BY <2>1
      <4> QED
        BY <4>1 DEF Order
    <3>2. orders' = [orders EXCEPT ![i] = [orders[i] EXCEPT !.status = "cancelled"]]
      BY <1>10, <2>1 DEF Cancel
    <3> QED
      BY <2>1, <3>1, <3>2, ExceptSeq
  <2>3. Answer("cancelled", RequestOf(t).id, NoText, NoText) \in Answers
    BY <1>10, <1>0 DEF Cancel, Handling, Request, Answer, Answers, Outcomes
  <2>4. ThreadsFine
    BY <1>10, <2>3, AnswerType DEF Cancel, Handling
  <2> QED
    BY <1>10, <2>2, <2>4 DEF Cancel
<1>11. ASSUME CancelNothing(t)
       PROVE  QInv' /\ requests' = requests
  <2>1. ThreadsFine
    BY <1>11, AnswerType, ErrorsAreAnswers DEF CancelNothing, Handling, Outcomes
  <2> QED
    BY <1>11, <2>1 DEF CancelNothing
<1>12. ASSUME AuditEvent(t)
       PROVE  QInv' /\ requests' = requests
  <2>1. ThreadsFine
    BY <1>12, GotoType DEF AuditEvent, CreatingStages
  <2>2. [nonce |-> thread[t].nonce, boot |-> restarts, answer |-> thread[t].answer]
          \in [nonce : 1 .. Len(requests), boot : 0 .. MaxRestarts, answer : Answers]
    BY <1>12, <1>0 DEF AuditEvent, ThreadState
  <2> QED
    BY <1>12, <2>1, <2>2 DEF AuditEvent
<1>13. ASSUME Reply(t)
       PROVE  QInv' /\ requests' = requests
  <2>1. thread' \in [Threads -> ThreadState]
    BY <1>13, IdleIsThreadState DEF Reply
  <2>2. ThreadsFine
    BY <1>13, <2>1
    DEF Reply, IdleThread, Fresh, SubmitsNameOrders, CreatorsSubmit, CreatingStages, RequestOf
  <2>3. /\ thread[t].nonce \in 1 .. Len(requests)
        /\ thread[t].answer \in Answers
        /\ Error("refused") \in Answers
    BY <1>13, <1>0, ErrorsAreAnswers DEF Reply, ThreadState, Outcomes
  <2>4. waiting' \in [Callers -> 0 .. Len(requests)]
    <3>1. waiting' \in {waiting, [waiting EXCEPT ![RequestOf(t).caller] = 0]}
      BY <1>13 DEF Reply
    <3>2. 0 \in 0 .. Len(requests)
      OBVIOUS
    <3> QED
      BY <3>1, <3>2
  <2>5. clientAudit' \subseteq [nonce : 1 .. Len(requests), ended : {"ok", "error"},
                                answer : Answers]
    BY <1>13, <2>3 DEF Reply
  <2> QED
    BY <1>13, <2>2, <2>4, <2>5 DEF Reply
<1> QED
  BY <1>1, <1>2, <1>3, <1>4, <1>5, <1>6, <1>7, <1>8, <1>9, <1>10, <1>11, <1>12, <1>13
  DEF Handler

LEMMA StepQ ==
  ASSUME QInv, [Next]_vars
  PROVE  QInv'
<1>1. ASSUME Restart
      PROVE  QInv'
  BY <1>1, IdleIsThreadState, ConnectorAssumption
  DEF Restart, StartAfresh, QInv, QMTTypeOK, callerVars, FirstOrderId, IdleThread, Fresh,
      SubmitsNameOrders, CreatorsSubmit, CreatingStages, RequestOf
<1>2. CASE UNCHANGED vars
  BY <1>2 DEF vars, callerVars, bookVars, QInv, QMTTypeOK, SubmitsNameOrders,
              CreatorsSubmit, RequestOf
<1> QED
  BY <1>1, <1>2, AdapterType, HandlerType DEF Next

(* Every reachable state is well-formed: what the caller's and the          *)
(* connector's logs name was sent, orders in the book are complete.         *)
THEOREM QMTTypeCorrect == Spec => []QMTTypeOK
<1>1. QInv => QMTTypeOK
  BY DEF QInv
<1> QED
  BY <1>1, InitQ, StepQ, PTL DEF Spec

-----------------------------------------------------------------------------
(* Which steps touch which part of the book *)

(* Threads stay at work on the request they have, or leave it.              *)
Stay(stages) ==
  \A u \in Threads : thread'[u].pc \in stages =>
    thread[u].pc \in stages /\ thread'[u].nonce = thread[u].nonce

WorkingStages == {"handle"} \cup CreatingStages

(* A step of a thread that neither verifies, nor starts, appends or cancels *)
(* an order leaves the book alone and starts no work.                       *)
LEMMA QuietHandler ==
  ASSUME QInv, NEW t \in Threads, Handler(t),
         ~Verify(t), ~StartOrder(t), ~AppendOrder(t), ~Cancel(t)
  PROVE  /\ orders' = orders /\ seenNonces' = seenNonces
         /\ raced'.client = raced.client
         /\ Stay(WorkingStages) /\ Stay(CreatingStages)
<1> USE DEF QInv, QMTTypeOK, bookVars, Stay, WorkingStages, CreatingStages
<1>1. ASSUME NEW n \in DOMAIN requests, Deliver(t, n)
      PROVE  orders' = orders /\ seenNonces' = seenNonces /\ raced' = raced /\
             Stay(WorkingStages) /\ Stay(CreatingStages)
  BY <1>1 DEF Deliver, Fresh
<1>2. ASSUME RejectSignature(t) \/ RefuseOrder(t) \/ Replay(t) \/ CancelNothing(t)
      PROVE  orders' = orders /\ seenNonces' = seenNonces /\ raced' = raced /\
             Stay(WorkingStages) /\ Stay(CreatingStages)
  <2>1. PICK answer : AnswerWith(t, answer)
    BY <1>2 DEF RejectSignature, RefuseOrder, Replay, CancelNothing
  <2>3. /\ thread'[t].pc = "audit"
        /\ \A u \in Threads \ {t} : thread'[u] = thread[u]
    BY <2>1, ThreadAnswers
  <2>4. orders' = orders /\ seenNonces' = seenNonces /\ raced' = raced
    BY <1>2 DEF RejectSignature, RefuseOrder, Replay, CancelNothing
  <2> QED
    BY <2>3, <2>4
<1>3. ASSUME BumpOrderId(t) \/ AuditEvent(t)
      PROVE  orders' = orders /\ seenNonces' = seenNonces /\ raced' = raced /\
             Stay(WorkingStages) /\ Stay(CreatingStages)
  <2>1. \/ thread[t].pc = "bump" /\ Goto(t, "append")
        \/ Goto(t, "reply")
    BY <1>3 DEF BumpOrderId, AuditEvent
  <2>2. /\ \/ thread[t].pc = "bump" /\ thread'[t].pc = "append"
           \/ thread'[t].pc = "reply"
        /\ thread'[t].nonce = thread[t].nonce
        /\ \A u \in Threads \ {t} : thread'[u] = thread[u]
    BY <2>1, ThreadMoves
  <2>3. orders' = orders /\ seenNonces' = seenNonces /\ raced' = raced
    BY <1>3 DEF BumpOrderId, AuditEvent
  <2> QED
    BY <2>2, <2>3
<1>4. ASSUME ReadOrderId(t)
      PROVE  orders' = orders /\ seenNonces' = seenNonces /\
             raced'.client = raced.client /\
             Stay(WorkingStages) /\ Stay(CreatingStages)
  BY <1>4 DEF ReadOrderId, ThreadState
<1>5. ASSUME Reply(t)
      PROVE  orders' = orders /\ seenNonces' = seenNonces /\ raced' = raced /\
             Stay(WorkingStages) /\ Stay(CreatingStages)
  BY <1>5 DEF Reply, IdleThread, Fresh
<1> QED
  BY <1>1, <1>2, <1>3, <1>4, <1>5 DEF Handler

LEMMA QuietAdapter ==
  ASSUME QInv, NEW c \in Callers, Adapter(c)
  PROVE  /\ UNCHANGED <<orders, seenNonces, raced, thread>>
         /\ RequestsStay
<1>1. ASSUME NEW r \in Request, Send(c, r)
      PROVE  UNCHANGED <<orders, seenNonces, raced, thread>> /\ RequestsStay
  BY <1>1 DEF Send, bookVars, RequestsStay, QInv, QMTTypeOK
<1>2. ASSUME GiveUp(c)
      PROVE  UNCHANGED <<orders, seenNonces, raced, thread>> /\ RequestsStay
  BY <1>2 DEF GiveUp, bookVars, RequestsStay, QInv, QMTTypeOK
<1>3. ASSUME NEW e \in clientAudit
      PROVE  e.answer.id \in Nat
  BY <1>3 DEF QInv, QMTTypeOK, Answers
<1> QED
  BY <1>1, <1>2, <1>3 DEF Adapter, PlaceOrder, CancelOrder, Request

(* A cancel changes the status of one order, and nothing the invariants     *)
(* below speak of.                                                          *)
LEMMA CancelKeepsOrders ==
  ASSUME QInv, NEW t \in Threads, Cancel(t)
  PROVE  /\ DOMAIN orders' = DOMAIN orders
         /\ \A i \in DOMAIN orders : /\ orders'[i].nonce = orders[i].nonce
                                     /\ orders'[i].client = orders[i].client
         /\ seenNonces' = seenNonces /\ raced' = raced
         /\ Stay(WorkingStages) /\ Stay(CreatingStages)
<1> DEFINE i == OrderByIdentifier(RequestOf(t).id)
<1>1. i \in DOMAIN orders
  BY Lookups DEF Cancel, QInv, QMTTypeOK
<1>2. orders' = [orders EXCEPT ![i].status = "cancelled"]
  BY DEF Cancel
<1>3. orders \in Seq(Order)
  BY DEF QInv, QMTTypeOK
<1>4. DOMAIN orders' = DOMAIN orders
  BY <1>2
<1>5. ASSUME NEW j \in DOMAIN orders
      PROVE  orders'[j].nonce = orders[j].nonce /\ orders'[j].client = orders[j].client
  <2>1. orders[j] \in Order
    BY <1>3
  <2> QED
    BY <1>2, <1>3, <2>1 DEF Order
<1>7. PICK answer : AnswerWith(t, answer)
  BY DEF Cancel
<1>8. /\ thread'[t].pc = "audit"
      /\ \A u \in Threads \ {t} : thread'[u] = thread[u]
  BY <1>7, ThreadAnswers
<1> QED
  BY <1>4, <1>5, <1>8 DEF Cancel, Stay, WorkingStages, CreatingStages

(* What AppendOrder does to the book and to the threads.                    *)
LEMMA AppendGrowsBook ==
  ASSUME QInv, NEW t \in Threads, AppendOrder(t)
  PROVE  /\ DOMAIN orders' = 1 .. Len(orders) + 1
         /\ \A i \in DOMAIN orders : orders'[i] = orders[i]
         /\ orders'[Len(orders) + 1].nonce = thread[t].nonce
         /\ orders'[Len(orders) + 1].client = RequestOf(t).client
         /\ thread[t].pc = "append" /\ thread'[t].pc = "audit"
         /\ \A u \in Threads \ {t} : thread'[u] = thread[u]
         /\ seenNonces' = seenNonces /\ raced' = raced /\ requests' = requests
<1>1. orders \in Seq(Order) /\ Len(orders) \in Nat
  BY DEF QInv, QMTTypeOK
<1>2. thread[t] \in ThreadState
  BY DEF QInv, QMTTypeOK
<1>3. /\ thread'[t].pc = "audit"
      /\ \A u \in Threads \ {t} : thread'[u] = thread[u]
  BY <1>2 DEF AppendOrder, Appended, QInv, QMTTypeOK, ThreadState
<1>4. PICK o : /\ orders' = Append(orders, o)
               /\ o.nonce = thread[t].nonce
               /\ o.client = RequestOf(t).client
  BY DEF AppendOrder, Appended
<1>5. /\ DOMAIN orders' = 1 .. Len(orders) + 1
      /\ \A i \in DOMAIN orders : orders'[i] = orders[i]
      /\ orders'[Len(orders) + 1] = o
  BY <1>1, <1>4
<1> QED
  BY <1>3, <1>4, <1>5 DEF AppendOrder, Appended, callerVars

-----------------------------------------------------------------------------
(* One request, one order *)

(* The connector remembers the nonce of every order in the book ...         *)
BookSeen == \A i \in DOMAIN orders : orders[i].nonce \in seenNonces

(* ... and of every request a thread works on, which has no order yet ...   *)
WorkersSeen ==
  \A t \in Threads : thread[t].pc \in WorkingStages =>
    /\ thread[t].nonce \in seenNonces
    /\ \A i \in DOMAIN orders : orders[i].nonce # thread[t].nonce

(* ... and on which no other thread works.                                  *)
WorkersApart ==
  \A t, u \in Threads :
    (t # u /\ thread[t].pc \in WorkingStages /\ thread[u].pc \in WorkingStages) =>
      thread[t].nonce # thread[u].nonce

NonceInv == RequestOrderedOnce /\ BookSeen /\ WorkersSeen /\ WorkersApart

LEMMA QuietNonces ==
  ASSUME NonceInv, Stay(WorkingStages), seenNonces' = seenNonces,
         DOMAIN orders' = DOMAIN orders,
         \A i \in DOMAIN orders : orders'[i].nonce = orders[i].nonce
  PROVE  NonceInv'
BY DEF NonceInv, RequestOrderedOnce, BookSeen, WorkersSeen, WorkersApart, Stay

LEMMA VerifyNonces ==
  ASSUME QInv, NonceInv, NEW t \in Threads, Verify(t)
  PROVE  NonceInv'
<1>1. /\ thread'[t].nonce = thread[t].nonce
      /\ \A u \in Threads \ {t} : thread'[u] = thread[u]
  BY ThreadMoves DEF Verify
<1>2. /\ orders' = orders
      /\ thread[t].nonce \notin seenNonces
      /\ seenNonces' = seenNonces \cup {thread[t].nonce}
  BY DEF Verify
<1>3. \A i \in DOMAIN orders : orders[i].nonce # thread[t].nonce
  BY <1>2 DEF NonceInv, BookSeen
<1>4. \A u \in Threads \ {t} :
        thread[u].pc \in WorkingStages => thread[u].nonce # thread[t].nonce
  BY <1>2 DEF NonceInv, WorkersSeen
<1>5. RequestOrderedOnce' /\ BookSeen'
  BY <1>2 DEF NonceInv, RequestOrderedOnce, BookSeen
<1>6. WorkersSeen'
  BY <1>1, <1>2, <1>3 DEF NonceInv, WorkersSeen
<1>7. WorkersApart'
  BY <1>1, <1>4 DEF NonceInv, WorkersApart
<1> QED
  BY <1>5, <1>6, <1>7 DEF NonceInv

LEMMA AppendNonces ==
  ASSUME QInv, NonceInv, NEW t \in Threads, AppendOrder(t)
  PROVE  NonceInv'
<1> USE AppendGrowsBook
<1>0. Len(orders) \in Nat /\ DOMAIN orders = 1 .. Len(orders)
  BY DEF QInv, QMTTypeOK
<1>1. DOMAIN orders' = DOMAIN orders \cup {Len(orders) + 1}
  <2>1. DOMAIN orders' = 1 .. Len(orders) + 1
    OBVIOUS
  <2> QED
    BY <1>0, <2>1
<1>2. /\ thread[t].nonce \in seenNonces
      /\ \A i \in DOMAIN orders : orders[i].nonce # thread[t].nonce
  BY DEF NonceInv, WorkersSeen, WorkingStages, CreatingStages
<1>3. RequestOrderedOnce'
  BY <1>1, <1>2 DEF NonceInv, RequestOrderedOnce
<1>4. BookSeen'
  BY <1>1, <1>2 DEF NonceInv, BookSeen
<1>5. thread'[t].pc \notin WorkingStages
  BY DEF WorkingStages, CreatingStages
<1>6. ASSUME NEW u \in Threads, thread'[u].pc \in WorkingStages
      PROVE  /\ u # t /\ thread'[u] = thread[u]
             /\ thread[u].nonce # thread[t].nonce
  BY <1>5, <1>6 DEF NonceInv, WorkersApart, WorkingStages, CreatingStages
<1>7. WorkersSeen'
  BY <1>1, <1>6 DEF NonceInv, WorkersSeen
<1>8. WorkersApart'
  BY <1>6 DEF NonceInv, WorkersApart
<1> QED
  BY <1>3, <1>4, <1>7, <1>8 DEF NonceInv

LEMMA StepNonces ==
  ASSUME QInv, NonceInv, [Next]_vars
  PROVE  NonceInv'
<1>1. ASSUME NEW c \in Callers, Adapter(c)
      PROVE  NonceInv'
  BY <1>1, QuietAdapter, QuietNonces DEF Stay
<1>2. ASSUME NEW t \in Threads, Handler(t)
      PROVE  NonceInv'
  <2>1. CASE Verify(t)
    BY <2>1, VerifyNonces
  <2>2. CASE AppendOrder(t)
    BY <2>2, AppendNonces
  <2>3. CASE Cancel(t)
    BY <2>3, CancelKeepsOrders, QuietNonces
  <2>4. CASE StartOrder(t)
    <3>1. /\ thread[t].pc = "handle" /\ orders' = orders /\ seenNonces' = seenNonces
          /\ thread'[t].nonce = thread[t].nonce
          /\ \A u \in Threads \ {t} : thread'[u] = thread[u]
      BY <2>4, ThreadMoves DEF StartOrder, Handling, bookVars
    <3>2. Stay(WorkingStages)
      BY <3>1 DEF Stay, WorkingStages
    <3> QED
      BY <3>1, <3>2, QuietNonces
  <2> QED
    BY <1>2, <2>1, <2>2, <2>3, <2>4, QuietHandler, QuietNonces
<1>3. ASSUME Restart
      PROVE  NonceInv'
  BY <1>3 DEF Restart, StartAfresh, IdleThread, Fresh, NonceInv, RequestOrderedOnce,
              BookSeen, WorkersSeen, WorkersApart, WorkingStages, CreatingStages
<1>4. CASE UNCHANGED vars
  BY <1>4, QuietNonces DEF vars, bookVars, Stay
<1> QED
  BY <1>1, <1>2, <1>3, <1>4 DEF Next

(* A signed request makes at most one order in a connector's life, however  *)
(* often it is delivered and whichever threads handle the deliveries: the   *)
(* check of seen_nonces in _signature_valid lets one delivery pass, and a   *)
(* thread leaves the work on a request in the step that books its order.    *)
THEOREM RequestsAreOrderedOnce == Spec => []RequestOrderedOnce
<1> DEFINE NInv == QInv /\ NonceInv
<1>1. Init => NInv
  BY InitQ DEF Init, IdleThread, Fresh, NonceInv, RequestOrderedOnce, BookSeen,
               WorkersSeen, WorkersApart, WorkingStages, CreatingStages
<1>2. NInv /\ [Next]_vars => NInv'
  BY StepQ, StepNonces
<1>3. NInv => RequestOrderedOnce
  BY DEF NonceInv
<1> QED
  BY <1>1, <1>2, <1>3, PTL DEF Spec

-----------------------------------------------------------------------------
(* One client_order_id, one order *)

(* Two threads that create an order under one client_order_id raced ...     *)
CreatorsApart ==
  \A t, u \in Threads :
    (/\ t # u
     /\ thread[t].pc \in CreatingStages /\ thread[u].pc \in CreatingStages
     /\ RequestOf(t).client = RequestOf(u).client) =>
      RequestOf(t).client \in raced.client

(* ... and so did one that creates an order the book has already.           *)
CreatorsFirst ==
  \A t \in Threads : thread[t].pc \in CreatingStages =>
    \A i \in DOMAIN orders :
      orders[i].client = RequestOf(t).client => orders[i].client \in raced.client

RaceInv == OneOrderUnlessRaced /\ CreatorsApart /\ CreatorsFirst

(* A thread that goes on creating an order does so for the same client.     *)
LEMMA CreatorsStay ==
  ASSUME QInv, RequestsStay, NEW u \in Threads, thread[u].pc \in CreatingStages,
         thread'[u].nonce = thread[u].nonce
  PROVE  RequestOf(u)' = RequestOf(u)
<1>1. thread[u].nonce \in 1 .. Len(requests)
  BY DEF QInv, QMTTypeOK, CreatingStages
<1> QED
  BY <1>1 DEF RequestsStay, RequestOf

LEMMA QuietRace ==
  ASSUME QInv, RaceInv, RequestsStay, Stay(CreatingStages),
         raced'.client = raced.client,
         DOMAIN orders' = DOMAIN orders,
         \A i \in DOMAIN orders : orders'[i].client = orders[i].client
  PROVE  RaceInv'
<1>1. ASSUME NEW u \in Threads, thread'[u].pc \in CreatingStages
      PROVE  thread[u].pc \in CreatingStages /\ RequestOf(u)' = RequestOf(u)
  BY <1>1, CreatorsStay DEF Stay
<1>2. OneOrderUnlessRaced'
  BY DEF RaceInv, OneOrderUnlessRaced
<1>3. CreatorsApart'
  BY <1>1 DEF RaceInv, CreatorsApart
<1>4. CreatorsFirst'
  BY <1>1 DEF RaceInv, CreatorsFirst
<1> QED
  BY <1>2, <1>3, <1>4 DEF RaceInv

LEMMA StartRace ==
  ASSUME QInv, RaceInv, NEW t \in Threads, StartOrder(t)
  PROVE  RaceInv'
<1> DEFINE client == RequestOf(t).client
<1>1. /\ orders' = orders /\ requests' = requests
      /\ thread'[t].nonce = thread[t].nonce
      /\ \A u \in Threads \ {t} : thread'[u] = thread[u]
  BY ThreadMoves DEF StartOrder, bookVars, callerVars
<1>2. \A u \in Threads : RequestOf(u)' = RequestOf(u)
  BY <1>1 DEF RequestOf
<1>3. raced.client \subseteq raced'.client
  BY DEF StartOrder, QInv, QMTTypeOK
<1>4. \A i \in DOMAIN orders : orders[i].client # client
  BY Lookups DEF StartOrder, QInv, QMTTypeOK
<1>5. ASSUME NEW u \in Threads \ {t}, thread[u].pc \in CreatingStages,
             RequestOf(u).client = client
      PROVE  client \in raced'.client
  <2>1. u \in Creating(client)
    BY <1>5 DEF Creating, CreatingStages
  <2> QED
    BY <2>1 DEF StartOrder, QInv, QMTTypeOK
<1>6. OneOrderUnlessRaced'
  BY <1>1, <1>3 DEF RaceInv, OneOrderUnlessRaced
<1>7. CreatorsApart'
  BY <1>1, <1>2, <1>3, <1>5 DEF RaceInv, CreatorsApart
<1>8. CreatorsFirst'
  BY <1>1, <1>2, <1>3, <1>4 DEF RaceInv, CreatorsFirst
<1> QED
  BY <1>6, <1>7, <1>8 DEF RaceInv

LEMMA AppendRace ==
  ASSUME QInv, RaceInv, NEW t \in Threads, AppendOrder(t)
  PROVE  RaceInv'
<1>0. Len(orders) \in Nat /\ DOMAIN orders = 1 .. Len(orders)
  BY DEF QInv, QMTTypeOK
<1>1. /\ DOMAIN orders' = 1 .. Len(orders) + 1
      /\ \A i \in DOMAIN orders : orders'[i] = orders[i]
      /\ orders'[Len(orders) + 1].client = RequestOf(t).client
      /\ thread[t].pc = "append" /\ thread'[t].pc = "audit"
      /\ \A u \in Threads \ {t} : thread'[u] = thread[u]
      /\ raced' = raced /\ requests' = requests
  BY AppendGrowsBook
<1>2. DOMAIN orders' = DOMAIN orders \cup {Len(orders) + 1}
  BY <1>0, <1>1
<1>3. \A i \in DOMAIN orders :
        orders[i].client = RequestOf(t).client => orders[i].client \in raced.client
  BY <1>1 DEF RaceInv, CreatorsFirst, CreatingStages
<1>4. ASSUME NEW u \in Threads, thread'[u].pc \in CreatingStages
      PROVE  u # t /\ thread'[u] = thread[u] /\ RequestOf(u)' = RequestOf(u)
  BY <1>1, <1>4 DEF CreatingStages, RequestOf
<1>5. OneOrderUnlessRaced'
  <2>1. ASSUME NEW i \in DOMAIN orders', NEW j \in DOMAIN orders', i # j,
               orders'[i].client = orders'[j].client
        PROVE  orders'[i].client \in raced'.client
    <3>1. CASE i \in DOMAIN orders /\ j \in DOMAIN orders
      <4>1. /\ orders[i].client = orders[j].client
            /\ orders'[i].client = orders[i].client
        BY <1>1, <2>1, <3>1
      <4> QED
        BY <1>1, <2>1, <3>1, <4>1 DEF RaceInv, OneOrderUnlessRaced
    <3>2. CASE i \in DOMAIN orders /\ j = Len(orders) + 1
      BY <1>1, <1>3, <2>1, <3>2
    <3>3. CASE i = Len(orders) + 1 /\ j \in DOMAIN orders
      BY <1>1, <1>3, <2>1, <3>3
    <3> QED
      BY <1>2, <2>1, <3>1, <3>2, <3>3
  <2> QED
    BY <2>1 DEF OneOrderUnlessRaced
<1>6. CreatorsApart'
  BY <1>1, <1>4 DEF RaceInv, CreatorsApart
<1>7. ASSUME NEW u \in Threads, thread'[u].pc \in CreatingStages,
             NEW i \in DOMAIN orders',
             orders'[i].client = RequestOf(u).client
      PROVE  orders'[i].client \in raced.client
  <2>1. thread[u].pc \in CreatingStages /\ u # t
    BY <1>4, <1>7
  <2>2. CASE i \in DOMAIN orders
    BY <1>1, <1>7, <2>1, <2>2 DEF RaceInv, CreatorsFirst
  <2>3. CASE i = Len(orders) + 1
    BY <1>1, <1>7, <2>1, <2>3 DEF RaceInv, CreatorsApart, CreatingStages
  <2> QED
    BY <1>2, <2>2, <2>3
<1>8. CreatorsFirst'
  BY <1>1, <1>4, <1>7 DEF CreatorsFirst
<1> QED
  BY <1>5, <1>6, <1>8 DEF RaceInv

LEMMA StepRace ==
  ASSUME QInv, RaceInv, [Next]_vars
  PROVE  RaceInv'
<1>0. requests' = requests => RequestsStay
  BY DEF QInv, QMTTypeOK, RequestsStay
<1>1. ASSUME NEW c \in Callers, Adapter(c)
      PROVE  RaceInv'
  BY <1>1, QuietAdapter, QuietRace DEF Stay
<1>2. ASSUME NEW t \in Threads, Handler(t)
      PROVE  RaceInv'
  <2>0. RequestsStay
    BY <1>0, <1>2, HandlerType
  <2>1. CASE StartOrder(t)
    BY <2>1, StartRace
  <2>2. CASE AppendOrder(t)
    BY <2>2, AppendRace
  <2>3. CASE Cancel(t)
    BY <2>0, <2>3, CancelKeepsOrders, QuietRace
  <2>4. CASE Verify(t)
    <3>1. /\ thread'[t].pc = "handle" /\ orders' = orders /\ raced' = raced
          /\ \A u \in Threads \ {t} : thread'[u] = thread[u]
      BY <2>4, ThreadMoves DEF Verify
    <3>2. Stay(CreatingStages)
      BY <3>1 DEF Stay, CreatingStages
    <3> QED
      BY <2>0, <3>1, <3>2, QuietRace
  <2> QED
    BY <1>2, <2>0, <2>1, <2>2, <2>3, <2>4, QuietHandler, QuietRace
<1>3. ASSUME Restart
      PROVE  RaceInv'
  BY <1>3 DEF Restart, StartAfresh, IdleThread, Fresh, RaceInv, OneOrderUnlessRaced,
              CreatorsApart, CreatorsFirst, CreatingStages
<1>4. CASE UNCHANGED vars
  BY <1>0, <1>4, QuietRace DEF vars, callerVars, bookVars, Stay
<1> QED
  BY <1>1, <1>2, <1>3, <1>4 DEF Next

(* However often callers repeat a client_order_id, whatever they lost and   *)
(* whatever was cancelled, _submit_order books a second order for it only   *)
(* if two threads were together between the lookup and the append: the      *)
(* missing lock is the one way to a second order.                           *)
THEOREM SecondOrdersAreRaced == Spec => []OneOrderUnlessRaced
<1> DEFINE RInv == QInv /\ RaceInv
<1>1. Init => RInv
  BY InitQ DEF Init, IdleThread, Fresh, RaceInv, OneOrderUnlessRaced, CreatorsApart,
               CreatorsFirst, CreatingStages
<1>2. RInv /\ [Next]_vars => RInv'
  BY StepQ, StepRace
<1>3. RInv => OneOrderUnlessRaced
  BY DEF RaceInv
<1> QED
  BY <1>1, <1>2, <1>3, PTL DEF Spec

-----------------------------------------------------------------------------
(* What handlers answer *)

AnsweringStages == {"audit", "reply"}

(* _order_by_client_id returns an order of that client, and the search of   *)
(* _cancel_order one with that id, if the book has one.                     *)
LEMMA LookupsMatch ==
  ASSUME orders \in Seq(Order), NEW client, NEW id
  PROVE  /\ OrderByClientId(client) # 0 =>
              orders[OrderByClientId(client)].client = client
         /\ OrderByIdentifier(id) # 0 =>
              orders[OrderByIdentifier(id)].id = id
<1>1. {i \in DOMAIN orders : orders[i].client = client} \in SUBSET (Nat \ {0})
  OBVIOUS
<1>2. {i \in DOMAIN orders : orders[i].id = id} \in SUBSET (Nat \ {0})
  OBVIOUS
<1> QED
  BY <1>1, <1>2, FirstOfIsMember DEF OrderByClientId, OrderByIdentifier

Receipts == {"accepted", "replay"}

(* A receipt is for the order the request asked for.                        *)
Truthful(answer, n) ==
  answer.outcome \in Receipts =>
    /\ answer.client = requests[n].client
    /\ answer.terms = requests[n].terms

OnlyMoves(t) == \A u \in Threads \ {t} : thread'[u] = thread[u]

(* A step before the answer is known.                                       *)
Works(t) ==
  /\ thread'[t].pc \notin AnsweringStages
  /\ thread[t].pc \notin AnsweringStages
  /\ UNCHANGED <<orders, audit, clientAudit, restarts>>

(* An answer that leaves the book as it is.                                 *)
AnswersQuietly(t) ==
  /\ thread[t].pc = "gate" \/ thread[t].pc = "handle"
  /\ thread'[t].pc = "audit"
  /\ thread'[t].nonce = thread[t].nonce
  /\ Truthful(thread'[t].answer, thread[t].nonce)
  /\ thread'[t].answer.outcome # "cancelled"
  /\ UNCHANGED <<orders, nextOrderId, audit, clientAudit, restarts, raced>>

LEMMA HandlerCases ==
  ASSUME QInv, NEW t \in Threads, Handler(t)
  PROVE  /\ OnlyMoves(t)
         /\ \/ Works(t)
            \/ AnswersQuietly(t)
            \/ AppendOrder(t) \/ Cancel(t) \/ AuditEvent(t) \/ Reply(t)
<1> USE DEF QInv, QMTTypeOK, OnlyMoves, AnsweringStages, callerVars, bookVars
<1>0. thread[t] \in ThreadState
  OBVIOUS
<1>1. ASSUME NEW n \in DOMAIN requests, Deliver(t, n)
      PROVE  OnlyMoves(t) /\ Works(t)
  BY <1>1 DEF Deliver, Fresh, Works
<1>2. CASE Verify(t) \/ StartOrder(t) \/ BumpOrderId(t)
  <2>1. \/ thread[t].pc = "gate" /\ Goto(t, "handle")
        \/ thread[t].pc = "handle" /\ Goto(t, "number")
        \/ thread[t].pc = "bump" /\ Goto(t, "append")
    BY <1>2 DEF Verify, StartOrder, BumpOrderId, Handling
  <2>2. UNCHANGED <<orders, audit, clientAudit, restarts>>
    BY <1>2 DEF Verify, StartOrder, BumpOrderId
  <2> QED
    BY <2>1, <2>2, ThreadMoves DEF Works
<1>3. CASE ReadOrderId(t)
  BY <1>0, <1>3 DEF ReadOrderId, Works, ThreadState
<1>4. ASSUME NEW outcome \in {"unauthorized", "refused", "conflict", "not_found"},
             AnswerWith(t, Error(outcome)), thread[t].pc \in {"gate", "handle"},
             UNCHANGED <<orders, nextOrderId, audit, clientAudit, restarts, raced>>
      PROVE  OnlyMoves(t) /\ AnswersQuietly(t)
  <2>1. thread'[t].answer = Error(outcome)
    BY <1>0, <1>4 DEF AnswerWith, ThreadState
  <2>2. Error(outcome).outcome = outcome
    BY DEF Error, Answer
  <2> QED
    BY <1>4, <2>1, <2>2, ThreadAnswers DEF AnswersQuietly, Truthful, Receipts
<1>5. CASE RejectSignature(t) \/ RefuseOrder(t) \/ CancelNothing(t)
  BY <1>4, <1>5 DEF RejectSignature, RefuseOrder, CancelNothing, Handling
<1>6. CASE Replay(t)
  <2> DEFINE i == OrderByClientId(RequestOf(t).client)
             answer == Answer("replay", orders[i].id, orders[i].client, orders[i].terms)
  <2>0. /\ thread[t].pc = "handle"
        /\ UNCHANGED <<orders, nextOrderId, audit, clientAudit, restarts, raced>>
    BY <1>6 DEF Replay, Handling
  <2>1. CASE orders[i].terms # RequestOf(t).terms
    BY <1>4, <1>6, <2>0, <2>1 DEF Replay
  <2>2. CASE orders[i].terms = RequestOf(t).terms
    <3>1. orders[i].client = RequestOf(t).client
      BY <1>6, LookupsMatch DEF Replay
    <3>2. AnswerWith(t, answer)
      BY <1>6, <2>2 DEF Replay
    <3>3. thread'[t].answer = answer
      BY <1>0, <3>2 DEF AnswerWith, ThreadState
    <3>4. Truthful(answer, thread[t].nonce) /\ answer.outcome # "cancelled"
      BY <2>2, <3>1 DEF Answer, Truthful, RequestOf
    <3> QED
      BY <2>0, <3>2, <3>3, <3>4, ThreadAnswers DEF AnswersQuietly
  <2> QED
    BY <2>1, <2>2
<1>7. CASE AppendOrder(t)
  BY <1>7, AppendGrowsBook
<1>8. CASE Cancel(t)
  BY <1>8, ThreadAnswers DEF Cancel
<1>9. CASE AuditEvent(t)
  BY <1>9, ThreadMoves DEF AuditEvent
<1>10. CASE Reply(t)
  BY <1>10 DEF Reply
<1> QED
  BY <1>1, <1>2, <1>3, <1>5, <1>6, <1>7, <1>8, <1>9, <1>10 DEF Handler

(* A cancel changes the status of the first order with its id, and no other *)
(* field of any order.                                                      *)
LEMMA CancelKeepsIds ==
  ASSUME QInv, NEW t \in Threads, Cancel(t)
  PROVE  LET i == OrderByIdentifier(RequestOf(t).id)
         IN /\ i \in DOMAIN orders /\ orders[i].id = RequestOf(t).id
            /\ DOMAIN orders' = DOMAIN orders
            /\ orders'[i].status = "cancelled"
            /\ \A j \in DOMAIN orders :
                 /\ orders'[j].nonce = orders[j].nonce
                 /\ orders'[j].id = orders[j].id
                 /\ j # i => orders'[j] = orders[j]
<1> DEFINE i == OrderByIdentifier(RequestOf(t).id)
<1>1. i \in DOMAIN orders /\ orders[i].id = RequestOf(t).id
  BY Lookups, LookupsMatch DEF Cancel, QInv, QMTTypeOK
<1>2. orders' = [orders EXCEPT ![i] = [orders[i] EXCEPT !.status = "cancelled"]]
  BY DEF Cancel
<1>3. \A j \in DOMAIN orders : orders[j] \in Order
  BY DEF QInv, QMTTypeOK
<1> QED
  BY <1>1, <1>2, <1>3 DEF Order

-----------------------------------------------------------------------------
(* Receipts and the audit logs *)

AnswersTruthful ==
  \A t \in Threads : thread[t].pc \in AnsweringStages =>
    Truthful(thread[t].answer, thread[t].nonce)

ReceiptInv == AnswersTruthful /\ ReceiptsAreTruthful

(* Receipts of requests that stay are as truthful as before.                *)
LEMMA QuietReceipts ==
  ASSUME QInv, ReceiptInv, RequestsStay, clientAudit' = clientAudit
  PROVE  ReceiptsAreTruthful'
BY DEF QInv, QMTTypeOK, ReceiptInv, ReceiptsAreTruthful, RequestsStay

(* The adapter by itself only writes down that it gave up.                  *)
LEMMA AdapterLogs ==
  ASSUME NEW c \in Callers, Adapter(c)
  PROVE  /\ \A e \in clientAudit' : e \in clientAudit \/ e.ended = "error"
         /\ UNCHANGED <<audit, restarts, bookVars>>
<1>1. ASSUME NEW r, Send(c, r)
      PROVE  UNCHANGED <<clientAudit, audit, restarts, bookVars>>
  BY <1>1 DEF Send
<1>2. CASE GiveUp(c)
  BY <1>2 DEF GiveUp
<1>3. CASE \E client \in ClientIds, terms \in Terms : PlaceOrder(c, client, terms)
  BY <1>1, <1>3 DEF PlaceOrder
<1>4. CASE \E e \in clientAudit : CancelOrder(c, e.answer.id)
  BY <1>1, <1>4 DEF CancelOrder
<1> QED
  BY <1>2, <1>3, <1>4 DEF Adapter

LEMMA AdapterReceipts ==
  ASSUME QInv, ReceiptInv, NEW c \in Callers, Adapter(c)
  PROVE  ReceiptInv'
<1>1. thread' = thread /\ RequestsStay
  BY QuietAdapter
<1>2. \A t \in Threads : thread[t].pc \in AnsweringStages =>
        thread[t].nonce \in 1 .. Len(requests)
  BY DEF QInv, QMTTypeOK, AnsweringStages
<1>3. AnswersTruthful'
  BY <1>1, <1>2 DEF ReceiptInv, AnswersTruthful, Truthful, RequestsStay
<1>4. \A e \in clientAudit' : e \in clientAudit \/ e.ended = "error"
  BY AdapterLogs
<1>5. \A e \in clientAudit : e.nonce \in 1 .. Len(requests)
  BY DEF QInv, QMTTypeOK
<1>6. ReceiptsAreTruthful'
  BY <1>1, <1>4, <1>5 DEF ReceiptInv, ReceiptsAreTruthful, RequestsStay
<1> QED
  BY <1>3, <1>6 DEF ReceiptInv

(* What a caller is told in the end is what its thread had to say.          *)
LEMMA ReplyLogs ==
  ASSUME QInv, NEW t \in Threads, Reply(t)
  PROVE  /\ thread[t].pc = "reply" /\ thread'[t].pc = "idle"
         /\ \A e \in clientAudit' :
              \/ e \in clientAudit
              \/ e.ended = "error"
              \/ e.ended = "ok" /\ e.nonce = thread[t].nonce /\ e.answer = thread[t].answer
         /\ UNCHANGED <<requests, orders, nextOrderId, audit, restarts, raced>>
<1>1. thread'[t].pc = "idle"
  BY DEF Reply, IdleThread, Fresh, QInv, QMTTypeOK
<1> QED
  BY <1>1 DEF Reply, bookVars

LEMMA HandlerReceipts ==
  ASSUME QInv, ReceiptInv, NEW t \in Threads, Handler(t)
  PROVE  ReceiptInv'
<1>1. requests' = requests /\ OnlyMoves(t)
  BY HandlerType, HandlerCases
<1>2. RequestsStay
  BY <1>1 DEF RequestsStay, QInv, QMTTypeOK
<1>3. ASSUME thread'[t].pc \in AnsweringStages =>
               Truthful(thread'[t].answer, thread'[t].nonce)
      PROVE  AnswersTruthful'
  BY <1>1, <1>3 DEF ReceiptInv, AnswersTruthful, OnlyMoves, Truthful
<1>4. CASE Works(t)
  BY <1>2, <1>3, <1>4, QuietReceipts DEF Works, ReceiptInv
<1>5. CASE AnswersQuietly(t)
  BY <1>2, <1>3, <1>5, QuietReceipts DEF AnswersQuietly, ReceiptInv
<1>6. CASE AppendOrder(t)
  <2> DEFINE r == RequestOf(t)
             answer == Answer("accepted", thread[t].id, r.client, r.terms)
  <2>1. thread[t] \in ThreadState
    BY DEF QInv, QMTTypeOK
  <2>2. thread'[t].answer = answer /\ thread'[t].nonce = thread[t].nonce
    BY <1>6, <2>1 DEF AppendOrder, Appended, ThreadState, QInv, QMTTypeOK
  <2>3. Truthful(answer, thread[t].nonce)
    BY DEF Truthful, Answer, RequestOf
  <2>4. clientAudit' = clientAudit
    BY <1>6 DEF AppendOrder, Appended, callerVars
  <2> QED
    BY <1>2, <1>3, <2>2, <2>3, <2>4, QuietReceipts DEF ReceiptInv
<1>7. CASE Cancel(t)
  <2> DEFINE answer == Answer("cancelled", RequestOf(t).id, NoText, NoText)
  <2>1. thread[t] \in ThreadState
    BY DEF QInv, QMTTypeOK
  <2>2. thread'[t].answer = answer
    BY <1>7, <2>1 DEF Cancel, AnswerWith, ThreadState, QInv, QMTTypeOK
  <2>3. Truthful(answer, thread'[t].nonce)
    BY DEF Truthful, Answer, Receipts
  <2>4. clientAudit' = clientAudit
    BY <1>7 DEF Cancel, callerVars
  <2> QED
    BY <1>2, <1>3, <2>2, <2>3, <2>4, QuietReceipts DEF ReceiptInv
<1>8. CASE AuditEvent(t)
  <2>1. thread[t] \in ThreadState
    BY DEF QInv, QMTTypeOK
  <2>2. /\ thread[t].pc = "audit"
        /\ thread'[t].answer = thread[t].answer /\ thread'[t].nonce = thread[t].nonce
    BY <1>8, <2>1 DEF AuditEvent, Goto, ThreadState, QInv, QMTTypeOK
  <2>3. clientAudit' = clientAudit
    BY <1>8 DEF AuditEvent, callerVars
  <2>4. Truthful(thread[t].answer, thread[t].nonce)
    BY <2>2 DEF ReceiptInv, AnswersTruthful, AnsweringStages
  <2> QED
    BY <1>2, <1>3, <2>2, <2>3, <2>4, QuietReceipts DEF ReceiptInv
<1>9. CASE Reply(t)
  <2>1. Truthful(thread[t].answer, thread[t].nonce)
    BY <1>9, ReplyLogs DEF ReceiptInv, AnswersTruthful, AnsweringStages
  <2>2. ReceiptsAreTruthful'
    BY <1>9, <2>1, ReplyLogs DEF ReceiptInv, ReceiptsAreTruthful, Truthful, Receipts
  <2>3. thread'[t].pc \notin AnsweringStages
    BY <1>9, ReplyLogs DEF AnsweringStages
  <2> QED
    BY <1>3, <2>2, <2>3 DEF ReceiptInv
<1> QED
  BY <1>4, <1>5, <1>6, <1>7, <1>8, <1>9, HandlerCases

LEMMA StepReceipts ==
  ASSUME QInv, ReceiptInv, [Next]_vars
  PROVE  ReceiptInv'
<1>1. ASSUME Restart
      PROVE  ReceiptInv'
  BY <1>1 DEF Restart, StartAfresh, IdleThread, Fresh, callerVars, ReceiptInv,
              AnswersTruthful, AnsweringStages, ReceiptsAreTruthful
<1>2. CASE UNCHANGED vars
  BY <1>2 DEF vars, callerVars, ReceiptInv, AnswersTruthful, Truthful,
              ReceiptsAreTruthful
<1> QED
  BY <1>1, <1>2, AdapterReceipts, HandlerReceipts DEF Next

(* An order the adapter returns has the client_order_id and the terms the   *)
(* caller asked for, also when _submit_order returns an earlier order: the  *)
(* lookup finds one of that client, and the fingerprints are compared       *)
(* before it is returned.                                                   *)
THEOREM ReceiptsTellTheTruth == Spec => []ReceiptsAreTruthful
<1> DEFINE TInv == QInv /\ ReceiptInv
<1>1. Init => TInv
  BY InitQ DEF Init, IdleThread, Fresh, ReceiptInv, AnswersTruthful, AnsweringStages,
               ReceiptsAreTruthful
<1>2. TInv /\ [Next]_vars => TInv'
  BY StepQ, StepReceipts
<1>3. TInv => ReceiptsAreTruthful
  BY DEF ReceiptInv
<1> QED
  BY <1>1, <1>2, <1>3, PTL DEF Spec

-----------------------------------------------------------------------------
(* An answer that leaves was written down before.                           *)
RepliesAudited ==
  \A t \in Threads : thread[t].pc = "reply" =>
    \E a \in audit : a.nonce = thread[t].nonce /\ a.answer = thread[t].answer

CallersAudited ==
  \A e \in clientAudit :
    e.ended = "ok" => \E a \in audit : a.nonce = e.nonce /\ a.answer = e.answer

(* An order is in the log, or its thread is about to write it there.        *)
Logged(o) ==
  \E a \in audit : /\ a.nonce = o.nonce /\ a.boot = restarts
                   /\ a.answer.outcome = "accepted" /\ a.answer.id = o.id

HeldBy(o, t) ==
  /\ thread[t].pc = "audit" /\ thread[t].nonce = o.nonce
  /\ thread[t].answer.outcome = "accepted" /\ thread[t].answer.id = o.id

OrdersAudited ==
  \A i \in DOMAIN orders :
    Logged(orders[i]) \/ \E t \in Threads : HeldBy(orders[i], t)

AuditInv == RepliesAudited /\ CallersAudited /\ OrdersAudited

(* The log only grows, and the orders stay with the threads that hold them. *)
LEMMA QuietAudit ==
  ASSUME AuditInv, audit \subseteq audit', restarts' = restarts,
         \A e \in clientAudit' : e \in clientAudit \/ e.ended = "error",
         \A t \in Threads :
           thread'[t].pc = "reply" => thread'[t] = thread[t],
         \A t \in Threads :
           thread[t].pc = "audit" => thread'[t] = thread[t],
         DOMAIN orders' = DOMAIN orders,
         \A i \in DOMAIN orders :
           orders'[i].nonce = orders[i].nonce /\ orders'[i].id = orders[i].id
  PROVE  AuditInv'
<1>1. RepliesAudited'
  BY DEF AuditInv, RepliesAudited
<1>2. CallersAudited'
  BY DEF AuditInv, CallersAudited
<1>3. ASSUME NEW i \in DOMAIN orders
      PROVE  Logged(orders[i])' \/ \E t \in Threads : HeldBy(orders[i], t)'
  <2>1. CASE Logged(orders[i])
    BY <1>3, <2>1 DEF Logged
  <2>2. CASE \E t \in Threads : HeldBy(orders[i], t)
    BY <1>3, <2>2 DEF HeldBy
  <2> QED
    BY <1>3, <2>1, <2>2 DEF AuditInv, OrdersAudited
<1>4. OrdersAudited'
  BY <1>3 DEF OrdersAudited
<1> QED
  BY <1>1, <1>2, <1>4 DEF AuditInv

LEMMA AppendAudit ==
  ASSUME QInv, AuditInv, NEW t \in Threads, AppendOrder(t)
  PROVE  AuditInv'
<1>0. Len(orders) \in Nat /\ DOMAIN orders = 1 .. Len(orders) /\ thread[t] \in ThreadState
  BY DEF QInv, QMTTypeOK
<1>1. /\ DOMAIN orders' = 1 .. Len(orders) + 1
      /\ \A i \in DOMAIN orders : orders'[i] = orders[i]
      /\ orders'[Len(orders) + 1].nonce = thread[t].nonce
      /\ thread[t].pc = "append" /\ thread'[t].pc = "audit"
      /\ \A u \in Threads \ {t} : thread'[u] = thread[u]
  BY AppendGrowsBook
<1>2. orders'[Len(orders) + 1].id = thread[t].id
  BY <1>0 DEF AppendOrder, Appended, QInv, QMTTypeOK
<1>3. /\ thread'[t].nonce = thread[t].nonce
      /\ thread'[t].answer.outcome = "accepted" /\ thread'[t].answer.id = thread[t].id
  BY <1>0 DEF AppendOrder, Appended, ThreadState, Answer, QInv, QMTTypeOK
<1>4. UNCHANGED <<audit, clientAudit, restarts>>
  BY DEF AppendOrder, Appended, callerVars
<1>5. DOMAIN orders' = DOMAIN orders \cup {Len(orders) + 1}
  BY <1>0, <1>1
<1>6. ASSUME NEW i \in {Len(orders) + 1}
      PROVE  HeldBy(orders[i], t)'
  BY <1>1, <1>2, <1>3, <1>6 DEF HeldBy
<1>7. ASSUME NEW i \in DOMAIN orders
      PROVE  Logged(orders[i])' \/ \E u \in Threads : HeldBy(orders[i], u)'
  <2>1. CASE Logged(orders[i])
    BY <1>1, <1>4, <1>7, <2>1 DEF Logged
  <2>2. ASSUME NEW u \in Threads, HeldBy(orders[i], u)
        PROVE  HeldBy(orders[i], u)'
    BY <1>1, <1>7, <2>2 DEF HeldBy
  <2> QED
    BY <1>7, <2>1, <2>2 DEF AuditInv, OrdersAudited
<1>8. OrdersAudited'
  BY <1>5, <1>6, <1>7 DEF OrdersAudited
<1>9. RepliesAudited'
  BY <1>1, <1>4 DEF AuditInv, RepliesAudited
<1>10. CallersAudited'
  BY <1>4 DEF AuditInv, CallersAudited
<1> QED
  BY <1>8, <1>9, <1>10 DEF AuditInv

LEMMA EventAudit ==
  ASSUME QInv, AuditInv, NEW t \in Threads, AuditEvent(t)
  PROVE  AuditInv'
<1> DEFINE event == [nonce |-> thread[t].nonce, boot |-> restarts,
                     answer |-> thread[t].answer]
<1>0. thread[t] \in ThreadState
  BY DEF QInv, QMTTypeOK
<1>1. /\ audit' = audit \cup {event}
      /\ UNCHANGED <<orders, clientAudit, restarts>>
  BY DEF AuditEvent, bookVars, callerVars
<1>2. /\ thread[t].pc = "audit" /\ thread'[t].pc = "reply"
      /\ thread'[t].nonce = thread[t].nonce /\ thread'[t].answer = thread[t].answer
      /\ \A u \in Threads \ {t} : thread'[u] = thread[u]
  BY <1>0 DEF AuditEvent, Goto, ThreadState, QInv, QMTTypeOK
<1>3. RepliesAudited'
  <2>1. event \in audit' /\ event.nonce = thread'[t].nonce
        /\ event.answer = thread'[t].answer
    BY <1>1, <1>2
  <2>2. ASSUME NEW u \in Threads, u # t, thread'[u].pc = "reply"
        PROVE  \E a \in audit' : a.nonce = thread'[u].nonce /\ a.answer = thread'[u].answer
    BY <1>1, <1>2, <2>2 DEF AuditInv, RepliesAudited
  <2> QED
    BY <2>1, <2>2 DEF RepliesAudited
<1>4. CallersAudited'
  BY <1>1 DEF AuditInv, CallersAudited
<1>5. ASSUME NEW i \in DOMAIN orders
      PROVE  Logged(orders[i])' \/ \E u \in Threads : HeldBy(orders[i], u)'
  <2>1. CASE Logged(orders[i])
    BY <1>1, <2>1 DEF Logged
  <2>2. ASSUME HeldBy(orders[i], t)
        PROVE  Logged(orders[i])'
    <3>1. /\ event \in audit' /\ event.boot = restarts'
          /\ event.nonce = thread[t].nonce /\ event.answer = thread[t].answer
      BY <1>1
    <3> HIDE DEF event
    <3> QED
      BY <1>1, <2>2, <3>1 DEF HeldBy, Logged
  <2>3. ASSUME NEW u \in Threads, u # t, HeldBy(orders[i], u)
        PROVE  HeldBy(orders[i], u)'
    BY <1>1, <1>2, <2>3 DEF HeldBy
  <2> QED
    BY <1>5, <2>1, <2>2, <2>3 DEF AuditInv, OrdersAudited
<1>6. OrdersAudited'
  BY <1>1, <1>5 DEF OrdersAudited
<1> QED
  BY <1>3, <1>4, <1>6 DEF AuditInv

LEMMA ReplyAudit ==
  ASSUME QInv, AuditInv, NEW t \in Threads, Reply(t)
  PROVE  AuditInv'
<1>1. /\ thread[t].pc = "reply" /\ thread'[t].pc = "idle"
      /\ \A e \in clientAudit' :
           \/ e \in clientAudit
           \/ e.ended = "error"
           \/ e.ended = "ok" /\ e.nonce = thread[t].nonce /\ e.answer = thread[t].answer
      /\ UNCHANGED <<orders, audit, restarts>>
  BY ReplyLogs
<1>2. \A u \in Threads \ {t} : thread'[u] = thread[u]
  BY DEF Reply, QInv, QMTTypeOK
<1>3. \E a \in audit : a.nonce = thread[t].nonce /\ a.answer = thread[t].answer
  BY <1>1 DEF AuditInv, RepliesAudited
<1>4. CallersAudited'
  BY <1>1, <1>3 DEF AuditInv, CallersAudited
<1>5. RepliesAudited'
  BY <1>1, <1>2 DEF AuditInv, RepliesAudited
<1>6. OrdersAudited'
  BY <1>1, <1>2 DEF AuditInv, OrdersAudited, Logged, HeldBy
<1> QED
  BY <1>4, <1>5, <1>6 DEF AuditInv

LEMMA StepAudit ==
  ASSUME QInv, AuditInv, [Next]_vars
  PROVE  AuditInv'
<1>1. ASSUME NEW c \in Callers, Adapter(c)
      PROVE  AuditInv'
  BY <1>1, QuietAdapter, AdapterLogs, QuietAudit
<1>2. ASSUME NEW t \in Threads, Handler(t)
      PROVE  AuditInv'
  <2>0. \A u \in Threads \ {t} : thread'[u] = thread[u]
    BY <1>2, HandlerCases DEF OnlyMoves
  <2>1. CASE Works(t)
    BY <2>0, <2>1, QuietAudit DEF Works, AnsweringStages
  <2>2. CASE AnswersQuietly(t)
    BY <2>0, <2>2, QuietAudit DEF AnswersQuietly
  <2>3. CASE Cancel(t)
    <3>1. /\ DOMAIN orders' = DOMAIN orders
          /\ \A i \in DOMAIN orders :
               orders'[i].nonce = orders[i].nonce /\ orders'[i].id = orders[i].id
      BY <2>3, CancelKeepsIds
    <3>2. UNCHANGED <<audit, clientAudit, restarts>> /\ thread[t].pc = "handle"
      BY <2>3 DEF Cancel, Handling, callerVars
    <3>3. thread'[t].pc = "audit"
      BY <2>3, ThreadAnswers DEF Cancel
    <3> QED
      BY <2>0, <3>1, <3>2, <3>3, QuietAudit
  <2> QED
    BY <1>2, <2>1, <2>2, <2>3, AppendAudit, EventAudit, ReplyAudit, HandlerCases
<1>3. ASSUME Restart
      PROVE  AuditInv'
  BY <1>3 DEF Restart, StartAfresh, IdleThread, Fresh, callerVars, AuditInv,
              RepliesAudited, CallersAudited, OrdersAudited
<1>4. CASE UNCHANGED vars
  BY <1>4, QuietAudit DEF vars, callerVars, bookVars
<1> QED
  BY <1>1, <1>2, <1>3, <1>4 DEF Next

(* Whatever a caller was told is in the connector's audit log, through      *)
(* restarts and lost answers, and so is every order in the book, unless the *)
(* thread that appended it is just about to write it: submit_order and      *)
(* cancel_order audit before the answer is sent.                            *)
THEOREM AuditMissesNothing == Spec => []AuditIsComplete
<1> DEFINE LInv == QInv /\ AuditInv
<1>1. Init => LInv
  BY InitQ DEF Init, IdleThread, Fresh, AuditInv, RepliesAudited, CallersAudited,
               OrdersAudited
<1>2. LInv /\ [Next]_vars => LInv'
  BY StepQ, StepAudit
<1>3. LInv => AuditIsComplete
  BY DEF AuditInv, CallersAudited, OrdersAudited, Logged, HeldBy, AuditIsComplete
<1> QED
  BY <1>1, <1>2, <1>3, PTL DEF Spec

-----------------------------------------------------------------------------
(* Cancels hold *)

NumberedStages == {"bump", "append"}

(* Ids that were drawn are behind the counter, once it was moved on.        *)
IdsDrawn ==
  /\ \A i \in DOMAIN orders : orders[i].id < nextOrderId
  /\ \A t \in Threads :
       /\ thread[t].pc = "bump" => thread[t].id <= nextOrderId
       /\ thread[t].pc = "append" => thread[t].id < nextOrderId

(* Whatever has an id in hand or in the book has it alone, or two threads   *)
(* drew it together.                                                        *)
DrawnApart ==
  \A t, u \in Threads :
    (/\ t # u /\ thread[t].id = thread[u].id
     /\ thread[t].pc \in NumberedStages /\ thread[u].pc \in NumberedStages) =>
      thread[t].id \in raced.id

DrawnFirst ==
  \A t \in Threads : thread[t].pc \in NumberedStages =>
    \A i \in DOMAIN orders :
      orders[i].id = thread[t].id => thread[t].id \in raced.id

IdsApart ==
  \A i, j \in DOMAIN orders :
    (i # j /\ orders[i].id = orders[j].id) => orders[i].id \in raced.id

(* What a cancel that was answered leaves: the order is there, and closed.  *)
Closed(id) ==
  /\ \E i \in DOMAIN orders : orders[i].id = id
  /\ \A i \in DOMAIN orders :
       orders[i].id = id => orders[i].status = "cancelled" \/ id \in raced.id

CancelsClose ==
  /\ \A t \in Threads :
       (thread[t].pc \in AnsweringStages /\ thread[t].answer.outcome = "cancelled") =>
         Closed(thread[t].answer.id)
  /\ \A a \in audit :
       /\ a.boot <= restarts
       /\ (a.answer.outcome = "cancelled" /\ a.boot = restarts) => Closed(a.answer.id)

CancelInv == IdsDrawn /\ DrawnApart /\ DrawnFirst /\ IdsApart /\ CancelsClose

(* The book and the counter stay, and nobody draws an id.                   *)
LEMMA QuietIds ==
  ASSUME CancelInv, UNCHANGED <<orders, nextOrderId>>, raced'.id = raced.id,
         \A u \in Threads : thread'[u].pc \in NumberedStages =>
           thread'[u].pc = thread[u].pc /\ thread'[u].id = thread[u].id
  PROVE  IdsDrawn' /\ DrawnApart' /\ DrawnFirst' /\ IdsApart'
<1>1. IdsDrawn'
  BY DEF CancelInv, IdsDrawn, NumberedStages
<1>2. DrawnApart' /\ DrawnFirst' /\ IdsApart'
  BY DEF CancelInv, DrawnApart, DrawnFirst, IdsApart
<1> QED
  BY <1>1, <1>2

LEMMA QuietCloses ==
  ASSUME CancelInv, UNCHANGED <<audit, restarts>>, raced.id \subseteq raced'.id,
         DOMAIN orders' = DOMAIN orders,
         \A i \in DOMAIN orders :
           /\ orders'[i].id = orders[i].id
           /\ orders[i].status = "cancelled" => orders'[i].status = "cancelled",
         \A u \in Threads :
           (thread'[u].pc \in AnsweringStages
              /\ thread'[u].answer.outcome = "cancelled") =>
             \/ thread[u].pc \in AnsweringStages /\ thread'[u].answer = thread[u].answer
             \/ Closed(thread[u].answer.id)'
  PROVE  CancelsClose'
<1>1. ASSUME NEW id, Closed(id)
      PROVE  Closed(id)'
  BY <1>1 DEF Closed
<1>2. ASSUME NEW u \in Threads, thread'[u].pc \in AnsweringStages,
             thread'[u].answer.outcome = "cancelled"
      PROVE  Closed(thread[u].answer.id)'
  <2>1. CASE thread[u].pc \in AnsweringStages /\ thread'[u].answer = thread[u].answer
    <3>1. Closed(thread[u].answer.id)
      BY <1>2, <2>1 DEF CancelInv, CancelsClose
    <3>2. Closed(thread'[u].answer.id)
      BY <2>1, <3>1
    <3>3. ASSUME NEW id, id = thread'[u].answer.id
          PROVE  Closed(id)'
      BY <1>1, <3>2, <3>3
    <3> QED
      BY <3>3 DEF Closed
  <2> QED
    BY <1>2, <2>1
<1>3. ASSUME NEW a \in audit'
      PROVE  /\ a.boot <= restarts'
             /\ (a.answer.outcome = "cancelled" /\ a.boot = restarts') =>
                  Closed(a.answer.id)'
  BY <1>1, <1>3 DEF CancelInv, CancelsClose
<1> QED
  BY <1>2, <1>3 DEF CancelsClose

LEMMA IdsAreNumbers ==
  ASSUME QInv
  PROVE  /\ nextOrderId \in Nat
         /\ \A u \in Threads : thread[u].id \in Nat
         /\ \A i \in DOMAIN orders : orders[i].id \in Nat
<1>1. \A u \in Threads : thread[u] \in ThreadState
  BY DEF QInv, QMTTypeOK
<1>2. \A i \in DOMAIN orders : orders[i] \in Order
  BY DEF QInv, QMTTypeOK
<1> QED
  BY <1>1, <1>2 DEF ThreadState, Order, QInv, QMTTypeOK

LEMMA WorkCancels ==
  ASSUME QInv, CancelInv, NEW t \in Threads, Handler(t), Works(t), OnlyMoves(t)
  PROVE  CancelInv'
<1>0. thread[t] \in ThreadState /\ nextOrderId \in Nat
  BY DEF QInv, QMTTypeOK
<1>1. ASSUME raced.id \subseteq raced'.id
      PROVE  CancelsClose'
  <2>1. UNCHANGED <<orders, audit, restarts>> /\ thread'[t].pc \notin AnsweringStages
    BY DEF Works
  <2> QED
    BY <1>1, <2>1, QuietCloses DEF OnlyMoves
<1>2. ASSUME nextOrderId' = nextOrderId, raced'.id = raced.id,
             thread'[t].pc \notin NumberedStages
      PROVE  CancelInv'
  <2>1. orders' = orders
    BY DEF Works
  <2>2. IdsDrawn' /\ DrawnApart' /\ DrawnFirst' /\ IdsApart'
    BY <1>2, <2>1, QuietIds DEF OnlyMoves
  <2> QED
    BY <1>1, <1>2, <2>2 DEF CancelInv
<1>3. ASSUME NEW n \in DOMAIN requests, Deliver(t, n)
      PROVE  CancelInv'
  <2>1. /\ nextOrderId' = nextOrderId /\ raced' = raced
        /\ thread'[t].pc = "gate"
    BY <1>3 DEF Deliver, Fresh, bookVars, QInv, QMTTypeOK
  <2> QED
    BY <1>2, <2>1 DEF NumberedStages
<1>4. CASE Verify(t) \/ StartOrder(t)
  <2>1. /\ nextOrderId' = nextOrderId /\ raced'.id = raced.id
        /\ Goto(t, "handle") \/ Goto(t, "number")
    BY <1>4 DEF Verify, StartOrder, bookVars, QInv, QMTTypeOK
  <2>2. thread'[t].pc \in {"handle", "number"}
    BY <2>1, ThreadMoves
  <2> QED
    BY <1>2, <2>1, <2>2 DEF NumberedStages
<1>5. CASE ReadOrderId(t)
  <2>1. /\ thread[t].pc = "number"
        /\ thread'[t].pc = "bump" /\ thread'[t].id = nextOrderId
        /\ \A u \in Threads \ {t} : thread'[u] = thread[u]
        /\ nextOrderId' = nextOrderId /\ orders' = orders
    BY <1>0, <1>5 DEF ReadOrderId, ThreadState, QInv, QMTTypeOK, bookVars
  <2>2. raced.id \subseteq raced'.id
    BY <1>5 DEF ReadOrderId, QInv, QMTTypeOK
  <2>3. ASSUME NEW u \in Threads \ {t}, thread[u].pc \in NumberedStages,
               thread[u].id = nextOrderId
        PROVE  nextOrderId \in raced'.id
    <3>1. thread[u].pc = "bump"
      BY <1>0, <2>3 DEF CancelInv, IdsDrawn, NumberedStages
    <3>2. raced' = [raced EXCEPT !.id = @ \cup {nextOrderId}]
      BY <1>5, <2>3, <3>1 DEF ReadOrderId
    <3> QED
      BY <3>2 DEF QInv, QMTTypeOK
  <2>4. IdsDrawn'
    BY <1>0, <2>1 DEF CancelInv, IdsDrawn
  <2>5. DrawnApart'
    <3>1. ASSUME NEW u \in Threads \ {t}, NEW v \in Threads \ {t}
          PROVE  (/\ u # v /\ thread[u].id = thread[v].id
                  /\ thread[u].pc \in NumberedStages /\ thread[v].pc \in NumberedStages)
                 => thread[u].id \in raced'.id
      BY <2>2, <3>1 DEF CancelInv, DrawnApart
    <3> QED
      BY <2>1, <2>3, <3>1 DEF DrawnApart
  <2>6. \A i \in DOMAIN orders : orders[i].id # nextOrderId
    BY <1>0 DEF CancelInv, IdsDrawn, QInv, QMTTypeOK, Order
  <2>7. DrawnFirst'
    BY <2>1, <2>2, <2>6 DEF CancelInv, DrawnFirst
  <2>8. IdsApart'
    BY <2>1, <2>2 DEF CancelInv, IdsApart
  <2> QED
    BY <1>1, <2>2, <2>4, <2>5, <2>7, <2>8 DEF CancelInv
<1>6. CASE BumpOrderId(t)
  <2>1. /\ thread[t].pc = "bump" /\ thread'[t].pc = "append"
        /\ thread'[t].id = thread[t].id
        /\ \A u \in Threads \ {t} : thread'[u] = thread[u]
        /\ nextOrderId' = nextOrderId + 1 /\ orders' = orders /\ raced' = raced
    BY <1>0, <1>6 DEF BumpOrderId, Goto, ThreadState, QInv, QMTTypeOK
  <2>2. /\ \A u \in Threads : thread[u].id \in Nat
        /\ \A i \in DOMAIN orders : orders[i].id \in Nat
    BY IdsAreNumbers
  <2>3. IdsDrawn'
    BY <1>0, <2>1, <2>2 DEF CancelInv, IdsDrawn
  <2>4. \A u \in Threads : /\ thread'[u].id = thread[u].id
                           /\ thread'[u].pc \in NumberedStages =>
                                thread[u].pc \in NumberedStages
    BY <2>1 DEF NumberedStages
  <2>5. DrawnApart' /\ DrawnFirst' /\ IdsApart'
    BY <2>1, <2>4 DEF CancelInv, DrawnApart, DrawnFirst, IdsApart
  <2> QED
    BY <1>1, <2>1, <2>3, <2>5 DEF CancelInv
<1>7. ~(AppendOrder(t) \/ Cancel(t) \/ AuditEvent(t) \/ Reply(t) \/ RejectSignature(t)
        \/ RefuseOrder(t) \/ Replay(t) \/ CancelNothing(t))
  <2>1. ASSUME NEW answer
        PROVE  ~AnswerWith(t, answer)
    BY <2>1, ThreadAnswers DEF Works, AnsweringStages
  <2>2. ~(AppendOrder(t) \/ AuditEvent(t) \/ Reply(t))
    BY AppendGrowsBook DEF AuditEvent, Reply, Works, AnsweringStages
  <2> QED
    BY <2>1, <2>2 DEF Cancel, RejectSignature, RefuseOrder, Replay, CancelNothing
<1> QED
  BY <1>3, <1>4, <1>5, <1>6, <1>7 DEF Handler

LEMMA AppendCancels ==
  ASSUME QInv, CancelInv, NEW t \in Threads, AppendOrder(t)
  PROVE  CancelInv'
<1> DEFINE new == Len(orders) + 1
           id == thread[t].id
<1>0. /\ Len(orders) \in Nat /\ DOMAIN orders = 1 .. Len(orders)
      /\ thread[t] \in ThreadState
  BY DEF QInv, QMTTypeOK
<1>1. /\ DOMAIN orders' = 1 .. Len(orders) + 1
      /\ \A i \in DOMAIN orders : orders'[i] = orders[i]
      /\ thread[t].pc = "append" /\ thread'[t].pc = "audit"
      /\ \A u \in Threads \ {t} : thread'[u] = thread[u]
      /\ raced' = raced
  BY AppendGrowsBook
<1>2. orders'[new].id = id
  BY <1>0 DEF AppendOrder, Appended, QInv, QMTTypeOK
<1>3. thread'[t].answer.outcome # "cancelled"
  BY <1>0 DEF AppendOrder, Appended, ThreadState, Answer, QInv, QMTTypeOK
<1>4. UNCHANGED <<audit, nextOrderId, restarts>>
  BY DEF AppendOrder, Appended
<1>5. DOMAIN orders' = DOMAIN orders \cup {new} /\ new \notin DOMAIN orders
  BY <1>0, <1>1
<1> HIDE DEF new
<1>6. /\ id < nextOrderId
      /\ \A i \in DOMAIN orders : orders[i].id = id => id \in raced.id
      /\ \A u \in Threads \ {t} :
           (thread[u].pc \in NumberedStages /\ thread[u].id = id) => id \in raced.id
  BY <1>1 DEF CancelInv, IdsDrawn, DrawnFirst, DrawnApart, NumberedStages
<1>7. IdsDrawn'
  BY <1>1, <1>2, <1>4, <1>5, <1>6 DEF CancelInv, IdsDrawn
<1>8. DrawnApart'
  BY <1>1 DEF CancelInv, DrawnApart, NumberedStages
<1>9. ASSUME NEW u \in Threads, thread'[u].pc \in NumberedStages
      PROVE  u # t /\ thread'[u] = thread[u] /\ thread[u].pc \in NumberedStages
  BY <1>1, <1>9 DEF NumberedStages
<1>10. DrawnFirst'
  BY <1>1, <1>2, <1>5, <1>6, <1>9 DEF CancelInv, DrawnFirst
<1>11. IdsApart'
  BY <1>1, <1>2, <1>5, <1>6 DEF CancelInv, IdsApart
<1>12. ASSUME NEW x, Closed(x)
       PROVE  Closed(x)'
  <2>1. x = id => x \in raced.id
    BY <1>6, <1>12 DEF Closed
  <2>2. \E i \in DOMAIN orders' : orders'[i].id = x
    BY <1>1, <1>5, <1>12 DEF Closed
  <2>3. ASSUME NEW i \in DOMAIN orders', orders'[i].id = x
        PROVE  orders'[i].status = "cancelled" \/ x \in raced'.id
    BY <1>1, <1>2, <1>5, <1>12, <2>1, <2>3 DEF Closed
  <2> QED
    BY <2>2, <2>3 DEF Closed
<1>13. CancelsClose'
  <2>1. ASSUME NEW u \in Threads, thread'[u].pc \in AnsweringStages,
               thread'[u].answer.outcome = "cancelled"
        PROVE  Closed(thread[u].answer.id)'
    <3>1. u # t /\ thread'[u] = thread[u]
      BY <1>1, <1>3, <2>1
    <3>2. ASSUME NEW x, x = thread[u].answer.id
          PROVE  Closed(x)'
      BY <1>12, <2>1, <3>1, <3>2 DEF CancelInv, CancelsClose
    <3> QED
      BY <3>1, <3>2 DEF Closed
  <2>2. ASSUME NEW a \in audit'
        PROVE  /\ a.boot <= restarts'
               /\ (a.answer.outcome = "cancelled" /\ a.boot = restarts') =>
                    Closed(a.answer.id)'
    BY <1>4, <1>12, <2>2 DEF CancelInv, CancelsClose
  <2> QED
    BY <2>1, <2>2 DEF CancelsClose
<1> QED
  BY <1>7, <1>8, <1>10, <1>11, <1>13 DEF CancelInv

(* A cancel closes the first order with the id; another one with that id    *)
(* was drawn in a race.                                                     *)
LEMMA CancelCancels ==
  ASSUME QInv, CancelInv, NEW t \in Threads, Cancel(t)
  PROVE  CancelInv'
<1> DEFINE id == RequestOf(t).id
           i == OrderByIdentifier(id)
           answer == Answer("cancelled", id, NoText, NoText)
<1>0. thread[t] \in ThreadState
  BY DEF QInv, QMTTypeOK
<1>1. /\ i \in DOMAIN orders /\ orders[i].id = id
      /\ DOMAIN orders' = DOMAIN orders
      /\ orders'[i].status = "cancelled"
      /\ \A j \in DOMAIN orders :
           /\ orders'[j].id = orders[j].id
           /\ j # i => orders'[j] = orders[j]
  BY CancelKeepsIds
<1>2. /\ thread'[t].pc = "audit"
      /\ \A u \in Threads \ {t} : thread'[u] = thread[u]
  BY ThreadAnswers DEF Cancel
<1>3. thread'[t].answer.id = id
  BY <1>0 DEF Cancel, AnswerWith, Answer, ThreadState, QInv, QMTTypeOK
<1>4. UNCHANGED <<nextOrderId, audit, restarts, raced>>
  BY DEF Cancel
<1> HIDE DEF i
<1>5. IdsDrawn'
  BY <1>1, <1>2, <1>4 DEF CancelInv, IdsDrawn
<1>6. ASSUME NEW u \in Threads, thread'[u].pc \in NumberedStages
      PROVE  thread'[u] = thread[u]
  BY <1>2, <1>6 DEF NumberedStages
<1>7. DrawnApart'
  BY <1>4, <1>6 DEF CancelInv, DrawnApart
<1>8. DrawnFirst'
  BY <1>1, <1>4, <1>6 DEF CancelInv, DrawnFirst
<1>9. IdsApart'
  BY <1>1, <1>4 DEF CancelInv, IdsApart
<1>10. ASSUME NEW x, x = id
       PROVE  Closed(x)'
  <2>1. ASSUME NEW j \in DOMAIN orders, orders[j].id = id, j # i
        PROVE  id \in raced.id
    BY <1>1, <2>1 DEF CancelInv, IdsApart
  <2> QED
    BY <1>1, <1>4, <1>10, <2>1 DEF Closed
<1>11. Closed(thread[t].answer.id)'
  BY <1>3, <1>10 DEF Closed
<1>12. \A j \in DOMAIN orders :
         orders[j].status = "cancelled" => orders'[j].status = "cancelled"
  BY <1>1
<1>13. CancelsClose'
  BY <1>1, <1>2, <1>4, <1>11, <1>12, QuietCloses
<1> QED
  BY <1>5, <1>7, <1>8, <1>9, <1>13 DEF CancelInv

LEMMA EventCancels ==
  ASSUME QInv, CancelInv, NEW t \in Threads, AuditEvent(t)
  PROVE  CancelInv'
<1> DEFINE event == [nonce |-> thread[t].nonce, boot |-> restarts,
                     answer |-> thread[t].answer]
<1>0. thread[t] \in ThreadState /\ restarts \in Nat
  BY ConnectorAssumption DEF QInv, QMTTypeOK
<1>1. /\ audit' = audit \cup {event}
      /\ UNCHANGED <<orders, nextOrderId, restarts, raced>>
  BY DEF AuditEvent, bookVars
<1>2. /\ thread[t].pc = "audit" /\ thread'[t].pc = "reply"
      /\ thread'[t].answer = thread[t].answer
      /\ \A u \in Threads \ {t} : thread'[u] = thread[u]
  BY <1>0 DEF AuditEvent, Goto, ThreadState, QInv, QMTTypeOK
<1>3. IdsDrawn' /\ DrawnApart' /\ DrawnFirst' /\ IdsApart'
  BY <1>1, <1>2, QuietIds DEF NumberedStages
<1>4. \A x : Closed(x) => Closed(x)'
  BY <1>1 DEF Closed
<1>5. ASSUME NEW a \in audit'
      PROVE  /\ a.boot <= restarts'
             /\ (a.answer.outcome = "cancelled" /\ a.boot = restarts') =>
                  Closed(a.answer.id)
  <2>1. CASE a \in audit
    BY <1>1, <2>1 DEF CancelInv, CancelsClose
  <2>2. CASE a = event
    BY <1>0, <1>1, <1>2, <2>2 DEF CancelInv, CancelsClose, AnsweringStages
  <2> QED
    BY <1>1, <1>5, <2>1, <2>2
<1>6. ASSUME NEW u \in Threads, thread'[u].pc \in AnsweringStages,
             thread'[u].answer.outcome = "cancelled"
      PROVE  Closed(thread'[u].answer.id)
  BY <1>2, <1>6 DEF CancelInv, CancelsClose, AnsweringStages
<1>7. CancelsClose'
  BY <1>1, <1>5, <1>6 DEF CancelsClose, Closed
<1> QED
  BY <1>3, <1>7 DEF CancelInv

LEMMA HandlerCancels ==
  ASSUME QInv, CancelInv, NEW t \in Threads, Handler(t)
  PROVE  CancelInv'
<1>0. OnlyMoves(t)
  BY HandlerCases
<1>1. CASE Works(t)
  BY <1>0, <1>1, WorkCancels
<1>2. ASSUME UNCHANGED <<orders, nextOrderId, audit, restarts, raced>>,
             thread'[t].pc \notin NumberedStages,
             thread'[t].pc \in AnsweringStages =>
               thread'[t].answer.outcome # "cancelled"
      PROVE  CancelInv'
  <2>1. IdsDrawn' /\ DrawnApart' /\ DrawnFirst' /\ IdsApart'
    BY <1>0, <1>2, QuietIds DEF OnlyMoves
  <2>2. CancelsClose'
    BY <1>0, <1>2, QuietCloses DEF OnlyMoves
  <2> QED
    BY <2>1, <2>2 DEF CancelInv
<1>3. CASE AnswersQuietly(t)
  BY <1>2, <1>3 DEF AnswersQuietly, NumberedStages
<1>4. CASE Reply(t)
  BY <1>2, <1>4, ReplyLogs DEF NumberedStages, AnsweringStages
<1> QED
  BY <1>1, <1>3, <1>4, AppendCancels, CancelCancels, EventCancels, HandlerCases

LEMMA StepCancels ==
  ASSUME QInv, CancelInv, [Next]_vars
  PROVE  CancelInv'
<1>1. ASSUME UNCHANGED <<orders, nextOrderId, raced, thread, audit, restarts>>
      PROVE  CancelInv'
  <2>1. IdsDrawn' /\ DrawnApart' /\ DrawnFirst' /\ IdsApart'
    BY <1>1, QuietIds
  <2>2. CancelsClose'
    BY <1>1, QuietCloses
  <2> QED
    BY <2>1, <2>2 DEF CancelInv
<1>2. ASSUME NEW c \in Callers, Adapter(c)
      PROVE  CancelInv'
  BY <1>1, <1>2, QuietAdapter, AdapterLogs DEF bookVars
<1>3. ASSUME Restart
      PROVE  CancelInv'
  <2>1. restarts \in Nat
    BY ConnectorAssumption DEF QInv, QMTTypeOK
  <2>2. /\ orders' = <<>> /\ audit' = audit /\ restarts' = restarts + 1
        /\ \A u \in Threads : thread'[u].pc = "idle"
    BY <1>3 DEF Restart, StartAfresh, IdleThread, Fresh
  <2>3. ASSUME NEW a \in audit'
        PROVE  a.boot <= restarts' /\ a.boot # restarts'
    <3>1. a.boot <= restarts /\ a.boot \in 0 .. MaxRestarts
      BY <2>2, <2>3 DEF CancelInv, CancelsClose, QInv, QMTTypeOK
    <3> QED
      BY <2>1, <2>2, <3>1
  <2>4. CancelsClose'
    BY <2>2, <2>3 DEF CancelsClose, AnsweringStages
  <2>5. IdsDrawn' /\ DrawnApart' /\ DrawnFirst' /\ IdsApart'
    BY <2>2 DEF IdsDrawn, DrawnApart, DrawnFirst, IdsApart, NumberedStages
  <2> QED
    BY <2>4, <2>5 DEF CancelInv
<1>4. CASE UNCHANGED vars
  BY <1>1, <1>4 DEF vars, bookVars
<1> QED
  BY <1>2, <1>3, <1>4, HandlerCancels DEF Next

(* Once a cancel was acknowledged nothing with that order id stays open,    *)
(* unless two threads drew the id together: ids below the counter are never *)
(* drawn again, so _submit_order cannot bring a cancelled id back, and      *)
(* _cancel_order need only close the first order it finds.                  *)
THEOREM CancelsHold == Spec => []AcknowledgedCancelsHold
<1> DEFINE KInv == QInv /\ CancelInv
<1>1. Init => KInv
  BY InitQ DEF Init, IdleThread, Fresh, CancelInv, IdsDrawn, DrawnApart, DrawnFirst,
               IdsApart, CancelsClose, NumberedStages, AnsweringStages
<1>2. KInv /\ [Next]_vars => KInv'
  BY StepQ, StepCancels
<1>3. KInv => AcknowledgedCancelsHold
  BY DEF CancelInv, CancelsClose, Closed, AcknowledgedCancelsHold
<1> QED
  BY <1>1, <1>2, <1>3, PTL DEF Spec
-----------------------------------------------------------------------------
(* The channel implements OrderBook *)

LEMMA PlacingMembers ==
  \A n : n \in Placing <=>
           \E t \in Threads : thread[t].pc \in CreatingStages /\ thread[t].nonce = n
BY DEF Placing, CreatingStages

(* A thread that creates an order goes on to until it appends it.           *)
LEMMA CreatorsGoOn ==
  ASSUME QInv, NEW t \in Threads, Handler(t), ~AppendOrder(t),
         thread[t].pc \in CreatingStages
  PROVE  thread'[t].pc \in CreatingStages /\ thread'[t].nonce = thread[t].nonce
<1>1. thread[t] \in ThreadState
  BY DEF QInv, QMTTypeOK
<1>2. ReadOrderId(t) \/ BumpOrderId(t)
  BY DEF Handler, Deliver, Verify, RejectSignature, RefuseOrder, Replay, StartOrder,
         Cancel, CancelNothing, AuditEvent, Reply, Handling, CreatingStages
<1>3. CASE ReadOrderId(t)
  BY <1>1, <1>3 DEF ReadOrderId, ThreadState, CreatingStages, QInv, QMTTypeOK
<1>4. CASE BumpOrderId(t)
  BY <1>4, ThreadMoves DEF BumpOrderId, CreatingStages
<1> QED
  BY <1>2, <1>3, <1>4

(* The steps that OrderBook does not see.                                   *)
LEMMA BookStutters ==
  ASSUME requests' = requests, orders' = orders, raced'.client = raced.client,
         Placing' = Placing
  PROVE  UNCHANGED Book!bookVars
BY DEF Book!bookVars, Entries

LEMMA AdapterAsks ==
  ASSUME QInv, NEW c \in Callers, Adapter(c)
  PROVE  Book!Ask \/ UNCHANGED Book!bookVars
<1>1. UNCHANGED <<orders, raced, thread>>
  BY QuietAdapter
<1>2. Placing' = Placing /\ Entries' = Entries
  BY <1>1 DEF Placing, Entries
<1>3. ASSUME NEW r, Send(c, r)
      PROVE  Book!Ask
  <2>1. requests' = Append(requests, r) /\ requests \in Seq(Request)
    BY <1>3 DEF Send, QInv, QMTTypeOK
  <2>2. /\ Len(requests') = Len(requests) + 1
        /\ \A n \in DOMAIN requests : requests'[n] = requests[n]
    BY <2>1
  <2> QED
    BY <1>1, <1>2, <2>2 DEF Book!Ask
<1>4. CASE GiveUp(c)
  BY <1>1, <1>2, <1>4, BookStutters DEF GiveUp
<1> QED
  BY <1>3, <1>4 DEF Adapter, PlaceOrder, CancelOrder

LEMMA StartStarts ==
  ASSUME QInv, NonceInv, NEW t \in Threads, StartOrder(t)
  PROVE  \E n \in DOMAIN requests \ Placing : Book!Start(n)
<1> DEFINE n == thread[t].nonce
           client == RequestOf(t).client
<1>1. /\ thread[t].pc = "handle" /\ requests[n].kind = "submit"
      /\ requests[n].client = client
      /\ orders' = orders /\ requests' = requests
  BY DEF StartOrder, Handling, RequestOf, callerVars, bookVars
<1>2. /\ thread'[t].pc = "number" /\ thread'[t].nonce = n
      /\ \A u \in Threads \ {t} : thread'[u] = thread[u]
  BY ThreadMoves DEF StartOrder
<1>3. n \in DOMAIN requests
  BY <1>1 DEF QInv, QMTTypeOK
<1>4. n \notin Placing
  <2>1. ASSUME NEW u \in Threads, thread[u].pc \in CreatingStages
        PROVE  thread[u].nonce # n
    BY <1>1, <2>1 DEF NonceInv, WorkersApart, WorkingStages, CreatingStages
  <2> QED
    BY <2>1, PlacingMembers
<1>5. ~Book!Entered(client)
  <2>1. \A i \in DOMAIN orders : orders[i].client # client
    BY Lookups DEF StartOrder, QInv, QMTTypeOK
  <2> QED
    BY <2>1 DEF Book!Entered, Entries
<1>6. Placing' = Placing \cup {n}
  <2>1. \A m : m \in Placing' <=>
          \E u \in Threads : thread'[u].pc \in CreatingStages /\ thread'[u].nonce = m
    BY DEF Placing, CreatingStages
  <2>2. \A m : m \in Placing' <=> m \in Placing \/ m = n
    BY <1>1, <1>2, <2>1, PlacingMembers DEF CreatingStages
  <2> QED
    BY <2>2
<1>7. Creating(client) = {} <=> ~ \E m \in Placing : requests[m].client = client
  BY PlacingMembers DEF Creating, CreatingStages, RequestOf
<1>8. raced'.client = IF \E m \in Placing : requests[m].client = client
                      THEN raced.client \cup {client} ELSE raced.client
  BY <1>7 DEF StartOrder, QInv, QMTTypeOK
<1>9. Entries' = Entries
  BY <1>1 DEF Entries
<1> HIDE DEF n, client
<1>10. Book!Start(n)
  BY <1>1, <1>5, <1>6, <1>8, <1>9 DEF Book!Start
<1> QED
  BY <1>3, <1>4, <1>10

(* A function on the first n places is a sequence of length n.              *)
LEMMA ListsAreSequences ==
  ASSUME NEW n \in Nat, NEW F, F = [i \in 1 .. n |-> F[i]]
  PROVE  Len(F) = n /\ \E S : F \in Seq(S)
<1>1. F \in [1 .. n -> {F[i] : i \in 1 .. n}]
  OBVIOUS
<1>2. F \in Seq({F[i] : i \in 1 .. n}) /\ DOMAIN F = 1 .. n
  BY <1>1
<1>3. Len(F) = n
  BY <1>2, LenProperties
<1> QED
  BY <1>2, <1>3

LEMMA AppendPlaces ==
  ASSUME QInv, NonceInv, RaceInv, NEW t \in Threads, AppendOrder(t)
  PROVE  \E n \in Placing : Book!Place(n)
<1> DEFINE n == thread[t].nonce
           order == [id |-> thread[t].id, client |-> requests[n].client,
                     terms |-> requests[n].terms, status |-> "submitted", nonce |-> n]
           entry == [request |-> n, client |-> requests[n].client,
                     terms |-> requests[n].terms, status |-> "submitted"]
<1>1. /\ orders' = Append(orders, order)
      /\ UNCHANGED <<requests, raced>>
  BY DEF AppendOrder, Appended, RequestOf, callerVars
<1>2. /\ thread[t].pc = "append" /\ thread'[t].pc = "audit"
      /\ \A u \in Threads \ {t} : thread'[u] = thread[u]
  BY AppendGrowsBook
<1>3. orders \in Seq(Order)
  BY DEF QInv, QMTTypeOK
<1>4. n \in Placing
  BY <1>2, PlacingMembers DEF CreatingStages
<1>5. \A i \in DOMAIN Entries : Entries[i].request # n
  BY <1>2 DEF Entries, NonceInv, WorkersSeen, WorkingStages, CreatingStages
<1>6. Book!Entered(requests[n].client) => requests[n].client \in raced.client
  BY <1>2 DEF Book!Entered, Entries, RaceInv, CreatorsFirst, CreatingStages, RequestOf
<1>7. Entries' = Append(Entries, entry)
  <2>1. /\ Len(orders) \in Nat /\ Len(Entries) = Len(orders)
        /\ \E S : Entries \in Seq(S)
    <3>1. Len(orders) \in Nat /\ DOMAIN orders = 1 .. Len(orders)
      BY <1>3
    <3>2. Entries = [i \in 1 .. Len(orders) |-> Entries[i]]
      BY <3>1 DEF Entries
    <3> HIDE DEF Entries
    <3> QED
      BY <3>1, <3>2, ListsAreSequences
  <2>2. /\ DOMAIN orders' = 1 .. Len(orders) + 1
        /\ \A i \in DOMAIN orders : orders'[i] = orders[i]
        /\ orders'[Len(orders) + 1] = order
    BY <1>1, <1>3
  <2>3. Entries' = [i \in 1 .. Len(orders) + 1 |->
                      IF i \in 1 .. Len(orders) THEN Entries[i] ELSE entry]
    BY <1>3, <2>1, <2>2 DEF Entries
  <2>4. Append(Entries, entry) = [i \in 1 .. Len(orders) + 1 |->
                                   IF i \in 1 .. Len(orders) THEN Entries[i] ELSE entry]
    BY <2>1
  <2> QED
    BY <2>3, <2>4
<1>8. Placing' = Placing \ {n}
  <2>1. \A m : m \in Placing' <=>
          \E u \in Threads : thread'[u].pc \in CreatingStages /\ thread'[u].nonce = m
    BY DEF Placing, CreatingStages
  <2>2. \A u \in Threads \ {t} :
          thread[u].pc \in CreatingStages => thread[u].nonce # n
    BY <1>2 DEF NonceInv, WorkersApart, WorkingStages, CreatingStages
  <2>3. \A m : m \in Placing' <=> m \in Placing /\ m # n
    BY <1>2, <2>1, <2>2, PlacingMembers DEF CreatingStages
  <2> QED
    BY <2>3
<1> HIDE DEF n, order
<1>9. Book!Place(n)
  BY <1>1, <1>5, <1>6, <1>7, <1>8 DEF Book!Place
<1> QED
  BY <1>4, <1>9

LEMMA CancelCancelsEntry ==
  ASSUME QInv, NEW t \in Threads, Cancel(t), Placing' = Placing
  PROVE  \E i \in DOMAIN Entries : Book!Cancel(i)
<1> DEFINE i == OrderByIdentifier(RequestOf(t).id)
<1>1. i \in DOMAIN orders
  BY Lookups DEF Cancel, QInv, QMTTypeOK
<1>2. orders' = [orders EXCEPT ![i] = [orders[i] EXCEPT !.status = "cancelled"]]
  BY DEF Cancel
<1>3. \A j \in DOMAIN orders : orders[j] \in Order
  BY DEF QInv, QMTTypeOK
<1>4. UNCHANGED <<requests, raced>>
  BY DEF Cancel, callerVars
<1> HIDE DEF i
<1>5. Entries' = [Entries EXCEPT ![i].status = "cancelled"]
  <2>1. /\ DOMAIN orders' = DOMAIN orders
        /\ \A j \in DOMAIN orders \ {i} : orders'[j] = orders[j]
        /\ orders'[i].nonce = orders[i].nonce /\ orders'[i].client = orders[i].client
        /\ orders'[i].terms = orders[i].terms /\ orders'[i].status = "cancelled"
    BY <1>1, <1>2, <1>3 DEF Order
  <2> QED
    BY <1>1, <2>1 DEF Entries
<1>6. i \in DOMAIN Entries
  BY <1>1 DEF Entries
<1> QED
  BY <1>4, <1>5, <1>6 DEF Book!Cancel

LEMMA BookStep ==
  ASSUME QInv, NonceInv, RaceInv, [Next]_vars
  PROVE  [Book!BookNext]_(Book!bookVars)
<1>1. ASSUME NEW c \in Callers, Adapter(c)
      PROVE  [Book!BookNext]_(Book!bookVars)
  BY <1>1, AdapterAsks DEF Book!BookNext
<1>2. ASSUME NEW t \in Threads, Handler(t)
      PROVE  [Book!BookNext]_(Book!bookVars)
  <2>1. requests' = requests /\ OnlyMoves(t)
    BY <1>2, HandlerType, HandlerCases
  <2>2. ASSUME Stay(CreatingStages), ~AppendOrder(t)
        PROVE  Placing' = Placing
    <3>1. \A u \in Threads : thread[u].pc \in CreatingStages =>
            thread'[u].pc \in CreatingStages /\ thread'[u].nonce = thread[u].nonce
      BY <1>2, <2>1, <2>2, CreatorsGoOn DEF OnlyMoves
    <3>2. \A n : n \in Placing' <=>
            \E u \in Threads : thread'[u].pc \in CreatingStages /\ thread'[u].nonce = n
      BY DEF Placing, CreatingStages
    <3>3. \A n : n \in Placing' <=> n \in Placing
      BY <2>2, <3>1, <3>2, PlacingMembers DEF Stay
    <3> QED
      BY <3>3
  <2>3. CASE StartOrder(t)
    BY <2>3, StartStarts DEF Book!BookNext
  <2>4. CASE AppendOrder(t)
    BY <2>4, AppendPlaces DEF Book!BookNext
  <2>5. CASE Cancel(t)
    <3>1. Placing' = Placing
      BY <2>2, <2>5, CancelKeepsOrders, CreatorsGoOn DEF Cancel, Handling, AppendOrder, Appended
    <3> QED
      BY <2>5, <3>1, CancelCancelsEntry DEF Book!BookNext
  <2>6. CASE Verify(t)
    <3>1. /\ thread[t].pc = "gate" /\ thread'[t].pc = "handle"
          /\ orders' = orders /\ raced' = raced
      BY <2>6, ThreadMoves DEF Verify
    <3>2. Stay(CreatingStages) /\ ~AppendOrder(t)
      BY <2>1, <3>1 DEF Stay, OnlyMoves, CreatingStages, AppendOrder, Appended
    <3> QED
      BY <2>1, <2>2, <3>1, <3>2, BookStutters
  <2>7. CASE ~StartOrder(t) /\ ~AppendOrder(t) /\ ~Cancel(t) /\ ~Verify(t)
    <3>1. orders' = orders /\ raced'.client = raced.client /\ Stay(CreatingStages)
      BY <1>2, <2>7, QuietHandler
    <3> QED
      BY <2>1, <2>2, <2>7, <3>1, BookStutters
  <2> QED
    BY <2>3, <2>4, <2>5, <2>6, <2>7
<1>3. ASSUME Restart
      PROVE  Book!Forget
  BY <1>3 DEF Restart, StartAfresh, IdleThread, Fresh, callerVars, Placing, Entries,
              Book!Forget
<1>4. CASE UNCHANGED vars
  BY <1>4 DEF vars, callerVars, bookVars, Placing, Entries, Book!bookVars
<1> QED
  BY <1>1, <1>2, <1>3, <1>4 DEF Next, Book!BookNext

(* The channel implements OrderBook, whatever is lost, delivered twice,     *)
(* sent again or raced: behind signatures, threads and order numbers there  *)
(* is a book into which each request enters one order at most, as it was    *)
(* asked for, and in which nothing but cancelling ever happens to it.       *)
THEOREM ChannelImplementsOrderBook == Spec => BookKept
<1> DEFINE BInv == QInv /\ NonceInv /\ RaceInv
<1>1. Init => BInv /\ Book!BookInit
  <2> SUFFICES ASSUME Init PROVE BInv /\ Book!BookInit
    OBVIOUS
  <2>1. BInv
    BY InitQ DEF Init, IdleThread, Fresh, NonceInv, RequestOrderedOnce, BookSeen,
         WorkersSeen, WorkersApart, WorkingStages, CreatingStages, RaceInv,
         OneOrderUnlessRaced, CreatorsApart, CreatorsFirst
  <2>2. Book!BookInit
    BY DEF Init, IdleThread, Fresh, Placing, Entries, Book!BookInit
  <2> QED
    BY <2>1, <2>2
<1>2. BInv /\ [Next]_vars => BInv'
  BY StepQ, StepNonces, StepRace
<1>3. BInv /\ [Next]_vars => [Book!BookNext]_(Book!bookVars)
  BY BookStep
<1> QED
  BY <1>1, <1>2, <1>3, PTL DEF Spec, BookKept, Book!BookSpec
=============================================================================
