----------------------------- MODULE QMTConnector -----------------------------
(***************************************************************************)
(* The QMT order channel: callers of the broker adapter (brokers/qmt.py)   *)
(* send signed POST requests to the connector stub                         *)
(* (qmt_connector/stub_server.py), a ThreadingHTTPServer that runs one     *)
(* thread per connection over one StubConnectorState without a lock.       *)
(*                                                                         *)
(* A caller that times out does not know whether its order was placed and  *)
(* sends it again under the same client_order_id.  Threads are switched    *)
(* where CPython may switch them, at calls: `nonce in seen` and its `add`  *)
(* have no call between them and are one step, as is `next_order_id += 1`; *)
(* the lookup of a client_order_id and the append of its order are not.    *)
(*                                                                         *)
(* A request is known by its nonce, which is its place in `requests`.      *)
(***************************************************************************)
EXTENDS Integers, Sequences, FiniteSets

CONSTANTS
  Callers,      \* processes that place and cancel through the adapter
  ClientIds,    \* values of client_order_id
  Terms,        \* order terms, as far as _idempotency_fingerprint tells them apart
  Acceptable,   \* terms that pass _order_validation_error and the risk policy
  PaperSubmit,  \* the connector runs in paper_submit mode, not readonly
  Threads,      \* handler threads alive at one time
  NoText,       \* no client_order_id, no terms
  MaxRequests,  \* bound: requests ever sent
  MaxDuplicates,  \* bound: deliveries of a request delivered before
  MaxRestarts   \* bound: restarts of the connector

ASSUME ConnectorAssumption ==
  /\ Acceptable \subseteq Terms
  /\ NoText \notin ClientIds \cup Terms
  /\ PaperSubmit \in BOOLEAN
  /\ MaxRequests \in Nat
  /\ MaxDuplicates \in Nat
  /\ MaxRestarts \in Nat

VARIABLES
  requests,     \* every request sent: Seq(Request)
  delivered,    \* the requests delivered at least once
  duplicates,   \* deliveries of a request delivered before
  waiting,      \* the request each caller waits for, 0 for none
  clientAudit,  \* QMT_AUDIT_LOG_PATH: how each call of the adapter ended
  orders,       \* StubConnectorState.orders
  nextOrderId,  \* StubConnectorState.next_order_id
  seenNonces,   \* StubConnectorState.seen_nonces
  audit,        \* --audit-log-path, which outlives the process
  thread,       \* what each handler thread has in hand
  restarts,     \* how often the connector was restarted
  raced         \* history: client ids and order ids two threads had in hand

callerVars == <<requests, delivered, duplicates, waiting, clientAudit>>
bookVars == <<orders, nextOrderId, seenNonces>>
vars == <<callerVars, bookVars, audit, thread, restarts, raced>>

FirstOrderId == 1

Request == [kind : {"submit", "cancel"}, caller : Callers, id : Nat,
            client : ClientIds \cup {NoText}, terms : Terms \cup {NoText}]

Order == [id : Nat, client : ClientIds, terms : Terms,
          status : {"submitted", "cancelled"}, nonce : Nat]

Outcomes == {"accepted", "replay", "cancelled", "not_found",      \* 200
             "refused", "conflict", "unauthorized"}               \* 4xx
Answered == {"accepted", "replay", "cancelled", "not_found"}

(* What a handler answers: an outcome and the order it returned.           *)
Answer(outcome, id, client, terms) ==
  [outcome |-> outcome, id |-> id, client |-> client, terms |-> terms]

Error(outcome) == Answer(outcome, 0, NoText, NoText)

Answers == [outcome : Outcomes, id : Nat, client : ClientIds \cup {NoText},
            terms : Terms \cup {NoText}]

(* A thread that has nothing yet but its request.                           *)
Fresh(pc, n) == [pc |-> pc, nonce |-> n, id |-> 0, answer |-> Error("refused")]

IdleThread == Fresh("idle", 0)

ThreadState == [pc : {"idle", "gate", "handle", "number", "bump", "append",
                      "audit", "reply"},
                nonce : Nat, id : Nat, answer : Answers]

QMTTypeOK ==
  /\ requests \in Seq(Request) /\ Len(requests) <= MaxRequests
  /\ delivered \subseteq 1 .. Len(requests) /\ duplicates \in 0 .. MaxDuplicates
  /\ waiting \in [Callers -> 0 .. Len(requests)]
  /\ clientAudit \subseteq [nonce : 1 .. Len(requests), ended : {"ok", "error"},
                            answer : Answers]
  /\ orders \in Seq(Order)
  /\ nextOrderId \in Nat
  /\ seenNonces \subseteq 1 .. Len(requests)
  /\ audit \subseteq [nonce : 1 .. Len(requests), boot : 0 .. MaxRestarts,
                      answer : Answers]
  /\ thread \in [Threads -> ThreadState]
  /\ \A t \in Threads : thread[t].pc # "idle" => thread[t].nonce \in 1 .. Len(requests)
  /\ restarts \in 0 .. MaxRestarts
  /\ raced \in [client : SUBSET ClientIds, id : SUBSET Nat]

Init ==
  /\ requests = <<>> /\ delivered = {} /\ duplicates = 0
  /\ waiting = [c \in Callers |-> 0]
  /\ clientAudit = {}
  /\ orders = <<>> /\ nextOrderId = FirstOrderId /\ seenNonces = {}
  /\ audit = {}
  /\ thread = [t \in Threads |-> IdleThread]
  /\ restarts = 0
  /\ raced = [client |-> {}, id |-> {}]

RequestOf(t) == requests[thread[t].nonce]

-----------------------------------------------------------------------------
(* The adapter *)

(* _request signs with a fresh nonce and waits.                             *)
Send(c, r) ==
  /\ waiting[c] = 0
  /\ Len(requests) < MaxRequests
  /\ requests' = Append(requests, r)
  /\ waiting' = [waiting EXCEPT ![c] = Len(requests) + 1]
  /\ UNCHANGED <<delivered, duplicates, clientAudit, bookVars, audit, thread, restarts,
                 raced>>

(* The order passed the adapter's own checks: a writable profile, a limit   *)
(* order, a price and a client_order_id.  One sent before may be sent again.*)
PlaceOrder(c, client, terms) ==
  Send(c, [kind |-> "submit", caller |-> c, id |-> 0,
           client |-> client, terms |-> terms])

(* An id a receipt gave.                                                    *)
CancelOrder(c, id) ==
  /\ \E e \in clientAudit : e.answer.outcome \in {"accepted", "replay"} /\ e.answer.id = id
  /\ Send(c, [kind |-> "cancel", caller |-> c, id |-> id,
              client |-> NoText, terms |-> NoText])

(* The five seconds are over or the connection broke: the call is mirrored  *)
(* to the audit log as an error, and raises.                                *)
GiveUp(c) ==
  /\ waiting[c] # 0
  /\ clientAudit' = clientAudit \cup
       {[nonce |-> waiting[c], ended |-> "error", answer |-> Error("refused")]}
  /\ waiting' = [waiting EXCEPT ![c] = 0]
  /\ UNCHANGED <<requests, delivered, duplicates, bookVars, audit, thread, restarts, raced>>

-----------------------------------------------------------------------------
(* The network: a request is delivered never, once or several times *)

(* ThreadingHTTPServer starts a thread for the connection.                  *)
Deliver(t, n) ==
  /\ thread[t].pc = "idle"
  /\ \/ n \notin delivered /\ duplicates' = duplicates
     \/ n \in delivered /\ duplicates < MaxDuplicates /\ duplicates' = duplicates + 1
  /\ delivered' = delivered \cup {n}
  /\ thread' = [thread EXCEPT ![t] = Fresh("gate", n)]
  /\ UNCHANGED <<requests, waiting, clientAudit, bookVars, audit, restarts, raced>>

-----------------------------------------------------------------------------
(* do_POST *)

Goto(t, pc) == thread' = [thread EXCEPT ![t].pc = pc]

AnswerWith(t, answer) ==
  thread' = [thread EXCEPT ![t].pc = "audit", ![t].answer = answer]

(* A defect: the nonce is not remembered.                                   *)
VerifyForgettingNonce(t) ==
  /\ thread[t].pc = "gate"
  /\ thread[t].nonce \notin seenNonces
  /\ Goto(t, "handle")
  /\ UNCHANGED <<callerVars, bookVars, audit, restarts, raced>>

(* _signature_valid: the nonce is new and is remembered, ...                *)
Verify(t) ==
  /\ thread[t].pc = "gate"
  /\ thread[t].nonce \notin seenNonces
  /\ seenNonces' = seenNonces \cup {thread[t].nonce}
  /\ Goto(t, "handle")
  /\ UNCHANGED <<callerVars, orders, nextOrderId, audit, restarts, raced>>

(* ... or it was seen before, or the signature's timestamp is too old by    *)
(* now, which may happen to any request: that is audited and answered 401.  *)
RejectSignature(t) ==
  /\ thread[t].pc = "gate"
  /\ AnswerWith(t, Error("unauthorized"))
  /\ UNCHANGED <<callerVars, bookVars, audit, restarts, raced>>

(* The first of some places in the book, 0 for none.                        *)
FirstOf(places) ==
  IF places = {} THEN 0 ELSE CHOOSE i \in places : \A j \in places : i <= j

(* A defect: orders that are cancelled are not found.                       *)
OpenOrderByClientId(client) ==
  FirstOf({i \in DOMAIN orders : orders[i].client = client /\ orders[i].status = "submitted"})

OrderByClientId(client) ==
  FirstOf({i \in DOMAIN orders : orders[i].client = client})

OrderByIdentifier(id) == FirstOf({i \in DOMAIN orders : orders[i].id = id})

Handling(t, kind) == thread[t].pc = "handle" /\ RequestOf(t).kind = kind

Accepts(t) == PaperSubmit /\ RequestOf(t).terms \in Acceptable

(* Wrong mode, invalid terms, or terms beyond the connector's limits.       *)
RefuseOrder(t) ==
  /\ Handling(t, "submit") /\ ~Accepts(t)
  /\ AnswerWith(t, Error("refused"))
  /\ UNCHANGED <<callerVars, bookVars, audit, restarts, raced>>

(* A defect: the terms are not compared.                                    *)
ReplayWhatever(t) ==
  LET i == OrderByClientId(RequestOf(t).client)
  IN /\ Handling(t, "submit") /\ Accepts(t)
     /\ i # 0
     /\ AnswerWith(t, Answer("replay", orders[i].id, orders[i].client, orders[i].terms))
     /\ UNCHANGED <<callerVars, bookVars, audit, restarts, raced>>

(* The client_order_id is known: the original order, if the terms agree.    *)
Replay(t) ==
  LET i == OrderByClientId(RequestOf(t).client)
  IN /\ Handling(t, "submit") /\ Accepts(t)
     /\ i # 0
     /\ AnswerWith(t, IF orders[i].terms = RequestOf(t).terms
                      THEN Answer("replay", orders[i].id, orders[i].client, orders[i].terms)
                      ELSE Error("conflict"))
     /\ UNCHANGED <<callerVars, bookVars, audit, restarts, raced>>

Creating(client) ==
  {t \in Threads : /\ thread[t].pc \in {"number", "bump", "append"}
                   /\ RequestOf(t).client = client}

(* Not known yet: the thread goes on to create the order.                   *)
StartOrder(t) ==
  LET client == RequestOf(t).client
  IN /\ Handling(t, "submit") /\ Accepts(t)
     /\ OrderByClientId(client) = 0
     /\ Goto(t, "number")
     /\ raced' = [raced EXCEPT !.client =
                    IF Creating(client) = {} THEN @ ELSE @ \cup {client}]
     /\ UNCHANGED <<callerVars, bookVars, audit, restarts>>

(* order_id = str(self.next_order_id) ...                                   *)
ReadOrderId(t) ==
  /\ thread[t].pc = "number"
  /\ thread' = [thread EXCEPT ![t].pc = "bump", ![t].id = nextOrderId]
  /\ raced' = [raced EXCEPT !.id =
                 IF \E u \in Threads : thread[u].pc = "bump" /\ thread[u].id = nextOrderId
                 THEN @ \cup {nextOrderId} ELSE @]
  /\ UNCHANGED <<callerVars, bookVars, audit, restarts>>

(* ... self.next_order_id += 1                                              *)
BumpOrderId(t) ==
  /\ thread[t].pc = "bump"
  /\ nextOrderId' = nextOrderId + 1
  /\ Goto(t, "append")
  /\ UNCHANGED <<callerVars, orders, seenNonces, audit, restarts, raced>>

(* The book gets the order and the thread its answer.                       *)
Appended(t, pc) ==
  LET r == RequestOf(t)
  IN /\ thread[t].pc = "append"
     /\ orders' = Append(orders, [id |-> thread[t].id, client |-> r.client,
                                  terms |-> r.terms, status |-> "submitted",
                                  nonce |-> thread[t].nonce])
     /\ thread' = [thread EXCEPT ![t].pc = pc,
                     ![t].answer = Answer("accepted", thread[t].id, r.client, r.terms)]
     /\ UNCHANGED <<callerVars, nextOrderId, seenNonces, audit, restarts, raced>>

(* A defect: the order is answered without an audit event.                  *)
AppendOrderUnaudited(t) == Appended(t, "reply")

AppendOrder(t) == Appended(t, "audit")

(* A defect: the cancel changes a copy of the order.                        *)
CancelCopy(t) ==
  LET i == OrderByIdentifier(RequestOf(t).id)
  IN /\ Handling(t, "cancel") /\ PaperSubmit
     /\ i # 0
     /\ AnswerWith(t, Answer("cancelled", RequestOf(t).id, NoText, NoText))
     /\ UNCHANGED <<callerVars, bookVars, audit, restarts, raced>>

(* cancel_order: the first order with that id, whatever its status.         *)
Cancel(t) ==
  LET i == OrderByIdentifier(RequestOf(t).id)
  IN /\ Handling(t, "cancel") /\ PaperSubmit
     /\ i # 0
     /\ orders' = [orders EXCEPT ![i].status = "cancelled"]
     /\ AnswerWith(t, Answer("cancelled", RequestOf(t).id, NoText, NoText))
     /\ UNCHANGED <<callerVars, nextOrderId, seenNonces, audit, restarts, raced>>

CancelNothing(t) ==
  /\ Handling(t, "cancel")
  /\ PaperSubmit => OrderByIdentifier(RequestOf(t).id) = 0
  /\ AnswerWith(t, Error(IF PaperSubmit THEN "not_found" ELSE "refused"))
  /\ UNCHANGED <<callerVars, bookVars, audit, restarts, raced>>

(* audit_event, before the answer leaves.                                   *)
AuditEvent(t) ==
  /\ thread[t].pc = "audit"
  /\ audit' = audit \cup
       {[nonce |-> thread[t].nonce, boot |-> restarts, answer |-> thread[t].answer]}
  /\ Goto(t, "reply")
  /\ UNCHANGED <<callerVars, bookVars, restarts, raced>>

(* _send_json.  The caller may wait no more, or the answer may be lost; a   *)
(* 4xx answer raises in the adapter and is mirrored as an error.            *)
Reply(t) ==
  LET n == thread[t].nonce
      c == RequestOf(t).caller
      a == thread[t].answer
  IN /\ thread[t].pc = "reply"
     /\ thread' = [thread EXCEPT ![t] = IdleThread]
     /\ \/ UNCHANGED <<waiting, clientAudit>>
        \/ /\ waiting[c] = n
           /\ waiting' = [waiting EXCEPT ![c] = 0]
           /\ clientAudit' = clientAudit \cup
                {IF a.outcome \in Answered
                 THEN [nonce |-> n, ended |-> "ok", answer |-> a]
                 ELSE [nonce |-> n, ended |-> "error", answer |-> Error("refused")]}
     /\ UNCHANGED <<requests, delivered, duplicates, bookVars, audit, restarts, raced>>

(* The stub keeps its state in memory; only the audit log is a file.        *)
StartAfresh ==
  /\ restarts < MaxRestarts
  /\ restarts' = restarts + 1
  /\ orders' = <<>> /\ nextOrderId' = FirstOrderId /\ seenNonces' = {}
  /\ thread' = [t \in Threads |-> IdleThread]
  /\ raced' = [client |-> {}, id |-> {}]
  /\ UNCHANGED callerVars

Restart == StartAfresh /\ UNCHANGED audit

-----------------------------------------------------------------------------
Handler(t) ==
  \/ \E n \in DOMAIN requests : Deliver(t, n)
  \/ Verify(t)       \/ RejectSignature(t)
  \/ RefuseOrder(t)  \/ Replay(t)         \/ StartOrder(t)
  \/ ReadOrderId(t)  \/ BumpOrderId(t)    \/ AppendOrder(t)
  \/ Cancel(t)       \/ CancelNothing(t)
  \/ AuditEvent(t)   \/ Reply(t)

Adapter(c) ==
  \/ \E client \in ClientIds, terms \in Terms : PlaceOrder(c, client, terms)
  \/ \E e \in clientAudit : CancelOrder(c, e.answer.id)
  \/ GiveUp(c)

Next ==
  \/ \E c \in Callers : Adapter(c)
  \/ \E t \in Threads : Handler(t)
  \/ Restart

Spec == Init /\ [][Next]_vars

-----------------------------------------------------------------------------
(* What the channel keeps, whatever threads, losses and restarts do *)

(* Two orders for one client_order_id need two threads that were between    *)
(* the lookup and the append together: sending an order again after a lost  *)
(* answer, a timeout or a cancel never makes a second one by itself         *)
(* (_order_by_client_id in _submit_order).                                  *)
OneOrderUnlessRaced ==
  \A i, j \in DOMAIN orders :
    (i # j /\ orders[i].client = orders[j].client) => orders[i].client \in raced.client

(* One signed request makes at most one order, however often it is          *)
(* delivered and whichever threads handle the deliveries (seen_nonces).     *)
RequestOrderedOnce ==
  \A i, j \in DOMAIN orders : i # j => orders[i].nonce # orders[j].nonce

(* An order the adapter returns has the client_order_id and the terms the   *)
(* caller asked for, also when it is an earlier order returned again        *)
(* (the fingerprint comparison of _submit_order).                           *)
ReceiptsAreTruthful ==
  \A e \in clientAudit :
    (e.ended = "ok" /\ e.answer.outcome \in {"accepted", "replay"}) =>
      /\ e.answer.client = requests[e.nonce].client
      /\ e.answer.terms = requests[e.nonce].terms

(* Whatever the caller was told is in the connector's audit log, also after *)
(* a restart, as submit_order and cancel_order audit before the answer is   *)
(* sent; and every order in the book is there as accepted, or the thread    *)
(* that appended it has still to write it.                                  *)
AuditIsComplete ==
  /\ \A e \in clientAudit :
       e.ended = "ok" => \E a \in audit : a.nonce = e.nonce /\ a.answer = e.answer
  /\ \A i \in DOMAIN orders :
       \/ \E a \in audit :
            /\ a.nonce = orders[i].nonce /\ a.boot = restarts
            /\ a.answer.outcome = "accepted" /\ a.answer.id = orders[i].id
       \/ \E t \in Threads :
            thread[t].pc = "audit" /\ thread[t].nonce = orders[i].nonce

(* Once a cancel was acknowledged nothing with that order id stays open:    *)
(* a later submit of the same order returns the cancelled one and does not  *)
(* bring it back, unless two threads drew the id together.                  *)
AcknowledgedCancelsHold ==
  \A a \in audit :
    (a.answer.outcome = "cancelled" /\ a.boot = restarts) =>
      \A i \in DOMAIN orders :
        orders[i].id = a.answer.id =>
          orders[i].status = "cancelled" \/ orders[i].id \in raced.id

-----------------------------------------------------------------------------
(* The connector implements OrderBook *)

(* The requests whose orders threads are creating, and the orders without   *)
(* their ids.                                                               *)
Placing ==
  {thread[t].nonce :
     t \in {u \in Threads : thread[u].pc \in {"number", "bump", "append"}}}

Entries ==
  [i \in DOMAIN orders |->
     [request |-> orders[i].nonce, client |-> orders[i].client,
      terms |-> orders[i].terms, status |-> orders[i].status]]

Book == INSTANCE OrderBook WITH
  asked <- requests,
  placing <- Placing,
  doubled <- raced.client,
  book <- Entries

(* Through losses, duplicated deliveries, retries and races every step of   *)
(* the channel is one of OrderBook: a signed request enters one order at    *)
(* most, with its own terms, and an order only ever goes from submitted to  *)
(* cancelled until the connector is restarted.                              *)
BookKept == Book!BookSpec

-----------------------------------------------------------------------------
(* What the documents say and the code does not keep *)

(* "Replays with the same client_order_id and identical order terms return  *)
(* the original order instead of creating another order; conflicting terms  *)
(* return an error" (qmt_connector README): never two orders for one        *)
(* client_order_id.                                                         *)
OneOrderPerClientId ==
  \A i, j \in DOMAIN orders : i # j => orders[i].client # orders[j].client
=============================================================================
