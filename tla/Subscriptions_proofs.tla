------------------------ MODULE Subscriptions_proofs ------------------------
(***************************************************************************)
(* Proofs about subscriptions, for every number of connections, keys,      *)
(* waiters, subscription ids and indications, and for every set of faults. *)
(*                                                                         *)
(* First what holds whatever the clients do: the types, and that both      *)
(* tables hold live waiters, each once.  Then, when no two connections use *)
(* one key, that requests stay registered; on that the rest builds.        *)
(***************************************************************************)
EXTENDS Subscriptions, RequestKey_proofs

\* A step of the thread of connection c, or of its client.
ThreadAct(c) == ClientStep(c) \/ HandlerStep(c)

\* Everything else: the main loop's callbacks, the SIB and the wake thread.
MailStep == Callback \/ SibAnswers \/ SibNotifies \/ (~Dead /\ WakeRound)

\* The local variables of connection c's thread stay as they are.
SameLocals(c) ==
    /\ pc'[c] = pc[c] /\ op'[c] = op[c] /\ key'[c] = key[c] /\ waiter'[c] = waiter[c]
    /\ bd'[c] = bd[c] /\ issued'[c] = issued[c]
    /\ subwaiter'[c] = subwaiter[c] /\ subid'[c] = subid[c]

-----------------------------------------------------------------------------
(* What a step of a thread does to the memory and to the two tables.       *)

\* The id under which connection c's thread takes an entry out: its own copy, or
\* the one in the message its subwaiter holds.
RemovedId(c, id) ==
    \/ pc[c] \in {"unlist", "autoremove"} /\ id = subid[c]
    \/ /\ pc[c] \in {"subunlist", "indremove"}
       /\ RspRead(subwaiter[c]) # None
       /\ Named(RspRead(subwaiter[c]))
       /\ id = RspRead(subwaiter[c]).id

Quiet(c) ==
    /\ UNCHANGED <<waiterVars, requests, subscriptions>>
    /\ pc[c] = "wait" => SameLocals(c)

DropsRequest(c) ==
    /\ pc[c] \in {"send", "registered", "close", "remove"}
    /\ pc'[c] \in {"refused", "reply", "remove", "receive", "subwait"}
    /\ key[c] \in Keys
    /\ listener_remove_request(key[c])
    /\ UNCHANGED subscriptions

DropsSubscription(c) ==
    \E id \in Ids :
        /\ RemovedId(c, id) /\ pc'[c] \in {"receive", "tell"}
        /\ listener_remove_subscription(id)
        /\ UNCHANGED requests

PutsRequest(c) ==
    \E k \in KeysOf[c], w \in Waiter \ live :
        /\ pc[c] = "receive" /\ requests[k] = None
        /\ waiter_new(w, c)
        /\ requests' = [requests EXCEPT ![k] = w]
        /\ pc'[c] = "send" /\ key'[c] = k /\ waiter'[c] = w
        /\ UNCHANGED subscriptions

PutsSubscription(c) ==
    LET r == RspRead(waiter[c]) IN
    \E w \in Waiter \ live :
        /\ pc[c] = "build" /\ op[c] = "subscribe" /\ pc'[c] \in {"ack", "unlist", "receive"}
        /\ r # None /\ Named(r) /\ subscriptions[r.id] = None
        /\ waiter_new(w, c)
        /\ subscriptions' = [subscriptions EXCEPT ![r.id] = w]
        /\ UNCHANGED requests

TakesSignal(c) ==
    /\ \/ pc[c] = "wait" /\ pc'[c] = "build" /\ waiter_wait_for_finished(waiter[c])
       \/ pc[c] = "subwait" /\ pc'[c] = "subread" /\ waiter_wait_for_finished(subwaiter[c])
    /\ UNCHANGED <<requests, subscriptions>>

EmptiesSlot(c) ==
    /\ pc[c] = "subfree" /\ pc'[c] = "subwait"
    /\ rsp' = [rsp EXCEPT ![subwaiter[c]] = None]
    /\ UNCHANGED <<live, fd, req_ready, requests, subscriptions>>

MemoryEffect(c) ==
    \/ Quiet(c) \/ DropsRequest(c) \/ DropsSubscription(c) \/ PutsRequest(c)
    \/ PutsSubscription(c) \/ TakesSignal(c) \/ EmptiesSlot(c)

\* A message with an id has one of Ids.
LEMMA NamedId == ASSUME NEW m \in Message, Named(m) PROVE m.id \in Ids
  BY DEF Message, Named, Ids, Confirmation, SimpleKinds, Granted, Refused, Indications,
         Unsubscriptions

LEMMA SlotMessage == ASSUME SubTypeOK, NEW w, RspRead(w) # None
                     PROVE  w \in live /\ w \in Waiter /\ RspRead(w) = rsp[w] /\ RspRead(w) \in Message
  BY DEF RspRead, SubTypeOK, MemoryTypeOK

LEMMA Arrives ==
    ASSUME SubTypeOK, NEW c \in Conns
    PROVE  /\ \A label : Goto(c, label) => pc'[c] = label
           /\ Return(c) => pc'[c] = "receive"
           /\ SubReturn(c) => pc'[c] = "receive"
  BY DEF SubTypeOK, LocalsTypeOK, Goto, Return, SubReturn

LEMMA RequestEffect ==
    ASSUME SubTypeOK, NEW c \in Conns, RequestStep(c)
    PROVE  MemoryEffect(c)
  <1>1. ThreadStep(c) /\ subscriptions' = subscriptions
    BY DEF RequestStep
  <1>2. pc[c] # "receive" => key[c] \in Keys
    BY DEF SubTypeOK, HandlerTypeOK
  <1>3. CASE SendRequest(c) \/ BuildResponse(c) \/ NoResponse(c) \/ Reply(c)
    BY <1>1, <1>3, Arrives DEF SendRequest, BuildResponse, NoResponse, Reply, MemoryEffect, Quiet
  <1>4. CASE RefuseRequest(c)
    BY <1>1, <1>2, <1>4, Arrives DEF RefuseRequest, MemoryEffect, DropsRequest
  <1>5. CASE RemoveRequest(c)
    BY <1>1, <1>2, <1>5, Arrives DEF RemoveRequest, MemoryEffect, DropsRequest
  <1>6. CASE Wake(c)
    BY <1>1, <1>6, Arrives DEF Wake, MemoryEffect, TakesSignal
  <1> QED
    BY <1>1, <1>3, <1>4, <1>5, <1>6 DEF ThreadStep

LEMMA SubscribeEffect ==
    ASSUME SubTypeOK, NEW c \in Conns, SubscribeStep(c)
    PROVE  MemoryEffect(c)
  <1>1. pc[c] # "receive" => key[c] \in Keys
    BY DEF SubTypeOK, HandlerTypeOK
  <1>2. pc[c] \in Serving => subid[c] \in Ids
    BY DEF SubTypeOK, HandlerTypeOK
  <1>3. CASE RefuseSubscribe(c) \/ CloseSocket(c)
    BY <1>1, <1>3, Arrives DEF RefuseSubscribe, CloseSocket, subVars, MemoryEffect, DropsRequest
  <1>11. CASE EnterLoop(c)
    <2>1. Goto(c, "subwait")
      BY <1>11 DEF EnterLoop, Goto
    <2> QED
      BY <1>1, <1>11, <2>1, Arrives DEF EnterLoop, subVars, MemoryEffect, DropsRequest
  <1>4. CASE \/ ForgetRefusal(c) \/ Acknowledge(c) \/ TellRefusal(c) \/ ReadSlot(c)
             \/ FillIndication(c) \/ SendIndication(c) \/ EndSubscription(c) \/ Probe(c)
             \/ AutoUnsubscribe(c)
    BY <1>4, Arrives DEF ForgetRefusal, Acknowledge, TellRefusal, ReadSlot, FillIndication, SendIndication,
                EndSubscription, Probe, AutoUnsubscribe, subVars, MemoryEffect, Quiet
  <1>5. CASE RegisterSubwaiter(c)
    BY <1>5, Arrives DEF RegisterSubwaiter, MemoryEffect, Quiet, PutsSubscription
  <1>6. CASE AbandonSubscribe(c)
    BY <1>6, Arrives DEF AbandonSubscribe, MemoryEffect, Quiet, PutsSubscription
  <1>7. CASE Unlist(c)
    BY <1>2, <1>7, Arrives DEF Unlist, Serving, MemoryEffect, DropsSubscription, RemovedId
  <1>8. CASE WakeSubscriber(c) \/ FreeSlot(c)
    BY <1>8, Arrives DEF WakeSubscriber, FreeSlot, subVars, MemoryEffect, TakesSignal, EmptiesSlot
  <1>9. CASE UnlistEnded(c)
    BY <1>9, Arrives, SlotMessage, NamedId
       DEF UnlistEnded, MemoryEffect, Quiet, DropsSubscription, RemovedId
  <1>10. CASE AutoRemove(c)
    BY <1>2, <1>10, Arrives, SlotMessage, NamedId
       DEF AutoRemove, SlotIsNeeded, EndedId, Serving, Loop,
           MemoryEffect, Quiet, DropsSubscription, RemovedId
  <1> QED
    BY <1>3, <1>4, <1>5, <1>6, <1>7, <1>8, <1>9, <1>10, <1>11 DEF SubscribeStep

LEMMA UnsubscribeEffect ==
    ASSUME SubTypeOK, NEW c \in Conns, UnsubscribeStep(c)
    PROVE  MemoryEffect(c)
  <1>1. pc[c] # "receive" => key[c] \in Keys
    BY DEF SubTypeOK, HandlerTypeOK
  <1> QED
    BY <1>1, Arrives DEF UnsubscribeStep, SendUnsubscribe, RefuseUnsubscribe, FinishUnsubscribe, subVars,
                MemoryEffect, Quiet, DropsRequest

LEMMA ClientEffect ==
    ASSUME SubTypeOK, NEW c \in Conns, ClientStep(c)
    PROVE  MemoryEffect(c)
  <1>1. ASSUME NEW kind, NEW k \in KeysOf[c], AddRequest(c, kind, k), UNCHANGED subscriptions
        PROVE  PutsRequest(c)
    <2>1. PICK w \in Waiter \ live :
            /\ waiter_new(w, c) /\ waiter' = [waiter EXCEPT ![c] = w]
            /\ requests' = [requests EXCEPT ![k] = w]
      BY <1>1 DEF AddRequest
    <2>2. waiter'[c] = w /\ pc'[c] = "send" /\ key'[c] = k
      BY <1>1, <2>1 DEF AddRequest, SubTypeOK, LocalsTypeOK
    <2> QED
      BY <1>1, <2>1, <2>2 DEF AddRequest, Receive, PutsRequest
  <1>2. ASSUME NEW kind, NEW k \in KeysOf[c], DropRequest(c, kind, k), UNCHANGED subVars
        PROVE  Quiet(c)
    BY <1>2 DEF DropRequest, Receive, Quiet, subVars
  <1>3. CASE \E kind \in Kinds \ {"unsubscribe"}, k \in KeysOf[c] :
                (AddRequest(c, kind, k) \/ DropRequest(c, kind, k)) /\ UNCHANGED subVars
    BY <1>1, <1>2, <1>3 DEF subVars, MemoryEffect
  <1>4. CASE \E id \in KnownIds, k \in KeysOf[c] : AddUnsubscribe(c, k, id) \/ DropUnsubscribe(c, k)
    BY <1>1, <1>4 DEF AddUnsubscribe, DropUnsubscribe, Receive, Quiet, subVars, MemoryEffect
  <1>5. CASE Break(c) /\ UNCHANGED subVars
    BY <1>5 DEF Break, threadVars, subVars, SameLocals, Quiet, MemoryEffect
  <1> QED
    BY <1>3, <1>4, <1>5 DEF ClientStep

LEMMA Effect ==
    ASSUME SubTypeOK, NEW c \in Conns, ThreadAct(c)
    PROVE  MemoryEffect(c)
  BY RequestEffect, SubscribeEffect, UnsubscribeEffect, ClientEffect DEF ThreadAct, HandlerStep

\* The other side writes slots and flags, and nothing else of the memory, of the
\* tables and of the threads.
LEMMA MailLeaves ==
    ASSUME MailStep
    PROVE  /\ UNCHANGED <<live, fd, requests, subscriptions, threadVars, subwaiter, subid,
                          inbox, broken>>
  <1>1. CASE Callback
    BY <1>1 DEF Callback, FillWaiter, CompleteWaiter, LookUpSubwaiter, CompleteSubwaiter, CompleteUnsubscribe,
                CompleteWith, subVars
  <1>2. CASE SibAnswers
    BY <1>2 DEF SibAnswers, ConfirmationArrives, SubscribeConfirmed, UnsubscribeConfirmed,
                waiterVars, subVars
  <1>3. CASE SibNotifies
    BY <1>3 DEF SibNotifies, IndicationArrives, waiterVars
  <1>4. CASE WakeRound
    BY <1>4 DEF WakeRound, subVars
  <1> QED
    BY <1>1, <1>2, <1>3, <1>4 DEF MailStep

LEMMA StepKinds == SubNext <=> (\E c \in Conns : ThreadAct(c)) \/ MailStep
  BY DEF SubNext, ThreadAct, MailStep

-----------------------------------------------------------------------------
(* Types.                                                                  *)

LEMMA MemoryThread ==
    ASSUME SubTypeOK, NEW c \in Conns, MemoryEffect(c)
    PROVE  MemoryTypeOK'
  <1> USE DEF SubTypeOK, MemoryTypeOK
  <1>1. CASE Quiet(c)
    BY <1>1 DEF Quiet, waiterVars
  <1>2. CASE DropsRequest(c)
    BY <1>2 DEF DropsRequest, listener_remove_request, waiter_destroy
  <1>3. CASE DropsSubscription(c)
    BY <1>3 DEF DropsSubscription, listener_remove_subscription, waiter_destroy
  <1>4. CASE PutsRequest(c)
    BY <1>4, RequestsAssumption DEF PutsRequest, waiter_new
  <1>5. CASE PutsSubscription(c)
    BY <1>5, SlotMessage, NamedId DEF PutsSubscription, waiter_new
  <1>6. CASE TakesSignal(c)
    BY <1>6 DEF TakesSignal, waiter_wait_for_finished
  <1>7. CASE EmptiesSlot(c)
    BY <1>7 DEF EmptiesSlot
  <1> QED
    BY <1>1, <1>2, <1>3, <1>4, <1>5, <1>6, <1>7 DEF MemoryEffect

\* What a thread's step does to the handlers' variables.
LocalEffect(c) ==
    /\ LocalsTypeOK'
    /\ HandlerTypeOK(c)'
    /\ \A d \in Conns \ {c} : SameLocals(d)

\* The handler goes on, with a response at most: it had a request, and has one.
LEMMA GoesOn ==
    ASSUME SubTypeOK, NEW c \in Conns, NEW label, Goto(c, label),
           UNCHANGED <<waiter, issued, subwaiter, subid>>,
           \/ UNCHANGED bd
           \/ \E m \in ClientMessage \cup IndicationHead : bd' = [bd EXCEPT ![c] = m],
           pc[c] # "receive",
           label \in Serving \cup {"wait", "build", "reply", "remove",
                  "tell", "close", "refused", "crashed", "nullsub", "killed"},
           label \in {"wait", "build", "reply"} => waiter[c] \in Waiter,
           label = "wait" /\ op[c] = "unsubscribe" => subid[c] \in SubIds,
           label \in Serving \cup {"tell"} => pc[c] \in Serving,
           label \in {"reply", "ack", "unlist", "tell", "subsend", "subend"} => bd'[c] \in ClientMessage,
           label = "subfill" => bd'[c] \in IndicationHead
    PROVE  LocalEffect(c)
  <1>1. \A d \in Conns \ {c} : SameLocals(d)
    BY DEF SameLocals, Goto, SubTypeOK, LocalsTypeOK
  <1>2. LocalsTypeOK'
    BY DEF Goto, SubTypeOK, LocalsTypeOK
  <1>3. HandlerTypeOK(c)
    BY DEF SubTypeOK
  <1>4. /\ pc'[c] = label /\ op'[c] = op[c] /\ key'[c] = key[c] /\ issued'[c] = issued[c]
        /\ waiter'[c] = waiter[c] /\ subwaiter'[c] = subwaiter[c] /\ subid'[c] = subid[c]
    BY DEF Goto, SubTypeOK, LocalsTypeOK
  <1>5. HandlerTypeOK(c)'
    BY <1>3, <1>4 DEF HandlerTypeOK, Serving, Loop
  <1> QED
    BY <1>1, <1>2, <1>5 DEF LocalEffect

\* The handler returns.
LEMMA Returns ==
    ASSUME SubTypeOK, NEW c \in Conns, SubReturn(c), UNCHANGED issued
    PROVE  LocalEffect(c)
  <1>1. \A d \in Conns \ {c} : SameLocals(d)
    BY DEF SameLocals, SubReturn, Return, SubTypeOK, LocalsTypeOK
  <1>2. LocalsTypeOK' /\ pc'[c] = "receive"
    BY DEF SubReturn, Return, SubTypeOK, LocalsTypeOK
  <1> QED
    BY <1>1, <1>2 DEF LocalEffect, HandlerTypeOK, Serving, Loop

\* A step of Requests that goes on leaves the variables of this module alone,
\* one that returns takes them with it.
LEMMA RequestKeeps ==
    ASSUME SubTypeOK, NEW c \in Conns, RequestStep(c)
    PROVE  /\ \A label : label # "receive" /\ Goto(c, label) => UNCHANGED <<subwaiter, subid>>
           /\ Return(c) => SubReturn(c)
  <1>1. /\ subwaiter' = [subwaiter EXCEPT ![c] = IF pc'[c] = "receive" THEN None ELSE @]
        /\ subid' = [subid EXCEPT ![c] = IF pc'[c] = "receive" THEN None ELSE @]
    BY DEF RequestStep
  <1>2. ASSUME NEW label, label # "receive", Goto(c, label)
        PROVE  UNCHANGED <<subwaiter, subid>>
    <2>1. pc'[c] = label
      BY <1>2 DEF Goto, SubTypeOK, LocalsTypeOK
    <2> QED
      BY <1>1, <1>2, <2>1 DEF SubTypeOK, LocalsTypeOK
  <1>3. ASSUME Return(c) PROVE SubReturn(c)
    <2>1. pc'[c] = "receive"
      BY <1>3 DEF Return, SubTypeOK, LocalsTypeOK
    <2> QED
      BY <1>1, <1>3, <2>1 DEF SubReturn
  <1> QED
    BY <1>2, <1>3

LEMMA RequestLocals ==
    ASSUME SubTypeOK, NEW c \in Conns, RequestStep(c)
    PROVE  LocalEffect(c)
  <1>1. ThreadStep(c)
    BY DEF RequestStep
  <1>2. HandlerTypeOK(c) /\ issued[c] \in 0..MaxRequests
    BY DEF SubTypeOK, LocalsTypeOK
  <1>3. CASE SendRequest(c)
    <2>1. /\ Goto(c, "wait") /\ pc[c] = "send" /\ op[c] # "unsubscribe"
          /\ UNCHANGED <<waiter, bd, issued>>
      BY <1>3 DEF SendRequest
    <2> QED
      BY <1>2, <2>1, RequestKeeps, GoesOn DEF HandlerTypeOK, Serving, Loop
  <1>4. CASE RefuseRequest(c)
    <2>1. PICK s \in LocalStatus(op[c]) :
            \/ /\ bd' = [bd EXCEPT ![c] = [for |-> CurrentId(c), via |-> op[c],
                                           status |-> s, local |-> TRUE]]
               /\ Goto(c, "reply")
               /\ UNCHANGED waiter
            \/ Return(c)
      BY <1>4 DEF RefuseRequest
    <2>2. pc[c] = "send" /\ UNCHANGED issued
      BY <1>4 DEF RefuseRequest
    <2>3. CASE Return(c)
      BY <2>2, <2>3, RequestKeeps, Returns
    <2>4. CASE /\ bd' = [bd EXCEPT ![c] = [for |-> CurrentId(c), via |-> op[c],
                                           status |-> s, local |-> TRUE]]
               /\ Goto(c, "reply")
               /\ UNCHANGED waiter
      <3>1. PICK m : m = [for |-> CurrentId(c), via |-> op[c], status |-> s, local |-> TRUE]
        OBVIOUS
      <3>2. m \in ClientMessage
        <4>1. s \in Statuses
          BY DEF LocalStatus, Statuses
        <4>2. CurrentId(c) \in UnsubId /\ op[c] \in AllKinds
          BY <1>2, <2>2 DEF HandlerTypeOK, CurrentId, UnsubId
        <4> QED
          BY <3>1, <4>1, <4>2 DEF ClientMessage
      <3>3. bd' = [bd EXCEPT ![c] = m] /\ bd'[c] = m
        BY <2>4, <3>1 DEF SubTypeOK, LocalsTypeOK
      <3> QED
        BY <1>2, <2>2, <2>4, <3>2, <3>3, RequestKeeps, GoesOn DEF HandlerTypeOK, Serving, Loop
    <2> QED
      BY <2>1, <2>3, <2>4
  <1>5. CASE Wake(c)
    <2>1. Goto(c, "build") /\ pc[c] = "wait" /\ UNCHANGED <<waiter, bd, issued>>
      BY <1>5 DEF Wake
    <2> QED
      BY <1>2, <2>1, RequestKeeps, GoesOn DEF HandlerTypeOK, Serving, Loop
  <1>6. CASE BuildResponse(c)
    <2> DEFINE r == RspRead(waiter[c])
    <2>1. PICK m : m = [for |-> r.for, via |-> op[c], status |-> r.status, local |-> FALSE]
      OBVIOUS
    <2>2. /\ pc[c] = "build" /\ r # None /\ bd' = [bd EXCEPT ![c] = m] /\ Goto(c, "reply")
          /\ UNCHANGED <<waiter, issued>>
      BY <1>6, <2>1 DEF BuildResponse
    <2>3. r \in Message
      BY <2>2, SlotMessage
    <2>4. r.for \in UnsubId \cup {None} /\ r.status \in Statuses
      BY <2>3 DEF Message, Confirmation, Granted, Refused, Indications, Unsubscriptions,
                  Statuses, Id, UnsubId
    <2>5. m \in ClientMessage
      BY <1>2, <2>1, <2>2, <2>4 DEF ClientMessage, HandlerTypeOK
    <2>6. bd'[c] = m
      BY <2>2 DEF SubTypeOK, LocalsTypeOK
    <2> QED
      BY <1>2, <2>2, <2>5, <2>6, RequestKeeps, GoesOn DEF HandlerTypeOK, Serving, Loop
  <1>7. CASE NoResponse(c) \/ RemoveRequest(c)
    BY <1>7, RequestKeeps, Returns DEF NoResponse, RemoveRequest
  <1>8. CASE Reply(c)
    <2>1. Goto(c, "remove") /\ pc[c] = "reply" /\ UNCHANGED <<waiter, bd, issued>>
      BY <1>8 DEF Reply
    <2> QED
      BY <1>2, <2>1, RequestKeeps, GoesOn DEF HandlerTypeOK, Serving, Loop
  <1> QED
    BY <1>1, <1>3, <1>4, <1>5, <1>6, <1>7, <1>8 DEF ThreadStep

LEMMA UnsubscribeLocals ==
    ASSUME SubTypeOK, NEW c \in Conns, UnsubscribeStep(c)
    PROVE  LocalEffect(c)
  <1>1. HandlerTypeOK(c) /\ issued[c] \in 0..MaxRequests
    BY DEF SubTypeOK, LocalsTypeOK
  <1>2. CASE SendUnsubscribe(c)
    <2>1. /\ Goto(c, "wait") /\ pc[c] = "send" /\ op[c] = "unsubscribe"
          /\ UNCHANGED <<waiter, bd, issued, subwaiter, subid>>
      BY <1>2 DEF SendUnsubscribe
    <2> QED
      BY <1>1, <2>1, GoesOn DEF HandlerTypeOK, Serving, Loop
  <1>3. CASE RefuseUnsubscribe(c)
    <2>1. PICK m : m = [via |-> "unsubscribe", id |-> subid[c], key |-> key[c],
                        status |-> "failed", for |-> CurrentId(c)]
      OBVIOUS
    <2>2. /\ pc[c] = "send" /\ op[c] = "unsubscribe"
          /\ UNCHANGED <<waiter, issued, subwaiter, subid>>
          /\ \/ bd' = [bd EXCEPT ![c] = m] /\ Goto(c, "reply")
             \/ Goto(c, "remove") /\ UNCHANGED bd
      BY <1>3, <2>1 DEF RefuseUnsubscribe, subVars
    <2>3. subid[c] \in SubIds /\ key[c] \in Keys /\ CurrentId(c) \in UnsubId
      BY <1>1, <2>2 DEF HandlerTypeOK, CurrentId, UnsubId
    <2>4. m \in ClientMessage
      BY <2>1, <2>3 DEF ClientMessage, Message, Unsubscriptions, Ids
    <2>5. CASE bd' = [bd EXCEPT ![c] = m] /\ Goto(c, "reply")
      <3>1. bd'[c] = m
        BY <2>5 DEF SubTypeOK, LocalsTypeOK
      <3> QED
        BY <1>1, <2>2, <2>4, <2>5, <3>1, GoesOn DEF HandlerTypeOK, Serving, Loop
    <2>6. CASE Goto(c, "remove") /\ UNCHANGED bd
      BY <1>1, <2>2, <2>6, GoesOn DEF HandlerTypeOK, Serving, Loop
    <2> QED
      BY <2>2, <2>5, <2>6
  <1>4. CASE FinishUnsubscribe(c)
    <2>1. PICK r : r = RspRead(waiter[c])
      OBVIOUS
    <2>2. /\ pc[c] = "build" /\ op[c] = "unsubscribe"
          /\ UNCHANGED <<waiter, issued, subwaiter, subid>>
          /\ \/ r # None /\ bd' = [bd EXCEPT ![c] = r] /\ Goto(c, "reply")
             \/ Goto(c, "remove") /\ UNCHANGED bd
      BY <1>4, <2>1 DEF FinishUnsubscribe, subVars
    <2>3. r # None => r \in ClientMessage
      BY <2>1, SlotMessage DEF ClientMessage
    <2>4. CASE r # None /\ bd' = [bd EXCEPT ![c] = r] /\ Goto(c, "reply")
      <3>1. bd'[c] = r
        BY <2>4 DEF SubTypeOK, LocalsTypeOK
      <3> QED
        BY <1>1, <2>2, <2>3, <2>4, <3>1, GoesOn DEF HandlerTypeOK, Serving, Loop
    <2>5. CASE Goto(c, "remove") /\ UNCHANGED bd
      BY <1>1, <2>2, <2>5, GoesOn DEF HandlerTypeOK, Serving, Loop
    <2> QED
      BY <2>2, <2>4, <2>5
  <1> QED
    BY <1>2, <1>3, <1>4 DEF UnsubscribeStep

\* The second waiter is made and the response built.
LEMMA RegisterLocals ==
    ASSUME SubTypeOK, NEW c \in Conns, RegisterSubwaiter(c)
    PROVE  LocalEffect(c)
  <1>1. PICK r : r = RspRead(waiter[c])
    OBVIOUS
  <1>2. PICK w \in Waiter \ live : subwaiter' = [subwaiter EXCEPT ![c] = w]
    BY DEF RegisterSubwaiter
  <1>3. PICK m : m = [via |-> "subscribe", id |-> r.id,
                      status |-> IF subscriptions[r.id] = None THEN r.status ELSE "ok"]
    OBVIOUS
  <1>4. PICK label : label = IF r.status = "ok" THEN "ack" ELSE "unlist"
    OBVIOUS
  <1>5. /\ pc[c] = "build" /\ op[c] = "subscribe" /\ r # None /\ Named(r)
        /\ subid' = [subid EXCEPT ![c] = r.id]
        /\ bd' = [bd EXCEPT ![c] = m]
        /\ pc' = [pc EXCEPT ![c] = label]
        /\ UNCHANGED <<op, key, waiter, issued>>
    BY <1>1, <1>3, <1>4 DEF RegisterSubwaiter, Goto
  <1>6. r \in Message /\ r.id \in Ids
    BY <1>1, <1>5, SlotMessage, NamedId
  <1>7. Named(r) => r.status \in {"ok", "failed"}
    BY <1>6 DEF Message, Named, Confirmation, SimpleKinds, Granted, Refused, Indications,
                Unsubscriptions
  <1>8. m \in ClientMessage
    BY <1>3, <1>5, <1>6, <1>7 DEF ClientMessage, SubResponse
  <1>9. HandlerTypeOK(c)
    BY DEF SubTypeOK
  <1>10. label \in {"ack", "unlist"}
    BY <1>4
  <1>11. \A d \in Conns \ {c} : SameLocals(d)
    BY <1>2, <1>5 DEF SameLocals, SubTypeOK, LocalsTypeOK
  <1>12. LocalsTypeOK'
    BY <1>2, <1>5, <1>6, <1>8, <1>10 DEF SubTypeOK, LocalsTypeOK, Serving
  <1>13. /\ pc'[c] = label /\ bd'[c] = m /\ subwaiter'[c] = w /\ subid'[c] = r.id
         /\ op'[c] = op[c] /\ key'[c] = key[c] /\ issued'[c] = issued[c]
    BY <1>2, <1>5 DEF SubTypeOK, LocalsTypeOK
  <1>14. HandlerTypeOK(c)'
    BY <1>5, <1>6, <1>8, <1>9, <1>10, <1>13 DEF HandlerTypeOK
  <1> QED
    BY <1>11, <1>12, <1>14 DEF LocalEffect

\* The steps by which the loop reads its slot into the message it makes.
LEMMA ReadLocals ==
    ASSUME SubTypeOK, NEW c \in Conns, ReadSlot(c) \/ FillIndication(c)
    PROVE  LocalEffect(c)
  <1>1. PICK r : r = RspRead(subwaiter[c])
    OBVIOUS
  <1>2. r # None => r \in Message
    BY <1>1, SlotMessage
  <1>3. /\ pc[c] \in {"subread", "subfill"}
        /\ UNCHANGED <<waiter, issued, subwaiter, subid>>
    BY DEF ReadSlot, FillIndication, subVars
  <1>4. HandlerTypeOK(c)
    BY DEF SubTypeOK
  <1>5. ASSUME NEW label \in {"probe", "subunlist", "crashed"}, Goto(c, label), UNCHANGED bd
        PROVE  LocalEffect(c)
    BY <1>3, <1>4, <1>5, GoesOn DEF Serving, Loop
  <1>6. ASSUME NEW m \in ClientMessage, NEW label \in {"subsend", "subend"}, Goto(c, label),
               bd' = [bd EXCEPT ![c] = m]
        PROVE  LocalEffect(c)
    <2>1. bd'[c] = m
      BY <1>6 DEF SubTypeOK, LocalsTypeOK
    <2> QED
      BY <1>3, <1>4, <1>6, <2>1, GoesOn DEF Serving, Loop
  <1>7. CASE ReadSlot(c)
    <2>1. PICK m : m = [via |-> "ind", id |-> r.id, seq |-> r.seq]
      OBVIOUS
    <2>2. CASE r # None /\ r.via = "ind" /\ bd' = [bd EXCEPT ![c] = m] /\ Goto(c, "subfill")
      <3>1. r \in Indications
        BY <1>2, <2>2 DEF Message, Confirmation, SimpleKinds, Granted, Refused, Unsubscriptions
      <3>2. m \in IndicationHead
        BY <2>1, <3>1 DEF IndicationHead, Indications
      <3>3. bd'[c] = m
        BY <2>2 DEF SubTypeOK, LocalsTypeOK
      <3> QED
        BY <1>3, <1>4, <2>2, <3>2, <3>3, GoesOn DEF Serving, Loop
    <2> QED
      BY <1>1, <1>2, <1>5, <1>6, <1>7, <2>1, <2>2 DEF ReadSlot, ClientMessage
  <1>8. CASE FillIndication(c)
    <2>1. /\ bd[c] \in IndicationHead
      BY <1>4, <1>8 DEF FillIndication, HandlerTypeOK
    <2>2. ASSUME NEW n \in 0..MaxInd
          PROVE  [via |-> "ind", id |-> bd[c].id, seq |-> bd[c].seq, results |-> n] \in ClientMessage
      BY <2>1 DEF IndicationHead, ClientMessage, SentIndication
    <2>3. 0 \in 0..MaxInd
      BY SubscriptionsAssumption
    <2>4. r # None /\ r.via = "ind" => r.seq \in 0..MaxInd
      BY <1>2 DEF Message, Confirmation, SimpleKinds, Granted, Refused, Indications, Unsubscriptions
    <2>5. PICK n : n = IF r # None /\ r.via = "ind" THEN r.seq ELSE 0
      OBVIOUS
    <2>6. PICK m : m = [via |-> "ind", id |-> bd[c].id, seq |-> bd[c].seq, results |-> n]
      OBVIOUS
    <2>7. m \in ClientMessage
      BY <2>2, <2>3, <2>4, <2>5, <2>6
    <2>8. \/ \E label \in {"subunlist", "crashed"} : Goto(c, label) /\ UNCHANGED bd
          \/ bd' = [bd EXCEPT ![c] = m] /\ Goto(c, "subsend")
          \/ r # None /\ bd' = [bd EXCEPT ![c] = r] /\ Goto(c, "subend")
      BY <1>1, <1>8, <2>5, <2>6 DEF FillIndication
    <2> QED
      BY <1>2, <1>5, <1>6, <2>7, <2>8 DEF ClientMessage
  <1> QED
    BY <1>7, <1>8

LEMMA SendGoes ==
    ASSUME NEW w, NEW c, NEW ok, NEW no, SendThrough(w, c, ok, no)
    PROVE  Goto(c, ok) \/ Goto(c, no)
  BY DEF SendThrough

LEMMA SubscribeLocals ==
    ASSUME SubTypeOK, NEW c \in Conns, SubscribeStep(c)
    PROVE  LocalEffect(c)
  <1>1. HandlerTypeOK(c)
    BY DEF SubTypeOK
  <1>2. ASSUME NEW label \in {"refused", "remove", "registered", "subwait", "close", "nullsub",
                              "subread", "subfree", "indunsub", "autounsub", "subunlist", "crashed",
                              "killed", "indremove", "autoremove"},
               Goto(c, label), UNCHANGED <<waiter, bd, issued, subwaiter, subid>>,
               pc[c] # "receive", label \in Serving => pc[c] \in Serving
        PROVE  LocalEffect(c)
    <2>1. label \notin {"wait", "build", "reply", "ack", "unlist", "tell", "subsend", "subend", "subfill"}
      BY <1>2
    <2>2. label \in Serving \cup {"wait", "build", "reply", "remove",
                  "tell", "close", "refused", "crashed", "nullsub", "killed"}
      BY <1>2 DEF Serving, Loop
    <2> QED
      BY <1>2, <2>1, <2>2, GoesOn
  <1>3. CASE RegisterSubwaiter(c)
    BY <1>3, RegisterLocals
  <1>4. CASE ReadSlot(c) \/ FillIndication(c)
    BY <1>4, ReadLocals
  <1>5. CASE RefuseSubscribe(c)
    BY <1>2, <1>5 DEF RefuseSubscribe, subVars, Serving, Loop
  <1>6. CASE ForgetRefusal(c)
    BY <1>2, <1>6, Returns DEF ForgetRefusal, Serving, Loop
  <1>7. CASE AbandonSubscribe(c)
    BY <1>2, <1>7, Returns DEF AbandonSubscribe, Serving, Loop
  <1>8. CASE Acknowledge(c)
    BY <1>2, <1>8, SendGoes DEF Acknowledge, subVars, Serving, Loop
  <1>9. CASE EnterLoop(c)
    <2>1. Goto(c, "subwait") /\ pc[c] = "registered"
          /\ UNCHANGED <<waiter, bd, issued, subwaiter, subid>>
      BY <1>9 DEF EnterLoop, Goto, subVars
    <2> QED
      BY <1>2, <2>1 DEF Serving, Loop
  <1>10. CASE Unlist(c)
    <2>1. /\ Goto(c, "tell") /\ pc[c] = "unlist"
          /\ UNCHANGED <<waiter, bd, issued, subwaiter, subid>>
      BY <1>10 DEF Unlist
    <2>2. bd[c] \in ClientMessage
      BY <1>1, <2>1 DEF HandlerTypeOK
    <2> QED
      BY <2>1, <2>2, GoesOn DEF Serving, Loop
  <1>11. CASE TellRefusal(c)
    BY <1>2, <1>11, SendGoes DEF TellRefusal, subVars, Serving, Loop
  <1>12. CASE CloseSocket(c)
    BY <1>12, Returns DEF CloseSocket
  <1>13. CASE WakeSubscriber(c)
    BY <1>2, <1>13 DEF WakeSubscriber, subVars, Serving, Loop
  <1>14. CASE SendIndication(c)
    BY <1>2, <1>14, SendGoes DEF SendIndication, subVars, Serving, Loop
  <1>15. CASE FreeSlot(c)
    BY <1>2, <1>15 DEF FreeSlot, subVars, Serving, Loop
  <1>16. CASE EndSubscription(c)
    BY <1>2, <1>16, SendGoes DEF EndSubscription, subVars, Serving, Loop
  <1>17. CASE UnlistEnded(c)
    BY <1>2, <1>17, Returns DEF UnlistEnded, Serving, Loop
  <1>18. CASE Probe(c)
    BY <1>2, <1>18 DEF Probe, subVars, Serving, Loop
  <1>19. CASE AutoUnsubscribe(c)
    BY <1>2, <1>19 DEF AutoUnsubscribe, Serving, Loop
  <1>20. CASE AutoRemove(c)
    BY <1>2, <1>20, Returns DEF AutoRemove, Serving, Loop
  <1> QED
    BY <1>3, <1>4, <1>5, <1>6, <1>7, <1>8, <1>9, <1>10, <1>11, <1>12, <1>13, <1>14, <1>15, <1>16,
       <1>17, <1>18, <1>19, <1>20 DEF SubscribeStep

\* An unsubscribe names an id the client has seen.
LEMMA ClientLocals ==
    ASSUME SubTypeOK, NEW c \in Conns, ClientStep(c)
    PROVE  LocalEffect(c)
  <1>1. HandlerTypeOK(c)
    BY DEF SubTypeOK
  <1>2. ASSUME NEW kind, NEW k, Receive(c, kind, k)
        PROVE  /\ pc[c] = "receive"
               /\ issued' \in [Conns -> 0..MaxRequests] /\ issued'[c] # 0
               /\ \A d \in Conns \ {c} : issued'[d] = issued[d]
    BY <1>2, RequestsAssumption DEF Receive, SubTypeOK, LocalsTypeOK
  <1>3. ASSUME NEW kind \in AllKinds, NEW k \in KeysOf[c], AddRequest(c, kind, k),
               UNCHANGED subwaiter,
               \/ kind # "unsubscribe" /\ UNCHANGED subid
               \/ \E id \in SubIds : subid' = [subid EXCEPT ![c] = id]
        PROVE  LocalEffect(c)
    <2>1. k \in Keys
      BY RequestsAssumption
    <2>2. PICK w \in Waiter : waiter' = [waiter EXCEPT ![c] = w]
      BY <1>3 DEF AddRequest
    <2>3. /\ pc' = [pc EXCEPT ![c] = "send"]
          /\ op' = [op EXCEPT ![c] = kind]
          /\ key' = [key EXCEPT ![c] = k]
          /\ UNCHANGED bd /\ Receive(c, kind, k)
      BY <1>3 DEF AddRequest, Receive
    <2>4. \A d \in Conns \ {c} : SameLocals(d)
      BY <1>2, <1>3, <2>2, <2>3 DEF SameLocals, SubTypeOK, LocalsTypeOK
    <2>5. LocalsTypeOK'
      BY <1>2, <1>3, <2>1, <2>2, <2>3 DEF SubTypeOK, LocalsTypeOK, Ids
    <2>6. /\ pc'[c] = "send" /\ op'[c] = kind /\ key'[c] = k /\ waiter'[c] = w
          /\ (kind = "unsubscribe" => subid'[c] \in SubIds)
      BY <1>3, <2>2, <2>3 DEF SubTypeOK, LocalsTypeOK
    <2>7. HandlerTypeOK(c)'
      BY <1>2, <2>1, <2>3, <2>6 DEF HandlerTypeOK, Serving, Loop
    <2> QED
      BY <2>4, <2>5, <2>7 DEF LocalEffect
  <1>4. ASSUME NEW kind \in AllKinds, NEW k \in KeysOf[c], DropRequest(c, kind, k), UNCHANGED subVars
        PROVE  LocalEffect(c)
    <2>1. Receive(c, kind, k) /\ UNCHANGED <<pc, op, key, waiter, bd, subwaiter, subid>>
      BY <1>4 DEF DropRequest, Receive, subVars
    <2>2. LocalsTypeOK' /\ \A d \in Conns \ {c} : SameLocals(d)
      BY <1>2, <2>1 DEF SubTypeOK, LocalsTypeOK, SameLocals
    <2> QED
      BY <1>2, <2>1, <2>2 DEF LocalEffect, HandlerTypeOK, Serving, Loop
  <1>5. ASSUME NEW k \in KeysOf[c], DropUnsubscribe(c, k)
        PROVE  LocalEffect(c)
    <2>1. k \in Keys
      BY RequestsAssumption
    <2>2. /\ Receive(c, "unsubscribe", k)
          /\ pc' = [pc EXCEPT ![c] = "remove"]
          /\ op' = [op EXCEPT ![c] = "unsubscribe"]
          /\ key' = [key EXCEPT ![c] = k]
          /\ UNCHANGED <<waiter, bd, subwaiter, subid>>
      BY <1>5 DEF DropUnsubscribe, Receive, subVars
    <2>3. LocalsTypeOK' /\ \A d \in Conns \ {c} : SameLocals(d)
      BY <1>2, <2>1, <2>2 DEF SubTypeOK, LocalsTypeOK, SameLocals, AllKinds
    <2>4. pc'[c] = "remove" /\ op'[c] = "unsubscribe" /\ key'[c] = k
      BY <2>2 DEF SubTypeOK, LocalsTypeOK
    <2> QED
      BY <1>2, <2>1, <2>2, <2>3, <2>4 DEF LocalEffect, HandlerTypeOK, AllKinds, Serving, Loop
  <1>6. Kinds \subseteq AllKinds
    BY RequestsAssumption
  <1>7. CASE \E kind \in Kinds \ {"unsubscribe"}, k \in KeysOf[c] :
                (AddRequest(c, kind, k) \/ DropRequest(c, kind, k)) /\ UNCHANGED subVars
    BY <1>3, <1>4, <1>6, <1>7 DEF subVars
  <1>8. CASE /\ "unsubscribe" \in Kinds
             /\ \E id \in KnownIds, k \in KeysOf[c] : AddUnsubscribe(c, k, id) \/ DropUnsubscribe(c, k)
    BY <1>3, <1>5, <1>6, <1>8 DEF AddUnsubscribe, KnownIds
  <1>9. CASE Break(c) /\ UNCHANGED subVars
    BY <1>1, <1>9 DEF Break, threadVars, subVars, LocalEffect, SubTypeOK, LocalsTypeOK, SameLocals,
                      HandlerTypeOK
  <1> QED
    BY <1>7, <1>8, <1>9 DEF ClientStep

LEMMA Locals ==
    ASSUME SubTypeOK, NEW c \in Conns, ThreadAct(c)
    PROVE  LocalEffect(c)
  BY RequestLocals, SubscribeLocals, UnsubscribeLocals, ClientLocals DEF ThreadAct, HandlerStep

\* What a thread's step sends to the SIB: a request, or an unsubscribe, which may
\* be one of its own.
PostEffect(c) ==
    /\ UNCHANGED <<cb, unsubcb, served, sent, strayed>>
    /\ \/ UNCHANGED <<sib, unsubs>>
       \/ /\ pc[c] = "send" /\ op[c] # "unsubscribe" /\ Goto(c, "wait")
          /\ sib' = sib \cup {[for |-> CurrentId(c), kind |-> op[c], key |-> key[c]]}
          /\ unsubs' = unsubs
       \/ /\ pc[c] = "send" /\ op[c] = "unsubscribe" /\ Goto(c, "wait")
          /\ unsubs' = unsubs \cup {[for |-> CurrentId(c), key |-> key[c], id |-> subid[c]]}
          /\ sib' = sib
       \/ \E id \in Ids, k \in Keys :
          /\ pc[c] \in {"autounsub", "indunsub"}
          /\ unsubs' = unsubs \cup {[for |-> <<c, 0>>, key |-> k, id |-> id]}
          /\ sib' = sib

\* What it sends to a client: the response it has made; an indication goes
\* through the subwaiter.
TellEffect(c) ==
    \/ UNCHANGED inbox
    \/ \E to \in Conns :
        /\ pc[c] \in {"reply", "ack", "tell", "subsend", "subend"}
        /\ pc[c] = "subsend" => to \in FdRead(subwaiter[c])
        /\ inbox' = [inbox EXCEPT ![to] = Append(@, bd[c])]

\* Whatever message the key of an unsubscribe of the gateway's own is made of.
LEMMA AutoKeysAreKeys ==
    ASSUME SubTypeOK, NEW c \in Conns, ~SlotIsNeeded(c), pc[c] \in {"autounsub", "indunsub"}
    PROVE  AutoKeys(c) \subseteq Keys
  <1>1. AutoKey[c] \in Keys /\ IndKey[c] \in Keys
    BY SubscriptionsAssumption
  <1>2. CASE pc[c] = "autounsub"
    BY <1>1, <1>2 DEF AutoKeys
  <1>3. CASE pc[c] = "indunsub"
    <2> DEFINE r == RspRead(subwaiter[c])
    <2>1. r \in Message
      BY <1>3, SlotMessage DEF SlotIsNeeded
    <2>2. r.via = "unsubscribe" => r.key \in Keys
      BY <2>1 DEF Message, Confirmation, Granted, Refused, Indications, Unsubscriptions, SimpleKinds
    <2> HIDE DEF r
    <2> QED
      BY <1>1, <1>3, <2>2 DEF AutoKeys, r
  <1> QED
    BY <1>2, <1>3

LEMMA Posts ==
    ASSUME SubTypeOK, NEW c \in Conns, ThreadAct(c)
    PROVE  PostEffect(c)
  <1>1. CASE ClientStep(c)
    BY <1>1 DEF ClientStep, AddRequest, DropRequest, AddUnsubscribe, DropUnsubscribe, Break, Receive,
                subVars, PostEffect
  <1>2. CASE RequestStep(c)
    <2>1. UNCHANGED <<cb, unsubs, unsubcb, served, sent, strayed>>
      BY <1>2 DEF RequestStep, ThreadStep, SendRequest, RefuseRequest, Wake, BuildResponse, NoResponse,
                  Reply, RemoveRequest
    <2>2. CASE SendRequest(c)
      BY <2>1, <2>2 DEF SendRequest, PostEffect
    <2>3. CASE RefuseRequest(c) \/ Wake(c) \/ BuildResponse(c) \/ NoResponse(c) \/ Reply(c)
               \/ RemoveRequest(c)
      BY <2>1, <2>3 DEF RefuseRequest, Wake, BuildResponse, NoResponse, Reply, RemoveRequest, PostEffect
    <2> QED
      BY <1>2, <2>2, <2>3 DEF RequestStep, ThreadStep
  <1>3. CASE AutoUnsubscribe(c)
    <2>1. HandlerTypeOK(c)
      BY DEF SubTypeOK
    <2>2. ~SlotIsNeeded(c) => EndedId(c) \in Ids
      <3>1. CASE pc[c] = "autounsub"
        BY <2>1, <3>1 DEF EndedId, HandlerTypeOK, Serving, Loop
      <3>2. CASE pc[c] = "indunsub"
        BY <3>2, SlotMessage, NamedId DEF EndedId, SlotIsNeeded
      <3> QED
        BY <1>3, <3>1, <3>2 DEF AutoUnsubscribe
    <2>3. /\ UNCHANGED <<sib, cb, unsubcb, served, sent, strayed>>
          /\ pc[c] \in {"autounsub", "indunsub"}
          /\ \/ UNCHANGED unsubs
             \/ /\ ~SlotIsNeeded(c)
                /\ \E k \in AutoKeys(c) :
                     unsubs' = unsubs \cup {[for |-> <<c, 0>>, key |-> k, id |-> EndedId(c)]}
      BY <1>3 DEF AutoUnsubscribe, SendAutoUnsubscribe
    <2>4. ~SlotIsNeeded(c) => AutoKeys(c) \subseteq Keys
      BY <2>3, AutoKeysAreKeys
    <2> QED
      BY <2>2, <2>3, <2>4 DEF PostEffect
  <1>4. CASE SubscribeStep(c) /\ ~AutoUnsubscribe(c)
    <2>1. UNCHANGED <<sib, cb, unsubs, unsubcb, served, sent, strayed>>
      BY <1>4 DEF SubscribeStep, RefuseSubscribe, ForgetRefusal, RegisterSubwaiter, AbandonSubscribe,
                  Acknowledge, EnterLoop, Unlist, TellRefusal, CloseSocket, WakeSubscriber, ReadSlot,
                  FillIndication, SendIndication, FreeSlot, EndSubscription, UnlistEnded, Probe,
                  AutoRemove, subVars
    <2> QED
      BY <2>1 DEF PostEffect
  <1>5. CASE UnsubscribeStep(c)
    BY <1>5 DEF UnsubscribeStep, SendUnsubscribe, RefuseUnsubscribe, FinishUnsubscribe, subVars,
                PostEffect
  <1> QED
    BY <1>1, <1>2, <1>3, <1>4, <1>5 DEF ThreadAct, HandlerStep

LEMMA Tells ==
    ASSUME SubTypeOK, NEW c \in Conns, ThreadAct(c)
    PROVE  TellEffect(c)
  <1>1. CASE ClientStep(c)
    BY <1>1 DEF ClientStep, AddRequest, DropRequest, AddUnsubscribe, DropUnsubscribe, Break, Receive,
                subVars, TellEffect
  <1>2. ASSUME NEW to, Deliver(to, bd[c]), pc[c] \in {"reply", "ack", "tell", "subsend", "subend"},
               pc[c] = "subsend" => to \in FdRead(subwaiter[c])
        PROVE  TellEffect(c)
    BY <1>2 DEF Deliver, TellEffect
  <1>3. CASE RequestStep(c)
    <2>1. CASE Reply(c)
      BY <1>2, <2>1 DEF Reply
    <2>2. CASE SendRequest(c) \/ RefuseRequest(c) \/ Wake(c) \/ BuildResponse(c) \/ NoResponse(c)
               \/ RemoveRequest(c)
      BY <2>2 DEF SendRequest, RefuseRequest, Wake, BuildResponse, NoResponse, RemoveRequest, TellEffect
    <2> QED
      BY <1>3, <2>1, <2>2 DEF RequestStep, ThreadStep
  <1>4. CASE Acknowledge(c) \/ TellRefusal(c) \/ SendIndication(c) \/ EndSubscription(c)
    BY <1>2, <1>4 DEF Acknowledge, TellRefusal, SendIndication, EndSubscription, SendThrough,
                      TellEffect
  <1>5. CASE /\ SubscribeStep(c)
             /\ ~(Acknowledge(c) \/ TellRefusal(c) \/ SendIndication(c) \/ EndSubscription(c))
    <2>1. UNCHANGED inbox
      BY <1>5 DEF SubscribeStep, RefuseSubscribe, ForgetRefusal, RegisterSubwaiter, AbandonSubscribe,
                  EnterLoop, Unlist, CloseSocket, WakeSubscriber, ReadSlot, FillIndication, FreeSlot,
                  UnlistEnded, Probe, AutoUnsubscribe, AutoRemove, subVars
    <2> QED
      BY <2>1 DEF TellEffect
  <1>6. CASE UnsubscribeStep(c)
    BY <1>6 DEF UnsubscribeStep, SendUnsubscribe, RefuseUnsubscribe, FinishUnsubscribe, TellEffect
  <1> QED
    BY <1>1, <1>3, <1>4, <1>5, <1>6 DEF ThreadAct, HandlerStep

LEMMA Breaks ==
    ASSUME SubTypeOK, NEW c \in Conns, ThreadAct(c)
    PROVE  broken \subseteq broken' /\ broken' \subseteq Conns
  <1>1. CASE ClientStep(c)
    BY <1>1 DEF ClientStep, AddRequest, DropRequest, AddUnsubscribe, DropUnsubscribe, Break, Receive,
                subVars, SubTypeOK, MailTypeOK
  <1>2. CASE RequestStep(c) \/ UnsubscribeStep(c)
    BY <1>2 DEF RequestStep, ThreadStep, SendRequest, RefuseRequest, Wake, BuildResponse, NoResponse,
                  Reply, RemoveRequest, UnsubscribeStep, SendUnsubscribe, RefuseUnsubscribe,
                  FinishUnsubscribe, SubTypeOK, MailTypeOK
  <1>3. CASE CloseSocket(c)
    BY <1>3 DEF CloseSocket, SubTypeOK, MailTypeOK
  <1>4. CASE SubscribeStep(c) /\ ~CloseSocket(c)
    <2>1. UNCHANGED broken
      BY <1>4 DEF SubscribeStep, RefuseSubscribe, ForgetRefusal, RegisterSubwaiter, AbandonSubscribe,
                  Acknowledge, EnterLoop, Unlist, TellRefusal, WakeSubscriber, ReadSlot,
                  FillIndication, SendIndication, FreeSlot, EndSubscription, UnlistEnded, Probe,
                  AutoUnsubscribe, AutoRemove
    <2> QED
      BY <2>1 DEF SubTypeOK, MailTypeOK
  <1> QED
    BY <1>1, <1>2, <1>3, <1>4 DEF ThreadAct, HandlerStep

LEMMA MailThread ==
    ASSUME SubTypeOK, NEW c \in Conns, ThreadAct(c)
    PROVE  MailTypeOK'
  <1>1. HandlerTypeOK(c) /\ issued[c] \in 0..MaxRequests
    BY DEF SubTypeOK, LocalsTypeOK
  <1>2. sib' \subseteq Token /\ unsubs' \subseteq UnsubToken
    <2>1. <<c, 0>> \in UnsubId
      BY RequestsAssumption DEF UnsubId
    <2>2. pc[c] = "send" => /\ CurrentId(c) \in Id /\ CurrentId(c) \in UnsubId
                            /\ op[c] \in AllKinds /\ key[c] \in Keys
                            /\ (op[c] = "unsubscribe" => subid[c] \in Ids)
      BY <1>1 DEF HandlerTypeOK, CurrentId, Id, UnsubId, Ids
    <2>3. sib \subseteq Token /\ unsubs \subseteq UnsubToken
      BY DEF SubTypeOK, MailTypeOK
    <2>4. pc[c] = "send" =>
            /\ [for |-> CurrentId(c), kind |-> op[c], key |-> key[c]] \in Token
            /\ (op[c] = "unsubscribe" =>
                  [for |-> CurrentId(c), key |-> key[c], id |-> subid[c]] \in UnsubToken)
      BY <2>2 DEF Token, UnsubToken
    <2>5. \A id \in Ids, k \in Keys : [for |-> <<c, 0>>, key |-> k, id |-> id] \in UnsubToken
      BY <2>1 DEF UnsubToken
    <2> QED
      BY <2>3, <2>4, <2>5, Posts DEF PostEffect
  <1>3. inbox' \in [Conns -> Seq(ClientMessage)]
    <2>1. inbox \in [Conns -> Seq(ClientMessage)]
      BY DEF SubTypeOK, MailTypeOK
    <2>2. CASE UNCHANGED inbox
      BY <2>1, <2>2
    <2>3. CASE ~UNCHANGED inbox
      <3>1. PICK to \in Conns : /\ pc[c] \in {"reply", "ack", "tell", "subsend", "subend"}
                                /\ inbox' = [inbox EXCEPT ![to] = Append(@, bd[c])]
        BY <2>3, Tells DEF TellEffect
      <3>2. bd[c] \in ClientMessage
        BY <1>1, <3>1 DEF HandlerTypeOK
      <3>3. Append(inbox[to], bd[c]) \in Seq(ClientMessage)
        BY <2>1, <3>2
      <3> QED
        BY <2>1, <3>1, <3>3
    <2> QED
      BY <2>2, <2>3
  <1> QED
    BY <1>2, <1>3, Posts, Breaks DEF PostEffect, SubTypeOK, MailTypeOK

\* A message a callback leaves in a slot.
LEMMA FillType ==
    ASSUME MemoryTypeOK, NEW w, NEW m \in Message \cup {None}, CompleteWith(w, m)
    PROVE  /\ rsp' \in [Waiter -> Message \cup {None}]
           /\ req_ready' \in [Waiter -> BOOLEAN]
  BY DEF MemoryTypeOK, CompleteWith

LEMMA CallbackTypes ==
    ASSUME SubTypeOK, Callback
    PROVE  /\ rsp' \in [Waiter -> Message \cup {None}]
           /\ req_ready' \in [Waiter -> BOOLEAN]
           /\ MailTypeOK'
  <1>1. MemoryTypeOK /\ MailTypeOK
    BY DEF SubTypeOK
  <1>2. CASE FillWaiter
    <2>1. cb.msg \in Message
      BY <1>1, <1>2 DEF FillWaiter, CompleteWaiter, MailTypeOK
    <2>2. CompleteWith(cb.waiter, cb.msg)
      BY <1>2 DEF FillWaiter, CompleteWaiter
    <2>3. MailTypeOK'
      BY <1>1, <1>2 DEF FillWaiter, CompleteWaiter, MailTypeOK
    <2> QED
      BY <1>1, <2>1, <2>2, <2>3, FillType
  <1>3. ASSUME unsubcb # None
        PROVE  /\ unsubcb \in [step: {"lookup", "fill", "complete"}, waiter: Waiter,
                               sub: Waiter \cup {None}, t: UnsubToken, status: {"ok", "failed"}]
               /\ \A s \in {"ok", "failed"} : Unsubscribed(unsubcb.t, s) \in Message
    <2>1. unsubcb \in [step: {"lookup", "fill", "complete"}, waiter: Waiter,
                       sub: Waiter \cup {None}, t: UnsubToken, status: {"ok", "failed"}]
      BY <1>1, <1>3 DEF MailTypeOK
    <2>2. unsubcb.t.id \in Ids /\ unsubcb.t.for \in UnsubId /\ unsubcb.t.key \in Keys
      BY <2>1 DEF UnsubToken
    <2> QED
      BY <2>1, <2>2 DEF Unsubscribed, Message, Unsubscriptions
  <1>4. CASE LookUpSubwaiter
    <2>1. rsp' = rsp \/ rsp' = [rsp EXCEPT ![unsubcb.waiter] = Unsubscribed(unsubcb.t, "failed")]
      BY <1>4 DEF LookUpSubwaiter
    <2>2. rsp' \in [Waiter -> Message \cup {None}]
      BY <1>1, <1>3, <1>4, <2>1 DEF LookUpSubwaiter, MemoryTypeOK
    <2>3. subscriptions[unsubcb.t.id] # None => subscriptions[unsubcb.t.id] \in Waiter
      BY <1>1, <1>3, <1>4 DEF LookUpSubwaiter, MemoryTypeOK, UnsubToken
    <2>4. unsubcb' \in [step: {"lookup", "fill", "complete"}, waiter: Waiter,
                        sub: Waiter \cup {None}, t: UnsubToken, status: {"ok", "failed"}]
      BY <1>3, <1>4, <2>3 DEF LookUpSubwaiter
    <2>5. MailTypeOK' /\ req_ready' = req_ready
      BY <1>1, <1>4, <2>4 DEF LookUpSubwaiter, MailTypeOK
    <2> QED
      BY <1>1, <2>2, <2>5 DEF MemoryTypeOK
  <1>5. CASE CompleteSubwaiter
    <2>1. CompleteWith(unsubcb.sub, Unsubscribed(unsubcb.t, unsubcb.status)) /\ unsubcb # None
      BY <1>5 DEF CompleteSubwaiter
    <2>2. Unsubscribed(unsubcb.t, unsubcb.status) \in Message
      BY <1>3, <2>1
    <2>3. unsubcb' \in [step: {"lookup", "fill", "complete"}, waiter: Waiter,
                        sub: Waiter \cup {None}, t: UnsubToken, status: {"ok", "failed"}]
      BY <1>3, <1>5 DEF CompleteSubwaiter
    <2>4. MailTypeOK'
      BY <1>1, <1>5, <2>3 DEF CompleteSubwaiter, MailTypeOK
    <2> QED
      BY <1>1, <2>1, <2>2, <2>4, FillType
  <1>6. CASE CompleteUnsubscribe
    <2>1. CompleteWith(unsubcb.waiter, rsp[unsubcb.waiter]) /\ unsubcb # None
      BY <1>6 DEF CompleteUnsubscribe
    <2>2. rsp[unsubcb.waiter] \in Message \cup {None}
      BY <1>1, <1>3, <2>1 DEF MemoryTypeOK
    <2>3. MailTypeOK'
      BY <1>1, <1>6 DEF CompleteUnsubscribe, MailTypeOK
    <2> QED
      BY <1>1, <2>1, <2>2, <2>3, FillType
  <1> QED
    BY <1>2, <1>4, <1>5, <1>6 DEF Callback

LEMMA AnswerTypes ==
    ASSUME SubTypeOK, SibAnswers \/ SibNotifies
    PROVE  UNCHANGED waiterVars /\ MailTypeOK'
  <1>1. MemoryTypeOK /\ MailTypeOK
    BY DEF SubTypeOK
  <1>2. ASSUME NEW t \in sib
        PROVE  /\ t \in Token /\ t.for \in Id /\ t.key \in Keys
               /\ requests[t.key] \in Waiter \cup {None}
    BY <1>1 DEF MailTypeOK, MemoryTypeOK, Token
  <1>3. ASSUME NEW t \in sib, NEW status \in {"ok", "failed"}, ConfirmationArrives(t, status),
               UNCHANGED subVars
        PROVE  UNCHANGED waiterVars /\ MailTypeOK'
    <2>1. [for |-> t.for, via |-> t.kind, status |-> status] \in Message
      BY <1>2, <1>3 DEF ConfirmationArrives, Message, Confirmation, Statuses
    <2>2. cb' \in [waiter: Waiter, msg: Message] \cup {None}
      BY <1>2, <1>3, <2>1 DEF ConfirmationArrives
    <2> QED
      BY <1>1, <1>3, <2>2 DEF ConfirmationArrives, MailTypeOK, subVars
  <1>4. ASSUME NEW t \in sib, NEW id \in Ids, SubscribeConfirmed(t, id)
        PROVE  UNCHANGED waiterVars /\ MailTypeOK'
    <2>1. PICK m : m = [via |-> "subscribe", for |-> t.for, id |-> id,
                        status |-> IF id = NoSub THEN "failed" ELSE "ok"]
      OBVIOUS
    <2>2. m \in Message
      BY <1>2, <2>1 DEF Message, Granted, Refused, Ids
    <2>3. cb' \in [waiter: Waiter, msg: Message] \cup {None}
      BY <1>2, <1>4, <2>1, <2>2 DEF SubscribeConfirmed
    <2>4. served' \in [SubIds -> {"unused", "active", "ended"}]
      BY <1>1, <1>4 DEF SubscribeConfirmed, MailTypeOK
    <2> QED
      BY <1>1, <1>4, <2>3, <2>4 DEF SubscribeConfirmed, MailTypeOK
  <1>5. ASSUME NEW t \in unsubs, UnsubscribeConfirmed(t)
        PROVE  UNCHANGED waiterVars /\ MailTypeOK'
    <2>1. t \in UnsubToken /\ requests[t.key] \in Waiter \cup {None}
      BY <1>1 DEF MailTypeOK, MemoryTypeOK, UnsubToken
    <2>2. PICK s \in {"ok", "failed"} :
            s = IF t.id \in SubIds /\ served[t.id] = "active" THEN "ok" ELSE "failed"
      OBVIOUS
    <2>3. unsubcb' = IF requests[t.key] = None THEN None
                     ELSE [step |-> "lookup", waiter |-> requests[t.key], sub |-> None, t |-> t,
                           status |-> s]
      BY <1>5, <2>2 DEF UnsubscribeConfirmed
    <2>4. unsubcb' \in [step: {"lookup", "fill", "complete"}, waiter: Waiter,
                        sub: Waiter \cup {None}, t: UnsubToken, status: {"ok", "failed"}]
                       \cup {None}
      BY <2>1, <2>2, <2>3
    <2>5. served' \in [SubIds -> {"unused", "active", "ended"}]
      BY <1>1, <1>5 DEF UnsubscribeConfirmed, MailTypeOK
    <2> QED
      BY <1>1, <1>5, <2>4, <2>5 DEF UnsubscribeConfirmed, MailTypeOK
  <1>6. ASSUME NEW id \in SubIds, IndicationArrives(id)
        PROVE  UNCHANGED waiterVars /\ MailTypeOK'
    <2>1. sent[id] \in 0..MaxInd /\ sent[id] < MaxInd /\ MaxInd \in Nat
      BY <1>1, <1>6, SubscriptionsAssumption DEF IndicationArrives, MailTypeOK
    <2>2. sent' \in [SubIds -> 0..MaxInd]
      BY <1>1, <1>6, <2>1 DEF IndicationArrives, MailTypeOK
    <2>3. Indication(id, sent[id] + 1) \in Message
      BY <2>1 DEF Indication, Message, Indications
    <2>4. subscriptions[id] \in Waiter \cup {None}
      BY <1>1 DEF MemoryTypeOK, Ids
    <2>5. cb' \in [waiter: Waiter, msg: Message] \cup {None}
      BY <1>6, <2>3, <2>4 DEF IndicationArrives
    <2> QED
      BY <1>1, <1>6, <2>2, <2>5 DEF IndicationArrives, MailTypeOK
  <1> QED
    BY <1>3, <1>4, <1>5, <1>6 DEF SibAnswers, SibNotifies

LEMMA MailTypes ==
    ASSUME SubTypeOK, MailStep
    PROVE  SubTypeOK'
  <1>1. UNCHANGED <<live, fd, requests, subscriptions, threadVars, subwaiter, subid, inbox, broken>>
    BY MailLeaves
  <1>2. LocalsTypeOK' /\ \A c \in Conns : HandlerTypeOK(c)'
    BY <1>1 DEF SubTypeOK, LocalsTypeOK, HandlerTypeOK, threadVars
  <1>3. /\ rsp' \in [Waiter -> Message \cup {None}]
        /\ req_ready' \in [Waiter -> BOOLEAN]
        /\ MailTypeOK'
    <2>1. CASE WakeRound
      BY <2>1 DEF WakeRound, subVars, SubTypeOK, MemoryTypeOK, MailTypeOK
    <2>2. CASE SibAnswers \/ SibNotifies
      BY <2>2, AnswerTypes DEF waiterVars, SubTypeOK, MemoryTypeOK
    <2> QED
      BY <2>1, <2>2, CallbackTypes DEF MailStep
  <1> QED
    BY <1>1, <1>2, <1>3 DEF SubTypeOK, MemoryTypeOK

LEMMA SubTypeInit == SubInit => SubTypeOK
  <1> SUFFICES ASSUME SubInit PROVE SubTypeOK
    OBVIOUS
  <1>1. RequestsInit /\ WaitersInit
    BY DEF SubInit, RequestsInit
  <1>2. MemoryTypeOK
    BY <1>1 DEF SubInit, RequestsInit, WaitersInit, MemoryTypeOK
  <1>3. LocalsTypeOK
    BY <1>1, RequestsAssumption DEF SubInit, RequestsInit, LocalsTypeOK
  <1>4. \A c \in Conns : HandlerTypeOK(c)
    BY <1>1 DEF RequestsInit, HandlerTypeOK, Serving, Loop
  <1>5. inbox \in [Conns -> Seq(ClientMessage)]
    <2>1. inbox = [c \in Conns |-> <<>>] /\ <<>> \in Seq(ClientMessage)
      BY <1>1 DEF RequestsInit
    <2> QED
      BY <2>1
  <1>6. strayed \in BOOLEAN
    BY DEF SubInit
  <1>7. MailTypeOK
    BY <1>1, <1>5, <1>6, SubscriptionsAssumption DEF SubInit, RequestsInit, MailTypeOK
  <1> QED
    BY <1>2, <1>3, <1>4, <1>7 DEF SubTypeOK

LEMMA SubTypeNext == SubTypeOK /\ [SubNext]_vars => SubTypeOK'
  <1> SUFFICES ASSUME SubTypeOK, [SubNext]_vars PROVE SubTypeOK'
    OBVIOUS
  <1>1. CASE UNCHANGED vars
    <2>1. UNCHANGED <<waiterVars, requests, threadVars, sib, cb, inbox, broken, subVars>>
      BY <1>1 DEF vars, requestVars
    <2>2. MemoryTypeOK' /\ LocalsTypeOK' /\ MailTypeOK'
      BY <2>1 DEF SubTypeOK, MemoryTypeOK, LocalsTypeOK, MailTypeOK, waiterVars, threadVars, subVars
    <2>3. \A c \in Conns : HandlerTypeOK(c)'
      BY <2>1 DEF SubTypeOK, HandlerTypeOK, threadVars, subVars
    <2> QED
      BY <2>2, <2>3 DEF SubTypeOK
  <1>2. ASSUME NEW c \in Conns, ThreadAct(c) PROVE SubTypeOK'
    <2>1. MemoryTypeOK' /\ LocalEffect(c) /\ MailTypeOK'
      BY <1>2, Effect, MemoryThread, Locals, MailThread
    <2>2. ASSUME NEW d \in Conns \ {c} PROVE HandlerTypeOK(d)'
      BY <2>1, <2>2 DEF LocalEffect, SameLocals, SubTypeOK, HandlerTypeOK
    <2> QED
      BY <2>1, <2>2 DEF SubTypeOK, LocalEffect
  <1> QED
    BY <1>1, <1>2, MailTypes, StepKinds

\* Every variable keeps its type, whatever freed memory the threads and the
\* callbacks read and write: a slot holds a message of the gateway or nothing, an
\* id is one the SIB hands out, and a handler has what it needs when it needs it.
THEOREM SubTypeCorrect == SubSpec => []SubTypeOK
  BY SubTypeInit, SubTypeNext, PTL DEF SubSpec

-----------------------------------------------------------------------------
(* The tables hold live waiters, each once.                                *)

LEMMA TablesThread ==
    ASSUME SubTypeOK, TablesHoldLiveWaiters, NEW c \in Conns, MemoryEffect(c)
    PROVE  TablesHoldLiveWaiters'
  <1>0. /\ requests \in [Keys -> Waiter \cup {None}]
        /\ subscriptions \in [Ids -> Waiter \cup {None}]
        /\ live \subseteq Waiter
    BY DEF SubTypeOK, MemoryTypeOK
  <1> USE DEF TablesHoldLiveWaiters, TableHoldsLiveWaiters
  <1>1. CASE UNCHANGED <<live, requests, subscriptions>>
    BY <1>1
  <1>2. CASE DropsRequest(c)
    <2>1. /\ requests' = [requests EXCEPT ![key[c]] = None]
          /\ live' = live \ {requests[key[c]]}
          /\ subscriptions' = subscriptions /\ key[c] \in Keys
      BY <1>2 DEF DropsRequest, listener_remove_request, waiter_destroy
    <2>2. \A k \in Keys : requests'[k] # None => k # key[c] /\ requests'[k] = requests[k]
      BY <1>0, <2>1
    <2> QED
      BY <1>0, <2>1, <2>2
  <1>3. CASE DropsSubscription(c)
    <2>1. PICK id \in Ids : listener_remove_subscription(id) /\ UNCHANGED requests
      BY <1>3 DEF DropsSubscription
    <2>2. /\ subscriptions' = [subscriptions EXCEPT ![id] = None]
          /\ live' = live \ {subscriptions[id]}
      BY <2>1 DEF listener_remove_subscription, waiter_destroy
    <2>3. \A i \in Ids : subscriptions'[i] # None => i # id /\ subscriptions'[i] = subscriptions[i]
      BY <1>0, <2>2
    <2> QED
      BY <1>0, <2>1, <2>2, <2>3
  <1>4. CASE PutsRequest(c)
    <2>1. PICK k \in KeysOf[c], w \in Waiter \ live :
            waiter_new(w, c) /\ requests' = [requests EXCEPT ![k] = w] /\ UNCHANGED subscriptions
      BY <1>4 DEF PutsRequest
    <2>2. live' = live \cup {w} /\ k \in Keys
      BY <2>1, RequestsAssumption DEF waiter_new
    <2>3. /\ \A j \in Keys : requests[j] # w
          /\ \A i \in Ids : subscriptions[i] # w
      BY <2>1, WaitersAssumption
    <2>4. requests'[k] = w /\ \A j \in Keys \ {k} : requests'[j] = requests[j]
      BY <1>0, <2>1, <2>2
    <2> QED
      BY <1>0, <2>1, <2>2, <2>3, <2>4
  <1>5. CASE PutsSubscription(c)
    <2>1. PICK r : r = RspRead(waiter[c])
      OBVIOUS
    <2>2. PICK w \in Waiter \ live :
            /\ waiter_new(w, c) /\ subscriptions' = [subscriptions EXCEPT ![r.id] = w]
            /\ UNCHANGED requests
      BY <1>5, <2>1 DEF PutsSubscription
    <2>3. live' = live \cup {w} /\ r.id \in Ids
      BY <1>5, <2>1, <2>2, SlotMessage, NamedId DEF PutsSubscription, waiter_new
    <2>4. /\ \A j \in Keys : requests[j] # w
          /\ \A i \in Ids : subscriptions[i] # w
      BY <2>2, WaitersAssumption
    <2>5. subscriptions'[r.id] = w /\ \A i \in Ids \ {r.id} : subscriptions'[i] = subscriptions[i]
      BY <1>0, <2>2, <2>3
    <2> QED
      BY <1>0, <2>2, <2>3, <2>4, <2>5
  <1>6. CASE Quiet(c) \/ TakesSignal(c) \/ EmptiesSlot(c)
    BY <1>1, <1>6 DEF Quiet, TakesSignal, EmptiesSlot, waiterVars, waiter_wait_for_finished
  <1> QED
    BY <1>2, <1>3, <1>4, <1>5, <1>6 DEF MemoryEffect

LEMMA TablesInit == SubInit => TablesHoldLiveWaiters
  BY DEF SubInit, RequestsInit, TablesHoldLiveWaiters, TableHoldsLiveWaiters

LEMMA TablesNext ==
    SubTypeOK /\ TablesHoldLiveWaiters /\ [SubNext]_vars => TablesHoldLiveWaiters'
  <1> SUFFICES ASSUME SubTypeOK, TablesHoldLiveWaiters, [SubNext]_vars
               PROVE  TablesHoldLiveWaiters'
    OBVIOUS
  <1>1. CASE UNCHANGED <<live, requests, subscriptions>>
    BY <1>1 DEF TablesHoldLiveWaiters, TableHoldsLiveWaiters
  <1>2. ASSUME NEW c \in Conns, ThreadAct(c) PROVE TablesHoldLiveWaiters'
    BY <1>2, Effect, TablesThread
  <1>3. CASE UNCHANGED vars
    BY <1>1, <1>3 DEF vars, requestVars, waiterVars, subVars
  <1>4. CASE MailStep
    BY <1>1, <1>4, MailLeaves
  <1> QED
    BY <1>2, <1>3, <1>4, StepKinds

\* Whatever the clients and the SIB do, and although threads and callbacks keep
\* pointers to waiters that are gone, what the callbacks and the wake thread find
\* in the two tables is allocated, and no waiter has two entries.
THEOREM TablesSound == SubSpec => []TablesHoldLiveWaiters
  BY SubTypeInit, SubTypeNext, TablesInit, TablesNext, PTL DEF SubSpec

-----------------------------------------------------------------------------
(* How a thread moves.                                                     *)

\* The thread of a connection whose subscription the SIB has granted, from the
\* second waiter on.
Owning == Loop \cup {"ack", "registered"}

\* The handler goes on with the request, the waiters and the id it has.
Proceeds(c) ==
    /\ op'[c] = op[c] /\ key'[c] = key[c] /\ waiter'[c] = waiter[c] /\ issued'[c] = issued[c]
    /\ subwaiter'[c] = subwaiter[c] /\ subid'[c] = subid[c]
    /\ pc[c] # "receive" /\ pc'[c] \notin {"receive", "send", "unlist", "ack"}
    /\ pc'[c] = "wait" => pc[c] = "send"
    /\ pc'[c] = "build" => pc[c] = "wait"
    /\ pc'[c] \in Owning => pc[c] \in Owning

Flow(c) ==
    \/ SameLocals(c)
    \/ pc[c] = "receive" /\ pc'[c] = "receive"
    \/ pc[c] = "receive" /\ pc'[c] = "remove" /\ key'[c] \in KeysOf[c]
    \/ PutsRequest(c)
    \/ Proceeds(c)
    \/ RegisterSubwaiter(c)
    \/ pc[c] # "receive" /\ pc'[c] = "receive"

LEMMA GotoFlow ==
    ASSUME SubTypeOK, NEW c \in Conns, NEW label, Goto(c, label),
           UNCHANGED <<waiter, issued, subwaiter, subid>>,
           pc[c] # "receive", label \notin {"receive", "send", "unlist", "ack"},
           label = "wait" => pc[c] = "send",
           label = "build" => pc[c] = "wait",
           label \in Owning => pc[c] \in Owning
    PROVE  Flow(c)
  BY DEF Goto, SubTypeOK, LocalsTypeOK, Flow, Proceeds

LEMMA Flows ==
    ASSUME SubTypeOK, NEW c \in Conns, ThreadAct(c)
    PROVE  Flow(c)
  <1>1. CASE ClientStep(c)
    <2>1. ASSUME NEW kind, NEW k \in KeysOf[c], AddRequest(c, kind, k), UNCHANGED subscriptions
          PROVE  PutsRequest(c)
      <3>1. PICK w \in Waiter \ live :
              /\ waiter_new(w, c) /\ waiter' = [waiter EXCEPT ![c] = w]
              /\ requests' = [requests EXCEPT ![k] = w]
        BY <2>1 DEF AddRequest
      <3>2. waiter'[c] = w /\ pc'[c] = "send" /\ key'[c] = k
        BY <2>1, <3>1 DEF AddRequest, SubTypeOK, LocalsTypeOK
      <3> QED
        BY <2>1, <3>1, <3>2 DEF AddRequest, Receive, PutsRequest
    <2>2. ASSUME NEW kind, NEW k, DropRequest(c, kind, k)
          PROVE  pc[c] = "receive" /\ pc'[c] = "receive"
      BY <2>2 DEF DropRequest, Receive
    <2>3. ASSUME NEW k \in KeysOf[c], DropUnsubscribe(c, k)
          PROVE  pc[c] = "receive" /\ pc'[c] = "remove" /\ key'[c] \in KeysOf[c]
      BY <2>3 DEF DropUnsubscribe, Receive, SubTypeOK, LocalsTypeOK
    <2>4. ASSUME Break(c), UNCHANGED subVars
          PROVE  SameLocals(c)
      BY <2>4 DEF Break, threadVars, subVars, SameLocals
    <2> QED
      BY <1>1, <2>1, <2>2, <2>3, <2>4 DEF ClientStep, AddUnsubscribe, subVars, Flow
  <1>2. CASE pc[c] # "receive" /\ (Return(c) \/ SubReturn(c))
    BY <1>2, Arrives DEF Flow
  <1>3. CASE RequestStep(c)
    <2>1. ASSUME NEW label, label # "receive", Goto(c, label)
          PROVE  UNCHANGED <<subwaiter, subid>>
      BY <1>3, <2>1, RequestKeeps
    <2> QED
      BY <1>2, <1>3, <2>1, GotoFlow
         DEF RequestStep, ThreadStep, SendRequest, RefuseRequest, Wake, BuildResponse, NoResponse,
             Reply, RemoveRequest, Owning, Loop
  <1>4. CASE UnsubscribeStep(c)
    BY <1>4, GotoFlow DEF UnsubscribeStep, SendUnsubscribe, RefuseUnsubscribe, FinishUnsubscribe,
                          subVars, Owning, Loop
  <1>5. CASE RegisterSubwaiter(c)
    BY <1>5 DEF Flow
  <1>6. CASE \/ RefuseSubscribe(c) \/ ForgetRefusal(c) \/ AbandonSubscribe(c) \/ Acknowledge(c)
             \/ Unlist(c) \/ TellRefusal(c) \/ CloseSocket(c)
    BY <1>2, <1>6, GotoFlow, SendGoes
       DEF RefuseSubscribe, ForgetRefusal, AbandonSubscribe, Acknowledge, Unlist, TellRefusal,
           CloseSocket, subVars, Owning, Loop
  <1>7. CASE EnterLoop(c)
    <2>1. Goto(c, "subwait") /\ pc[c] = "registered" /\ UNCHANGED <<waiter, issued, subwaiter, subid>>
      BY <1>7 DEF EnterLoop, Goto, subVars
    <2> QED
      BY <2>1, GotoFlow DEF Owning, Loop
  <1>8. CASE \/ WakeSubscriber(c) \/ ReadSlot(c) \/ FillIndication(c) \/ SendIndication(c)
             \/ FreeSlot(c) \/ EndSubscription(c)
    BY <1>8, GotoFlow, SendGoes
       DEF WakeSubscriber, ReadSlot, FillIndication, SendIndication, FreeSlot, EndSubscription,
           subVars, Owning, Loop
  <1>9. CASE UnlistEnded(c) \/ Probe(c) \/ AutoUnsubscribe(c) \/ AutoRemove(c)
    BY <1>2, <1>9, GotoFlow
       DEF UnlistEnded, Probe, AutoUnsubscribe, AutoRemove, subVars, Owning, Loop
  <1> QED
    BY <1>1, <1>3, <1>4, <1>5, <1>6, <1>7, <1>8, <1>9 DEF ThreadAct, HandlerStep, SubscribeStep

-----------------------------------------------------------------------------
(* Requests stay registered.                                               *)

\* No two connections use one key.
KeysApart == \A c, d \in Conns : c # d => KeysOf[c] \cap KeysOf[d] = {}

\* A handler's key is one of its connection, and so is every key in the table.
OwnKeys ==
    /\ \A c \in Conns : pc[c] # "receive" => key[c] \in KeysOf[c]
    /\ \A k \in Keys : requests[k] # None => \E c \in Conns : k \in KeysOf[c]

\* A request has its own waiter under its key; a subscribe has it until it is
\* acknowledged, through that waiter's descriptor.
RequestsHold ==
    \A c \in Conns : pc[c] \in {"send", "wait", "build", "ack"} =>
        requests[key[c]] = waiter[c] /\ fd[waiter[c]] = c /\ waiter[c] \in Waiter

RegisteredInv == SubTypeOK /\ TablesHoldLiveWaiters /\ OwnKeys /\ RequestsHold

\* The waiter w is left as it is.
SameMail(w) ==
    /\ w \in live' /\ fd'[w] = fd[w] /\ req_ready'[w] = req_ready[w] /\ rsp'[w] = rsp[w]

\* A thread's step leaves a waiter alone that it neither destroys nor waits on
\* nor empties.
LEMMA Untouched ==
    ASSUME SubTypeOK, NEW c \in Conns, MemoryEffect(c), NEW w \in live,
           DropsRequest(c) => requests[key[c]] # w,
           \A id \in Ids : RemovedId(c, id) => subscriptions[id] # w,
           pc[c] = "wait" => waiter[c] # w,
           pc[c] \in {"subwait", "subfree"} => subwaiter[c] # w
    PROVE  SameMail(w)
  <1> USE DEF SubTypeOK, MemoryTypeOK, SameMail
  <1>1. CASE Quiet(c)
    BY <1>1 DEF Quiet, waiterVars
  <1>2. CASE DropsRequest(c)
    BY <1>2 DEF DropsRequest, listener_remove_request, waiter_destroy
  <1>3. CASE DropsSubscription(c)
    BY <1>3 DEF DropsSubscription, listener_remove_subscription, waiter_destroy
  <1>4. CASE PutsRequest(c)
    BY <1>4 DEF PutsRequest, waiter_new
  <1>5. CASE PutsSubscription(c)
    BY <1>5 DEF PutsSubscription, waiter_new
  <1>6. CASE TakesSignal(c)
    BY <1>6 DEF TakesSignal, waiter_wait_for_finished
  <1>7. CASE EmptiesSlot(c)
    BY <1>7 DEF EmptiesSlot
  <1> QED
    BY <1>1, <1>2, <1>3, <1>4, <1>5, <1>6, <1>7 DEF MemoryEffect

\* The entry of a request is taken out by nobody but the thread that put it in.
LEMMA EntryStays ==
    ASSUME SubTypeOK, OwnKeys, KeysApart, NEW c \in Conns, NEW d \in Conns \ {c},
           MemoryEffect(c), pc[d] # "receive", requests[key[d]] # None
    PROVE  requests'[key[d]] = requests[key[d]]
  <1>1. key[d] \in KeysOf[d] /\ key[d] \in Keys
    BY DEF OwnKeys, SubTypeOK, HandlerTypeOK
  <1>2. pc[c] # "receive" => key[c] # key[d]
    BY <1>1 DEF OwnKeys, KeysApart
  <1>3. CASE DropsRequest(c)
    BY <1>1, <1>2, <1>3 DEF DropsRequest, listener_remove_request, SubTypeOK, MemoryTypeOK
  <1>4. CASE PutsRequest(c)
    BY <1>1, <1>4 DEF PutsRequest, SubTypeOK, MemoryTypeOK
  <1>5. CASE ~DropsRequest(c) /\ ~PutsRequest(c)
    BY <1>5 DEF MemoryEffect, Quiet, DropsSubscription, PutsSubscription, TakesSignal, EmptiesSlot
  <1> QED
    BY <1>3, <1>4, <1>5

\* Nor is its waiter destroyed by another thread, or given to another connection.
LEMMA FdStays ==
    ASSUME SubTypeOK, TablesHoldLiveWaiters, OwnKeys, KeysApart, NEW c \in Conns,
           NEW d \in Conns \ {c}, MemoryEffect(c), pc[d] # "receive", requests[key[d]] # None
    PROVE  fd'[requests[key[d]]] = fd[requests[key[d]]]
  <1>1. PICK w : w = requests[key[d]]
    OBVIOUS
  <1>2. key[d] \in Keys /\ key[d] \in KeysOf[d]
    BY DEF SubTypeOK, HandlerTypeOK, OwnKeys
  <1>3. w \in live /\ w \in Waiter
    BY <1>1, <1>2 DEF TablesHoldLiveWaiters, TableHoldsLiveWaiters, SubTypeOK, MemoryTypeOK
  <1>4. DropsRequest(c) => requests[key[c]] # w
    <2>1. DropsRequest(c) => key[c] # key[d] /\ key[c] \in Keys
      BY <1>2 DEF DropsRequest, OwnKeys, KeysApart
    <2> QED
      BY <1>1, <1>2, <2>1 DEF TablesHoldLiveWaiters, TableHoldsLiveWaiters
  <1>5. \A id \in Ids : subscriptions[id] # w
    BY <1>1, <1>2 DEF TablesHoldLiveWaiters
  <1>6. CASE TakesSignal(c) \/ EmptiesSlot(c)
    BY <1>1, <1>6 DEF TakesSignal, EmptiesSlot, waiter_wait_for_finished
  <1>7. CASE ~TakesSignal(c) /\ ~EmptiesSlot(c)
    <2> USE DEF SubTypeOK, MemoryTypeOK
    <2>1. CASE Quiet(c)
      BY <1>1, <2>1 DEF Quiet, waiterVars
    <2>2. CASE DropsRequest(c)
      BY <1>1, <1>3, <1>4, <2>2 DEF DropsRequest, listener_remove_request, waiter_destroy
    <2>3. CASE DropsSubscription(c)
      BY <1>1, <1>3, <1>5, <2>3 DEF DropsSubscription, listener_remove_subscription, waiter_destroy
    <2>4. CASE PutsRequest(c) \/ PutsSubscription(c)
      BY <1>1, <1>3, <2>4 DEF PutsRequest, PutsSubscription, waiter_new
    <2> QED
      BY <1>7, <2>1, <2>2, <2>3, <2>4 DEF MemoryEffect
  <1> QED
    BY <1>6, <1>7

LEMMA OwnKeysThread ==
    ASSUME SubTypeOK, OwnKeys, NEW c \in Conns, ThreadAct(c)
    PROVE  OwnKeys'
  <1>1. MemoryEffect(c) /\ LocalEffect(c) /\ Flow(c)
    BY Effect, Locals, Flows
  <1>2. ASSUME NEW d \in Conns, pc'[d] # "receive"
        PROVE  key'[d] \in KeysOf[d]
    <2>1. CASE d # c
      BY <1>1, <1>2, <2>1 DEF LocalEffect, SameLocals, OwnKeys
    <2>2. CASE d = c
      <3>1. CASE RegisterSubwaiter(c)
        BY <1>2, <2>2, <3>1 DEF RegisterSubwaiter, Goto, OwnKeys
      <3> QED
        BY <1>1, <1>2, <2>2, <3>1 DEF Flow, SameLocals, PutsRequest, Proceeds, OwnKeys
    <2> QED
      BY <2>1, <2>2
  <1>3. ASSUME NEW k \in Keys, requests'[k] # None
        PROVE  \E d \in Conns : k \in KeysOf[d]
    <2>1. requests[k] # None \/ k \in KeysOf[c]
      BY <1>1, <1>3 DEF MemoryEffect, Quiet, DropsRequest, DropsSubscription, PutsRequest,
            PutsSubscription, TakesSignal, EmptiesSlot, listener_remove_request, SubTypeOK, MemoryTypeOK
    <2> QED
      BY <2>1 DEF OwnKeys
  <1> QED
    BY <1>2, <1>3 DEF OwnKeys

LEMMA RegisteredThread ==
    ASSUME RegisteredInv, KeysApart, NEW c \in Conns, ThreadAct(c)
    PROVE  RequestsHold'
  <1>1. MemoryEffect(c) /\ LocalEffect(c) /\ Flow(c)
    BY Effect, Locals, Flows DEF RegisteredInv
  <1>2. ASSUME NEW d \in Conns \ {c}, pc'[d] \in {"send", "wait", "build", "ack"}
        PROVE  requests'[key'[d]] = waiter'[d] /\ fd'[waiter'[d]] = d /\ waiter'[d] \in Waiter
    <2>1. pc[d] \in {"send", "wait", "build", "ack"} /\ key'[d] = key[d] /\ waiter'[d] = waiter[d]
      BY <1>1, <1>2 DEF LocalEffect, SameLocals
    <2>2. requests[key[d]] = waiter[d] /\ fd[waiter[d]] = d /\ waiter[d] \in Waiter
      BY <2>1 DEF RegisteredInv, RequestsHold
    <2>3. waiter[d] # None
      BY <2>2, WaitersAssumption
    <2> QED
      BY <1>1, <2>1, <2>2, <2>3, EntryStays, FdStays DEF RegisteredInv
  <1>3. ASSUME pc'[c] \in {"send", "wait", "build", "ack"}
        PROVE  requests'[key'[c]] = waiter'[c] /\ fd'[waiter'[c]] = c /\ waiter'[c] \in Waiter
    <2>1. CASE PutsRequest(c)
      BY <2>1, RequestsAssumption DEF PutsRequest, waiter_new, RegisteredInv, SubTypeOK, MemoryTypeOK
    <2>2. CASE ~PutsRequest(c)
      <3>1. /\ pc[c] \in {"send", "wait", "build", "ack"}
            /\ key'[c] = key[c] /\ waiter'[c] = waiter[c]
            /\ pc[c] = "build" => pc'[c] \in {"build", "ack"}
        <4>1. CASE RegisterSubwaiter(c)
          BY <1>3, <4>1, Arrives DEF RegisterSubwaiter, Goto, RegisteredInv
        <4> QED
          BY <1>1, <1>3, <2>2, <4>1 DEF Flow, SameLocals, Proceeds
      <3>2. requests[key[c]] = waiter[c] /\ fd[waiter[c]] = c /\ waiter[c] \in Waiter
        BY <3>1 DEF RegisteredInv, RequestsHold
      <3>3. CASE PutsSubscription(c)
        BY <3>1, <3>2, <3>3 DEF PutsSubscription, waiter_new, RegisteredInv, SubTypeOK, MemoryTypeOK
      <3>4. CASE ~PutsSubscription(c)
        <4>1. requests' = requests /\ fd' = fd
          BY <1>1, <1>3, <2>2, <3>1, <3>4
             DEF MemoryEffect, Quiet, DropsRequest, DropsSubscription, RemovedId, TakesSignal,
                 EmptiesSlot, waiterVars, waiter_wait_for_finished
        <4> QED
          BY <3>1, <3>2, <4>1
      <3> QED
        BY <3>3, <3>4
    <2> QED
      BY <2>1, <2>2
  <1> QED
    BY <1>2, <1>3 DEF RequestsHold

LEMMA RegisteredNext ==
    ASSUME KeysApart PROVE RegisteredInv /\ [SubNext]_vars => RegisteredInv'
  <1> SUFFICES ASSUME RegisteredInv, [SubNext]_vars PROVE RegisteredInv'
    OBVIOUS
  <1>1. SubTypeOK' /\ TablesHoldLiveWaiters'
    BY SubTypeNext, TablesNext DEF RegisteredInv
  <1>2. CASE UNCHANGED <<fd, requests, threadVars>>
    BY <1>1, <1>2 DEF RegisteredInv, OwnKeys, RequestsHold, threadVars
  <1>3. CASE UNCHANGED vars
    BY <1>2, <1>3 DEF vars, requestVars, waiterVars
  <1>4. CASE MailStep
    BY <1>2, <1>4, MailLeaves
  <1>5. ASSUME NEW c \in Conns, ThreadAct(c) PROVE RegisteredInv'
    BY <1>1, <1>5, OwnKeysThread, RegisteredThread DEF RegisteredInv
  <1> QED
    BY <1>3, <1>4, <1>5, StepKinds

LEMMA RegisteredInit == SubInit => RegisteredInv
  <1> SUFFICES ASSUME SubInit PROVE RegisteredInv
    OBVIOUS
  <1>1. SubTypeOK /\ TablesHoldLiveWaiters
    BY SubTypeInit, TablesInit
  <1>2. OwnKeys /\ RequestsHold
    BY DEF SubInit, RequestsInit, OwnKeys, RequestsHold
  <1> QED
    BY <1>1, <1>2 DEF RegisteredInv

\* While no two connections use one key, a request stays in the table under its
\* key, with its own waiter, until its own thread takes it out: whatever is
\* refused, fails or breaks, and whatever the callbacks do with waiters that are
\* gone.
THEOREM RequestsStayRegistered ==
    ASSUME KeysApart PROVE SubSpec => []WaiterStaysRegistered
  <1>1. RegisteredInv => WaiterStaysRegistered
    BY DEF RegisteredInv, RequestsHold, WaiterStaysRegistered
  <1> QED
    BY <1>1, RegisteredInit, RegisteredNext, PTL DEF SubSpec

-----------------------------------------------------------------------------
(***************************************************************************)
(* When keys differ.  A client has a node id and numbers its requests; an  *)
(* unsubscribe of the gateway's own has the node id of the subscriber, and *)
(* the number 1 or that of the indication it could not send.               *)
(***************************************************************************)
\* If node ids differ keys do; if moreover no client uses the number under which the
\* gateway unsubscribes for it after a failed probe, that key is no request's.
THEOREM NodesSeparateKeys ==
    ASSUME NEW Node \in [Conns -> Seq(Int)], NEW Numbers \in [Conns -> SUBSET Int],
           NEW OwnNumber \in [Conns -> Int],
           KeysOf = [c \in Conns |-> {get_request_key(Node[c], m) : m \in Numbers[c]}],
           AutoKey = [c \in Conns |-> get_request_key(Node[c], OwnNumber[c])],
           \A c, d \in Conns : c # d => Node[c] # Node[d],
           \A c \in Conns : OwnNumber[c] \notin Numbers[c]
    PROVE  KeysApart /\ \A c, d \in Conns : AutoKey[c] \notin KeysOf[d]
  <1>1. ASSUME NEW c \in Conns, NEW d \in Conns, NEW n \in Int, NEW k \in KeysOf[d],
               k = get_request_key(Node[c], n)
        PROVE  c = d /\ n \in Numbers[c]
    <2>1. PICK m \in Numbers[d] : k = get_request_key(Node[d], m)
      OBVIOUS
    <2>2. Node[c] \in Seq(Int) /\ Node[d] \in Seq(Int) /\ m \in Int
      OBVIOUS
    <2>3. get_request_key(Node[c], n) = get_request_key(Node[d], m)
      BY <1>1, <2>1
    <2>4. Node[c] = Node[d] /\ n = m
      BY <2>2, <2>3, KeyIdentifies
    <2> QED
      BY <2>4
  <1>2. ASSUME NEW c \in Conns, NEW d \in Conns, c # d, NEW k \in KeysOf[c] \cap KeysOf[d]
        PROVE  FALSE
    <2>1. PICK m \in Numbers[c] : k = get_request_key(Node[c], m)
      OBVIOUS
    <2>2. m \in Int /\ k \in KeysOf[d]
      OBVIOUS
    <2> QED
      BY <1>1, <1>2, <2>1, <2>2
  <1>3. ASSUME NEW c \in Conns, NEW d \in Conns PROVE AutoKey[c] \notin KeysOf[d]
    <2>1. AutoKey[c] = get_request_key(Node[c], OwnNumber[c]) /\ OwnNumber[c] \in Int
      OBVIOUS
    <2> QED
      BY <1>1, <2>1
  <1> QED
    BY <1>2, <1>3 DEF KeysApart

-----------------------------------------------------------------------------
(***************************************************************************)
(* Who may touch a subscription, with or without the wake thread.          *)
(*                                                                         *)
(* What the SIB has been sent, and what a callback carries, is for a       *)
(* thread that waits for it; a granted id is one thread's; so the thread   *)
(* that enters a subwaiter under it is the first, and nobody else takes    *)
(* the entry out (OwnershipInv).  On that rest the absence of NULL         *)
(* messages, that entries are served, and the order of the indications.    *)
(*                                                                         *)
(* Two connections that use one key can end each other's requests: that    *)
(* is excluded (KeysApart).  And a message can stray, which the code does  *)
(* not prevent: a callback that has looked a waiter up writes it after     *)
(* that waiter has been freed, and its address is another waiter's by      *)
(* then; or the confirmation of an unsubscribe that a thread sent itself   *)
(* finds a request under its key.  The invariants hold until that happens, *)
(* and the history variable strayed says whether it has.                   *)
(***************************************************************************)

\* The request f is its connection's last, and its thread waits for the answer.
Awaited(f) ==
    /\ pc[f[1]] = "wait" /\ f = CurrentId(f[1])
    /\ ~req_ready[waiter[f[1]]]

\* Nothing the SIB has yet to confirm is for f.
NoToken(f) == \A t \in sib \cup unsubs : t.for # f

\* What the SIB has yet to confirm, and what a callback is about to fill a
\* waiter with, is for a thread that waits for it; each of them at most once.
TokenInv ==
    /\ \A t \in sib :
        /\ Awaited(t.for) /\ t.key = key[t.for[1]]
        /\ t.kind = op[t.for[1]] /\ t.kind # "unsubscribe"
    /\ \A t \in unsubs :
        \/ t.for[2] = 0
        \/ /\ t.for[2] # 0 /\ Awaited(t.for) /\ t.key = key[t.for[1]]
           /\ op[t.for[1]] = "unsubscribe" /\ t.id = subid[t.for[1]]

CallbackInv ==
    cb # None /\ cb.msg.via # "ind" =>
        LET f == cb.msg.for IN
        /\ f \in Id /\ Awaited(f) /\ cb.waiter = waiter[f[1]] /\ cb.msg.via = op[f[1]]
        /\ NoToken(f)

UnsubscribeInv ==
    unsubcb # None =>
        LET f == unsubcb.t.for IN
        /\ cb = None
        /\ f[2] # 0 /\ Awaited(f) /\ unsubcb.waiter = waiter[f[1]] /\ op[f[1]] = "unsubscribe"
        /\ NoToken(f)

\* The slot of a request's waiter is empty until it holds the answer.
SlotInv ==
    \A c \in Conns :
        /\ pc[c] = "send" => rsp[waiter[c]] = None /\ ~req_ready[waiter[c]]
        /\ pc[c] \in {"wait", "build"} /\ rsp[waiter[c]] # None => rsp[waiter[c]].via = op[c]

\* The SIB has granted the subscription id to connection c, whose thread has not
\* yet made its second waiter of it.
Grants(msg, id) == msg # None /\ msg.via = "subscribe" /\ msg.status = "ok" /\ msg.id = id
GrantedTo(c, id) ==
    \/ cb # None /\ Grants(cb.msg, id) /\ cb.msg.for[1] = c
    \/ pc[c] \in {"wait", "build"} /\ Grants(rsp[waiter[c]], id)
Owns(c, id) == pc[c] \in Owning /\ subid[c] = id

\* An id is granted to one thread, which is the first to have an entry for it.
GrantInv ==
    \A id \in SubIds :
        /\ served[id] = "unused" =>
            subscriptions[id] = None /\ \A c \in Conns : ~GrantedTo(c, id) /\ ~Owns(c, id)
        /\ \A c \in Conns : GrantedTo(c, id) =>
            /\ subscriptions[id] = None
            /\ \A d \in Conns : ~Owns(d, id) /\ (GrantedTo(d, id) => d = c)

\* A thread that serves a subscription owns the entry under its id.
OwnerInv ==
    \A c \in Conns :
        /\ pc[c] \in Owning =>
            /\ subid[c] \in SubIds /\ subscriptions[subid[c]] = subwaiter[c]
            /\ fd[subwaiter[c]] = c
        /\ pc[c] = "unlist" => subid[c] = NoSub

\* The slot of an entry holds what is meant for its id.
EntryInv ==
    \A id \in Ids : subscriptions[id] # None /\ rsp[subscriptions[id]] # None =>
        /\ rsp[subscriptions[id]].via \in {"ind", "unsubscribe"}
        /\ rsp[subscriptions[id]].id = id

OwnershipInv ==
    /\ TokenInv /\ CallbackInv /\ UnsubscribeInv /\ SlotInv
    /\ GrantInv /\ OwnerInv /\ EntryInv

\* What a thread has in the tables is allocated, and its own.
LEMMA RequestWaiter ==
    ASSUME RegisteredInv, NEW c \in Conns, pc[c] \in {"send", "wait", "build", "ack"}
    PROVE  /\ key[c] \in Keys /\ key[c] \in KeysOf[c] /\ requests[key[c]] = waiter[c]
           /\ waiter[c] \in live /\ waiter[c] \in Waiter /\ fd[waiter[c]] = c
           /\ \A id \in Ids : subscriptions[id] # waiter[c]
           /\ RspRead(waiter[c]) = rsp[waiter[c]]
  <1>1. key[c] \in Keys /\ key[c] \in KeysOf[c]
    BY DEF RegisteredInv, OwnKeys, SubTypeOK, HandlerTypeOK
  <1>2. requests[key[c]] = waiter[c] /\ fd[waiter[c]] = c /\ waiter[c] \in Waiter
    BY DEF RegisteredInv, RequestsHold
  <1> QED
    BY <1>1, <1>2, WaitersAssumption
       DEF RegisteredInv, TablesHoldLiveWaiters, TableHoldsLiveWaiters, RspRead

LEMMA OwnedWaiter ==
    ASSUME RegisteredInv, OwnerInv, NEW c \in Conns, pc[c] \in Owning
    PROVE  /\ subid[c] \in SubIds /\ subid[c] \in Ids
           /\ subscriptions[subid[c]] = subwaiter[c] /\ fd[subwaiter[c]] = c
           /\ subwaiter[c] \in live /\ subwaiter[c] \in Waiter
           /\ RspRead(subwaiter[c]) = rsp[subwaiter[c]]
  <1>1. subid[c] \in SubIds /\ subscriptions[subid[c]] = subwaiter[c] /\ fd[subwaiter[c]] = c
    BY DEF OwnerInv
  <1>2. subid[c] \in Ids /\ subwaiter[c] \in Waiter
    BY <1>1 DEF Ids, RegisteredInv, SubTypeOK, HandlerTypeOK, Owning, Serving, Loop
  <1> QED
    BY <1>1, <1>2, WaitersAssumption DEF RegisteredInv, TablesHoldLiveWaiters, RspRead

\* A thread takes out no entry but its own; a refused one has the id NoSub.
LEMMA RemovesOwn ==
    ASSUME RegisteredInv, OwnerInv, EntryInv, NEW c \in Conns, NEW id, RemovedId(c, id)
    PROVE  \/ pc[c] = "unlist" /\ id = NoSub
           \/ pc[c] \in Owning /\ id = subid[c]
  <1>1. CASE pc[c] = "unlist"
    BY <1>1 DEF RemovedId, OwnerInv
  <1>2. CASE pc[c] = "autoremove"
    BY <1>2 DEF RemovedId, Owning, Loop
  <1>3. CASE pc[c] \in {"subunlist", "indremove"}
    <2>1. pc[c] \in Owning
      BY <1>3 DEF Owning, Loop
    <2>2. rsp[subwaiter[c]] # None /\ id = rsp[subwaiter[c]].id
      BY <1>3, <2>1, OwnedWaiter DEF RemovedId
    <2> QED
      BY <2>1, <2>2, OwnedWaiter, WaitersAssumption DEF EntryInv
  <1> QED
    BY <1>1, <1>2, <1>3 DEF RemovedId

\* A step of one thread leaves what another has in the tables as it is.
LEMMA OtherRequest ==
    ASSUME RegisteredInv, OwnerInv, EntryInv, KeysApart, NEW c \in Conns, NEW d \in Conns \ {c},
           MemoryEffect(c), pc[d] \in {"send", "wait", "build"}
    PROVE  SameMail(waiter[d])
  <1>1. /\ key[d] \in Keys /\ key[d] \in KeysOf[d] /\ requests[key[d]] = waiter[d]
        /\ waiter[d] \in live /\ waiter[d] # None /\ fd[waiter[d]] = d
        /\ \A id \in Ids : subscriptions[id] # waiter[d]
    BY RequestWaiter, WaitersAssumption
  <1>2. DropsRequest(c) => requests[key[c]] # waiter[d]
    <2>1. DropsRequest(c) => key[c] # key[d] /\ key[c] \in Keys
      BY <1>1 DEF DropsRequest, RegisteredInv, OwnKeys, KeysApart
    <2> QED
      BY <1>1, <2>1 DEF RegisteredInv, TablesHoldLiveWaiters, TableHoldsLiveWaiters
  <1>3. pc[c] = "wait" => waiter[c] # waiter[d]
    BY <1>1, RequestWaiter
  <1>4. pc[c] \in {"subwait", "subfree"} => subwaiter[c] # waiter[d]
    BY <1>1, OwnedWaiter DEF Owning, Loop
  <1> QED
    BY <1>1, <1>2, <1>3, <1>4, Untouched DEF RegisteredInv

LEMMA OtherEntry ==
    ASSUME RegisteredInv, OwnerInv, EntryInv, KeysApart, NEW c \in Conns, NEW d \in Conns \ {c},
           MemoryEffect(c), pc[d] \in Owning
    PROVE  SameMail(subwaiter[d]) /\ subscriptions'[subid[d]] = subscriptions[subid[d]]
  <1>1. /\ subid[d] \in SubIds /\ subid[d] \in Ids /\ subscriptions[subid[d]] = subwaiter[d]
        /\ fd[subwaiter[d]] = d /\ subwaiter[d] \in live /\ subwaiter[d] # None
    BY OwnedWaiter, WaitersAssumption
  <1>2. ASSUME NEW id, RemovedId(c, id) PROVE id # subid[d]
    <2>1. CASE id = NoSub
      BY <1>1, <2>1, SubscriptionsAssumption
    <2>2. CASE pc[c] \in Owning /\ id = subid[c]
      BY <1>1, <2>2, OwnedWaiter
    <2> QED
      BY <1>2, <2>1, <2>2, RemovesOwn
  <1>3. \A id \in Ids : RemovedId(c, id) => subscriptions[id] # subwaiter[d]
    BY <1>1, <1>2 DEF RegisteredInv, TablesHoldLiveWaiters
  <1>4. DropsRequest(c) => requests[key[c]] # subwaiter[d]
    BY <1>1 DEF DropsRequest, RegisteredInv, TablesHoldLiveWaiters
  <1>5. pc[c] = "wait" => waiter[c] # subwaiter[d]
    BY <1>1, RequestWaiter
  <1>6. pc[c] \in {"subwait", "subfree"} => subwaiter[c] # subwaiter[d]
    BY <1>1, OwnedWaiter DEF Owning, Loop
  <1>7. SameMail(subwaiter[d])
    BY <1>1, <1>3, <1>4, <1>5, <1>6, Untouched DEF RegisteredInv
  <1>8. subscriptions'[subid[d]] = subscriptions[subid[d]]
    <2> USE DEF RegisteredInv, SubTypeOK, MemoryTypeOK
    <2>1. CASE DropsSubscription(c)
      BY <1>1, <1>2, <2>1 DEF DropsSubscription, listener_remove_subscription
    <2>2. CASE PutsSubscription(c)
      BY <1>1, <2>2 DEF PutsSubscription
    <2>3. CASE ~DropsSubscription(c) /\ ~PutsSubscription(c)
      BY <2>3 DEF MemoryEffect, Quiet, DropsRequest, PutsRequest, TakesSignal, EmptiesSlot
    <2> QED
      BY <2>1, <2>2, <2>3
  <1> QED
    BY <1>7, <1>8

\* The thread of an awaited request waits on, and hears of it from the callback.
LEMMA AwaitedThread ==
    ASSUME RegisteredInv, OwnerInv, EntryInv, KeysApart, NEW c \in Conns, ThreadAct(c),
           NEW f, f[1] \in Conns, Awaited(f)
    PROVE  /\ Awaited(f)' /\ SameLocals(f[1])
           /\ SameMail(waiter[f[1]])
           /\ f[1] = c => UNCHANGED <<sib, unsubs>>
  <1>1. MemoryEffect(c) /\ LocalEffect(c) /\ PostEffect(c)
    BY Effect, Locals, Posts DEF RegisteredInv
  <1>2. pc[f[1]] = "wait" /\ ~req_ready[waiter[f[1]]] /\ f = CurrentId(f[1])
    BY DEF Awaited
  <1>3. waiter[f[1]] \in live
    BY <1>2, RequestWaiter
  <1>4. CASE f[1] = c
    <2>1. Quiet(c)
      BY <1>1, <1>2, <1>3, <1>4 DEF MemoryEffect, DropsRequest, DropsSubscription, RemovedId, PutsRequest,
            PutsSubscription, TakesSignal, EmptiesSlot, waiter_wait_for_finished
    <2>2. SameLocals(f[1]) /\ SameMail(waiter[f[1]])
      BY <1>2, <1>3, <1>4, <2>1 DEF Quiet, waiterVars, SameMail
    <2>3. Awaited(f)'
      BY <1>2, <2>2 DEF Awaited, CurrentId, SameLocals, SameMail
    <2> QED
      BY <1>1, <1>2, <1>4, <2>2, <2>3 DEF PostEffect
  <1>5. CASE f[1] # c
    <2>1. SameLocals(f[1])
      BY <1>1, <1>5 DEF LocalEffect
    <2>2. SameMail(waiter[f[1]])
      BY <1>1, <1>2, <1>5, OtherRequest
    <2>3. Awaited(f)'
      BY <1>2, <2>1, <2>2 DEF Awaited, CurrentId, SameLocals, SameMail
    <2> QED
      BY <1>5, <2>1, <2>2, <2>3
  <1> QED
    BY <1>4, <1>5

LEMMA TokenTypes ==
    ASSUME SubTypeOK
    PROVE  /\ \A t \in sib : t \in Token /\ t.for \in Id /\ t.for[1] \in Conns /\ t.for[2] # 0
                              /\ t.key \in Keys
           /\ \A t \in unsubs : t \in UnsubToken /\ t.for[1] \in Conns /\ t.key \in Keys /\ t.id \in Ids
           /\ cb # None => cb.msg \in Message /\ cb.waiter \in Waiter
           /\ unsubcb # None => /\ unsubcb.t \in UnsubToken /\ unsubcb.t.for[1] \in Conns
                                /\ unsubcb.t.id \in Ids /\ unsubcb.waiter \in Waiter
                                /\ unsubcb.status \in {"ok", "failed"}
  BY DEF SubTypeOK, MailTypeOK, Token, UnsubToken, Id, UnsubId

LEMMA TokenThread ==
    ASSUME RegisteredInv, OwnershipInv, KeysApart, NEW c \in Conns, ThreadAct(c)
    PROVE  TokenInv'
  <1>1. /\ MemoryEffect(c) /\ PostEffect(c) /\ SubTypeOK
        /\ TokenInv /\ SlotInv /\ OwnerInv /\ EntryInv
    BY Effect, Posts DEF RegisteredInv, OwnershipInv
  <1>2. ASSUME NEW f, f[1] \in Conns, Awaited(f)
        PROVE  Awaited(f)' /\ SameLocals(f[1])
    BY <1>1, <1>2, AwaitedThread
  <1>3. ASSUME pc[c] = "send", Goto(c, "wait")
        PROVE  /\ Awaited(CurrentId(c))' /\ CurrentId(c)' = CurrentId(c) /\ CurrentId(c)[1] = c
               /\ key'[c] = key[c] /\ op'[c] = op[c] /\ subid'[c] = subid[c]
               /\ CurrentId(c)[2] # 0
    <2>1. pc'[c] = "wait" /\ key'[c] = key[c] /\ op'[c] = op[c]
      BY <1>1, <1>3, Arrives DEF Goto
    <2>2. Quiet(c)
      BY <1>1, <1>3, <2>1 DEF MemoryEffect, DropsRequest, DropsSubscription, RemovedId, PutsRequest,
            PutsSubscription, TakesSignal, EmptiesSlot
    <2>3. Proceeds(c)
      BY <1>1, <1>3, <2>1, Flows, Arrives DEF Flow, SameLocals, PutsRequest, RegisterSubwaiter
    <2>4. ~req_ready'[waiter'[c]]
      BY <1>1, <1>3, <2>2, <2>3 DEF Quiet, waiterVars, Proceeds, SlotInv
    <2>5. issued[c] # 0
      BY <1>1, <1>3 DEF SubTypeOK, HandlerTypeOK
    <2> QED
      BY <2>1, <2>3, <2>4, <2>5 DEF Awaited, CurrentId, Proceeds
  <1>4. ASSUME NEW t \in sib'
        PROVE  /\ Awaited(t.for)' /\ t.key = key'[t.for[1]]
               /\ t.kind = op'[t.for[1]] /\ t.kind # "unsubscribe"
    <2>1. CASE t \in sib
      BY <1>1, <1>2, <2>1, TokenTypes DEF TokenInv, SameLocals
    <2>2. CASE t \notin sib
      <3>1. PICK n : n = [for |-> CurrentId(c), kind |-> op[c], key |-> key[c]]
        OBVIOUS
      <3>2. /\ pc[c] = "send" /\ op[c] # "unsubscribe" /\ Goto(c, "wait") /\ t = n
        BY <1>1, <2>2, <3>1 DEF PostEffect
      <3>3. t.for = CurrentId(c) /\ t.kind = op[c] /\ t.key = key[c]
        BY <3>1, <3>2
      <3> QED
        BY <1>3, <3>2, <3>3
    <2> QED
      BY <2>1, <2>2
  <1>5. ASSUME NEW t \in unsubs'
        PROVE  \/ t.for[2] = 0
               \/ /\ t.for[2] # 0 /\ Awaited(t.for)' /\ t.key = key'[t.for[1]]
                  /\ op'[t.for[1]] = "unsubscribe" /\ t.id = subid'[t.for[1]]
    <2>1. CASE t \in unsubs
      BY <1>1, <1>2, <2>1, TokenTypes DEF TokenInv, SameLocals
    <2>2. CASE t \notin unsubs
      <3>1. CASE /\ pc[c] = "send" /\ op[c] = "unsubscribe" /\ Goto(c, "wait")
                 /\ unsubs' = unsubs \cup {[for |-> CurrentId(c), key |-> key[c], id |-> subid[c]]}
        <4>1. PICK n : n = [for |-> CurrentId(c), key |-> key[c], id |-> subid[c]]
          OBVIOUS
        <4>2. t = n
          BY <2>2, <3>1, <4>1
        <4>3. t.for = CurrentId(c) /\ t.key = key[c] /\ t.id = subid[c]
          BY <4>1, <4>2
        <4> QED
          BY <1>3, <3>1, <4>3
      <3>2. CASE \E id \in Ids, k \in Keys :
                    unsubs' = unsubs \cup {[for |-> <<c, 0>>, key |-> k, id |-> id]}
        BY <2>2, <3>2
      <3> QED
        BY <1>1, <2>2, <3>1, <3>2 DEF PostEffect
    <2> QED
      BY <2>1, <2>2
  <1> QED
    BY <1>4, <1>5 DEF TokenInv

\* No step of a thread sends the SIB anything under the name of an awaited request.
LEMMA NoNewToken ==
    ASSUME RegisteredInv, OwnershipInv, KeysApart, NEW c \in Conns, ThreadAct(c),
           NEW f, f[1] \in Conns, f[2] # 0, Awaited(f), NoToken(f)
    PROVE  NoToken(f)'
  <1>1. PostEffect(c) /\ (f[1] = c => UNCHANGED <<sib, unsubs>>)
    BY Posts, AwaitedThread DEF RegisteredInv, OwnershipInv
  <1>2. CASE UNCHANGED <<sib, unsubs>>
    BY <1>2 DEF NoToken
  <1>3. CASE f[1] # c
    <2>1. CurrentId(c) # f /\ <<c, 0>> # f
      BY <1>3 DEF CurrentId
    <2>2. \A t \in sib' : t \in sib \/ t.for = CurrentId(c)
      BY <1>1 DEF PostEffect
    <2>3. \A t \in unsubs' : t \in unsubs \/ t.for = CurrentId(c) \/ t.for = <<c, 0>>
      BY <1>1 DEF PostEffect
    <2> QED
      BY <2>1, <2>2, <2>3 DEF NoToken
  <1> QED
    BY <1>1, <1>2, <1>3

LEMMA CallbackThread ==
    ASSUME RegisteredInv, OwnershipInv, KeysApart, NEW c \in Conns, ThreadAct(c)
    PROVE  CallbackInv' /\ UnsubscribeInv'
  <1>1. /\ UNCHANGED <<cb, unsubcb>> /\ SubTypeOK
        /\ CallbackInv /\ UnsubscribeInv /\ OwnerInv /\ EntryInv
    BY Posts DEF RegisteredInv, OwnershipInv, PostEffect
  <1>2. ASSUME NEW f, f[1] \in Conns, f[2] # 0, Awaited(f), NoToken(f)
        PROVE  /\ Awaited(f)' /\ NoToken(f)' /\ SameLocals(f[1])
    BY <1>1, <1>2, AwaitedThread, NoNewToken
  <1>3. CallbackInv'
    BY <1>1, <1>2 DEF CallbackInv, SameLocals, Id
  <1>4. UnsubscribeInv'
    <2> SUFFICES ASSUME unsubcb # None PROVE UnsubscribeInv'
      BY <1>1 DEF UnsubscribeInv
    <2>1. PICK f : f = unsubcb.t.for
      OBVIOUS
    <2>2. f[1] \in Conns
      BY <1>1, <2>1, TokenTypes
    <2> QED
      BY <1>1, <1>2, <2>1, <2>2 DEF UnsubscribeInv, SameLocals
  <1> QED
    BY <1>3, <1>4

LEMMA SlotThread ==
    ASSUME RegisteredInv, OwnershipInv, KeysApart, NEW c \in Conns, ThreadAct(c)
    PROVE  SlotInv'
  <1>1. /\ MemoryEffect(c) /\ LocalEffect(c) /\ Flow(c) /\ SubTypeOK
        /\ SlotInv /\ OwnerInv /\ EntryInv
    BY Effect, Locals, Flows DEF RegisteredInv, OwnershipInv
  <1>2. ASSUME NEW d \in Conns \ {c}, pc'[d] \in {"send", "wait", "build"}
        PROVE  /\ pc[d] = pc'[d] /\ op'[d] = op[d] /\ waiter'[d] = waiter[d]
               /\ rsp'[waiter[d]] = rsp[waiter[d]] /\ req_ready'[waiter[d]] = req_ready[waiter[d]]
    BY <1>1, <1>2, OtherRequest DEF LocalEffect, SameLocals, SameMail
  <1>3. CASE PutsRequest(c)
    <2>1. /\ pc'[c] = "send" /\ rsp'[waiter'[c]] = None /\ ~req_ready'[waiter'[c]]
      BY <1>1, <1>3 DEF PutsRequest, waiter_new, SubTypeOK, MemoryTypeOK
    <2> QED
      BY <1>1, <1>2, <2>1 DEF SlotInv
  <1>4. CASE ~PutsRequest(c)
    <2>1. ASSUME pc'[c] = "send"
          PROVE  SameLocals(c) /\ Quiet(c)
      <3>1. SameLocals(c)
        BY <1>1, <1>4, <2>1, Arrives DEF Flow, Proceeds, RegisterSubwaiter
      <3> QED
        BY <1>1, <2>1, <3>1 DEF SameLocals, MemoryEffect, DropsRequest, DropsSubscription, PutsRequest,
            PutsSubscription, TakesSignal, EmptiesSlot
    <2>2. ASSUME pc'[c] \in {"wait", "build"}
          PROVE  /\ pc[c] \in {"send", "wait", "build"} /\ op'[c] = op[c] /\ waiter'[c] = waiter[c]
                 /\ rsp' = rsp
      <3>1. SameLocals(c) \/ Proceeds(c)
        BY <1>1, <1>4, <2>2, Arrives DEF Flow, RegisterSubwaiter
      <3>2. pc[c] \in {"send", "wait", "build"} /\ op'[c] = op[c] /\ waiter'[c] = waiter[c]
        BY <2>2, <3>1 DEF SameLocals, Proceeds
      <3> QED
        BY <1>1, <2>2, <3>2 DEF MemoryEffect, Quiet, waiterVars, DropsRequest, DropsSubscription,
            PutsRequest, PutsSubscription, TakesSignal, waiter_wait_for_finished, EmptiesSlot
    <2>3. pc'[c] = "send" => rsp'[waiter'[c]] = None /\ ~req_ready'[waiter'[c]]
      BY <1>1, <2>1 DEF SameLocals, Quiet, waiterVars, SlotInv
    <2>4. pc'[c] \in {"wait", "build"} /\ rsp'[waiter'[c]] # None => rsp'[waiter'[c]].via = op'[c]
      BY <1>1, <2>2 DEF SlotInv
    <2> QED
      BY <1>1, <1>2, <2>3, <2>4 DEF SlotInv
  <1> QED
    BY <1>3, <1>4

\* What a subscribe finds in its slot when it makes its second waiter.
LEMMA SubscribeAnswer ==
    ASSUME RegisteredInv, SlotInv, NEW c \in Conns, pc[c] = "build", op[c] = "subscribe",
           NEW r, r = RspRead(waiter[c]), r # None
    PROVE  /\ r = rsp[waiter[c]] /\ r.via = "subscribe"
           /\ \/ r.status = "ok" /\ r.id \in SubIds /\ GrantedTo(c, r.id)
              \/ r.status = "failed" /\ r.id = NoSub
  <1>1. r = rsp[waiter[c]] /\ r \in Message
    BY RequestWaiter, SlotMessage DEF RegisteredInv
  <1>2. r.via = "subscribe"
    BY <1>1 DEF SlotInv
  <1>3. r \in Granted \cup Refused
    BY <1>1, <1>2 DEF Message, Confirmation, SimpleKinds, Indications, Unsubscriptions
  <1> QED
    BY <1>1, <1>2, <1>3 DEF Granted, Refused, GrantedTo, Grants

\* The second waiter of a granted subscribe is the first under its id.
LEMMA FirstEntry ==
    ASSUME RegisteredInv, SlotInv, GrantInv, NEW c \in Conns, RegisterSubwaiter(c)
    PROVE  /\ pc[c] = "build" /\ pc'[c] \in {"ack", "unlist"}
           /\ \/ /\ pc'[c] = "ack" /\ subid'[c] \in SubIds /\ GrantedTo(c, subid'[c])
                 /\ subscriptions'[subid'[c]] = subwaiter'[c] /\ fd'[subwaiter'[c]] = c
                 /\ rsp'[subwaiter'[c]] = None
              \/ pc'[c] = "unlist" /\ subid'[c] = NoSub
           /\ \A id \in Ids \ {subid'[c]} : subscriptions'[id] = subscriptions[id]
           /\ subid'[c] \in Ids
  <1>1. PICK r : r = RspRead(waiter[c])
    OBVIOUS
  <1>2. SubTypeOK /\ MemoryTypeOK /\ LocalsTypeOK
    BY DEF RegisteredInv, SubTypeOK
  <1>3. PICK w \in Waiter \ live :
            /\ subwaiter' = [subwaiter EXCEPT ![c] = w]
            /\ IF subscriptions[r.id] = None
               THEN /\ waiter_new(w, c)
                    /\ subscriptions' = [subscriptions EXCEPT ![r.id] = w]
               ELSE UNCHANGED <<waiterVars, subscriptions>>
    BY <1>1 DEF RegisterSubwaiter
  <1>4. PICK label : label = IF r.status = "ok" THEN "ack" ELSE "unlist"
    OBVIOUS
  <1>5. /\ pc[c] = "build" /\ op[c] = "subscribe" /\ r # None
        /\ subid' = [subid EXCEPT ![c] = r.id] /\ Goto(c, label)
    BY <1>1, <1>4 DEF RegisterSubwaiter
  <1>6. pc'[c] = label /\ subid'[c] = r.id /\ subwaiter'[c] = w
    BY <1>2, <1>3, <1>5, Arrives DEF LocalsTypeOK
  <1>7. /\ r.via = "subscribe"
        /\ \/ r.status = "ok" /\ r.id \in SubIds /\ GrantedTo(c, r.id)
           \/ r.status = "failed" /\ r.id = NoSub
    BY <1>1, <1>5, SubscribeAnswer
  <1>8. r.id \in Ids
    BY <1>7 DEF Ids
  <1>9. \A id \in Ids \ {r.id} : subscriptions'[id] = subscriptions[id]
    BY <1>2, <1>3 DEF MemoryTypeOK
  <1>10. CASE r.status = "ok" /\ r.id \in SubIds /\ GrantedTo(c, r.id)
    <2>1. subscriptions[r.id] = None
      BY <1>10 DEF GrantInv
    <2>2. subscriptions'[r.id] = w /\ fd'[w] = c /\ rsp'[w] = None
      BY <1>2, <1>3, <1>8, <2>1 DEF waiter_new, MemoryTypeOK
    <2> QED
      BY <1>4, <1>5, <1>6, <1>8, <1>9, <1>10, <2>2
  <1> QED
    BY <1>4, <1>5, <1>6, <1>7, <1>8, <1>9, <1>10

\* An entry that is new is for an id that was granted to the thread.
LEMMA NewEntry ==
    ASSUME RegisteredInv, SlotInv, NEW c \in Conns, MemoryEffect(c), NEW id \in SubIds,
           subscriptions[id] = None, subscriptions'[id] # None
    PROVE  PutsSubscription(c) /\ pc'[c] \notin {"wait", "build"} /\ GrantedTo(c, id)
  <1>1. id \in Ids /\ SubTypeOK /\ MemoryTypeOK
    BY DEF Ids, RegisteredInv, SubTypeOK
  <1>2. PutsSubscription(c)
    BY <1>1 DEF MemoryEffect, Quiet, DropsRequest, DropsSubscription, listener_remove_subscription,
                PutsRequest, TakesSignal, EmptiesSlot, MemoryTypeOK
  <1>3. PICK r : r = RspRead(waiter[c])
    OBVIOUS
  <1>4. /\ pc[c] = "build" /\ op[c] = "subscribe" /\ pc'[c] \in {"ack", "unlist", "receive"}
        /\ r # None /\ id = r.id
    BY <1>1, <1>2, <1>3 DEF PutsSubscription, MemoryTypeOK
  <1>5. GrantedTo(c, id)
    BY <1>3, <1>4, SubscribeAnswer, SubscriptionsAssumption
  <1> QED
    BY <1>2, <1>4, <1>5

\* A step of a thread grants nothing.
LEMMA GrantedThread ==
    ASSUME RegisteredInv, OwnershipInv, KeysApart, NEW c \in Conns, ThreadAct(c),
           NEW d \in Conns, NEW id, GrantedTo(d, id)'
    PROVE  GrantedTo(d, id) /\ (d = c => pc'[c] \in {"wait", "build"})
  <1>1. /\ MemoryEffect(c) /\ LocalEffect(c) /\ Flow(c) /\ SubTypeOK /\ cb' = cb
        /\ CallbackInv /\ SlotInv /\ OwnerInv /\ EntryInv
    BY Effect, Locals, Flows, Posts DEF RegisteredInv, OwnershipInv, PostEffect
  <1>2. CASE cb # None /\ Grants(cb.msg, id) /\ cb.msg.for[1] = d
    <2>1. GrantedTo(d, id)
      BY <1>2 DEF GrantedTo
    <2>2. Awaited(cb.msg.for)
      BY <1>1, <1>2 DEF CallbackInv, Grants
    <2>3. SameLocals(d) /\ pc[d] = "wait"
      BY <1>1, <1>2, <2>2, AwaitedThread DEF Awaited
    <2> QED
      BY <2>1, <2>3 DEF SameLocals
  <1>3. CASE pc'[d] \in {"wait", "build"} /\ Grants(rsp'[waiter'[d]], id)
    <2>1. CASE d # c
      <3>1. pc'[d] = pc[d] /\ waiter'[d] = waiter[d]
        BY <1>1, <2>1 DEF LocalEffect, SameLocals
      <3>2. rsp'[waiter[d]] = rsp[waiter[d]]
        BY <1>1, <1>3, <2>1, <3>1, OtherRequest DEF SameMail
      <3> QED
        BY <1>3, <2>1, <3>1, <3>2 DEF GrantedTo
    <2>2. CASE d = c
      <3>1. SameLocals(c) \/ Proceeds(c)
        BY <1>1, <1>3, <2>2, Arrives, FirstEntry DEF Flow, PutsRequest, RegisterSubwaiter
      <3>2. /\ pc[c] \in {"send", "wait", "build"} /\ waiter'[c] = waiter[c]
            /\ pc[c] = "send" => pc'[c] = "wait"
        BY <1>3, <2>2, <3>1 DEF SameLocals, Proceeds
      <3>3. rsp' = rsp
        BY <1>1, <1>3, <2>2, <3>2 DEF MemoryEffect, Quiet, waiterVars, DropsRequest, DropsSubscription,
            RemovedId, PutsRequest, PutsSubscription, TakesSignal, waiter_wait_for_finished, EmptiesSlot
      <3>4. pc[c] # "send"
        BY <1>1, <1>3, <2>2, <3>2, <3>3 DEF SlotInv, Grants
      <3> QED
        BY <1>3, <2>2, <3>2, <3>3, <3>4 DEF GrantedTo
    <2> QED
      BY <2>1, <2>2
  <1> QED
    BY <1>1, <1>2, <1>3 DEF GrantedTo

\* A step of a thread gives nobody an entry but itself, and only a granted one.
LEMMA OwnsThread ==
    ASSUME RegisteredInv, OwnershipInv, NEW c \in Conns, ThreadAct(c), NEW d \in Conns,
           NEW id, Owns(d, id)'
    PROVE  \/ Owns(d, id) /\ subid'[d] = subid[d] /\ subwaiter'[d] = subwaiter[d]
           \/ d = c /\ RegisterSubwaiter(c) /\ GrantedTo(c, id) /\ id = subid'[c]
  <1>1. LocalEffect(c) /\ Flow(c) /\ SlotInv /\ GrantInv
    BY Locals, Flows DEF RegisteredInv, OwnershipInv
  <1>2. CASE d # c
    BY <1>1, <1>2 DEF LocalEffect, SameLocals, Owns
  <1>3. CASE d = c /\ RegisterSubwaiter(c)
    BY <1>1, <1>3, FirstEntry DEF Owns, Owning, Loop
  <1>4. CASE d = c /\ ~RegisterSubwaiter(c)
    <2>1. SameLocals(c) \/ Proceeds(c)
      BY <1>1, <1>4 DEF Flow, PutsRequest, Owns, Owning, Loop
    <2> QED
      BY <1>4, <2>1 DEF SameLocals, Proceeds, Owns
  <1> QED
    BY <1>2, <1>3, <1>4

LEMMA GrantThread ==
    ASSUME RegisteredInv, OwnershipInv, KeysApart, NEW c \in Conns, ThreadAct(c)
    PROVE  GrantInv'
  <1>1. MemoryEffect(c) /\ GrantInv /\ SlotInv /\ served' = served
    BY Effect, Posts DEF RegisteredInv, OwnershipInv, PostEffect
  <1>2. ASSUME NEW id \in SubIds, served'[id] = "unused"
        PROVE  subscriptions'[id] = None /\ \A d \in Conns : ~GrantedTo(d, id)' /\ ~Owns(d, id)'
    <2>1. subscriptions[id] = None /\ \A d \in Conns : ~GrantedTo(d, id) /\ ~Owns(d, id)
      BY <1>1, <1>2 DEF GrantInv
    <2>2. subscriptions'[id] = None
      BY <1>1, <2>1, NewEntry
    <2> QED
      BY <2>1, <2>2, GrantedThread, OwnsThread
  <1>3. ASSUME NEW id \in SubIds, NEW d \in Conns, GrantedTo(d, id)'
        PROVE  /\ subscriptions'[id] = None
               /\ \A e \in Conns : ~Owns(e, id)' /\ (GrantedTo(e, id)' => e = d)
    <2>1. GrantedTo(d, id) /\ (d = c => pc'[c] \in {"wait", "build"})
      BY <1>3, GrantedThread
    <2>2. subscriptions[id] = None /\ \A e \in Conns : ~Owns(e, id) /\ (GrantedTo(e, id) => e = d)
      BY <1>1, <2>1 DEF GrantInv
    <2>3. subscriptions'[id] = None
      BY <1>1, <2>1, <2>2, NewEntry
    <2>4. \A e \in Conns : GrantedTo(e, id)' => e = d
      BY <2>2, GrantedThread
    <2>5. RegisterSubwaiter(c) => pc'[c] \notin {"wait", "build"}
      BY <1>1, FirstEntry
    <2>6. \A e \in Conns : ~Owns(e, id)'
      BY <2>1, <2>2, <2>5, OwnsThread
    <2> QED
      BY <2>3, <2>4, <2>6
  <1> QED
    BY <1>2, <1>3 DEF GrantInv

LEMMA OwnerThread ==
    ASSUME RegisteredInv, OwnershipInv, KeysApart, NEW c \in Conns, ThreadAct(c)
    PROVE  OwnerInv'
  <1>1. /\ MemoryEffect(c) /\ LocalEffect(c) /\ Flow(c)
        /\ OwnerInv /\ EntryInv /\ SlotInv /\ GrantInv
    BY Effect, Locals, Flows DEF RegisteredInv, OwnershipInv
  <1>2. ASSUME NEW d \in Conns, pc'[d] \in Owning
        PROVE  /\ subid'[d] \in SubIds /\ subscriptions'[subid'[d]] = subwaiter'[d]
               /\ fd'[subwaiter'[d]] = d
    <2>1. CASE d # c
      <3>1. pc[d] \in Owning /\ subid'[d] = subid[d] /\ subwaiter'[d] = subwaiter[d]
        BY <1>1, <1>2, <2>1 DEF LocalEffect, SameLocals
      <3>2. SameMail(subwaiter[d]) /\ subscriptions'[subid[d]] = subscriptions[subid[d]]
        BY <1>1, <2>1, <3>1, OtherEntry
      <3> QED
        BY <1>1, <3>1, <3>2 DEF OwnerInv, SameMail
    <2>2. CASE d = c /\ RegisterSubwaiter(c)
      BY <1>1, <1>2, <2>2, FirstEntry DEF Owning, Loop
    <2>3. CASE d = c /\ ~RegisterSubwaiter(c)
      <3>1. /\ pc[c] \in Owning /\ subid'[c] = subid[c] /\ subwaiter'[c] = subwaiter[c]
        BY <1>1, <1>2, <2>3 DEF Flow, SameLocals, Proceeds, PutsRequest, Owning, Loop
      <3>2. /\ subid[c] \in SubIds /\ subscriptions[subid[c]] = subwaiter[c]
            /\ fd[subwaiter[c]] = c /\ subwaiter[c] \in live
        BY <1>1, <3>1, OwnedWaiter
      <3>3. subscriptions' = subscriptions
        BY <1>1, <1>2, <2>3, <3>1 DEF MemoryEffect, Quiet, DropsRequest, DropsSubscription,
            PutsRequest, PutsSubscription, TakesSignal, EmptiesSlot, Owning, Loop
      <3>4. fd'[subwaiter[c]] = fd[subwaiter[c]]
        <4>1. CASE DropsRequest(c)
          <5>1. requests[key[c]] # subwaiter[c]
            BY <3>2, <4>1, OwnedWaiter, <1>1, <3>1, WaitersAssumption
               DEF DropsRequest, RegisteredInv, TablesHoldLiveWaiters
          <5> QED
            BY <3>1, <4>1, <5>1, OwnedWaiter, <1>1
               DEF DropsRequest, listener_remove_request, waiter_destroy, RegisteredInv, SubTypeOK, MemoryTypeOK
        <4>2. CASE ~DropsRequest(c)
          BY <1>1, <1>2, <2>3, <3>1, <4>2 DEF MemoryEffect, Quiet, DropsSubscription, waiterVars,
            PutsRequest, PutsSubscription, TakesSignal, waiter_wait_for_finished, EmptiesSlot, Owning, Loop
        <4> QED
          BY <4>1, <4>2
      <3> QED
        BY <2>3, <3>1, <3>2, <3>3, <3>4
    <2> QED
      BY <2>1, <2>2, <2>3
  <1>3. ASSUME NEW d \in Conns, pc'[d] = "unlist"
        PROVE  subid'[d] = NoSub
    <2>1. CASE d # c
      BY <1>1, <1>3, <2>1 DEF LocalEffect, SameLocals, OwnerInv
    <2>2. CASE d = c /\ RegisterSubwaiter(c)
      BY <1>1, <1>3, <2>2, FirstEntry
    <2>3. CASE d = c /\ ~RegisterSubwaiter(c)
      BY <1>1, <1>3, <2>3 DEF Flow, SameLocals, Proceeds, PutsRequest, OwnerInv
    <2> QED
      BY <2>1, <2>2, <2>3
  <1> QED
    BY <1>2, <1>3 DEF OwnerInv

\* What a step of a thread leaves under an id was there, with the same slot or an
\* empty one, or is new and empty.
LEMMA EntryLeft ==
    ASSUME SubTypeOK, TablesHoldLiveWaiters, NEW c \in Conns, MemoryEffect(c), NEW id \in Ids,
           subscriptions'[id] # None
    PROVE  \/ rsp'[subscriptions'[id]] = None
           \/ /\ subscriptions'[id] = subscriptions[id]
              /\ rsp'[subscriptions[id]] = rsp[subscriptions[id]]
  <1>1. MemoryTypeOK
    BY DEF SubTypeOK
  <1>2. subscriptions[id] # None => subscriptions[id] \in live /\ subscriptions[id] \in Waiter
    BY <1>1 DEF TablesHoldLiveWaiters, MemoryTypeOK
  <1> USE DEF MemoryTypeOK
  <1>3. CASE Quiet(c)
    BY <1>1, <1>3 DEF Quiet, waiterVars
  <1>4. CASE DropsRequest(c)
    BY <1>1, <1>2, <1>4 DEF DropsRequest, listener_remove_request, waiter_destroy
  <1>5. CASE DropsSubscription(c)
    BY <1>1, <1>2, <1>5 DEF DropsSubscription, listener_remove_subscription, waiter_destroy
  <1>6. CASE PutsRequest(c)
    BY <1>1, <1>2, <1>6 DEF PutsRequest, waiter_new
  <1>7. CASE PutsSubscription(c)
    BY <1>1, <1>2, <1>7 DEF PutsSubscription, waiter_new
  <1>8. CASE TakesSignal(c)
    BY <1>1, <1>8 DEF TakesSignal, waiter_wait_for_finished
  <1>9. CASE EmptiesSlot(c)
    BY <1>1, <1>2, <1>9 DEF EmptiesSlot
  <1> QED
    BY <1>3, <1>4, <1>5, <1>6, <1>7, <1>8, <1>9 DEF MemoryEffect

LEMMA EntryThread ==
    ASSUME RegisteredInv, OwnershipInv, NEW c \in Conns, ThreadAct(c)
    PROVE  EntryInv'
  BY Effect, EntryLeft DEF RegisteredInv, OwnershipInv, EntryInv

\* What the other side's steps have in common: a thread owns what it owned.
LEMMA OwnerMail ==
    ASSUME OwnershipInv, MailStep
    PROVE  OwnerInv'
  BY MailLeaves DEF OwnershipInv, OwnerInv, threadVars

\* The waiters of two requests differ, and no entry has one of them.
LEMMA RequestsDiffer ==
    ASSUME RegisteredInv, NEW c \in Conns, pc[c] = "wait"
    PROVE  /\ \A d \in Conns \ {c} : pc[d] \in {"send", "wait", "build"} => waiter[d] # waiter[c]
           /\ \A id \in Ids : subscriptions[id] # waiter[c]
  BY RequestWaiter

\* The waiter of thread c's request is filled, and no other.
Answers(c) ==
    /\ pc[c] = "wait"
    /\ \A w \in Waiter \ {waiter[c]} : rsp'[w] = rsp[w] /\ req_ready'[w] = req_ready[w]
    /\ \/ rsp'[waiter[c]] = rsp[waiter[c]]
       \/ rsp'[waiter[c]] # None /\ rsp'[waiter[c]].via = op[c]

LEMMA AnswerFill ==
    ASSUME RegisteredInv, OwnershipInv, MailStep, NEW c \in Conns, Answers(c)
    PROVE  /\ SlotInv' /\ EntryInv'
           /\ \A d \in Conns \ {c} : pc[d] \in {"send", "wait", "build"} =>
                rsp'[waiter'[d]] = rsp[waiter[d]]
           /\ \A f : f[1] \in Conns \ {c} /\ Awaited(f) => Awaited(f)'
  <1>1. /\ pc' = pc /\ op' = op /\ waiter' = waiter /\ issued' = issued
        /\ subscriptions' = subscriptions
    BY MailLeaves DEF threadVars
  <1>2. ASSUME NEW d \in Conns \ {c}, pc[d] \in {"send", "wait", "build"}
        PROVE  rsp'[waiter[d]] = rsp[waiter[d]] /\ req_ready'[waiter[d]] = req_ready[waiter[d]]
    BY <1>2, RequestWaiter, RequestsDiffer DEF Answers
  <1>3. SlotInv'
    BY <1>1, <1>2 DEF Answers, OwnershipInv, SlotInv
  <1>4. ASSUME NEW id \in Ids, subscriptions[id] # None
        PROVE  rsp'[subscriptions[id]] = rsp[subscriptions[id]]
    BY <1>4, RequestsDiffer DEF Answers, RegisteredInv, SubTypeOK, MemoryTypeOK
  <1>5. EntryInv'
    BY <1>1, <1>4 DEF OwnershipInv, EntryInv
  <1>6. \A f : f[1] \in Conns \ {c} /\ Awaited(f) => Awaited(f)'
    BY <1>1, <1>2 DEF Awaited, CurrentId
  <1> QED
    BY <1>1, <1>2, <1>3, <1>5, <1>6

\* At most the waiters of entries are filled, with what is meant for them.
Notifies ==
    /\ \A w \in Waiter : (\A id \in Ids : subscriptions[id] # w) =>
            rsp'[w] = rsp[w] /\ req_ready'[w] = req_ready[w]
    /\ \A id \in Ids : subscriptions[id] # None =>
        \/ rsp'[subscriptions[id]] \in {None, rsp[subscriptions[id]]}
        \/ /\ rsp'[subscriptions[id]].via \in {"ind", "unsubscribe"}
           /\ rsp'[subscriptions[id]].id = id

LEMMA EntryFill ==
    ASSUME RegisteredInv, OwnershipInv, MailStep, Notifies
    PROVE  /\ SlotInv' /\ EntryInv'
           /\ \A d \in Conns : pc[d] \in {"send", "wait", "build"} =>
                rsp'[waiter'[d]] = rsp[waiter[d]]
           /\ \A f : f[1] \in Conns /\ Awaited(f) => Awaited(f)'
  <1>1. /\ pc' = pc /\ op' = op /\ waiter' = waiter /\ issued' = issued
        /\ subscriptions' = subscriptions
    BY MailLeaves DEF threadVars
  <1>2. ASSUME NEW d \in Conns, pc[d] \in {"send", "wait", "build"}
        PROVE  rsp'[waiter[d]] = rsp[waiter[d]] /\ req_ready'[waiter[d]] = req_ready[waiter[d]]
    BY <1>2, RequestWaiter DEF Notifies
  <1>3. SlotInv'
    BY <1>1, <1>2 DEF OwnershipInv, SlotInv
  <1>4. EntryInv'
    BY <1>1 DEF Notifies, OwnershipInv, EntryInv
  <1>5. \A f : f[1] \in Conns /\ Awaited(f) => Awaited(f)'
    BY <1>1, <1>2 DEF Awaited, CurrentId
  <1> QED
    BY <1>1, <1>2, <1>3, <1>4, <1>5

\* A confirmation arrives, or nothing does: no waiter is touched.
LEMMA NoFill ==
    ASSUME RegisteredInv, OwnershipInv, MailStep, UNCHANGED waiterVars
    PROVE  /\ SlotInv' /\ EntryInv'
           /\ \A d \in Conns : pc[d] \in {"send", "wait", "build"} =>
                rsp'[waiter'[d]] = rsp[waiter[d]]
           /\ \A f : f[1] \in Conns /\ Awaited(f) => Awaited(f)'
  <1>1. Notifies
    BY DEF Notifies, waiterVars
  <1> QED
    BY <1>1, EntryFill

\* What is left of the SIB's tokens is as good as before when the requests they
\* are for are still awaited.
LEMMA TokensLeft ==
    ASSUME RegisteredInv, OwnershipInv, MailStep, sib' \subseteq sib, unsubs' \subseteq unsubs,
           \A t \in sib' \cup unsubs' : Awaited(t.for) => Awaited(t.for)'
    PROVE  /\ TokenInv'
           /\ \A f : NoToken(f) => NoToken(f)'
  <1>1. key' = key /\ op' = op /\ subid' = subid
    BY MailLeaves DEF threadVars
  <1> QED
    BY <1>1 DEF OwnershipInv, TokenInv, NoToken

\* When nothing is newly granted, an id has one owner as before.
LEMMA GrantsLeft ==
    ASSUME RegisteredInv, OwnershipInv, MailStep,
           \A id \in SubIds : served'[id] = "unused" => served[id] = "unused",
           \A d \in Conns, id \in SubIds : GrantedTo(d, id)' => GrantedTo(d, id)
    PROVE  GrantInv'
  <1>1. /\ subscriptions' = subscriptions
        /\ \A d \in Conns, id \in SubIds : Owns(d, id)' => Owns(d, id)
    BY MailLeaves DEF threadVars, Owns
  <1> QED
    BY <1>1 DEF OwnershipInv, GrantInv

LEMMA GrantsFilled ==
    ASSUME UNCHANGED threadVars, cb' \in {None, cb},
           \A d \in Conns : pc[d] \in {"send", "wait", "build"} => rsp'[waiter'[d]] = rsp[waiter[d]]
    PROVE  \A d \in Conns, id \in SubIds : GrantedTo(d, id)' => GrantedTo(d, id)
  BY DEF GrantedTo, Grants, threadVars

\* A request that a callback is answering has no token any more, and two tokens
\* are never for one thread.
LEMMA OtherTokens ==
    ASSUME RegisteredInv, OwnershipInv, NEW f, f[1] \in Conns, f[2] # 0, Awaited(f)
    PROVE  /\ \A t \in sib \cup unsubs : Awaited(t.for) /\ t.for[1] = f[1] => t.for = f
           /\ \A t, s \in sib : t.for = f /\ s.for = f => t = s
           /\ \A t \in sib, s \in unsubs : ~(t.for = f /\ s.for = f)
  <1>1. \A t \in sib \cup unsubs : Awaited(t.for) /\ t.for[1] = f[1] => t.for = f
    BY DEF Awaited
  <1>2. \A t, s \in sib : t.for = f /\ s.for = f => t = s
    BY TokenTypes DEF RegisteredInv, OwnershipInv, TokenInv, Token
  <1>3. \A t \in sib, s \in unsubs : ~(t.for = f /\ s.for = f)
    BY DEF OwnershipInv, TokenInv
  <1> QED
    BY <1>1, <1>2, <1>3

\* The callback of a request's confirmation fills the waiter of the request.
LEMMA CompleteOwns ==
    ASSUME RegisteredInv, OwnershipInv, ~Dead, FillWaiter, ~strayed'
    PROVE  OwnershipInv'
  <1>1. /\ MailStep /\ cb # None /\ cb' = None /\ CompleteWith(cb.waiter, cb.msg)
        /\ UNCHANGED <<sib, unsubs, unsubcb, subscriptions, served>> /\ UNCHANGED threadVars
    BY DEF MailStep, Callback, FillWaiter, CompleteWaiter
  <1>2. SubTypeOK /\ MemoryTypeOK
    BY DEF RegisteredInv, SubTypeOK
  <1>3. cb.msg \in Message /\ cb.waiter \in Waiter
    BY <1>1, <1>2, TokenTypes
  <1>4. unsubcb = None
    BY <1>1 DEF OwnershipInv, UnsubscribeInv
  <1>5. OwnerInv' /\ CallbackInv' /\ UnsubscribeInv'
    BY <1>1, <1>4, OwnerMail DEF CallbackInv, UnsubscribeInv
  <1>6. CASE cb.msg.via = "ind"
    <2>1. PICK id : id = cb.msg.id
      OBVIOUS
    <2>2. id \in Ids
      BY <1>3, <1>6, <2>1, NamedId DEF Named
    <2>3. cb.waiter \in live => subscriptions[id] = cb.waiter
      BY <1>6, <2>1 DEF FillWaiter, Reused
    <2>4. Notifies
      <3>1. \A i \in Ids : i # id /\ subscriptions[i] # None => subscriptions[i] # subscriptions[id]
        BY <2>2 DEF RegisteredInv, TablesHoldLiveWaiters
      <3>2. rsp' = (IF cb.waiter \in live THEN [rsp EXCEPT ![cb.waiter] = cb.msg] ELSE rsp)
            /\ req_ready' = (IF cb.waiter \in live THEN [req_ready EXCEPT ![cb.waiter] = TRUE] ELSE req_ready)
        BY <1>1 DEF CompleteWith
      <3>3. \A w \in Waiter : (\A i \in Ids : subscriptions[i] # w) =>
               rsp'[w] = rsp[w] /\ req_ready'[w] = req_ready[w]
        BY <1>2, <2>2, <2>3, <3>2 DEF MemoryTypeOK
      <3>4. \A i \in Ids : i # id /\ subscriptions[i] # None => rsp'[subscriptions[i]] = rsp[subscriptions[i]]
        BY <1>2, <2>2, <2>3, <3>1, <3>2 DEF MemoryTypeOK
      <3>5. subscriptions[id] # None =>
              \/ rsp'[subscriptions[id]] = rsp[subscriptions[id]]
              \/ rsp'[subscriptions[id]] = cb.msg
        BY <1>2, <2>2, <2>3, <3>2 DEF MemoryTypeOK
      <3> QED
        BY <1>6, <2>1, <3>3, <3>4, <3>5 DEF Notifies
    <2>5. /\ SlotInv' /\ EntryInv'
          /\ \A d \in Conns : pc[d] \in {"send", "wait", "build"} => rsp'[waiter'[d]] = rsp[waiter[d]]
          /\ \A f : f[1] \in Conns /\ Awaited(f) => Awaited(f)'
      BY <1>1, <2>4, EntryFill
    <2>6. TokenInv'
      BY <1>1, <1>2, <2>5, TokenTypes, TokensLeft
    <2>7. GrantInv'
      BY <1>1, <2>5, GrantsFilled, GrantsLeft
    <2> QED
      BY <1>5, <2>5, <2>6, <2>7 DEF OwnershipInv
  <1>7. CASE cb.msg.via # "ind"
    <2>1. PICK f : f = cb.msg.for
      OBVIOUS
    <2>2. /\ f \in Id /\ Awaited(f) /\ cb.waiter = waiter[f[1]] /\ cb.msg.via = op[f[1]]
          /\ NoToken(f)
      BY <1>1, <1>7, <2>1 DEF OwnershipInv, CallbackInv
    <2>3. PICK c \in Conns : c = f[1]
      BY <2>2 DEF Id
    <2>4. f[2] # 0 /\ pc[c] = "wait"
      BY <2>2, <2>3 DEF Id, Awaited
    <2>5. /\ waiter[c] \in live /\ waiter[c] \in Waiter
      BY <2>4, RequestWaiter
    <2>6. /\ rsp' = [rsp EXCEPT ![waiter[c]] = cb.msg]
          /\ req_ready' = [req_ready EXCEPT ![waiter[c]] = TRUE]
      BY <1>1, <2>2, <2>3, <2>5 DEF CompleteWith
    <2>7. rsp'[waiter[c]] = cb.msg
      BY <1>2, <2>5, <2>6 DEF MemoryTypeOK
    <2>8. Answers(c)
      <3>1. \A w \in Waiter \ {waiter[c]} : rsp'[w] = rsp[w] /\ req_ready'[w] = req_ready[w]
        BY <1>2, <2>6 DEF MemoryTypeOK
      <3> QED
        BY <1>3, <2>2, <2>3, <2>4, <2>7, <3>1, NullIsNoSubMessage DEF Answers
    <2>9. /\ SlotInv' /\ EntryInv'
          /\ \A d \in Conns \ {c} : pc[d] \in {"send", "wait", "build"} => rsp'[waiter'[d]] = rsp[waiter[d]]
          /\ \A g : g[1] \in Conns \ {c} /\ Awaited(g) => Awaited(g)'
      BY <1>1, <2>8, AnswerFill
    <2>10. \A t \in sib \cup unsubs : Awaited(t.for) => t.for[1] \in Conns \ {c}
      BY <1>2, <2>2, <2>3, <2>4, OtherTokens, TokenTypes DEF NoToken
    <2>11. TokenInv'
      BY <1>1, <2>9, <2>10, TokensLeft
    <2>12. \A d \in Conns, id \in SubIds : GrantedTo(d, id)' => GrantedTo(d, id)
      <3>1. ASSUME NEW d \in Conns, NEW id \in SubIds, GrantedTo(d, id)'
            PROVE  GrantedTo(d, id)
        <4>1. pc[d] \in {"wait", "build"} /\ Grants(rsp'[waiter'[d]], id)
          BY <1>1, <3>1 DEF GrantedTo, Grants, threadVars
        <4>2. CASE d = c
          <5>1. Grants(cb.msg, id)
            BY <1>1, <2>7, <4>1, <4>2 DEF threadVars
          <5> QED
            BY <1>1, <2>1, <2>3, <4>2, <5>1 DEF GrantedTo
        <4>3. CASE d # c
          BY <2>9, <4>1, <4>3 DEF GrantedTo
        <4> QED
          BY <4>2, <4>3
      <3> QED
        BY <3>1
    <2>13. GrantInv'
      BY <1>1, <2>12, GrantsLeft
    <2> QED
      BY <1>5, <2>9, <2>11, <2>13 DEF OwnershipInv
  <1> QED
    BY <1>6, <1>7

\* What the unsubscribe callback knows of the request it answers.
LEMMA UnsubscribeAwaited ==
    ASSUME RegisteredInv, OwnershipInv, unsubcb # None
    PROVE  LET f == unsubcb.t.for  c == unsubcb.t.for[1] IN
           /\ cb = None /\ c \in Conns /\ f[2] # 0 /\ Awaited(f) /\ NoToken(f)
           /\ pc[c] = "wait" /\ op[c] = "unsubscribe" /\ unsubcb.waiter = waiter[c]
           /\ waiter[c] \in live /\ waiter[c] \in Waiter
           /\ \A t \in sib \cup unsubs : Awaited(t.for) => t.for[1] \in Conns \ {c}
  <1>1. SubTypeOK
    BY DEF RegisteredInv
  <1>2. PICK f : f = unsubcb.t.for
    OBVIOUS
  <1>3. PICK c : c = f[1]
    OBVIOUS
  <1>4. /\ cb = None /\ f[2] # 0 /\ Awaited(f) /\ NoToken(f)
        /\ op[c] = "unsubscribe" /\ unsubcb.waiter = waiter[c] /\ c \in Conns
    BY <1>1, <1>2, <1>3, TokenTypes DEF OwnershipInv, UnsubscribeInv
  <1>5. pc[c] = "wait"
    BY <1>3, <1>4 DEF Awaited
  <1>6. \A t \in sib \cup unsubs : Awaited(t.for) => t.for[1] \in Conns \ {c}
    BY <1>1, <1>3, <1>4, OtherTokens, TokenTypes DEF NoToken
  <1> QED
    BY <1>2, <1>3, <1>4, <1>5, <1>6, RequestWaiter

\* handle_unsubscribe_cnf finds a subwaiter, or writes its own waiter.
LEMMA LookUpOwns ==
    ASSUME RegisteredInv, OwnershipInv, ~Dead, LookUpSubwaiter
    PROVE  OwnershipInv'
  <1>1. /\ MailStep /\ unsubcb # None
        /\ \/ rsp' = rsp
           \/ rsp' = [rsp EXCEPT ![unsubcb.waiter] = Unsubscribed(unsubcb.t, "failed")]
        /\ UNCHANGED <<live, fd, req_ready, sib, cb, unsubs, subscriptions, served>>
        /\ UNCHANGED threadVars
    BY DEF MailStep, Callback, LookUpSubwaiter
  <1>2. unsubcb'.t = unsubcb.t /\ unsubcb'.waiter = unsubcb.waiter
    <2>1. unsubcb \in [step: {"lookup", "fill", "complete"}, waiter: Waiter,
                       sub: Waiter \cup {None}, t: UnsubToken, status: {"ok", "failed"}]
      BY <1>1 DEF RegisteredInv, SubTypeOK, MailTypeOK
    <2> QED
      BY <2>1 DEF LookUpSubwaiter
  <1>3. PICK f : f = unsubcb.t.for
    OBVIOUS
  <1>4. PICK c : c = f[1]
    OBVIOUS
  <1>5. /\ cb = None /\ c \in Conns /\ f[2] # 0 /\ Awaited(f) /\ NoToken(f)
        /\ pc[c] = "wait" /\ op[c] = "unsubscribe" /\ unsubcb.waiter = waiter[c]
        /\ waiter[c] \in live /\ waiter[c] \in Waiter
        /\ \A t \in sib \cup unsubs : Awaited(t.for) => t.for[1] \in Conns \ {c}
    BY <1>1, <1>3, <1>4, UnsubscribeAwaited
  <1>6. PICK m : m = Unsubscribed(unsubcb.t, "failed")
    OBVIOUS
  <1>7. m # None /\ m.via = "unsubscribe"
    <2>1. unsubcb.t \in UnsubToken
      BY <1>1, TokenTypes DEF RegisteredInv
    <2>2. m \in Message
      BY <1>6, <2>1 DEF Unsubscribed, Message, Unsubscriptions, UnsubToken
    <2> QED
      BY <1>6, <2>2, NullIsNoSubMessage DEF Unsubscribed
  <1>8. /\ \A w \in Waiter \ {waiter[c]} : rsp'[w] = rsp[w]
        /\ rsp'[waiter[c]] = rsp[waiter[c]] \/ rsp'[waiter[c]] = m
    BY <1>1, <1>5, <1>6 DEF RegisteredInv, SubTypeOK, MemoryTypeOK
  <1>9. Answers(c)
    BY <1>1, <1>5, <1>7, <1>8 DEF Answers
  <1>10. /\ SlotInv' /\ EntryInv' /\ OwnerInv'
         /\ \A d \in Conns \ {c} : pc[d] \in {"send", "wait", "build"} => rsp'[waiter'[d]] = rsp[waiter[d]]
    BY <1>1, <1>5, <1>9, AnswerFill, OwnerMail
  <1>11. \A g : Awaited(g) => Awaited(g)'
    BY <1>1 DEF Awaited, CurrentId, threadVars
  <1>12. TokenInv' /\ NoToken(f)'
    BY <1>1, <1>5, <1>11, TokensLeft
  <1>13. CallbackInv' /\ UnsubscribeInv'
    BY <1>1, <1>2, <1>3, <1>4, <1>5, <1>11, <1>12 DEF CallbackInv, UnsubscribeInv, threadVars
  <1>14. \A d \in Conns, id \in SubIds : GrantedTo(d, id)' => GrantedTo(d, id)
    <2>1. ASSUME NEW d \in Conns, NEW id \in SubIds, GrantedTo(d, id)'
          PROVE  GrantedTo(d, id)
      <3>1. pc[d] \in {"wait", "build"} /\ Grants(rsp'[waiter'[d]], id)
        BY <1>1, <1>5, <2>1 DEF GrantedTo, Grants, threadVars
      <3>2. CASE d # c
        BY <1>10, <3>1, <3>2 DEF GrantedTo
      <3>3. CASE d = c
        BY <1>1, <1>7, <1>8, <3>1, <3>3 DEF GrantedTo, Grants, threadVars
      <3> QED
        BY <3>2, <3>3
    <2> QED
      BY <2>1
  <1>15. GrantInv'
    BY <1>1, <1>14, GrantsLeft
  <1> QED
    BY <1>10, <1>12, <1>13, <1>15 DEF OwnershipInv

\* It fills the subwaiter,
LEMMA SubwaiterOwns ==
    ASSUME RegisteredInv, OwnershipInv, ~Dead, CompleteSubwaiter, ~strayed'
    PROVE  OwnershipInv'
  <1>1. /\ MailStep /\ unsubcb # None /\ unsubcb.step = "fill"
        /\ CompleteWith(unsubcb.sub, Unsubscribed(unsubcb.t, unsubcb.status))
        /\ unsubcb' = [unsubcb EXCEPT !.step = "complete"]
        /\ UNCHANGED <<sib, cb, unsubs, subscriptions, served>>
        /\ UNCHANGED threadVars
    BY DEF MailStep, Callback, CompleteSubwaiter
  <1>2. /\ unsubcb \in [step: {"lookup", "fill", "complete"}, waiter: Waiter,
                       sub: Waiter \cup {None}, t: UnsubToken, status: {"ok", "failed"}]
        /\ MemoryTypeOK /\ SubTypeOK
    BY <1>1 DEF RegisteredInv, SubTypeOK, MailTypeOK
  <1>3. unsubcb'.t = unsubcb.t /\ unsubcb'.waiter = unsubcb.waiter /\ unsubcb'.step = "complete"
    BY <1>1, <1>2
  <1>4. PICK f : f = unsubcb.t.for
    OBVIOUS
  <1>5. /\ cb = None /\ f[1] \in Conns /\ f[2] # 0 /\ Awaited(f) /\ NoToken(f)
        /\ op[f[1]] = "unsubscribe" /\ unsubcb.waiter = waiter[f[1]]
    BY <1>1, <1>4, UnsubscribeAwaited
  <1>6. PICK id : id = unsubcb.t.id
    OBVIOUS
  <1>7. PICK m : m = Unsubscribed(unsubcb.t, unsubcb.status)
    OBVIOUS
  <1>8. m.via = "unsubscribe" /\ m.id = id /\ id \in Ids
    BY <1>2, <1>6, <1>7 DEF Unsubscribed, UnsubToken
  <1>9. unsubcb.sub \in live => subscriptions[id] = unsubcb.sub
    BY <1>6 DEF CompleteSubwaiter, Reused
  <1>10. Notifies
    <2>1. \A i \in Ids : i # id /\ subscriptions[i] # None => subscriptions[i] # subscriptions[id]
      BY <1>8 DEF RegisteredInv, TablesHoldLiveWaiters
    <2>2. rsp' = (IF unsubcb.sub \in live THEN [rsp EXCEPT ![unsubcb.sub] = m] ELSE rsp)
          /\ req_ready' = (IF unsubcb.sub \in live THEN [req_ready EXCEPT ![unsubcb.sub] = TRUE]
                           ELSE req_ready)
      BY <1>1, <1>7 DEF CompleteWith
    <2>3. \A w \in Waiter : (\A i \in Ids : subscriptions[i] # w) =>
             rsp'[w] = rsp[w] /\ req_ready'[w] = req_ready[w]
      BY <1>2, <1>8, <1>9, <2>2 DEF MemoryTypeOK
    <2>4. \A i \in Ids : i # id /\ subscriptions[i] # None => rsp'[subscriptions[i]] = rsp[subscriptions[i]]
      BY <1>2, <1>8, <1>9, <2>1, <2>2 DEF MemoryTypeOK
    <2>5. subscriptions[id] # None =>
            \/ rsp'[subscriptions[id]] = rsp[subscriptions[id]]
            \/ rsp'[subscriptions[id]] = m
      BY <1>2, <1>8, <1>9, <2>2 DEF MemoryTypeOK
    <2> QED
      BY <1>8, <2>3, <2>4, <2>5 DEF Notifies
  <1>11. /\ SlotInv' /\ EntryInv' /\ OwnerInv'
         /\ \A d \in Conns : pc[d] \in {"send", "wait", "build"} => rsp'[waiter'[d]] = rsp[waiter[d]]
         /\ \A g : g[1] \in Conns /\ Awaited(g) => Awaited(g)'
    BY <1>1, <1>10, EntryFill, OwnerMail
  <1>12. TokenInv' /\ NoToken(f)'
    BY <1>1, <1>2, <1>5, <1>11, TokenTypes, TokensLeft
  <1>13. CallbackInv' /\ UnsubscribeInv'
    BY <1>1, <1>3, <1>4, <1>5, <1>11, <1>12 DEF CallbackInv, UnsubscribeInv, threadVars
  <1>14. GrantInv'
    BY <1>1, <1>11, GrantsFilled, GrantsLeft
  <1> QED
    BY <1>11, <1>12, <1>13, <1>14 DEF OwnershipInv

\* and signals the thread of the unsubscribe.
LEMMA UnsubscribeOwns ==
    ASSUME RegisteredInv, OwnershipInv, ~Dead, CompleteUnsubscribe
    PROVE  OwnershipInv'
  <1>1. /\ MailStep /\ unsubcb # None /\ unsubcb' = None
        /\ CompleteWith(unsubcb.waiter, rsp[unsubcb.waiter])
        /\ UNCHANGED <<sib, cb, unsubs, subscriptions, served>>
        /\ UNCHANGED threadVars
    BY DEF MailStep, Callback, CompleteUnsubscribe
  <1>2. PICK c : c = unsubcb.t.for[1]
    OBVIOUS
  <1>3. /\ cb = None /\ c \in Conns /\ pc[c] = "wait" /\ unsubcb.waiter = waiter[c]
        /\ waiter[c] \in live /\ waiter[c] \in Waiter
        /\ \A t \in sib \cup unsubs : Awaited(t.for) => t.for[1] \in Conns \ {c}
    BY <1>1, <1>2, UnsubscribeAwaited
  <1>4. /\ \A w \in Waiter \ {waiter[c]} : req_ready'[w] = req_ready[w]
        /\ rsp' = rsp
    BY <1>1, <1>3 DEF CompleteWith, RegisteredInv, SubTypeOK, MemoryTypeOK
  <1>5. Answers(c)
    BY <1>3, <1>4 DEF Answers
  <1>6. /\ SlotInv' /\ EntryInv' /\ OwnerInv'
        /\ \A g : g[1] \in Conns \ {c} /\ Awaited(g) => Awaited(g)'
    BY <1>1, <1>3, <1>5, AnswerFill, OwnerMail
  <1>7. TokenInv'
    BY <1>1, <1>3, <1>6, TokensLeft
  <1>8. CallbackInv' /\ UnsubscribeInv'
    BY <1>1, <1>3 DEF CallbackInv, UnsubscribeInv
  <1>9. \A d \in Conns : pc[d] \in {"send", "wait", "build"} => rsp'[waiter'[d]] = rsp[waiter[d]]
    BY <1>1, <1>4 DEF threadVars
  <1>10. GrantInv'
    BY <1>1, <1>9, GrantsFilled, GrantsLeft
  <1> QED
    BY <1>6, <1>7, <1>8, <1>10 DEF OwnershipInv

\* The wake thread empties the slots of entries.
LEMMA WakeOwns ==
    ASSUME RegisteredInv, OwnershipInv, ~Dead, WakeRound
    PROVE  OwnershipInv'
  <1>1. /\ MailStep /\ UNCHANGED <<sib, cb, unsubs, unsubcb, subscriptions, served>>
        /\ UNCHANGED threadVars
    BY DEF MailStep, WakeRound, subVars
  <1>2. Notifies
    BY DEF WakeRound, Notifies, RegisteredInv, SubTypeOK, MemoryTypeOK
  <1>3. /\ SlotInv' /\ EntryInv' /\ OwnerInv'
        /\ \A d \in Conns : pc[d] \in {"send", "wait", "build"} => rsp'[waiter'[d]] = rsp[waiter[d]]
        /\ \A g : g[1] \in Conns /\ Awaited(g) => Awaited(g)'
    BY <1>1, <1>2, EntryFill, OwnerMail
  <1>4. TokenInv' /\ \A f : NoToken(f) => NoToken(f)'
    BY <1>1, <1>3, TokenTypes, TokensLeft DEF RegisteredInv
  <1>5. CallbackInv'
    BY <1>1, <1>3, <1>4 DEF OwnershipInv, CallbackInv, threadVars, Id
  <1>6. UnsubscribeInv'
    BY <1>1, <1>3, <1>4, UnsubscribeAwaited DEF OwnershipInv, UnsubscribeInv, threadVars
  <1>7. GrantInv'
    BY <1>1, <1>3, GrantsFilled, GrantsLeft
  <1> QED
    BY <1>3, <1>4, <1>5, <1>6, <1>7 DEF OwnershipInv

\* A token is of the request its thread waits for, and finds its waiter.
LEMMA TokenFindsWaiter ==
    ASSUME RegisteredInv, OwnershipInv, NEW t \in sib
    PROVE  LET c == t.for[1] IN
           /\ c \in Conns /\ t.for \in Id /\ t.for[2] # 0 /\ Awaited(t.for)
           /\ requests[t.key] = waiter[c] /\ t.kind = op[c]
           /\ \A s \in (sib \ {t}) \cup unsubs : s.for # t.for
  <1>1. SubTypeOK
    BY DEF RegisteredInv
  <1>2. PICK c \in Conns : c = t.for[1]
    BY <1>1, TokenTypes
  <1>3. Awaited(t.for) /\ t.key = key[c] /\ t.kind = op[c] /\ t.for \in Id /\ t.for[2] # 0
    BY <1>1, <1>2, TokenTypes DEF OwnershipInv, TokenInv
  <1>4. requests[t.key] = waiter[c]
    BY <1>2, <1>3, RequestWaiter DEF Awaited
  <1>5. \A s \in (sib \ {t}) \cup unsubs : s.for # t.for
    BY <1>2, <1>3, OtherTokens
  <1> QED
    BY <1>2, <1>3, <1>4, <1>5

LEMMA ConfirmationOwns ==
    ASSUME RegisteredInv, OwnershipInv, ~Dead, NEW t \in sib, NEW status \in {"ok", "failed"},
           MainLoopFree, ConfirmationArrives(t, status), UNCHANGED subVars
    PROVE  OwnershipInv'
  <1>1. /\ MailStep /\ UNCHANGED waiterVars /\ UNCHANGED threadVars
        /\ sib' = sib \ {t} /\ unsubs' = unsubs /\ unsubcb' = None
        /\ UNCHANGED <<subscriptions, served>>
    BY DEF MailStep, SibAnswers, ConfirmationArrives, MainLoopFree, subVars
  <1>2. PICK m : m = [for |-> t.for, via |-> t.kind, status |-> status]
    OBVIOUS
  <1>3. t.kind \in SimpleKinds /\ (cb' = None \/ cb' = [waiter |-> requests[t.key], msg |-> m])
    BY <1>2 DEF ConfirmationArrives
  <1>4. /\ t.for[1] \in Conns /\ t.for \in Id /\ Awaited(t.for)
        /\ requests[t.key] = waiter[t.for[1]] /\ t.kind = op[t.for[1]]
        /\ \A s \in (sib \ {t}) \cup unsubs : s.for # t.for
    BY TokenFindsWaiter
  <1>5. /\ SlotInv' /\ EntryInv' /\ OwnerInv'
        /\ \A d \in Conns : pc[d] \in {"send", "wait", "build"} => rsp'[waiter'[d]] = rsp[waiter[d]]
        /\ \A g : g[1] \in Conns /\ Awaited(g) => Awaited(g)'
    BY <1>1, NoFill, OwnerMail
  <1>6. TokenInv'
    BY <1>1, <1>5, TokenTypes, TokensLeft DEF RegisteredInv
  <1>7. UnsubscribeInv'
    BY <1>1 DEF UnsubscribeInv
  <1>8. CallbackInv'
    <2> SUFFICES ASSUME cb' # None PROVE CallbackInv'
      BY DEF CallbackInv
    <2>1. cb'.waiter = requests[t.key] /\ cb'.msg = m
      BY <1>3
    <2>2. m.for = t.for /\ m.via = t.kind
      BY <1>2
    <2>3. NoToken(t.for)'
      BY <1>1, <1>4 DEF NoToken
    <2>4. Awaited(t.for)'
      BY <1>4, <1>5
    <2>5. cb'.msg.for = t.for /\ cb'.msg.via = op'[t.for[1]] /\ cb'.waiter = waiter'[t.for[1]]
      BY <1>1, <1>4, <2>1, <2>2 DEF threadVars
    <2> QED
      BY <1>4, <2>3, <2>4, <2>5 DEF CallbackInv
  <1>9. ~(cb' # None /\ cb'.msg.via = "subscribe")
    BY <1>2, <1>3 DEF SimpleKinds
  <1>10. \A d \in Conns, id \in SubIds : GrantedTo(d, id)' => GrantedTo(d, id)
    BY <1>1, <1>5, <1>9 DEF GrantedTo, Grants, threadVars
  <1>11. GrantInv'
    BY <1>1, <1>10, GrantsLeft
  <1> QED
    BY <1>5, <1>6, <1>7, <1>8, <1>11 DEF OwnershipInv

LEMMA SubscribeOwns ==
    ASSUME RegisteredInv, OwnershipInv, ~Dead, NEW t \in sib, NEW id \in Ids,
           SubscribeConfirmed(t, id)
    PROVE  OwnershipInv'
  <1>1. /\ MailStep /\ UNCHANGED waiterVars /\ UNCHANGED threadVars
        /\ sib' = sib \ {t} /\ unsubs' = unsubs /\ unsubcb' = None /\ cb = None
        /\ UNCHANGED <<subscriptions, subid>>
    BY DEF MailStep, SibAnswers, SubscribeConfirmed, MainLoopFree
  <1>2. PICK m : m = [via |-> "subscribe", for |-> t.for, id |-> id,
                      status |-> IF id = NoSub THEN "failed" ELSE "ok"]
    OBVIOUS
  <1>3. t.kind = "subscribe" /\ (cb' = None \/ cb' = [waiter |-> requests[t.key], msg |-> m])
    BY <1>2 DEF SubscribeConfirmed
  <1>4. /\ t.for[1] \in Conns /\ t.for \in Id /\ Awaited(t.for)
        /\ requests[t.key] = waiter[t.for[1]] /\ t.kind = op[t.for[1]]
        /\ \A s \in (sib \ {t}) \cup unsubs : s.for # t.for
    BY TokenFindsWaiter
  <1>5. /\ SlotInv' /\ EntryInv' /\ OwnerInv'
        /\ \A d \in Conns : pc[d] \in {"send", "wait", "build"} => rsp'[waiter'[d]] = rsp[waiter[d]]
        /\ \A g : g[1] \in Conns /\ Awaited(g) => Awaited(g)'
    BY <1>1, NoFill, OwnerMail
  <1>6. TokenInv'
    BY <1>1, <1>5, TokenTypes, TokensLeft DEF RegisteredInv
  <1>7. UnsubscribeInv'
    BY <1>1 DEF UnsubscribeInv
  <1>8. CallbackInv'
    <2> SUFFICES ASSUME cb' # None PROVE CallbackInv'
      BY DEF CallbackInv
    <2>1. cb'.waiter = requests[t.key] /\ cb'.msg = m
      BY <1>3
    <2>2. m.for = t.for /\ m.via = t.kind
      BY <1>2, <1>3
    <2>3. NoToken(t.for)'
      BY <1>1, <1>4 DEF NoToken
    <2>4. Awaited(t.for)'
      BY <1>4, <1>5
    <2>5. cb'.msg.for = t.for /\ cb'.msg.via = op'[t.for[1]] /\ cb'.waiter = waiter'[t.for[1]]
      BY <1>1, <1>4, <2>1, <2>2 DEF threadVars
    <2> QED
      BY <1>4, <2>3, <2>4, <2>5 DEF CallbackInv
  <1>9. ASSUME NEW d \in Conns, NEW i \in SubIds, GrantedTo(d, i)'
        PROVE  GrantedTo(d, i) \/ (d = t.for[1] /\ i = id)
    <2>1. CASE cb' # None /\ Grants(cb'.msg, i) /\ cb'.msg.for[1] = d
      BY <1>2, <1>3, <2>1 DEF Grants
    <2>2. CASE pc'[d] \in {"wait", "build"} /\ Grants(rsp'[waiter'[d]], i)
      BY <1>1, <1>5, <2>2 DEF GrantedTo, threadVars
    <2> QED
      BY <1>9, <2>1, <2>2 DEF GrantedTo
  <1>10. /\ id \in SubIds => served[id] = "unused"
         /\ \A i \in SubIds \ {id} : served'[i] = served[i]
         /\ id \in SubIds => served'[id] = "active"
    BY SubscriptionsAssumption DEF SubscribeConfirmed, RegisteredInv, SubTypeOK, MailTypeOK
  <1>11. \A d \in Conns, i \in SubIds : Owns(d, i)' <=> Owns(d, i)
    BY <1>1 DEF Owns, threadVars
  <1>12. GrantInv
    BY DEF OwnershipInv
  <1>13. ASSUME NEW i \in SubIds, served'[i] = "unused"
         PROVE  subscriptions'[i] = None /\ \A d \in Conns : ~GrantedTo(d, i)' /\ ~Owns(d, i)'
    BY <1>1, <1>9, <1>10, <1>11, <1>12, <1>13 DEF GrantInv
  <1>14. ASSUME NEW i \in SubIds, NEW d \in Conns, GrantedTo(d, i)'
         PROVE  /\ subscriptions'[i] = None
                /\ \A e \in Conns : ~Owns(e, i)' /\ (GrantedTo(e, i)' => e = d)
    <2>1. CASE i = id
      <3>1. subscriptions[i] = None /\ \A e \in Conns : ~GrantedTo(e, i) /\ ~Owns(e, i)
        BY <1>10, <1>12, <2>1 DEF GrantInv
      <3> QED
        BY <1>1, <1>9, <1>11, <1>14, <3>1
    <2>2. CASE i # id
      <3>1. GrantedTo(d, i)
        BY <1>9, <1>14, <2>2
      <3> QED
        BY <1>1, <1>9, <1>11, <1>12, <2>2, <3>1 DEF GrantInv
    <2> QED
      BY <2>1, <2>2
  <1>15. GrantInv'
    BY <1>13, <1>14 DEF GrantInv
  <1> QED
    BY <1>5, <1>6, <1>7, <1>8, <1>15 DEF OwnershipInv

LEMMA IndicationOwns ==
    ASSUME RegisteredInv, OwnershipInv, ~Dead, NEW id \in SubIds, IndicationArrives(id)
    PROVE  OwnershipInv'
  <1>1. /\ MailStep /\ UNCHANGED waiterVars /\ UNCHANGED threadVars
        /\ UNCHANGED <<sib, unsubs, unsubcb, subscriptions, served>> /\ unsubcb = None
        /\ cb' = None \/ cb' = [waiter |-> subscriptions[id], msg |-> Indication(id, sent[id] + 1)]
    BY DEF MailStep, SibNotifies, IndicationArrives, MainLoopFree
  <1>2. cb' # None => cb'.msg.via = "ind"
    BY <1>1 DEF Indication
  <1>3. /\ SlotInv' /\ EntryInv' /\ OwnerInv'
        /\ \A d \in Conns : pc[d] \in {"send", "wait", "build"} => rsp'[waiter'[d]] = rsp[waiter[d]]
        /\ \A g : g[1] \in Conns /\ Awaited(g) => Awaited(g)'
    BY <1>1, NoFill, OwnerMail
  <1>4. TokenInv'
    BY <1>1, <1>3, TokenTypes, TokensLeft DEF RegisteredInv
  <1>5. CallbackInv' /\ UnsubscribeInv'
    BY <1>1, <1>2 DEF CallbackInv, UnsubscribeInv
  <1>6. \A d \in Conns, i \in SubIds : GrantedTo(d, i)' => GrantedTo(d, i)
    BY <1>1, <1>2, <1>3 DEF GrantedTo, Grants, threadVars
  <1>7. GrantInv'
    BY <1>1, <1>6, GrantsLeft
  <1> QED
    BY <1>3, <1>4, <1>5, <1>7 DEF OwnershipInv

\* The confirmation of an unsubscribe a thread sent itself finds no request, or it
\* has strayed.
LEMMA UnsubscribeConfirmedOwns ==
    ASSUME RegisteredInv, OwnershipInv, ~Dead, NEW t \in unsubs,
           UnsubscribeConfirmed(t), ~strayed'
    PROVE  OwnershipInv'
  <1>1. /\ MailStep /\ UNCHANGED waiterVars /\ UNCHANGED threadVars
        /\ unsubs' = unsubs \ {t} /\ sib' = sib /\ cb = None /\ cb' = None
        /\ UNCHANGED subscriptions
        /\ served' = [served EXCEPT ![t.id] = "ended"]
        /\ requests[t.key] = None => unsubcb' = None
    BY DEF MailStep, SibAnswers, UnsubscribeConfirmed, MainLoopFree
  <1>2. PICK s : s = IF t.id \in SubIds /\ served[t.id] = "active" THEN "ok" ELSE "failed"
    OBVIOUS
  <1>3. unsubcb' = None \/ unsubcb' = [step |-> "lookup", waiter |-> requests[t.key], sub |-> None,
                                       t |-> t, status |-> s]
    BY <1>2 DEF UnsubscribeConfirmed
  <1>4. t.for[1] \in Conns /\ t.key \in Keys /\ SubTypeOK
    BY TokenTypes DEF RegisteredInv
  <1>5. /\ SlotInv' /\ EntryInv' /\ OwnerInv'
        /\ \A d \in Conns : pc[d] \in {"send", "wait", "build"} => rsp'[waiter'[d]] = rsp[waiter[d]]
        /\ \A g : g[1] \in Conns /\ Awaited(g) => Awaited(g)'
    BY <1>1, NoFill, OwnerMail
  <1>6. TokenInv'
    BY <1>1, <1>4, <1>5, TokenTypes, TokensLeft
  <1>7. CallbackInv'
    BY <1>1 DEF CallbackInv
  <1>8. UnsubscribeInv'
    <2> SUFFICES ASSUME unsubcb' # None PROVE UnsubscribeInv'
      BY DEF UnsubscribeInv
    <2>1. requests[t.key] # None
      BY <1>1
    <2>2. /\ t.for[2] # 0 /\ Awaited(t.for) /\ t.key = key[t.for[1]] /\ op[t.for[1]] = "unsubscribe"
      <3>1. t.for[2] # 0
        BY <2>1 DEF UnsubscribeConfirmed
      <3> QED
        BY <3>1 DEF OwnershipInv, TokenInv
    <2>3. requests[t.key] = waiter[t.for[1]]
      BY <1>4, <2>2, RequestWaiter DEF Awaited
    <2>4. \A x \in (unsubs \ {t}) \cup sib : x.for # t.for
      <3>1. \A x \in sib : x.for # t.for
        BY <1>4, <2>2, OtherTokens
      <3>2. ASSUME NEW x \in unsubs, x.for = t.for PROVE x = t
        <4>1. x.key = t.key /\ x.id = t.id
          BY <2>2, <3>2 DEF OwnershipInv, TokenInv
        <4> QED
          BY <1>4, <3>2, <4>1, TokenTypes DEF UnsubToken
      <3> QED
        BY <3>1, <3>2
    <2>5. NoToken(t.for)'
      BY <1>1, <2>4 DEF NoToken
    <2>6. unsubcb'.t = t /\ unsubcb'.waiter = requests[t.key]
      BY <1>3
    <2> QED
      BY <1>1, <1>4, <1>5, <2>2, <2>3, <2>5, <2>6 DEF UnsubscribeInv, threadVars
  <1>9. \A i \in SubIds : served'[i] = "unused" => served[i] = "unused"
    BY <1>1, <1>4 DEF SubTypeOK, MailTypeOK
  <1>10. \A d \in Conns, i \in SubIds : GrantedTo(d, i)' => GrantedTo(d, i)
    BY <1>1, <1>5, GrantsFilled
  <1>11. GrantInv'
    BY <1>1, <1>9, <1>10, GrantsLeft
  <1> QED
    BY <1>5, <1>6, <1>7, <1>8, <1>11 DEF OwnershipInv

LEMMA OwnershipMail ==
    ASSUME RegisteredInv, OwnershipInv, MailStep, ~strayed'
    PROVE  OwnershipInv'
  <1>1. ~Dead
    BY DEF MailStep, Callback, SibAnswers, SibNotifies
  <1>2. CASE Callback
    BY <1>1, <1>2, CompleteOwns, LookUpOwns, SubwaiterOwns, UnsubscribeOwns DEF Callback
  <1>3. CASE SibAnswers
    BY <1>1, <1>3, ConfirmationOwns, SubscribeOwns, UnsubscribeConfirmedOwns DEF SibAnswers
  <1>4. CASE SibNotifies
    BY <1>1, <1>4, IndicationOwns DEF SibNotifies
  <1>5. CASE WakeRound
    BY <1>1, <1>5, WakeOwns
  <1> QED
    BY <1>2, <1>3, <1>4, <1>5 DEF MailStep

LEMMA OwnershipNext ==
    ASSUME KeysApart
    PROVE  RegisteredInv /\ OwnershipInv /\ [SubNext]_vars /\ ~strayed' => OwnershipInv'
  <1> SUFFICES ASSUME RegisteredInv, OwnershipInv, [SubNext]_vars, ~strayed'
               PROVE  OwnershipInv'
    OBVIOUS
  <1>1. CASE UNCHANGED vars
    <2> USE <1>1 DEF vars, requestVars, waiterVars, threadVars, subVars, OwnershipInv
    <2>1. TokenInv' /\ CallbackInv' /\ UnsubscribeInv' /\ SlotInv'
      BY DEF TokenInv, CallbackInv, UnsubscribeInv, SlotInv, Awaited, NoToken, CurrentId
    <2>2. GrantInv' /\ OwnerInv' /\ EntryInv'
      BY DEF GrantInv, OwnerInv, EntryInv, GrantedTo, Grants, Owns
    <2> QED
      BY <2>1, <2>2
  <1>2. ASSUME NEW c \in Conns, ThreadAct(c) PROVE OwnershipInv'
    BY <1>2, TokenThread, CallbackThread, SlotThread, GrantThread, OwnerThread, EntryThread
       DEF OwnershipInv
  <1>3. CASE MailStep
    BY <1>3, OwnershipMail
  <1> QED
    BY <1>1, <1>2, <1>3, StepKinds

\* What has strayed stays so.
LEMMA StrayedStays ==
    ASSUME SubTypeOK, [SubNext]_vars, strayed PROVE strayed'
  <1>1. CASE UNCHANGED vars
    BY <1>1 DEF vars, subVars
  <1>2. ASSUME NEW c \in Conns, ThreadAct(c) PROVE strayed'
    BY <1>2, Posts DEF PostEffect
  <1>3. CASE MailStep
    BY <1>3 DEF MailStep, Callback, FillWaiter, LookUpSubwaiter, CompleteSubwaiter, CompleteUnsubscribe,
                SibAnswers, SubscribeConfirmed, UnsubscribeConfirmed, SibNotifies, IndicationArrives,
                WakeRound, subVars
  <1> QED
    BY <1>1, <1>2, <1>3, StepKinds

LEMMA OwnershipInit == SubInit => OwnershipInv
  <1> SUFFICES ASSUME SubInit PROVE OwnershipInv
    OBVIOUS
  <1>1. \A c \in Conns : pc[c] = "receive"
    BY DEF SubInit, RequestsInit
  <1>2. /\ sib = {} /\ unsubs = {} /\ cb = None /\ unsubcb = None
        /\ \A id \in Ids : subscriptions[id] = None
    BY DEF SubInit, RequestsInit
  <1>3. TokenInv /\ CallbackInv /\ UnsubscribeInv /\ SlotInv
    BY <1>1, <1>2 DEF TokenInv, CallbackInv, UnsubscribeInv, SlotInv
  <1>4. GrantInv /\ OwnerInv /\ EntryInv
    BY <1>1, <1>2 DEF GrantInv, OwnerInv, EntryInv, GrantedTo, Owns, Owning, Loop, Ids
  <1> QED
    BY <1>3, <1>4 DEF OwnershipInv

\* A subscriber in its loop owns the entry under its id until it takes it out,
\* whatever fails, breaks or is refused, as long as no message has strayed.
THEOREM SubscribersStayListed ==
    ASSUME KeysApart
    PROVE  SubSpec => [](~strayed => SubscriberStaysListed)
  <1>1. OwnershipInv => SubscriberStaysListed
    BY DEF OwnershipInv, OwnerInv, SubscriberStaysListed, Owning
  <1>2. RegisteredInv /\ (strayed \/ OwnershipInv) /\ [SubNext]_vars => (strayed \/ OwnershipInv)'
    BY OwnershipNext, StrayedStays DEF RegisteredInv
  <1> QED
    BY <1>1, <1>2, RegisteredInit, RegisteredNext, OwnershipInit, PTL DEF SubSpec

-----------------------------------------------------------------------------
(* No NULL message.                                                        *)

\* Where the loop counts on a message in the slot.
Reading == {"subfill", "subsend", "subfree", "subend", "subunlist", "indunsub", "indremove"}

FullInv ==
    \A c \in Conns :
        /\ pc[c] # "crashed"
        /\ pc[c] \in Reading => rsp[subwaiter[c]] # None

\* How a thread comes to count on a message, and how it meets NULL.
LEMMA SlotFlow ==
    ASSUME SubTypeOK, NEW c \in Conns, ThreadAct(c)
    PROVE  /\ pc'[c] = "crashed" =>
                /\ pc[c] \in Reading
                /\ RspRead(subwaiter[c]) = None \/ ~Named(RspRead(subwaiter[c]))
           /\ pc'[c] \in Reading =>
                /\ pc[c] \in Reading \cup {"subread"}
                /\ subwaiter'[c] = subwaiter[c] /\ rsp' = rsp
                /\ pc[c] = "subread" => RspRead(subwaiter[c]) # None
  <1> DEFINE Fine ==
           /\ pc'[c] = "crashed" =>
                /\ pc[c] \in Reading
                /\ RspRead(subwaiter[c]) = None \/ ~Named(RspRead(subwaiter[c]))
           /\ pc'[c] \in Reading =>
                /\ pc[c] \in Reading \cup {"subread"}
                /\ subwaiter'[c] = subwaiter[c] /\ rsp' = rsp
                /\ pc[c] = "subread" => RspRead(subwaiter[c]) # None
  <1>1. ASSUME NEW label, label \notin Reading \cup {"crashed"}, pc'[c] = label PROVE Fine
    BY <1>1
  <1>2. pc[c] # "crashed"
    BY DEF ThreadAct, ClientStep, HandlerStep, Dead
  <1>3. CASE ClientStep(c)
    <2>1. CASE Break(c) /\ UNCHANGED subVars
      BY <1>2, <2>1 DEF Break, threadVars, waiterVars, subVars, Reading
    <2>2. CASE pc'[c] \in {"send", "remove", "receive"}
      BY <2>2 DEF Reading
    <2>3. ASSUME NEW kind, NEW k, AddRequest(c, kind, k) \/ DropRequest(c, kind, k)
          PROVE  pc'[c] \in {"send", "receive"}
      BY <2>3 DEF AddRequest, DropRequest, Receive, SubTypeOK, LocalsTypeOK
    <2>4. ASSUME NEW k, NEW id, AddUnsubscribe(c, k, id) \/ DropUnsubscribe(c, k)
          PROVE  pc'[c] \in {"send", "remove"}
      BY <2>3, <2>4 DEF AddUnsubscribe, AddRequest, DropUnsubscribe, SubTypeOK, LocalsTypeOK
    <2> QED
      BY <1>3, <2>1, <2>2, <2>3, <2>4 DEF ClientStep
  <1>4. CASE RequestStep(c) \/ UnsubscribeStep(c)
    <2>1. pc'[c] \in {"wait", "build", "reply", "remove", "receive"}
      BY <1>4, Arrives DEF RequestStep, ThreadStep, SendRequest, RefuseRequest, Wake, BuildResponse,
           NoResponse, Reply, RemoveRequest, UnsubscribeStep, SendUnsubscribe, RefuseUnsubscribe,
           FinishUnsubscribe
    <2> QED
      BY <2>1 DEF Reading
  <1>5. CASE \/ RefuseSubscribe(c) \/ ForgetRefusal(c) \/ AbandonSubscribe(c) \/ Acknowledge(c)
             \/ RegisterSubwaiter(c) \/ Unlist(c) \/ TellRefusal(c) \/ CloseSocket(c)
             \/ WakeSubscriber(c) \/ FreeSlot(c) \/ Probe(c)
    <2>1. pc'[c] \in {"refused", "receive", "nullsub", "ack", "unlist", "remove", "registered", "tell",
                      "close", "subread", "subwait", "killed", "autounsub"}
      BY <1>5, Arrives, SendGoes DEF RefuseSubscribe, ForgetRefusal, AbandonSubscribe, Acknowledge,
             RegisterSubwaiter, Unlist, TellRefusal, CloseSocket, WakeSubscriber, FreeSlot, Probe
    <2> QED
      BY <2>1 DEF Reading
  <1>6. CASE EnterLoop(c)
    BY <1>6 DEF EnterLoop, Reading, SubTypeOK, LocalsTypeOK
  <1>7. CASE ReadSlot(c) \/ FillIndication(c) \/ SendIndication(c) \/ EndSubscription(c)
    BY <1>7, Arrives, SendGoes DEF ReadSlot, FillIndication, SendIndication, EndSubscription, Reading, subVars,
                         waiterVars
  <1>8. CASE UnlistEnded(c)
    BY <1>8, Arrives DEF UnlistEnded, Reading
  <1>9. CASE AutoUnsubscribe(c)
    BY <1>9, Arrives DEF AutoUnsubscribe, SlotIsNeeded, Reading, waiterVars
  <1>10. CASE AutoRemove(c)
    BY <1>10, Arrives DEF AutoRemove, SlotIsNeeded, Reading
  <1> QED
    BY <1>3, <1>4, <1>5, <1>6, <1>7, <1>8, <1>9, <1>10 DEF ThreadAct, HandlerStep, SubscribeStep

LEMMA FullThread ==
    ASSUME RegisteredInv, OwnershipInv, FullInv, KeysApart, NEW c \in Conns, ThreadAct(c)
    PROVE  FullInv'
  <1>1. /\ MemoryEffect(c) /\ LocalEffect(c) /\ SubTypeOK /\ OwnerInv /\ EntryInv
    BY Effect, Locals DEF RegisteredInv, OwnershipInv
  <1>2. ASSUME NEW d \in Conns \ {c}
        PROVE  pc'[d] # "crashed" /\ (pc'[d] \in Reading => rsp'[subwaiter'[d]] # None)
    <2>1. pc'[d] = pc[d] /\ subwaiter'[d] = subwaiter[d]
      BY <1>1, <1>2 DEF LocalEffect, SameLocals
    <2>2. pc[d] \in Reading => SameMail(subwaiter[d])
      BY <1>1, <1>2, OtherEntry DEF Reading, Owning, Loop
    <2> QED
      BY <2>1, <2>2 DEF FullInv, SameMail
  <1>3. pc[c] \in Reading \cup {"subread"} =>
            /\ RspRead(subwaiter[c]) = rsp[subwaiter[c]]
            /\ rsp[subwaiter[c]] # None => Named(rsp[subwaiter[c]])
    <2>1. pc[c] \in Reading \cup {"subread"} => pc[c] \in Owning
      BY DEF Reading, Owning, Loop
    <2> QED
      BY <1>1, <2>1, OwnedWaiter, WaitersAssumption DEF EntryInv, Named
  <1>4. pc'[c] # "crashed" /\ (pc'[c] \in Reading => rsp'[subwaiter'[c]] # None)
    BY <1>1, <1>3, SlotFlow DEF FullInv
  <1> QED
    BY <1>2, <1>4 DEF FullInv

\* With the wake thread off, nothing that is in a slot is replaced by NULL by
\* anyone but the slot's owner.
LEMMA FullMail ==
    ASSUME RegisteredInv, FullInv, ~Wakes, MailStep
    PROVE  FullInv'
  <1>1. pc' = pc /\ subwaiter' = subwaiter /\ SubTypeOK
    BY MailLeaves DEF threadVars, RegisteredInv
  <1>2. ASSUME NEW w \in Waiter, rsp[w] # None PROVE rsp'[w] # None
    <2>1. rsp \in [Waiter -> Message \cup {None}]
      BY <1>1 DEF SubTypeOK, MemoryTypeOK
    <2>2. CASE CompleteWaiter
      BY <1>1, <1>2, <2>1, <2>2, TokenTypes, NullIsNoSubMessage DEF CompleteWaiter, CompleteWith
    <2>3. unsubcb # None => \A s \in {"ok", "failed"} : Unsubscribed(unsubcb.t, s) \in Message
      <3>1. unsubcb # None => unsubcb.t.id \in Ids /\ unsubcb.t.for \in UnsubId /\ unsubcb.t.key \in Keys
        BY <1>1, TokenTypes DEF UnsubToken
      <3> QED
        BY <3>1 DEF Unsubscribed, Message, Unsubscriptions
    <2>4. CASE LookUpSubwaiter
      BY <1>2, <2>1, <2>3, <2>4, NullIsNoSubMessage DEF LookUpSubwaiter
    <2>5. CASE CompleteSubwaiter
      BY <1>1, <1>2, <2>1, <2>3, <2>5, TokenTypes, NullIsNoSubMessage DEF CompleteSubwaiter, CompleteWith
    <2>6. CASE CompleteUnsubscribe
      BY <1>2, <2>1, <2>6 DEF CompleteUnsubscribe, CompleteWith
    <2>7. CASE SibAnswers \/ SibNotifies
      BY <1>1, <1>2, <2>7, AnswerTypes DEF waiterVars
    <2> QED
      BY <2>2, <2>4, <2>5, <2>6, <2>7 DEF MailStep, Callback, FillWaiter, WakeRound
  <1>3. \A c \in Conns : pc[c] \in Reading => subwaiter[c] \in Waiter
    BY <1>1 DEF SubTypeOK, HandlerTypeOK, Reading, Serving, Loop
  <1> QED
    BY <1>1, <1>2, <1>3 DEF FullInv

LEMMA FullNext ==
    ASSUME KeysApart, ~Wakes
    PROVE  RegisteredInv /\ OwnershipInv /\ FullInv /\ [SubNext]_vars => FullInv'
  <1> SUFFICES ASSUME RegisteredInv, OwnershipInv, FullInv, [SubNext]_vars PROVE FullInv'
    OBVIOUS
  <1>1. CASE UNCHANGED vars
    BY <1>1 DEF vars, requestVars, waiterVars, threadVars, subVars, FullInv
  <1> QED
    BY <1>1, FullThread, FullMail, StepKinds

LEMMA FullInit == SubInit => FullInv
  BY DEF SubInit, RequestsInit, FullInv, Reading

\* With the wake thread turned off (-sub-wake-fr 0) the loop never dereferences a
\* NULL message, although it reads the slot without the lock and again and again:
\* nobody but the loop itself empties it.
THEOREM NoNullWithoutWakes ==
    ASSUME KeysApart, ~Wakes
    PROVE  SubSpec => [](~strayed => NoNullMessage)
  <1> DEFINE Inv == OwnershipInv /\ FullInv
  <1>1. Inv => NoNullMessage
    BY DEF FullInv, NoNullMessage
  <1>2. SubInit => Inv
    BY OwnershipInit, FullInit
  <1>3. RegisteredInv /\ (strayed \/ Inv) /\ [SubNext]_vars => (strayed \/ Inv)'
    BY OwnershipNext, FullNext, StrayedStays DEF RegisteredInv
  <1> HIDE DEF Inv
  <1> QED
    BY <1>1, <1>2, <1>3, RegisteredInit, RegisteredNext, PTL DEF SubSpec

-----------------------------------------------------------------------------
(* Every entry is served.                                                  *)

\* The entry under id has its thread: the owner, or the refused one that is about
\* to take it out.
HasThread(id) ==
    \E c \in Conns :
        \/ id \in SubIds /\ Owns(c, id)
        \/ id = NoSub /\ pc[c] = "unlist" /\ subwaiter[c] = subscriptions[id]

ServedInv ==
    Dead \/ \A id \in Ids : subscriptions[id] # None =>
        HasThread(id) \/ fd[subscriptions[id]] \in broken

\* How a thread leaves a subscription.
LEMMA LeavesEntry ==
    ASSUME RegisteredInv, OwnerInv, NEW c \in Conns, ThreadAct(c),
           pc[c] \in Owning, pc'[c] \notin Owning
    PROVE  \/ pc[c] = "ack" /\ c \in broken
           \/ pc'[c] \in {"crashed", "nullsub", "killed"}
           \/ DropsSubscription(c)
  <1>9. SubTypeOK
    BY DEF RegisteredInv
  <1>1. CASE ClientStep(c)
    <2>1. pc[c] # "receive"
      BY DEF Owning, Loop
    <2>2. Break(c)
      BY <1>1, <2>1 DEF ClientStep, AddRequest, DropRequest, AddUnsubscribe, DropUnsubscribe, Receive
    <2> QED
      BY <2>2 DEF Break, threadVars
  <1>2. CASE RequestStep(c) \/ UnsubscribeStep(c)
    <2>1. pc[c] \in {"send", "wait", "build", "reply", "remove"}
      BY <1>2 DEF RequestStep, ThreadStep, SendRequest, RefuseRequest, Wake, BuildResponse,
           NoResponse, Reply, RemoveRequest, UnsubscribeStep, SendUnsubscribe, RefuseUnsubscribe,
           FinishUnsubscribe
    <2> QED
      BY <2>1 DEF Owning, Loop
  <1>3. CASE \/ RefuseSubscribe(c) \/ ForgetRefusal(c) \/ AbandonSubscribe(c) \/ RegisterSubwaiter(c)
             \/ Unlist(c) \/ TellRefusal(c) \/ CloseSocket(c)
    BY <1>3 DEF RefuseSubscribe, ForgetRefusal, AbandonSubscribe, RegisterSubwaiter, Unlist, TellRefusal,
                CloseSocket, Owning, Loop
  <1>4. CASE Acknowledge(c)
    <2>1. FdRead(subwaiter[c]) = {c} /\ FdRead(waiter[c]) = {c}
      BY <1>4, OwnedWaiter, RequestWaiter DEF Acknowledge, FdRead
    <2>2. pc'[c] # "registered"
      BY DEF Owning
    <2> QED
      BY <1>4, <1>9, <2>1, <2>2, Arrives DEF Acknowledge, SocketError, SendThrough
  <1>5. CASE EnterLoop(c)
    BY <1>5, <1>9 DEF EnterLoop, Owning, Loop, SubTypeOK, LocalsTypeOK
  <1>6. CASE \/ WakeSubscriber(c) \/ ReadSlot(c) \/ FillIndication(c) \/ SendIndication(c)
             \/ FreeSlot(c) \/ EndSubscription(c) \/ Probe(c) \/ AutoUnsubscribe(c)
    BY <1>6, <1>9, Arrives, SendGoes
       DEF WakeSubscriber, ReadSlot, FillIndication, SendIndication, FreeSlot, EndSubscription, Probe,
           AutoUnsubscribe, Owning, Loop
  <1>7. CASE UnlistEnded(c)
    BY <1>7, <1>9, Arrives, SlotMessage, NamedId DEF UnlistEnded, DropsSubscription, RemovedId
  <1>8. CASE AutoRemove(c)
    <2>1. pc[c] = "autoremove" => subid[c] \in Ids
      BY <1>9 DEF SubTypeOK, HandlerTypeOK, Serving, Loop
    <2> QED
      BY <1>8, <1>9, <2>1, Arrives, SlotMessage, NamedId
         DEF AutoRemove, SlotIsNeeded, EndedId, DropsSubscription, RemovedId
  <1> QED
    BY <1>1, <1>2, <1>3, <1>4, <1>5, <1>6, <1>7, <1>8 DEF ThreadAct, HandlerStep, SubscribeStep

LEMMA RefusedStep ==
    ASSUME SubTypeOK, NEW c \in Conns, ThreadAct(c), pc[c] = "unlist"
    PROVE  Unlist(c) \/ SameLocals(c)
  <1>1. CASE ClientStep(c)
    BY <1>1 DEF ClientStep, AddRequest, DropRequest, AddUnsubscribe, DropUnsubscribe, Receive, Break,
                threadVars, subVars, SameLocals
  <1>2. ~RequestStep(c) /\ ~UnsubscribeStep(c)
    BY DEF RequestStep, ThreadStep, SendRequest, RefuseRequest, Wake, BuildResponse,
           NoResponse, Reply, RemoveRequest, UnsubscribeStep, SendUnsubscribe, RefuseUnsubscribe,
           FinishUnsubscribe
  <1>3. SubscribeStep(c) => Unlist(c)
    BY DEF SubscribeStep, RefuseSubscribe, ForgetRefusal, RegisterSubwaiter, AbandonSubscribe,
           Acknowledge, EnterLoop, TellRefusal, CloseSocket, WakeSubscriber, ReadSlot,
           FillIndication, SendIndication, FreeSlot, EndSubscription, UnlistEnded, Probe,
           AutoUnsubscribe, AutoRemove
  <1> QED
    BY <1>1, <1>2, <1>3 DEF ThreadAct, HandlerStep

\* Without a response that cannot be built, a new entry is the second waiter of
\* its thread.
LEMMA EntryRegistered ==
    ASSUME SubTypeOK, "build" \notin Faults, NEW c \in Conns, ThreadAct(c), PutsSubscription(c)
    PROVE  RegisterSubwaiter(c)
  <1>1. /\ pc[c] = "build" /\ op[c] = "subscribe" /\ RspRead(waiter[c]) # None
        /\ Named(RspRead(waiter[c])) /\ live' # live
    BY DEF PutsSubscription, waiter_new
  <1>2. ~ClientStep(c)
    BY <1>1 DEF ClientStep, AddRequest, DropRequest, AddUnsubscribe, DropUnsubscribe, Receive, Break,
                waiterVars
  <1>3. ~RequestStep(c) /\ ~UnsubscribeStep(c)
    BY <1>1 DEF RequestStep, ThreadStep, SendRequest, RefuseRequest, Wake, BuildResponse,
           NoResponse, Reply, RemoveRequest, UnsubscribeStep, SendUnsubscribe, RefuseUnsubscribe,
           FinishUnsubscribe, SimpleKinds
  <1>4. SubscribeStep(c) => RegisterSubwaiter(c) \/ AbandonSubscribe(c)
    BY <1>1 DEF SubscribeStep, RefuseSubscribe, ForgetRefusal, Acknowledge, EnterLoop, Unlist,
           TellRefusal, CloseSocket, WakeSubscriber, ReadSlot, FillIndication, SendIndication,
           FreeSlot, EndSubscription, UnlistEnded, Probe, AutoUnsubscribe, AutoRemove
  <1>5. ~AbandonSubscribe(c)
    BY <1>1 DEF AbandonSubscribe, waiterVars
  <1> QED
    BY <1>2, <1>3, <1>4, <1>5 DEF ThreadAct, HandlerStep

\* The entries that are there after a step of a thread and were there before have
\* the connection they had.
LEMMA EntryFd ==
    ASSUME SubTypeOK, TablesHoldLiveWaiters, NEW c \in Conns, MemoryEffect(c), NEW id \in Ids,
           subscriptions'[id] # None
    PROVE  \/ /\ subscriptions'[id] = subscriptions[id]
              /\ fd'[subscriptions[id]] = fd[subscriptions[id]]
           \/ subscriptions[id] = None /\ PutsSubscription(c)
  <1>1. MemoryTypeOK
    BY DEF SubTypeOK
  <1>2. subscriptions[id] # None => subscriptions[id] \in live /\ subscriptions[id] \in Waiter
    BY <1>1 DEF TablesHoldLiveWaiters, MemoryTypeOK
  <1> USE DEF MemoryTypeOK
  <1>3. CASE Quiet(c)
    BY <1>1, <1>3 DEF Quiet, waiterVars
  <1>4. CASE DropsRequest(c)
    BY <1>1, <1>2, <1>4 DEF DropsRequest, listener_remove_request, waiter_destroy, TablesHoldLiveWaiters
  <1>5. CASE DropsSubscription(c)
    BY <1>1, <1>2, <1>5 DEF DropsSubscription, listener_remove_subscription, waiter_destroy,
                            TablesHoldLiveWaiters
  <1>6. CASE PutsRequest(c)
    BY <1>1, <1>2, <1>6 DEF PutsRequest, waiter_new
  <1>7. CASE PutsSubscription(c)
    BY <1>1, <1>2, <1>7 DEF PutsSubscription, waiter_new
  <1>8. CASE TakesSignal(c)
    BY <1>1, <1>8 DEF TakesSignal, waiter_wait_for_finished
  <1>9. CASE EmptiesSlot(c)
    BY <1>1, <1>2, <1>9 DEF EmptiesSlot
  <1> QED
    BY <1>3, <1>4, <1>5, <1>6, <1>7, <1>8, <1>9 DEF MemoryEffect

LEMMA ServedThread ==
    ASSUME RegisteredInv, OwnershipInv, ServedInv, KeysApart, "build" \notin Faults,
           NEW c \in Conns, ThreadAct(c)
    PROVE  ServedInv'
  <1>1. /\ MemoryEffect(c) /\ LocalEffect(c) /\ Flow(c) /\ SubTypeOK /\ TablesHoldLiveWaiters
        /\ OwnerInv /\ EntryInv /\ SlotInv /\ GrantInv
        /\ broken \subseteq broken'
    BY Effect, Locals, Flows, Breaks DEF RegisteredInv, OwnershipInv
  <1>2. ~Dead
    BY DEF ThreadAct, ClientStep, HandlerStep
  <1>3. CASE pc'[c] \in {"crashed", "nullsub", "killed"}
    BY <1>3 DEF ServedInv, Dead
  <1>4. CASE pc'[c] \notin {"crashed", "nullsub", "killed"}
    <2> SUFFICES ASSUME NEW id \in Ids, subscriptions'[id] # None
                 PROVE  HasThread(id)' \/ fd'[subscriptions'[id]] \in broken'
      BY DEF ServedInv
    <2>1. CASE subscriptions[id] = None /\ PutsSubscription(c)
      <3>1. RegisterSubwaiter(c)
        BY <1>1, <2>1, EntryRegistered
      <3>2. PICK r : r = RspRead(waiter[c])
        OBVIOUS
      <3>3. r.id = id /\ r.id \in Ids
        BY <1>1, <2>1, <3>2, SlotMessage, NamedId DEF PutsSubscription, SubTypeOK, MemoryTypeOK
      <3>4. subid'[c] = id
        BY <1>1, <3>1, <3>2, <3>3 DEF RegisterSubwaiter, SubTypeOK, LocalsTypeOK
      <3>5. subwaiter'[c] = subscriptions'[id]
        BY <1>1, <2>1, <3>1, <3>2, <3>3 DEF RegisterSubwaiter, SubTypeOK, LocalsTypeOK, MemoryTypeOK
      <3>6. \/ pc'[c] = "ack" /\ subid'[c] \in SubIds
            \/ pc'[c] = "unlist" /\ subid'[c] = NoSub
        BY <1>1, <3>1, FirstEntry
      <3> QED
        BY <3>4, <3>5, <3>6 DEF HasThread, Owns, Owning
    <2>2. CASE /\ subscriptions'[id] = subscriptions[id]
               /\ fd'[subscriptions[id]] = fd[subscriptions[id]]
      <3>1. CASE fd[subscriptions[id]] \in broken
        BY <1>1, <2>2, <3>1
      <3>2. ASSUME NEW d \in Conns, id \in SubIds, Owns(d, id), pc'[d] \in Owning, d = c => ~RegisterSubwaiter(c)
            PROVE  HasThread(id)'
        <4>1. pc[d] \in Owning /\ subid[d] = id
          BY <3>2 DEF Owns
        <4>2. subid'[d] = id
          <5>1. CASE d # c
            BY <1>1, <4>1, <5>1 DEF LocalEffect, SameLocals
          <5>2. CASE d = c
            BY <1>1, <3>2, <4>1, <5>2 DEF Flow, SameLocals, Proceeds, PutsRequest, Owning, Loop
          <5> QED
            BY <5>1, <5>2
        <4> QED
          BY <3>2, <4>2 DEF HasThread, Owns
      <3>3. ASSUME NEW d \in Conns, id \in SubIds, Owns(d, id)
            PROVE  HasThread(id)' \/ fd'[subscriptions'[id]] \in broken'
        <4>1. pc[d] \in Owning /\ subid[d] = id
          BY <3>3 DEF Owns
        <4>2. d = c => ~RegisterSubwaiter(c)
          BY <4>1 DEF RegisterSubwaiter, Owning, Loop
        <4>3. CASE pc'[d] \in Owning
          BY <3>2, <3>3, <4>2, <4>3
        <4>4. CASE pc'[d] \notin Owning
          <5>1. d = c
            BY <1>1, <4>1, <4>4 DEF LocalEffect, SameLocals
          <5>2. CASE pc[c] = "ack" /\ c \in broken
            BY <1>1, <2>2, <4>1, <5>1, <5>2, OwnedWaiter
          <5>3. CASE DropsSubscription(c)
            <6>1. PICK i \in Ids : RemovedId(c, i) /\ listener_remove_subscription(i)
              BY <5>3 DEF DropsSubscription
            <6>2. i = id
              BY <1>1, <4>1, <5>1, <6>1, RemovesOwn DEF Owning, Loop
            <6> QED
              BY <1>1, <2>2, <6>1, <6>2 DEF listener_remove_subscription, SubTypeOK, MemoryTypeOK
          <5> QED
            BY <1>1, <1>4, <4>1, <4>4, <5>1, <5>2, <5>3, LeavesEntry
        <4> QED
          BY <4>3, <4>4
      <3>4. ASSUME NEW d \in Conns, id = NoSub, pc[d] = "unlist", subwaiter[d] = subscriptions[id]
            PROVE  HasThread(id)'
        <4>1. CASE pc'[d] = "unlist" /\ subwaiter'[d] = subwaiter[d]
          BY <2>2, <3>4, <4>1 DEF HasThread
        <4>2. CASE ~(pc'[d] = "unlist" /\ subwaiter'[d] = subwaiter[d])
          <5>1. d = c
            BY <1>1, <3>4, <4>2 DEF LocalEffect, SameLocals
          <5>2. Unlist(c) \/ SameLocals(c)
            BY <1>1, <3>4, <5>1, RefusedStep
          <5>3. Unlist(c) => subscriptions'[id] = None
            BY <1>1, <3>4, <5>1 DEF Unlist, listener_remove_subscription, OwnerInv, SubTypeOK, MemoryTypeOK
          <5> QED
            BY <2>2, <3>4, <4>2, <5>1, <5>2, <5>3 DEF SameLocals
        <4> QED
          BY <4>1, <4>2
      <3> QED
        BY <1>2, <2>2, <3>1, <3>3, <3>4 DEF ServedInv, HasThread
    <2> QED
      BY <1>1, <2>1, <2>2, EntryFd
  <1> QED
    BY <1>3, <1>4

LEMMA ServedNext ==
    ASSUME KeysApart, "build" \notin Faults
    PROVE  RegisteredInv /\ OwnershipInv /\ ServedInv /\ [SubNext]_vars => ServedInv'
  <1> SUFFICES ASSUME RegisteredInv, OwnershipInv, ServedInv, [SubNext]_vars PROVE ServedInv'
    OBVIOUS
  <1>1. CASE UNCHANGED <<pc, subid, subwaiter, subscriptions, fd, broken>>
    BY <1>1 DEF ServedInv, Dead, HasThread, Owns
  <1>2. CASE UNCHANGED vars
    BY <1>1, <1>2 DEF vars, requestVars, waiterVars, threadVars, subVars
  <1>3. CASE MailStep
    BY <1>1, <1>3, MailLeaves DEF threadVars
  <1> QED
    BY <1>2, <1>3, ServedThread, StepKinds

LEMMA ServedInit == SubInit => ServedInv
  BY DEF SubInit, ServedInv

\* No subscription is left without a thread that serves it, except one whose
\* connection is broken, as long as no message has strayed; provided that responses
\* can be built, for that path leaves both entries behind.
THEOREM UnservedAreBroken ==
    ASSUME KeysApart, "build" \notin Faults
    PROVE  SubSpec => []UnservedOnlyWhenBroken
  <1> DEFINE Inv == OwnershipInv /\ ServedInv
  <1>1. strayed \/ Inv => UnservedOnlyWhenBroken
    BY DEF OwnershipInv, OwnerInv, ServedInv, HasThread, Owns, Owning, Serving, UnservedOnlyWhenBroken
  <1>2. SubInit => Inv
    BY OwnershipInit, ServedInit
  <1>3. RegisteredInv /\ (strayed \/ Inv) /\ [SubNext]_vars => (strayed \/ Inv)'
    BY OwnershipNext, ServedNext, StrayedStays DEF RegisteredInv
  <1> HIDE DEF Inv
  <1> QED
    BY <1>1, <1>2, <1>3, RegisteredInit, RegisteredNext, PTL DEF SubSpec

-----------------------------------------------------------------------------
(* Indications come in order.                                              *)

IsInd(msg) == msg # None /\ msg.via = "ind"

\* Every indication for id in the inbox s is older than the n-th, and so is what
\* its results were read from.
BelowIn(s, id, n) ==
    \A i \in 1..Len(s) : s[i].via = "ind" /\ s[i].id = id => s[i].seq < n /\ s[i].results < n

OrderedIn(s) ==
    \A i, j \in 1..Len(s) :
        i < j /\ s[i].via = "ind" /\ s[j].via = "ind" /\ s[i].id = s[j].id =>
            s[i].seq < s[j].seq /\ s[i].results < s[j].seq

\* The callback is about to leave the last indication for id in its slot; the
\* slots and the inboxes have seen the others.
Notifying(id) == cb # None /\ cb.msg.via = "ind" /\ cb.msg.id = id
Seen(id) == IF Notifying(id) THEN sent[id] - 1 ELSE sent[id]

\* Only connection c can have the subscription id, now and ever after.
HadBy(c, id) ==
    /\ served[id] # "unused"
    /\ \A d \in Conns : ~GrantedTo(d, id) /\ (Owns(d, id) => d = c)

\* The indications a client has had are in order, are no news, and were for a
\* subscription that nobody else will have.
InboxInv ==
    \A c \in Conns :
        /\ OrderedIn(inbox[c])
        /\ \A id \in SubIds : BelowIn(inbox[c], id, Seen(id) + 1)
        /\ \A i \in 1..Len(inbox[c]) : inbox[c][i].via = "ind" =>
            inbox[c][i] \in SentIndication /\ HadBy(c, inbox[c][i].id)

\* The callback brings the SIB's last indication; no slot holds a newer one.
NoticeInv ==
    /\ cb # None /\ cb.msg.via = "ind" => cb.msg.seq = sent[cb.msg.id]
    /\ \A id \in SubIds : subscriptions[id] # None /\ IsInd(rsp[subscriptions[id]]) =>
        rsp[subscriptions[id]].seq <= Seen(id)

\* What the loop has in its hands is news to its client, and no newer than what
\* the slot holds by now; after the send it is the slot that may be news.
PhaseOf(c) ==
    LET slot == rsp[subwaiter[c]]
        id == subid[c]
    IN  /\ pc[c] \in Owning /\ IsInd(slot) =>
            BelowIn(inbox[c], id, IF pc[c] = "subfree" THEN slot.seq + 1 ELSE slot.seq)
        /\ pc[c] \in {"subfill", "subsend"} =>
            /\ bd[c].via = "ind" /\ bd[c].id = id /\ bd[c].seq \in 1..MaxInd
            /\ BelowIn(inbox[c], id, bd[c].seq)
            /\ bd[c].seq <= Seen(id)
            /\ IsInd(slot) => bd[c].seq <= slot.seq
        /\ pc[c] = "subsend" =>
            /\ bd[c] \in SentIndication
            /\ bd[c].results <= Seen(id)
            /\ IsInd(slot) => bd[c].results <= slot.seq
        /\ pc[c] \in {"reply", "ack", "unlist", "tell", "subend"} => bd[c].via # "ind"

PhaseInv == \A c \in Conns : PhaseOf(c)

OrderInv == InboxInv /\ NoticeInv /\ PhaseInv

\* One more message at the end of an inbox.
LEMMA BelowAppend ==
    ASSUME NEW S, NEW s \in Seq(S), NEW m \in S, NEW id, NEW n,
           BelowIn(s, id, n), m.via = "ind" /\ m.id = id => m.seq < n /\ m.results < n
    PROVE  BelowIn(Append(s, m), id, n)
  BY DEF BelowIn

LEMMA OrderedAppend ==
    ASSUME NEW S, NEW s \in Seq(S), NEW m \in S, OrderedIn(s),
           m.via = "ind" => BelowIn(s, m.id, m.seq)
    PROVE  OrderedIn(Append(s, m))
  <1>1. PICK t : t = Append(s, m)
    OBVIOUS
  <1>2. /\ Len(t) = Len(s) + 1 /\ Len(s) \in Nat
        /\ \A i \in 1..Len(s) : t[i] = s[i]
        /\ t[Len(s) + 1] = m
    BY <1>1
  <1>3. ASSUME NEW i \in 1..Len(t), NEW j \in 1..Len(t),
               i < j, t[i].via = "ind", t[j].via = "ind", t[i].id = t[j].id
        PROVE  t[i].seq < t[j].seq /\ t[i].results < t[j].seq
    <2>1. i \in 1..Len(s) /\ t[i] = s[i]
      BY <1>2, <1>3
    <2>2. CASE j \in 1..Len(s)
      BY <1>2, <1>3, <2>1, <2>2 DEF OrderedIn
    <2>3. CASE j = Len(s) + 1
      BY <1>2, <1>3, <2>1, <2>3 DEF BelowIn
    <2> QED
      BY <1>2, <2>2, <2>3
  <1> QED
    BY <1>1, <1>3 DEF OrderedIn

\* A bound that is raised still holds.
LEMMA BelowMore ==
    ASSUME NEW c \in Conns, InboxInv, NEW id, NEW n \in Nat, NEW m \in Nat, n <= m,
           BelowIn(inbox[c], id, n)
    PROVE  BelowIn(inbox[c], id, m)
  <1>1. ASSUME NEW i \in 1..Len(inbox[c]), inbox[c][i].via = "ind", inbox[c][i].id = id
        PROVE  inbox[c][i].seq < m /\ inbox[c][i].results < m
    <2>1. inbox[c][i] \in SentIndication
      BY <1>1 DEF InboxInv
    <2>2. inbox[c][i].seq \in Nat /\ inbox[c][i].results \in Nat
      BY <2>1, SubscriptionsAssumption DEF SentIndication
    <2>3. inbox[c][i].seq < n /\ inbox[c][i].results < n
      BY <1>1 DEF BelowIn
    <2> QED
      BY <2>2, <2>3
  <1> QED
    BY <1>1 DEF BelowIn

-----------------------------------------------------------------------------
(* What a thread's step has to do with indications.                        *)

\* It takes the head of the slot's indication,
TakesHead(c) ==
    LET r == RspRead(subwaiter[c]) IN
    /\ pc[c] = "subread" /\ pc'[c] = "subfill" /\ IsInd(r)
    /\ bd'[c] = [via |-> "ind", id |-> r.id, seq |-> r.seq]
    /\ UNCHANGED <<rsp, inbox>>

\* the results of what the slot holds,
TakesResults(c) ==
    LET r == RspRead(subwaiter[c]) IN
    /\ pc[c] = "subfill" /\ pc'[c] = "subsend"
    /\ \E n : /\ n = IF IsInd(r) THEN r.seq ELSE 0
              /\ bd'[c] = [via |-> "ind", id |-> bd[c].id, seq |-> bd[c].seq, results |-> n]
    /\ UNCHANGED <<rsp, inbox>>

\* sends the two,
SendsBoth(c) ==
    /\ pc[c] = "subsend" /\ pc'[c] = "subfree"
    /\ inbox' = [inbox EXCEPT ![c] = Append(@, bd[c])]
    /\ bd'[c] = bd[c] /\ UNCHANGED rsp

\* or does something else.
Otherwise(c) ==
    /\ pc'[c] \notin {"subfill", "subsend", "subfree"}
    /\ pc[c] = "subfree" => EmptiesSlot(c)
    /\ \/ UNCHANGED inbox
       \/ \E to \in Conns : /\ pc[c] \in {"reply", "ack", "tell", "subend"}
                            /\ inbox' = [inbox EXCEPT ![to] = Append(@, bd[c])]
    /\ pc'[c] \in {"reply", "ack", "unlist", "tell", "subend"} =>
        \/ bd'[c].via # "ind"
        \/ bd'[c] = bd[c] /\ pc[c] \in {"reply", "ack", "unlist", "tell", "subend"}

NoticeEffect(c) ==
    \/ SameLocals(c) /\ UNCHANGED <<rsp, inbox>>
    \/ TakesHead(c) \/ TakesResults(c) \/ SendsBoth(c) \/ Otherwise(c)

LEMMA NoticeEffects ==
    ASSUME RegisteredInv, OwnerInv, SlotInv, NEW c \in Conns, ThreadAct(c)
    PROVE  NoticeEffect(c)
  <1>1. SubTypeOK /\ LocalsTypeOK /\ TellEffect(c)
    BY Tells DEF RegisteredInv, SubTypeOK
  <1>2. CASE ClientStep(c)
    <2>1. CASE Break(c) /\ UNCHANGED subVars
      BY <2>1 DEF Break, threadVars, waiterVars, subVars, SameLocals, NoticeEffect
    <2>2. ASSUME NEW kind, NEW k, AddRequest(c, kind, k) \/ DropRequest(c, kind, k)
          PROVE  pc[c] = "receive" /\ pc'[c] \in {"send", "receive"} /\ UNCHANGED inbox
      BY <1>1, <2>2 DEF AddRequest, DropRequest, Receive, LocalsTypeOK
    <2>3. ASSUME NEW k, NEW id, AddUnsubscribe(c, k, id) \/ DropUnsubscribe(c, k)
          PROVE  pc[c] = "receive" /\ pc'[c] \in {"send", "remove"} /\ UNCHANGED inbox
      BY <1>1, <2>3 DEF AddUnsubscribe, AddRequest, DropUnsubscribe, Receive, LocalsTypeOK
    <2> QED
      BY <1>2, <2>1, <2>2, <2>3 DEF ClientStep, NoticeEffect, Otherwise
  <1>3. ASSUME NEW label \in {"wait", "build", "remove", "receive", "refused", "close", "nullsub",
                              "crashed", "killed", "registered", "subwait", "subread", "subunlist",
                              "autounsub", "indunsub", "autoremove", "indremove", "probe"},
               pc'[c] = label, pc[c] \notin {"subfree", "subsend"}
        PROVE  NoticeEffect(c)
    BY <1>1, <1>3 DEF NoticeEffect, Otherwise, TellEffect
  <1>4. ASSUME NEW m, bd' = [bd EXCEPT ![c] = m], m.via # "ind", UNCHANGED inbox,
               pc'[c] \in {"reply", "ack", "unlist", "subend"}, pc[c] # "subfree"
        PROVE  NoticeEffect(c)
    BY <1>1, <1>4 DEF NoticeEffect, Otherwise, LocalsTypeOK
  <1>5. CASE RequestStep(c)
    <2>1. HandlerTypeOK(c)
      BY <1>1 DEF SubTypeOK
    <2>2. pc[c] # "receive" => op[c] # "ind"
      BY <2>1 DEF HandlerTypeOK, AllKinds, SimpleKinds
    <2>3. CASE RefuseRequest(c)
      <3>1. /\ pc[c] = "send" /\ UNCHANGED inbox
            /\ \/ \E s : /\ bd' = [bd EXCEPT ![c] = [for |-> CurrentId(c), via |-> op[c],
                                                     status |-> s, local |-> TRUE]]
                         /\ Goto(c, "reply")
               \/ Return(c)
        BY <2>3 DEF RefuseRequest
      <3>2. CASE Return(c)
        BY <1>1, <1>3, <3>1, <3>2, Arrives
      <3>3. ASSUME NEW s, bd' = [bd EXCEPT ![c] = [for |-> CurrentId(c), via |-> op[c],
                                                   status |-> s, local |-> TRUE]],
                   Goto(c, "reply")
            PROVE  NoticeEffect(c)
        <4>1. PICK m : m = [for |-> CurrentId(c), via |-> op[c], status |-> s, local |-> TRUE]
          OBVIOUS
        <4>2. m.via # "ind" /\ pc'[c] = "reply"
          BY <1>1, <2>2, <3>1, <3>3, <4>1, Arrives
        <4>3. bd' = [bd EXCEPT ![c] = m]
          BY <3>3, <4>1
        <4> QED
          BY <1>4, <3>1, <4>2, <4>3
      <3> QED
        BY <3>1, <3>2, <3>3
    <2>4. CASE BuildResponse(c)
      <3>1. PICK m : m = [for |-> RspRead(waiter[c]).for, via |-> op[c],
                          status |-> RspRead(waiter[c]).status, local |-> FALSE]
        OBVIOUS
      <3>2. /\ pc[c] = "build" /\ UNCHANGED inbox /\ bd' = [bd EXCEPT ![c] = m] /\ Goto(c, "reply")
        BY <2>4, <3>1 DEF BuildResponse
      <3>3. m.via # "ind" /\ pc'[c] = "reply"
        BY <1>1, <2>2, <3>1, <3>2, Arrives
      <3> QED
        BY <1>4, <3>2, <3>3
    <2>5. CASE SendRequest(c) \/ Wake(c) \/ NoResponse(c) \/ Reply(c) \/ RemoveRequest(c)
      BY <1>1, <1>3, <2>5, Arrives DEF SendRequest, Wake, NoResponse, Reply, RemoveRequest
    <2> QED
      BY <1>5, <2>3, <2>4, <2>5 DEF RequestStep, ThreadStep
  <1>6. CASE UnsubscribeStep(c)
    <2>1. CASE SendUnsubscribe(c)
      BY <1>1, <1>3, <2>1, Arrives DEF SendUnsubscribe
    <2>2. CASE RefuseUnsubscribe(c)
      <3>1. PICK m : m = [via |-> "unsubscribe", id |-> subid[c], key |-> key[c],
                          status |-> "failed", for |-> CurrentId(c)]
        OBVIOUS
      <3>2. /\ pc[c] = "send" /\ UNCHANGED inbox
            /\ (bd' = [bd EXCEPT ![c] = m] /\ Goto(c, "reply")) \/ Goto(c, "remove")
        BY <2>2, <3>1 DEF RefuseUnsubscribe
      <3> QED
        BY <1>1, <1>3, <1>4, <3>1, <3>2, Arrives
    <2>3. CASE FinishUnsubscribe(c)
      <3>1. PICK r : r = RspRead(waiter[c])
        OBVIOUS
      <3>2. /\ pc[c] = "build" /\ op[c] = "unsubscribe" /\ UNCHANGED inbox
            /\ (r # None /\ bd' = [bd EXCEPT ![c] = r] /\ Goto(c, "reply")) \/ Goto(c, "remove")
        BY <2>3, <3>1 DEF FinishUnsubscribe
      <3>3. r # None => r.via = "unsubscribe"
        BY <3>1, <3>2, RequestWaiter DEF SlotInv
      <3> QED
        BY <1>1, <1>3, <1>4, <3>2, <3>3, Arrives
    <2> QED
      BY <1>6, <2>1, <2>2, <2>3 DEF UnsubscribeStep
  <1>7. CASE RegisterSubwaiter(c)
    <2>1. PICK m : m = [via |-> "subscribe", id |-> RspRead(waiter[c]).id,
                        status |-> IF subscriptions[RspRead(waiter[c]).id] = None
                                   THEN RspRead(waiter[c]).status ELSE "ok"]
      OBVIOUS
    <2>2. /\ pc[c] = "build" /\ UNCHANGED inbox /\ bd' = [bd EXCEPT ![c] = m]
          /\ Goto(c, IF RspRead(waiter[c]).status = "ok" THEN "ack" ELSE "unlist")
      BY <1>7, <2>1 DEF RegisterSubwaiter
    <2>3. m.via # "ind"
      BY <2>1
    <2>4. pc'[c] \in {"ack", "unlist"}
      BY <1>1, <2>2, Arrives
    <2>5. CASE pc'[c] = "ack"
      BY <1>1, <2>2, <2>3, <2>5 DEF NoticeEffect, Otherwise, LocalsTypeOK
    <2>6. CASE pc'[c] = "unlist"
      BY <1>4, <2>2, <2>3, <2>6
    <2> QED
      BY <2>4, <2>5, <2>6
  <1>8. CASE Unlist(c)
    BY <1>1, <1>8, Arrives DEF Unlist, NoticeEffect, Otherwise
  <1>9. CASE ReadSlot(c)
    <2>1. PICK r : r = RspRead(subwaiter[c])
      OBVIOUS
    <2>2. PICK m : m = [via |-> "ind", id |-> r.id, seq |-> r.seq]
      OBVIOUS
    <2>3. /\ pc[c] = "subread" /\ UNCHANGED <<rsp, inbox>>
          /\ \/ \E label \in {"probe", "subunlist"} : Goto(c, label)
             \/ IsInd(r) /\ bd' = [bd EXCEPT ![c] = m] /\ Goto(c, "subfill")
             \/ r.via = "unsubscribe" /\ bd' = [bd EXCEPT ![c] = r] /\ Goto(c, "subend")
      BY <1>9, <2>1, <2>2 DEF ReadSlot, waiterVars, IsInd
    <2>4. CASE \E label \in {"probe", "subunlist"} : Goto(c, label)
      BY <1>1, <1>3, <2>3, <2>4, Arrives
    <2>5. CASE IsInd(r) /\ bd' = [bd EXCEPT ![c] = m] /\ Goto(c, "subfill")
      BY <1>1, <2>1, <2>2, <2>3, <2>5, Arrives DEF LocalsTypeOK, NoticeEffect, TakesHead
    <2>6. CASE r.via = "unsubscribe" /\ bd' = [bd EXCEPT ![c] = r] /\ Goto(c, "subend")
      BY <1>1, <1>4, <2>3, <2>6, Arrives
    <2> QED
      BY <2>3, <2>4, <2>5, <2>6
  <1>10. CASE FillIndication(c)
    <2>1. PICK r : r = RspRead(subwaiter[c])
      OBVIOUS
    <2>2. PICK n : n = IF IsInd(r) THEN r.seq ELSE 0
      OBVIOUS
    <2>3. PICK m : m = [via |-> "ind", id |-> bd[c].id, seq |-> bd[c].seq, results |-> n]
      OBVIOUS
    <2>4. /\ pc[c] = "subfill" /\ UNCHANGED <<rsp, inbox>>
          /\ \/ \E label \in {"crashed", "subunlist"} : Goto(c, label)
             \/ bd' = [bd EXCEPT ![c] = m] /\ Goto(c, "subsend")
             \/ r.via = "unsubscribe" /\ bd' = [bd EXCEPT ![c] = r] /\ Goto(c, "subend")
      BY <1>10, <2>1, <2>2, <2>3 DEF FillIndication, waiterVars, IsInd
    <2>5. CASE \E label \in {"crashed", "subunlist"} : Goto(c, label)
      BY <1>1, <1>3, <2>4, <2>5, Arrives
    <2>6. CASE bd' = [bd EXCEPT ![c] = m] /\ Goto(c, "subsend")
      <3>1. bd'[c] = m /\ pc'[c] = "subsend"
        BY <1>1, <2>6, Arrives DEF LocalsTypeOK
      <3>2. TakesResults(c)
        BY <2>1, <2>2, <2>3, <2>4, <3>1 DEF TakesResults
      <3> QED
        BY <3>2 DEF NoticeEffect
    <2>7. CASE r.via = "unsubscribe" /\ bd' = [bd EXCEPT ![c] = r] /\ Goto(c, "subend")
      BY <1>1, <1>4, <2>4, <2>7, Arrives
    <2> QED
      BY <2>4, <2>5, <2>6, <2>7
  <1>11. CASE SendIndication(c)
    <2>1. pc[c] = "subsend" /\ UNCHANGED <<rsp, bd>>
      BY <1>11 DEF SendIndication, waiterVars
    <2>2. FdRead(subwaiter[c]) = {c}
      BY <2>1, OwnedWaiter DEF FdRead, Owning, Loop
    <2>3. CASE c \in broken
      <3>1. pc'[c] = "indunsub" /\ UNCHANGED inbox
        BY <1>1, <1>11, <2>2, <2>3, Arrives DEF SendIndication, SocketError, SendThrough, Deliver
      <3> QED
        BY <2>1, <3>1 DEF NoticeEffect, Otherwise
    <2>4. CASE c \notin broken
      <3>1. pc'[c] = "subfree" /\ inbox' = [inbox EXCEPT ![c] = Append(@, bd[c])]
        BY <1>1, <1>11, <2>2, <2>4, Arrives DEF SendIndication, SocketError, SendThrough, Deliver
      <3> QED
        BY <2>1, <3>1 DEF NoticeEffect, SendsBoth
    <2> QED
      BY <2>3, <2>4
  <1>12. CASE FreeSlot(c)
    BY <1>1, <1>12, Arrives DEF FreeSlot, NoticeEffect, Otherwise, EmptiesSlot, subVars
  <1>13. CASE EnterLoop(c)
    BY <1>1, <1>3, <1>13 DEF EnterLoop, LocalsTypeOK
  <1>14. CASE \/ RefuseSubscribe(c) \/ ForgetRefusal(c) \/ AbandonSubscribe(c) \/ Acknowledge(c)
              \/ TellRefusal(c) \/ CloseSocket(c) \/ WakeSubscriber(c) \/ EndSubscription(c)
    BY <1>1, <1>3, <1>14, Arrives, SendGoes DEF RefuseSubscribe, ForgetRefusal, AbandonSubscribe, Acknowledge,
              TellRefusal, CloseSocket, WakeSubscriber, EndSubscription
  <1>15. CASE UnlistEnded(c) \/ Probe(c) \/ AutoUnsubscribe(c) \/ AutoRemove(c)
    BY <1>1, <1>3, <1>15, Arrives DEF UnlistEnded, Probe, AutoUnsubscribe, AutoRemove
  <1> QED
    BY <1>2, <1>5, <1>6, <1>7, <1>8, <1>9, <1>10, <1>11, <1>12, <1>13, <1>14, <1>15
       DEF ThreadAct, HandlerStep, SubscribeStep

\* The thread that owns an id is the only one.
LEMMA OneOwner ==
    ASSUME OwnershipInv, NEW c \in Conns, NEW id \in SubIds, Owns(c, id)
    PROVE  HadBy(c, id)
  <1>1. GrantInv /\ OwnerInv
    BY DEF OwnershipInv
  <1>2. served[id] # "unused" /\ \A d \in Conns : ~GrantedTo(d, id)
    BY <1>1 DEF GrantInv
  <1>3. \A d \in Conns : Owns(d, id) => fd[subscriptions[id]] = d
    BY <1>1 DEF OwnerInv, Owns
  <1> QED
    BY <1>2, <1>3 DEF HadBy

LEMMA OneOwnerThread ==
    ASSUME RegisteredInv, OwnershipInv, KeysApart, NEW c \in Conns, ThreadAct(c),
           NEW d \in Conns, NEW id \in SubIds, HadBy(d, id)
    PROVE  HadBy(d, id)'
  <1>1. UNCHANGED served
    BY Posts DEF PostEffect, RegisteredInv
  <1>2. \A e \in Conns : GrantedTo(e, id)' => GrantedTo(e, id)
    BY GrantedThread
  <1>3. \A e \in Conns : Owns(e, id)' => Owns(e, id) \/ GrantedTo(c, id)
    BY OwnsThread
  <1> QED
    BY <1>1, <1>2, <1>3 DEF HadBy

\* A client gets the indication its thread has made, or none.
InboxEffect(c) ==
    \A d \in Conns :
        \/ inbox'[d] = inbox[d]
        \/ \E m \in ClientMessage : m.via # "ind" /\ inbox'[d] = Append(inbox[d], m)
        \/ d = c /\ SendsBoth(c) /\ inbox'[c] = Append(inbox[c], bd[c])

LEMMA InboxEffects ==
    ASSUME SubTypeOK, PhaseInv, NEW c \in Conns, NoticeEffect(c)
    PROVE  InboxEffect(c)
  <1>1. \A d \in Conns : inbox[d] \in Seq(ClientMessage)
    BY DEF SubTypeOK, MailTypeOK
  <1>2. CASE UNCHANGED inbox
    BY <1>2 DEF InboxEffect
  <1>3. CASE SendsBoth(c)
    BY <1>1, <1>3 DEF SendsBoth, InboxEffect, SubTypeOK, MailTypeOK
  <1>4. ASSUME NEW to \in Conns, pc[c] \in {"reply", "ack", "tell", "subend"},
               inbox' = [inbox EXCEPT ![to] = Append(@, bd[c])]
        PROVE  InboxEffect(c)
    <2>1. bd[c] \in ClientMessage /\ bd[c].via # "ind"
      BY <1>4 DEF SubTypeOK, HandlerTypeOK, PhaseInv, PhaseOf
    <2>2. \A d \in Conns : inbox'[d] = inbox[d] \/ inbox'[d] = Append(inbox[d], bd[c])
      BY <1>4 DEF SubTypeOK, MailTypeOK
    <2> QED
      BY <2>1, <2>2 DEF InboxEffect
  <1> QED
    BY <1>2, <1>3, <1>4 DEF NoticeEffect, TakesHead, TakesResults, Otherwise

\* What a thread has made of its slot is an indication of its id that is news.
LEMMA SendsNews ==
    ASSUME RegisteredInv, OwnerInv, PhaseInv, NEW c \in Conns, pc[c] = "subsend"
    PROVE  /\ bd[c] \in SentIndication /\ bd[c] \in ClientMessage
           /\ bd[c].via = "ind" /\ bd[c].id = subid[c] /\ subid[c] \in SubIds /\ Owns(c, subid[c])
           /\ BelowIn(inbox[c], subid[c], bd[c].seq)
           /\ bd[c].seq <= Seen(subid[c]) /\ bd[c].results <= Seen(subid[c])
  <1>1. pc[c] \in Owning
    BY DEF Owning, Loop
  <1>2. bd[c] \in ClientMessage
    BY DEF RegisteredInv, SubTypeOK, HandlerTypeOK
  <1> QED
    BY <1>1, <1>2 DEF PhaseInv, PhaseOf, OwnerInv, Owns

LEMMA SeenType ==
    ASSUME SubTypeOK, NEW id \in SubIds
    PROVE  Seen(id) + 1 \in Nat /\ sent[id] \in Nat /\ Seen(id) + 1 \in {sent[id], sent[id] + 1}
  BY SubscriptionsAssumption DEF SubTypeOK, MailTypeOK, Seen

LEMMA InboxThread ==
    ASSUME RegisteredInv, OwnershipInv, OrderInv, KeysApart, NEW c \in Conns, ThreadAct(c)
    PROVE  InboxInv'
  <1>1. SubTypeOK /\ InboxInv /\ PhaseInv /\ OwnerInv /\ SlotInv
    BY DEF RegisteredInv, OwnershipInv, OrderInv
  <1>2. InboxEffect(c)
    BY <1>1, NoticeEffects, InboxEffects
  <1>3. \A id : Seen(id)' = Seen(id)
    BY <1>1, Posts DEF PostEffect, Seen, Notifying
  <1> SUFFICES ASSUME NEW d \in Conns
               PROVE  /\ OrderedIn(inbox'[d])
                      /\ \A id \in SubIds : BelowIn(inbox'[d], id, Seen(id)' + 1)
                      /\ \A m : m.via = "ind" /\ (\E i \in 1..Len(inbox'[d]) : inbox'[d][i] = m)
                            => m \in SentIndication /\ HadBy(d, m.id)'
    BY DEF InboxInv, HadBy, GrantedTo, Grants, Owns, Seen, Notifying
  <1>4. /\ inbox[d] \in Seq(ClientMessage) /\ OrderedIn(inbox[d])
        /\ \A id \in SubIds : BelowIn(inbox[d], id, Seen(id) + 1)
    BY <1>1 DEF SubTypeOK, MailTypeOK, InboxInv
  <1>5. ASSUME NEW m, m.via = "ind", NEW i \in 1..Len(inbox[d]), inbox[d][i] = m
        PROVE  m \in SentIndication /\ HadBy(d, m.id)'
    <2>1. m \in SentIndication /\ HadBy(d, m.id)
      BY <1>1, <1>5 DEF InboxInv
    <2>2. m.id \in SubIds
      BY <2>1 DEF SentIndication
    <2> QED
      BY <2>1, <2>2, OneOwnerThread
  <1>6. CASE inbox'[d] = inbox[d]
    BY <1>3, <1>4, <1>5, <1>6
  <1>7. ASSUME NEW m \in ClientMessage, m.via # "ind", inbox'[d] = Append(inbox[d], m)
        PROVE  /\ OrderedIn(inbox'[d])
               /\ \A id \in SubIds : BelowIn(inbox'[d], id, Seen(id)' + 1)
               /\ \A i \in 1..Len(inbox'[d]) : inbox'[d][i].via = "ind" =>
                     i \in 1..Len(inbox[d]) /\ inbox'[d][i] = inbox[d][i]
    <2>1. OrderedIn(inbox'[d])
      BY <1>4, <1>7, OrderedAppend
    <2>2. \A id \in SubIds : BelowIn(inbox'[d], id, Seen(id)' + 1)
      BY <1>3, <1>4, <1>7, BelowAppend
    <2>3. \A i \in 1..Len(inbox'[d]) : inbox'[d][i].via = "ind" =>
                     i \in 1..Len(inbox[d]) /\ inbox'[d][i] = inbox[d][i]
      BY <1>4, <1>7
    <2> QED
      BY <2>1, <2>2, <2>3
  <1>8. CASE d = c /\ SendsBoth(c) /\ inbox'[c] = Append(inbox[c], bd[c])
    <2>1. PICK m : m = bd[c]
      OBVIOUS
    <2>2. PICK id : id = subid[c]
      OBVIOUS
    <2>3. /\ m \in SentIndication /\ m \in ClientMessage /\ m.via = "ind" /\ m.id = id
          /\ id \in SubIds /\ Owns(c, id)
          /\ BelowIn(inbox[c], id, m.seq) /\ m.seq <= Seen(id) /\ m.results <= Seen(id)
      BY <1>1, <1>8, <2>1, <2>2, SendsNews DEF SendsBoth
    <2>4. inbox'[d] = Append(inbox[d], m)
      BY <1>8, <2>1
    <2>5. OrderedIn(inbox'[d])
      BY <1>4, <1>8, <2>3, <2>4, OrderedAppend
    <2>6. ASSUME NEW i \in SubIds PROVE BelowIn(inbox'[d], i, Seen(i)' + 1)
      <3>1. i = id => m.seq < Seen(i) + 1 /\ m.results < Seen(i) + 1
        <4>1. m.seq \in Nat /\ m.results \in Nat
          BY <2>3, SubscriptionsAssumption DEF SentIndication
        <4>2. PICK n : n = Seen(id)
          OBVIOUS
        <4>3. n + 1 \in Nat /\ n \in {sent[id], sent[id] - 1} /\ sent[id] \in Nat
          BY <1>1, <2>3, <4>2, SubscriptionsAssumption DEF SubTypeOK, MailTypeOK, Seen
        <4> QED
          BY <2>3, <4>1, <4>2, <4>3
      <3> QED
        BY <1>3, <1>4, <2>3, <2>4, <3>1, BelowAppend
    <2>7. HadBy(c, m.id)'
      BY <2>3, OneOwner, OneOwnerThread
    <2>8. \A i \in 1..Len(inbox'[d]) :
            (i \in 1..Len(inbox[d]) /\ inbox'[d][i] = inbox[d][i]) \/ inbox'[d][i] = m
      BY <1>4, <2>3, <2>4
    <2> QED
      BY <1>5, <1>8, <2>3, <2>5, <2>6, <2>7, <2>8
  <1> QED
    BY <1>2, <1>5, <1>6, <1>7, <1>8 DEF InboxEffect

LEMMA NoticeThread ==
    ASSUME RegisteredInv, OrderInv, NEW c \in Conns, ThreadAct(c)
    PROVE  NoticeInv'
  <1>1. /\ SubTypeOK /\ TablesHoldLiveWaiters /\ MemoryEffect(c) /\ UNCHANGED <<cb, sent>>
        /\ NoticeInv
    BY Effect, Posts DEF RegisteredInv, PostEffect, OrderInv
  <1>2. \A id : Seen(id)' = Seen(id)
    BY <1>1 DEF Seen, Notifying
  <1>3. ASSUME NEW id \in SubIds, subscriptions'[id] # None, IsInd(rsp'[subscriptions'[id]])
        PROVE  rsp'[subscriptions'[id]].seq <= Seen(id)
    <2>1. rsp'[subscriptions'[id]] # None
      BY <1>3 DEF IsInd
    <2>2. /\ subscriptions'[id] = subscriptions[id]
          /\ rsp'[subscriptions[id]] = rsp[subscriptions[id]]
      BY <1>1, <1>3, <2>1, EntryLeft DEF Ids
    <2> QED
      BY <1>1, <1>3, <2>2 DEF NoticeInv
  <1> QED
    BY <1>1, <1>2, <1>3 DEF NoticeInv

LEMMA PhaseOther ==
    ASSUME RegisteredInv, OwnershipInv, OrderInv, KeysApart, NEW c \in Conns, ThreadAct(c),
           NEW d \in Conns \ {c}
    PROVE  PhaseOf(d)'
  <1>1. SubTypeOK /\ PhaseInv /\ OwnerInv /\ EntryInv /\ SlotInv
    BY DEF RegisteredInv, OwnershipInv, OrderInv
  <1>2. InboxEffect(c) /\ LocalEffect(c) /\ MemoryEffect(c)
    BY <1>1, NoticeEffects, InboxEffects, Locals, Effect
  <1>3. SameLocals(d) /\ PhaseOf(d)
    BY <1>1, <1>2 DEF LocalEffect, PhaseInv
  <1>4. UNCHANGED sent /\ \A id : Seen(id)' = Seen(id)
    BY <1>1, Posts DEF PostEffect, Seen, Notifying
  <1>5. pc[d] \in Owning => rsp'[subwaiter[d]] = rsp[subwaiter[d]]
    BY <1>1, <1>2, OtherEntry DEF SameMail
  <1>6. \A id, n : BelowIn(inbox[d], id, n) => BelowIn(inbox'[d], id, n)
    <2>1. inbox[d] \in Seq(ClientMessage)
      BY <1>1 DEF SubTypeOK, MailTypeOK
    <2>2. ASSUME NEW id, NEW n, BelowIn(inbox[d], id, n),
                 NEW m \in ClientMessage, m.via # "ind", inbox'[d] = Append(inbox[d], m)
          PROVE  BelowIn(inbox'[d], id, n)
      BY <2>1, <2>2, BelowAppend
    <2> QED
      BY <1>2, <2>2 DEF InboxEffect
  <1>7. {"subfill", "subsend", "subfree"} \subseteq Owning
    BY DEF Owning, Loop
  <1> QED
    BY <1>3, <1>4, <1>5, <1>6, <1>7 DEF PhaseOf, SameLocals

\* A thread that owns an id after its step has it anew, with an empty slot, or has
\* its slot as it was.
LEMMA SlotKept ==
    ASSUME RegisteredInv, OwnershipInv, KeysApart, NEW c \in Conns, ThreadAct(c), pc'[c] \in Owning
    PROVE  \/ rsp'[subwaiter'[c]] = None
           \/ /\ pc[c] \in Owning /\ subid'[c] = subid[c] /\ subwaiter'[c] = subwaiter[c]
              /\ rsp'[subwaiter[c]] = rsp[subwaiter[c]]
  <1>1. /\ SubTypeOK /\ TablesHoldLiveWaiters /\ MemoryEffect(c) /\ OwnerInv /\ SlotInv /\ GrantInv
    BY Effect DEF RegisteredInv, OwnershipInv
  <1>2. PICK id : id = subid'[c]
    OBVIOUS
  <1>3. id \in SubIds /\ subscriptions'[id] = subwaiter'[c]
    BY <1>2, OwnerThread DEF OwnerInv
  <1>4. subwaiter'[c] # None
    BY <1>1, Locals, WaitersAssumption DEF LocalEffect, HandlerTypeOK, Owning, Serving
  <1>5. Owns(c, id)'
    BY <1>2 DEF Owns
  <1>6. CASE Owns(c, id) /\ subid'[c] = subid[c] /\ subwaiter'[c] = subwaiter[c]
    <2>1. subscriptions[id] = subwaiter[c]
      BY <1>1, <1>6 DEF OwnerInv, Owns
    <2> QED
      BY <1>1, <1>3, <1>4, <1>6, <2>1, EntryLeft DEF Ids, Owns
  <1>7. CASE RegisterSubwaiter(c)
    <2>1. pc'[c] = "ack"
      BY <1>1, <1>7, FirstEntry DEF Owning, Loop
    <2> QED
      BY <1>1, <1>7, <2>1, FirstEntry
  <1> QED
    BY <1>5, <1>6, <1>7, OwnsThread

\* The loop goes on with its id and its subwaiter.
LEMMA LoopKeeps ==
    ASSUME RegisteredInv, OwnershipInv, NEW c \in Conns, ThreadAct(c), pc'[c] \in Owning,
           pc[c] \in Owning
    PROVE  subid'[c] = subid[c] /\ subwaiter'[c] = subwaiter[c]
  <1>1. PICK id : id = subid'[c]
    OBVIOUS
  <1>2. Owns(c, id)'
    BY <1>1 DEF Owns
  <1>3. ~RegisterSubwaiter(c)
    BY DEF RegisterSubwaiter, Owning, Loop
  <1> QED
    BY <1>2, <1>3, OwnsThread

LEMMA PhaseSelf ==
    ASSUME RegisteredInv, OwnershipInv, OrderInv, KeysApart, NEW c \in Conns, ThreadAct(c)
    PROVE  PhaseOf(c)'
  <1>1. SubTypeOK /\ InboxInv /\ NoticeInv /\ PhaseInv /\ OwnerInv /\ EntryInv /\ SlotInv /\ PhaseOf(c)
    BY DEF RegisteredInv, OwnershipInv, OrderInv, PhaseInv
  <1>2. \A id : Seen(id)' = Seen(id)
    BY <1>1, Posts DEF PostEffect, Seen, Notifying
  <1>3. NoticeEffect(c) /\ InboxEffect(c)
    BY <1>1, NoticeEffects, InboxEffects
  <1>4. pc[c] \in Owning =>
          /\ subid[c] \in SubIds /\ subscriptions[subid[c]] = subwaiter[c]
          /\ subscriptions[subid[c]] # None
          /\ subwaiter[c] \in live /\ subwaiter[c] \in Waiter
          /\ RspRead(subwaiter[c]) = rsp[subwaiter[c]] /\ rsp[subwaiter[c]] \in Message \cup {None}
    BY <1>1, OwnedWaiter, WaitersAssumption DEF SubTypeOK, MemoryTypeOK
  <1>5. CASE SameLocals(c) /\ UNCHANGED <<rsp, inbox>>
    BY <1>1, <1>2, <1>5 DEF PhaseOf, SameLocals
  <1>6. CASE TakesHead(c)
    <2>1. PICK r : r = rsp[subwaiter[c]]
      OBVIOUS
    <2>2. PICK id : id = subid[c]
      OBVIOUS
    <2>3. pc[c] \in Owning /\ pc'[c] \in Owning /\ pc'[c] = "subfill" /\ pc[c] = "subread"
      BY <1>6 DEF TakesHead, Owning, Loop
    <2>4. subid'[c] = id /\ subwaiter'[c] = subwaiter[c] /\ rsp' = rsp /\ inbox' = inbox
      BY <1>6, <2>2, <2>3, LoopKeeps DEF TakesHead
    <2>5. /\ IsInd(r) /\ r \in Message
          /\ bd'[c] = [via |-> "ind", id |-> r.id, seq |-> r.seq]
      BY <1>4, <1>6, <2>1, <2>3 DEF TakesHead, IsInd
    <2>6. r.id = id /\ r.seq \in 1..MaxInd
      <3>1. r.id = id
        BY <1>1, <1>4, <2>1, <2>2, <2>3, <2>5 DEF EntryInv, IsInd, Ids
      <3>2. r \in Indications
        BY <2>5 DEF IsInd, Message, Confirmation, SimpleKinds, Granted, Refused, Unsubscriptions
      <3> QED
        BY <3>1, <3>2 DEF Indications
    <2>7. r.seq <= Seen(id)
      BY <1>1, <1>4, <2>1, <2>2, <2>3, <2>5 DEF NoticeInv
    <2>8. BelowIn(inbox[c], id, r.seq)
      BY <1>1, <2>1, <2>2, <2>3, <2>5 DEF PhaseOf
    <2>9. r.seq <= r.seq
      BY <2>6
    <2> QED
      BY <1>2, <2>1, <2>3, <2>4, <2>5, <2>6, <2>7, <2>8, <2>9 DEF PhaseOf
  <1>7. CASE TakesResults(c)
    <2>1. PICK r : r = rsp[subwaiter[c]]
      OBVIOUS
    <2>2. PICK id : id = subid[c]
      OBVIOUS
    <2>3. pc[c] \in Owning /\ pc'[c] \in Owning /\ pc'[c] = "subsend" /\ pc[c] = "subfill"
      BY <1>7 DEF TakesResults, Owning, Loop
    <2>4. subid'[c] = id /\ subwaiter'[c] = subwaiter[c] /\ rsp' = rsp /\ inbox' = inbox
      BY <1>7, <2>2, <2>3, LoopKeeps DEF TakesResults
    <2>5. PICK n : /\ n = IF IsInd(r) THEN r.seq ELSE 0
                   /\ bd'[c] = [via |-> "ind", id |-> bd[c].id, seq |-> bd[c].seq, results |-> n]
      BY <1>4, <1>7, <2>1, <2>3 DEF TakesResults
    <2>6. /\ bd[c].via = "ind" /\ bd[c].id = id /\ bd[c].seq \in 1..MaxInd
          /\ BelowIn(inbox[c], id, bd[c].seq) /\ bd[c].seq <= Seen(id)
          /\ IsInd(r) => bd[c].seq <= r.seq /\ BelowIn(inbox[c], id, r.seq)
      BY <1>1, <2>1, <2>2, <2>3 DEF PhaseOf
    <2>7. IsInd(r) => r.seq \in 1..MaxInd /\ r.seq <= Seen(id)
      <3>1. IsInd(r) => r \in Indications
        BY <1>4, <2>1, <2>3 DEF IsInd, Message, Confirmation, SimpleKinds, Granted, Refused, Unsubscriptions
      <3>2. IsInd(r) => r.seq <= Seen(id)
        BY <1>1, <1>4, <2>1, <2>2, <2>3 DEF NoticeInv
      <3> QED
        BY <3>1, <3>2 DEF Indications
    <2>8. id \in SubIds /\ MaxInd \in Nat
      BY <1>4, <2>2, <2>3, SubscriptionsAssumption
    <2>9. n \in 0..MaxInd /\ n <= Seen(id) /\ (IsInd(r) => n <= r.seq)
      <3>1. PICK s : s = Seen(id)
        OBVIOUS
      <3>2. s + 1 \in Nat /\ bd[c].seq <= s
        BY <1>1, <2>6, <2>8, <3>1, SeenType
      <3>3. s \in {sent[id], sent[id] - 1} /\ sent[id] \in Nat
        BY <1>1, <2>8, <3>1, SubscriptionsAssumption DEF SubTypeOK, MailTypeOK, Seen
      <3>4. 0 <= s
        BY <2>6, <2>8, <3>2, <3>3
      <3> QED
        BY <2>5, <2>7, <2>8, <3>1, <3>4
    <2>10. bd'[c] \in SentIndication
      BY <2>5, <2>6, <2>8, <2>9 DEF SentIndication
    <2>11. bd'[c].via = "ind" /\ bd'[c].id = id /\ bd'[c].seq = bd[c].seq /\ bd'[c].results = n
      BY <2>5, <2>6
    <2> QED
      BY <1>2, <2>1, <2>3, <2>4, <2>6, <2>9, <2>10, <2>11 DEF PhaseOf
  <1>8. CASE SendsBoth(c)
    <2>1. PICK r : r = rsp[subwaiter[c]]
      OBVIOUS
    <2>2. PICK id : id = subid[c]
      OBVIOUS
    <2>3. PICK m : m = bd[c]
      OBVIOUS
    <2>4. pc[c] \in Owning /\ pc'[c] \in Owning /\ pc'[c] = "subfree" /\ pc[c] = "subsend"
      BY <1>8 DEF SendsBoth, Owning, Loop
    <2>5. /\ subid'[c] = id /\ subwaiter'[c] = subwaiter[c] /\ rsp' = rsp
          /\ inbox'[c] = Append(inbox[c], m) /\ inbox[c] \in Seq(ClientMessage)
      BY <1>1, <1>8, <2>2, <2>3, <2>4, LoopKeeps DEF SendsBoth, SubTypeOK, MailTypeOK
    <2>6. m \in SentIndication /\ m \in ClientMessage
      BY <1>1, <2>3, <2>4, SendsNews
    <2>7. IsInd(r) => BelowIn(inbox'[c], id, r.seq + 1)
      <3> SUFFICES ASSUME IsInd(r) PROVE BelowIn(inbox'[c], id, r.seq + 1)
        OBVIOUS
      <3>1. r \in Indications
        BY <1>4, <2>1, <2>4 DEF IsInd, Message, Confirmation, SimpleKinds, Granted, Refused, Unsubscriptions
      <3>2. r.seq \in Nat /\ r.seq + 1 \in Nat /\ r.seq <= r.seq + 1
        BY <3>1, SubscriptionsAssumption DEF Indications
      <3>3. m.seq <= r.seq /\ m.results <= r.seq /\ BelowIn(inbox[c], id, r.seq)
        BY <1>1, <2>1, <2>2, <2>3, <2>4 DEF PhaseOf
      <3>4. m.seq \in Nat /\ m.results \in Nat
        BY <2>6, SubscriptionsAssumption DEF SentIndication
      <3>5. BelowIn(inbox[c], id, r.seq + 1)
        BY <1>1, <3>2, <3>3, BelowMore
      <3>6. m.seq < r.seq + 1 /\ m.results < r.seq + 1
        BY <3>2, <3>3, <3>4
      <3> QED
        BY <2>5, <2>6, <3>5, <3>6, BelowAppend
    <2> QED
      BY <2>1, <2>4, <2>5, <2>7 DEF PhaseOf
  <1>9. CASE Otherwise(c)
    <2>1. pc'[c] \notin {"subfill", "subsend", "subfree"}
      BY <1>9 DEF Otherwise
    <2>2. pc'[c] \in {"reply", "ack", "unlist", "tell", "subend"} => bd'[c].via # "ind"
      BY <1>1, <1>9 DEF Otherwise, PhaseOf
    <2>3. ASSUME pc'[c] \in Owning, IsInd(rsp'[subwaiter'[c]])
          PROVE  BelowIn(inbox'[c], subid'[c], rsp'[subwaiter'[c]].seq)
      <3>1. /\ pc[c] \in Owning /\ subid'[c] = subid[c] /\ subwaiter'[c] = subwaiter[c]
            /\ rsp'[subwaiter[c]] = rsp[subwaiter[c]]
        BY <2>3, SlotKept DEF IsInd
      <3>2. pc[c] # "subfree"
        <4>1. pc[c] = "subfree" => rsp' = [rsp EXCEPT ![subwaiter[c]] = None]
          BY <1>9 DEF Otherwise, EmptiesSlot
        <4> QED
          BY <1>1, <1>4, <2>3, <3>1, <4>1 DEF IsInd, SubTypeOK, MemoryTypeOK
      <3>3. BelowIn(inbox[c], subid[c], rsp[subwaiter[c]].seq)
        BY <1>1, <2>3, <3>1, <3>2 DEF PhaseOf
      <3>4. CASE inbox'[c] = inbox[c]
        BY <3>1, <3>3, <3>4
      <3>5. ASSUME NEW m \in ClientMessage, m.via # "ind", inbox'[c] = Append(inbox[c], m)
            PROVE  BelowIn(inbox'[c], subid[c], rsp[subwaiter[c]].seq)
        BY <1>1, <3>3, <3>5, BelowAppend DEF SubTypeOK, MailTypeOK
      <3>6. ~SendsBoth(c)
        BY <2>1 DEF SendsBoth
      <3> QED
        BY <1>3, <3>1, <3>4, <3>5, <3>6 DEF InboxEffect
    <2> QED
      BY <2>1, <2>2, <2>3 DEF PhaseOf
  <1> QED
    BY <1>3, <1>5, <1>6, <1>7, <1>8, <1>9 DEF NoticeEffect

LEMMA OrderThread ==
    ASSUME RegisteredInv, OwnershipInv, OrderInv, KeysApart, NEW c \in Conns, ThreadAct(c)
    PROVE  OrderInv'
  BY InboxThread, NoticeThread, PhaseOther, PhaseSelf DEF OrderInv, PhaseInv

\* What the other side does to an entry's slot: it leaves no indication there but
\* the one that was there, or the callback's.
Brings(id) ==
    LET w == subscriptions[id] IN
    w # None /\ IsInd(rsp'[w]) =>
        \/ rsp'[w] = rsp[w]
        \/ Notifying(id) /\ rsp'[w].seq = sent[id] /\ Seen(id)' = sent[id]

NewsEffect ==
    /\ \A id \in SubIds : Seen(id) <= Seen(id)'
    /\ \A id \in SubIds : served[id] # "unused" => served'[id] # "unused"
    /\ \A d \in Conns, id \in SubIds : GrantedTo(d, id)' => GrantedTo(d, id) \/ served[id] = "unused"
    /\ \A id \in SubIds : Brings(id)
    /\ cb' # None /\ cb'.msg.via = "ind" => cb'.msg.seq = sent'[cb'.msg.id]

LEMMA OrderNews ==
    ASSUME RegisteredInv, SubTypeOK', OwnershipInv, OrderInv, MailStep, NewsEffect
    PROVE  OrderInv'
  <1>1. /\ SubTypeOK /\ InboxInv /\ NoticeInv /\ PhaseInv /\ OwnerInv /\ TablesHoldLiveWaiters
        /\ UNCHANGED <<subscriptions, pc, bd, waiter, subwaiter, subid, inbox>>
    BY MailLeaves DEF RegisteredInv, OwnershipInv, OrderInv, threadVars
  <1>2. ASSUME NEW id \in SubIds
        PROVE  /\ Seen(id) + 1 \in Nat /\ Seen(id)' + 1 \in Nat
               /\ Seen(id) + 1 <= Seen(id)' + 1 /\ Seen(id) <= Seen(id)'
               /\ Notifying(id) => Seen(id) + 1 = sent[id]
    <2>1. sent[id] \in Nat /\ sent'[id] \in Nat
      BY SubscriptionsAssumption, <1>1 DEF SubTypeOK, MailTypeOK
    <2>2. Seen(id) \in {sent[id], sent[id] - 1}
      BY DEF Seen
    <2>3. Seen(id)' \in {sent'[id], sent'[id] - 1}
      BY DEF Seen
    <2>4. Seen(id) <= Seen(id)'
      BY DEF NewsEffect
    <2>5. Notifying(id) => Seen(id) = sent[id] - 1
      BY DEF Seen
    <2>6. Notifying(id) => sent[id] # 0
      <3>1. ASSUME Notifying(id) PROVE cb.msg \in Message /\ cb.msg.via = "ind" /\ cb.msg.seq = sent[id]
        BY <1>1, <3>1, TokenTypes DEF Notifying, NoticeInv
      <3>2. ASSUME Notifying(id) PROVE cb.msg \in Indications
        BY <3>1, <3>2 DEF Message, Confirmation, SimpleKinds, Granted, Refused, Unsubscriptions
      <3> QED
        BY <3>1, <3>2, SubscriptionsAssumption DEF Indications
    <2>7. Seen(id) + 1 \in Nat /\ Seen(id)' + 1 \in Nat
      BY <1>1, SeenType, <2>1, <2>3
    <2> QED
      BY <2>1, <2>2, <2>3, <2>4, <2>5, <2>6, <2>7
  <1>3. ASSUME NEW c \in Conns, NEW m, m.via = "ind", NEW i \in 1..Len(inbox[c]), inbox[c][i] = m
        PROVE  m \in SentIndication /\ HadBy(c, m.id)'
    <2>1. m \in SentIndication /\ HadBy(c, m.id) /\ m.id \in SubIds
      BY <1>1, <1>3 DEF InboxInv, SentIndication
    <2>2. \A d \in Conns : Owns(d, m.id)' => Owns(d, m.id)
      BY <1>1 DEF Owns
    <2>3. served'[m.id] # "unused" /\ \A d \in Conns : ~GrantedTo(d, m.id)'
      BY <2>1 DEF NewsEffect, HadBy
    <2> QED
      BY <2>1, <2>2, <2>3 DEF HadBy
  <1>4. InboxInv'
    <2>1. \A c \in Conns : OrderedIn(inbox'[c])
      BY <1>1 DEF InboxInv
    <2>2. ASSUME NEW c \in Conns, NEW id \in SubIds PROVE BelowIn(inbox'[c], id, Seen(id)' + 1)
      BY <1>1, <1>2, BelowMore DEF InboxInv
    <2>3. \A c \in Conns : \A i \in 1..Len(inbox'[c]) : \A m : m = inbox'[c][i] /\ m.via = "ind" =>
             m \in SentIndication /\ HadBy(c, m.id)'
      BY <1>1, <1>3
    <2> QED
      BY <2>1, <2>2, <2>3 DEF InboxInv, HadBy, GrantedTo, Grants, Owns, Seen, Notifying
  <1>5. NoticeInv'
    <2>1. ASSUME NEW id \in SubIds, subscriptions'[id] # None, IsInd(rsp'[subscriptions'[id]])
          PROVE  rsp'[subscriptions'[id]].seq <= Seen(id)'
      <3>1. PICK w : w = subscriptions[id]
        OBVIOUS
      <3>2. w \in Waiter /\ w # None
        BY <1>1, <2>1, <3>1 DEF SubTypeOK, MemoryTypeOK, Ids
      <3>3. CASE rsp'[w] = rsp[w]
        <4>1. rsp[w].seq <= Seen(id)
          BY <1>1, <2>1, <3>1, <3>2, <3>3 DEF NoticeInv
        <4>2. rsp[w].seq \in Nat
          <5>1. rsp[w] \in Message
            BY <1>1, <2>1, <3>1, <3>2, <3>3 DEF SubTypeOK, MemoryTypeOK, IsInd
          <5>2. rsp[w] \in Indications
            BY <1>1, <2>1, <3>1, <3>3, <5>1
               DEF IsInd, Message, Confirmation, SimpleKinds, Granted, Refused, Unsubscriptions
          <5> QED
            BY <5>2, SubscriptionsAssumption DEF Indications
        <4>3. PICK n, m, k : n = Seen(id) /\ m = Seen(id)' /\ k = rsp[w].seq
          OBVIOUS
        <4>4. /\ n <= m /\ n \in {sent[id], sent[id] - 1} /\ sent[id] \in Nat
              /\ m \in {sent'[id], sent'[id] - 1} /\ sent'[id] \in Nat
          BY <1>1, <1>2, <4>3, SubscriptionsAssumption DEF SubTypeOK, MailTypeOK, Seen
        <4>5. k <= m
          BY <4>1, <4>2, <4>3, <4>4
        <4> QED
          BY <1>1, <3>1, <3>3, <4>3, <4>5
      <3>4. CASE Notifying(id) /\ rsp'[w].seq = sent[id] /\ Seen(id)' = sent[id]
        BY <1>1, <3>1, <3>4, SeenType
      <3> QED
        BY <1>1, <2>1, <3>1, <3>2, <3>3, <3>4 DEF NewsEffect, Brings
    <2> QED
      BY <2>1 DEF NewsEffect, NoticeInv
  <1>6. ASSUME NEW c \in Conns PROVE PhaseOf(c)'
    <2>1. PhaseOf(c)
      BY <1>1 DEF PhaseInv
    <2>2. PICK id : id = subid[c]
      OBVIOUS
    <2>3. PICK w : w = subwaiter[c]
      OBVIOUS
    <2>4. CASE pc[c] \notin Owning
      <3>1. {"subfill", "subsend", "subfree"} \subseteq Owning
        BY DEF Owning, Loop
      <3> QED
        BY <1>1, <2>1, <2>4, <3>1 DEF PhaseOf
    <2>5. CASE pc[c] \in Owning
      <3>1. id \in SubIds /\ subscriptions[id] = w /\ w \in Waiter /\ w # None
        BY <1>1, <2>2, <2>3, <2>5, OwnedWaiter, WaitersAssumption
      <3>2. PICK b : b = bd[c]
        OBVIOUS
      <3>3. /\ pc[c] \in {"subfill", "subsend"} => b.seq \in Nat /\ b.seq <= Seen(id)' /\ b.seq <= Seen(id)
            /\ pc[c] = "subsend" => b.results \in Nat /\ b.results <= Seen(id)' /\ b.results <= Seen(id)
        <4>1. /\ pc[c] \in {"subfill", "subsend"} => b.seq \in Nat /\ b.seq <= Seen(id)
              /\ pc[c] = "subsend" => b.results \in Nat /\ b.results <= Seen(id)
          BY <2>1, <2>2, <3>2, SubscriptionsAssumption DEF PhaseOf, SentIndication
        <4>2. PICK n, m : n = Seen(id) /\ m = Seen(id)'
          OBVIOUS
        <4>3. n + 1 \in Nat /\ m + 1 \in Nat /\ n <= m /\ n \in {sent[id], sent[id] - 1} /\ sent[id] \in Nat
              /\ m \in {sent'[id], sent'[id] - 1} /\ sent'[id] \in Nat
          BY <1>1, <1>2, <3>1, <4>2, SubscriptionsAssumption DEF SubTypeOK, MailTypeOK, Seen
        <4> QED
          BY <4>1, <4>2, <4>3
      <3>4. CASE ~IsInd(rsp'[w])
        BY <1>1, <2>1, <2>2, <2>3, <3>2, <3>3, <3>4 DEF PhaseOf
      <3>5. CASE IsInd(rsp'[w]) /\ rsp'[w] = rsp[w]
        BY <1>1, <2>1, <2>2, <2>3, <3>2, <3>3, <3>5 DEF PhaseOf
      <3>6. CASE IsInd(rsp'[w]) /\ Notifying(id) /\ rsp'[w].seq = sent[id]
        <4>1. /\ Seen(id) + 1 = sent[id] /\ sent[id] \in Nat /\ sent[id] + 1 \in Nat
              /\ sent[id] <= sent[id] + 1 /\ Seen(id) = sent[id] - 1
          BY <1>1, <1>2, <3>1, <3>6, SeenType DEF Seen
        <4>2. BelowIn(inbox[c], id, sent[id]) /\ BelowIn(inbox[c], id, sent[id] + 1)
          <5>1. BelowIn(inbox[c], id, Seen(id) + 1)
            BY <1>1, <3>1 DEF InboxInv
          <5>2. BelowIn(inbox[c], id, sent[id])
            BY <4>1, <5>1
          <5> QED
            BY <1>1, <4>1, <5>2, BelowMore
        <4>3. /\ pc[c] \in {"subfill", "subsend"} => b.seq <= sent[id]
              /\ pc[c] = "subsend" => b.results <= sent[id]
          BY <3>3, <4>1
        <4> QED
          BY <1>1, <2>1, <2>2, <2>3, <3>2, <3>3, <3>6, <4>2, <4>3 DEF PhaseOf
      <3> QED
        BY <1>1, <3>1, <3>4, <3>5, <3>6 DEF NewsEffect, Brings
    <2> QED
      BY <2>4, <2>5
  <1> QED
    BY <1>4, <1>5, <1>6 DEF OrderInv, PhaseInv

\* The four ways in which the other side deals with indications: the callback
\* completes a waiter, and an indication strays when that has been another's,
Completes ==
    /\ cb # None /\ cb' = None /\ CompleteWith(cb.waiter, cb.msg)
    /\ ~strayed' => ~(cb.msg.via = "ind" /\ Reused(cb.waiter, cb.msg.id))
    /\ UNCHANGED <<sent, served>>

\* a slot is emptied, or gets the confirmation of an unsubscribe,
Overwrites ==
    /\ \A w \in Waiter : rsp'[w] \in {None, rsp[w]} \/ rsp'[w].via = "unsubscribe"
    /\ UNCHANGED <<cb, sent, served>>

\* the SIB answers, and what it grants is new,
Confirms ==
    /\ cb = None /\ UNCHANGED <<rsp, sent>>
    /\ cb' # None =>
        /\ cb'.msg.via # "ind"
        /\ \A id \in SubIds : Grants(cb'.msg, id) => served[id] = "unused"
    /\ \A id \in SubIds : served[id] # "unused" => served'[id] # "unused"

\* or it sends an indication.
Indicates ==
    \E id \in SubIds :
        /\ cb = None /\ UNCHANGED <<rsp, served>>
        /\ sent' = [sent EXCEPT ![id] = @ + 1]
        /\ cb' # None => cb'.msg.via = "ind" /\ cb'.msg.id = id /\ cb'.msg.seq = sent[id] + 1

LEMMA NewsSteps ==
    ASSUME SubTypeOK, MailStep
    PROVE  Completes \/ Overwrites \/ Confirms \/ Indicates
  <1>1. CASE FillWaiter
    BY <1>1 DEF FillWaiter, CompleteWaiter, Completes
  <1>2. CASE LookUpSubwaiter
    BY <1>2 DEF LookUpSubwaiter, Unsubscribed, Overwrites, SubTypeOK, MemoryTypeOK
  <1>3. CASE CompleteSubwaiter
    BY <1>3 DEF CompleteSubwaiter, CompleteWith, Unsubscribed, Overwrites, SubTypeOK, MemoryTypeOK
  <1>4. CASE CompleteUnsubscribe
    BY <1>4 DEF CompleteUnsubscribe, CompleteWith, Overwrites, SubTypeOK, MemoryTypeOK
  <1>5. ASSUME NEW t \in sib, NEW status \in {"ok", "failed"}, MainLoopFree,
               ConfirmationArrives(t, status), UNCHANGED subVars
        PROVE  Confirms
    <2>1. PICK m : m = [for |-> t.for, via |-> t.kind, status |-> status]
      OBVIOUS
    <2>2. t.kind \in SimpleKinds /\ (cb' = None \/ cb' = [waiter |-> requests[t.key], msg |-> m])
      BY <1>5, <2>1 DEF ConfirmationArrives
    <2>3. cb' # None => cb'.msg.via # "ind" /\ cb'.msg.via # "subscribe"
      BY <2>1, <2>2 DEF SimpleKinds
    <2>4. cb = None /\ UNCHANGED <<rsp, sent, served>>
      BY <1>5 DEF ConfirmationArrives, waiterVars, subVars
    <2> QED
      BY <2>3, <2>4 DEF Confirms, Grants
  <1>6. ASSUME NEW t \in sib, NEW id \in Ids, SubscribeConfirmed(t, id)
        PROVE  Confirms
    <2>1. PICK m : m = [via |-> "subscribe", for |-> t.for, id |-> id,
                        status |-> IF id = NoSub THEN "failed" ELSE "ok"]
      OBVIOUS
    <2>2. /\ cb = None /\ UNCHANGED <<rsp, sent>>
          /\ cb' = None \/ cb' = [waiter |-> requests[t.key], msg |-> m]
          /\ id # NoSub => served[id] = "unused"
          /\ served' = IF id = NoSub THEN served ELSE [served EXCEPT ![id] = "active"]
      BY <1>6, <2>1 DEF SubscribeConfirmed, MainLoopFree, waiterVars
    <2>3. cb' # None => cb'.msg.via # "ind" /\ cb'.msg.id = id
      BY <2>1, <2>2
    <2>4. \A i \in SubIds : served[i] # "unused" => served'[i] # "unused"
      BY <2>2 DEF SubTypeOK, MailTypeOK
    <2>5. \A i \in SubIds : i # NoSub
      BY SubscriptionsAssumption
    <2> QED
      BY <2>2, <2>3, <2>4, <2>5 DEF Confirms, Grants
  <1>7. ASSUME NEW t \in unsubs, UnsubscribeConfirmed(t)
        PROVE  Confirms
    <2>1. /\ cb = None /\ cb' = None /\ UNCHANGED <<rsp, sent>>
          /\ served' = [served EXCEPT ![t.id] = "ended"]
      BY <1>7 DEF UnsubscribeConfirmed, MainLoopFree, waiterVars
    <2>2. \A i \in SubIds : served[i] # "unused" => served'[i] # "unused"
      BY <2>1 DEF SubTypeOK, MailTypeOK
    <2> QED
      BY <2>1, <2>2 DEF Confirms
  <1>8. ASSUME NEW id \in SubIds, IndicationArrives(id)
        PROVE  Indicates
    <2>1. /\ cb = None /\ UNCHANGED <<rsp, served>> /\ sent' = [sent EXCEPT ![id] = @ + 1]
          /\ cb' = None \/ cb' = [waiter |-> subscriptions[id], msg |-> Indication(id, sent[id] + 1)]
      BY <1>8 DEF IndicationArrives, MainLoopFree, waiterVars
    <2>2. cb' # None => cb'.msg.via = "ind" /\ cb'.msg.id = id /\ cb'.msg.seq = sent[id] + 1
      BY <2>1 DEF Indication
    <2> QED
      BY <2>1, <2>2 DEF Indicates
  <1>9. CASE WakeRound
    BY <1>9 DEF WakeRound, Overwrites, SubTypeOK, MemoryTypeOK, subVars
  <1> QED
    BY <1>1, <1>2, <1>3, <1>4, <1>5, <1>6, <1>7, <1>8, <1>9
       DEF MailStep, Callback, SibAnswers, SibNotifies

LEMMA CompletesNews ==
    ASSUME RegisteredInv, OwnershipInv, OrderInv, MailStep, ~strayed', Completes
    PROVE  NewsEffect
  <1>1. /\ SubTypeOK /\ TablesHoldLiveWaiters /\ CallbackInv /\ NoticeInv
        /\ UNCHANGED <<pc, waiter, subscriptions>>
        /\ cb # None /\ cb' = None /\ UNCHANGED <<sent, served>>
        /\ rsp' = IF cb.waiter \in live THEN [rsp EXCEPT ![cb.waiter] = cb.msg] ELSE rsp
        /\ ~(cb.msg.via = "ind" /\ Reused(cb.waiter, cb.msg.id))
    BY MailLeaves DEF RegisteredInv, OwnershipInv, OrderInv, threadVars, Completes, CompleteWith
  <1>2. \A w \in Waiter : rsp'[w] = rsp[w] \/ (w = cb.waiter /\ w \in live /\ rsp'[w] = cb.msg)
    BY <1>1 DEF SubTypeOK, MemoryTypeOK
  <1>3. ASSUME NEW id \in SubIds
        PROVE  sent[id] \in Nat /\ Seen(id)' = sent[id] /\ Seen(id) <= Seen(id)'
    <2>1. sent[id] \in Nat
      BY <1>1, SeenType
    <2>2. Seen(id)' = sent[id]
      BY <1>1 DEF Seen, Notifying
    <2> QED
      BY <2>1, <2>2 DEF Seen
  <1>4. ASSUME NEW d \in Conns, NEW id \in SubIds, GrantedTo(d, id)'
        PROVE  GrantedTo(d, id)
    <2>1. pc[d] \in {"wait", "build"} /\ Grants(rsp'[waiter[d]], id) /\ waiter[d] \in Waiter
      BY <1>1, <1>4, RequestWaiter DEF GrantedTo, Grants
    <2>2. CASE rsp'[waiter[d]] = rsp[waiter[d]]
      BY <2>1, <2>2 DEF GrantedTo
    <2>3. CASE waiter[d] = cb.waiter /\ rsp'[waiter[d]] = cb.msg
      <3>1. Grants(cb.msg, id)
        BY <2>1, <2>3
      <3>2. PICK f : f = cb.msg.for
        OBVIOUS
      <3>3. f \in Id /\ Awaited(f) /\ cb.waiter = waiter[f[1]]
        BY <1>1, <3>1, <3>2 DEF CallbackInv, Grants
      <3>4. f[1] \in Conns /\ pc[f[1]] = "wait"
        BY <3>3 DEF Id, Awaited
      <3>5. d = f[1]
        BY <2>1, <2>3, <3>3, <3>4, RequestsDiffer
      <3> QED
        BY <1>1, <3>1, <3>2, <3>5 DEF GrantedTo
    <2> QED
      BY <1>2, <2>1, <2>2, <2>3
  <1>5. ASSUME NEW id \in SubIds PROVE Brings(id)
    <2>1. PICK w : w = subscriptions[id]
      OBVIOUS
    <2> SUFFICES ASSUME w # None, IsInd(rsp'[w]), rsp'[w] # rsp[w]
                 PROVE  Notifying(id) /\ rsp'[w].seq = sent[id] /\ Seen(id)' = sent[id]
      BY <2>1 DEF Brings
    <2>2. w \in Waiter
      BY <1>1, <2>1 DEF SubTypeOK, MemoryTypeOK, Ids
    <2>3. w = cb.waiter /\ w \in live /\ rsp'[w] = cb.msg /\ cb.msg.via = "ind"
      BY <1>2, <2>2 DEF IsInd
    <2>4. subscriptions[cb.msg.id] = w
      BY <1>1, <2>3 DEF Reused
    <2>5. cb.msg \in Message /\ cb.msg.id \in Ids
      BY <1>1, <2>3, TokenTypes, NamedId DEF Named
    <2>6. cb.msg.id = id
      BY <1>1, <2>1, <2>4, <2>5 DEF TablesHoldLiveWaiters, Ids
    <2>7. cb.msg.seq = sent[id]
      BY <1>1, <2>3, <2>6 DEF NoticeInv
    <2> QED
      BY <1>1, <1>3, <2>3, <2>6, <2>7 DEF Notifying
  <1> QED
    BY <1>1, <1>3, <1>4, <1>5 DEF NewsEffect

LEMMA News ==
    ASSUME RegisteredInv, OwnershipInv, OrderInv, MailStep, ~strayed'
    PROVE  NewsEffect
  <1>1. SubTypeOK /\ NoticeInv /\ UNCHANGED <<pc, waiter, subscriptions>>
    BY MailLeaves DEF RegisteredInv, OrderInv, threadVars
  <1>2. \A id \in SubIds : sent[id] \in Nat
    BY <1>1, SeenType
  <1>3. \A id \in SubIds : subscriptions[id] # None => subscriptions[id] \in Waiter
    BY <1>1 DEF SubTypeOK, MemoryTypeOK, Ids
  <1>4. \A d \in Conns : pc[d] \in {"wait", "build"} => waiter[d] \in Waiter
    BY RequestWaiter
  <1>5. CASE Completes
    BY <1>5, CompletesNews
  <1>6. CASE Overwrites
    <2>1. \A id : Seen(id)' = Seen(id)
      BY <1>6 DEF Overwrites, Seen, Notifying
    <2>2. \A id \in SubIds : Seen(id) <= Seen(id)
      BY <1>2 DEF Seen
    <2>3. \A id \in SubIds : Brings(id)
      BY <1>3, <1>6 DEF Overwrites, Brings, IsInd
    <2>4. \A d \in Conns, id \in SubIds : GrantedTo(d, id)' => GrantedTo(d, id)
      BY <1>1, <1>4, <1>6 DEF Overwrites, GrantedTo, Grants
    <2> QED
      BY <1>1, <1>6, <2>1, <2>2, <2>3, <2>4 DEF NewsEffect, Overwrites, NoticeInv
  <1>7. CASE Confirms
    <2>1. \A id \in SubIds : Seen(id) = sent[id] /\ Seen(id)' = sent[id]
      BY <1>7 DEF Confirms, Seen, Notifying
    <2>2. \A d \in Conns, id \in SubIds : GrantedTo(d, id)' => GrantedTo(d, id) \/ served[id] = "unused"
      BY <1>1, <1>7 DEF Confirms, GrantedTo
    <2>3. \A id \in SubIds : Brings(id)
      BY <1>7 DEF Confirms, Brings
    <2>4. \A id \in SubIds : Seen(id) <= Seen(id)'
      BY <1>2, <2>1
    <2> QED
      BY <1>7, <2>2, <2>3, <2>4 DEF NewsEffect, Confirms
  <1>8. CASE Indicates
    <2>1. PICK id \in SubIds :
            /\ cb = None /\ UNCHANGED <<rsp, served>>
            /\ sent' = [sent EXCEPT ![id] = @ + 1]
            /\ cb' # None => cb'.msg.via = "ind" /\ cb'.msg.id = id /\ cb'.msg.seq = sent[id] + 1
      BY <1>8 DEF Indicates
    <2>2. sent'[id] = sent[id] + 1 /\ \A i \in SubIds \ {id} : sent'[i] = sent[i]
      BY <1>1, <2>1 DEF SubTypeOK, MailTypeOK
    <2>3. ASSUME NEW i \in SubIds PROVE Seen(i) <= Seen(i)'
      <3>1. Seen(i) = sent[i] /\ sent[i] \in Nat
        BY <1>2, <2>1 DEF Seen, Notifying
      <3>2. CASE i = id
        BY <2>2, <3>1, <3>2 DEF Seen
      <3>3. CASE i # id
        <4>1. Seen(i)' = sent'[i]
          BY <2>1, <3>3 DEF Seen, Notifying
        <4> QED
          BY <2>2, <3>1, <3>3, <4>1
      <3> QED
        BY <3>2, <3>3
    <2>4. \A d \in Conns, i \in SubIds : GrantedTo(d, i)' => GrantedTo(d, i)
      BY <1>1, <2>1 DEF GrantedTo, Grants
    <2>5. \A i \in SubIds : Brings(i)
      BY <2>1 DEF Brings
    <2> QED
      BY <2>1, <2>2, <2>3, <2>4, <2>5 DEF NewsEffect
  <1> QED
    BY <1>5, <1>6, <1>7, <1>8, <1>1, NewsSteps

LEMMA OrderNext ==
    ASSUME KeysApart
    PROVE  RegisteredInv /\ OwnershipInv /\ OrderInv /\ [SubNext]_vars /\ ~strayed' => OrderInv'
  <1> SUFFICES ASSUME RegisteredInv, OwnershipInv, OrderInv, [SubNext]_vars, ~strayed'
               PROVE  OrderInv'
    OBVIOUS
  <1>1. CASE UNCHANGED vars
    <2> USE <1>1 DEF vars, requestVars, waiterVars, threadVars, subVars, OrderInv
    <2>1. InboxInv'
      BY DEF InboxInv, HadBy, GrantedTo, Grants, Owns, Seen, Notifying
    <2>2. NoticeInv' /\ PhaseInv'
      BY DEF NoticeInv, PhaseInv, PhaseOf, Seen, Notifying
    <2> QED
      BY <2>1, <2>2
  <1>2. CASE MailStep
    BY <1>2, News, OrderNews, MailTypes DEF RegisteredInv
  <1> QED
    BY <1>1, <1>2, OrderThread, StepKinds

LEMMA OrderInit == SubInit => OrderInv
  <1> SUFFICES ASSUME SubInit PROVE OrderInv
    OBVIOUS
  <1>1. /\ cb = None /\ \A id \in SubIds : subscriptions[id] = None
        /\ \A c \in Conns : pc[c] = "receive" /\ inbox[c] = <<>>
    BY DEF SubInit, RequestsInit, Ids
  <1>2. InboxInv
    BY <1>1 DEF InboxInv, OrderedIn, BelowIn
  <1>3. NoticeInv /\ PhaseInv
    BY <1>1 DEF NoticeInv, PhaseInv, PhaseOf, Owning, Loop
  <1> QED
    BY <1>2, <1>3 DEF OrderInv

\* A subscriber sees the SIB's indications in the SIB's order and none twice,
\* although the callback may overwrite one that the loop has read half of, and
\* the wake thread may take it away, at any moment; as long as no message has
\* strayed.
THEOREM IndicationsComeInOrder ==
    ASSUME KeysApart
    PROVE  SubSpec => [](~strayed => IndicationsInOrder)
  <1> DEFINE Inv == OwnershipInv /\ OrderInv
  <1>1. Inv => IndicationsInOrder
    BY DEF OrderInv, InboxInv, OrderedIn, IndicationsInOrder
  <1>2. SubInit => Inv
    BY OwnershipInit, OrderInit
  <1>3. RegisteredInv /\ (strayed \/ Inv) /\ [SubNext]_vars => (strayed \/ Inv)'
    BY OwnershipNext, OrderNext, StrayedStays DEF RegisteredInv
  <1> HIDE DEF Inv
  <1> QED
    BY <1>1, <1>2, <1>3, RegisteredInit, RegisteredNext, PTL DEF SubSpec
=============================================================================
