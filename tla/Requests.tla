------------------------------ MODULE Requests ------------------------------
(***************************************************************************)
(* The request table of the gateway (main.c): every client connection has  *)
(* a pool thread that registers a waiter under the key nodeid_msgid, sends *)
(* the request to the SIB over D-Bus, blocks until the matching            *)
(* confirmation callback has filled the waiter, answers on the client's    *)
(* socket and takes the waiter out of the table.  The callbacks run on the *)
(* main loop, one at a time; they find the waiter under reqlock but fill   *)
(* it after reqlock has been released.                                     *)
(*                                                                         *)
(* This module has the handlers of join, leave, insert, remove, update and *)
(* query.  Subscribe and unsubscribe share the table: see Subscriptions.   *)
(***************************************************************************)
EXTENDS Waiters, Sequences

CONSTANTS Keys,        \* request keys nodeid_msgid
          KeysOf,      \* KeysOf[c]: the keys the client on connection c uses
          Kinds,       \* the request kinds the clients use
          Faults,      \* which calls may fail, see FaultKinds
          MaxRequests  \* bound: requests a connection carries

\* "alloc": waiter_new returns NULL.  "send": sib_object_send_* returns < 0.
\* "build": ssBufDesc_Create* fails.  "break": a client goes away.
FaultKinds == {"alloc", "send", "build", "break"}

SimpleKinds == {"join", "leave", "insert", "remove", "update", "query"}

\* Kinds whose handler refuses an encoding or query type before sending.
StyledKinds == {"insert", "remove", "update", "query", "subscribe"}

\* Kinds whose handler leaves its local variable status unset when the send
\* itself fails: the client is told whatever that stack slot holds.
UnsetStatusKinds == {"insert", "remove", "update"}

AllKinds == SimpleKinds \cup {"subscribe", "unsubscribe"}

Statuses == {"ok", "failed", "notimpl"}

ASSUME RequestsAssumption ==
    /\ KeysOf \in [Conns -> SUBSET Keys]
    /\ Kinds \subseteq AllKinds
    /\ Faults \subseteq FaultKinds
    /\ MaxRequests \in Nat
    /\ None \notin Keys

VARIABLES requests, \* Listener.requests: key -> waiter
          pc,       \* where the thread of a connection is
          op,       \* the kind of the request it handles, None between requests
          key,      \* the key of that request
          waiter,   \* the handler's local pointer waiter
          bd,       \* the handler's response message
          issued,   \* serial number of the connection's latest request
          sib,      \* requests the SIB has received and not yet confirmed
          cb,       \* the callback between its table lookup and its lock
          inbox,    \* what the clients have received
          broken    \* connections on which recv and send report an error

threadVars == <<pc, op, key, waiter, bd, issued>>
requestVars == <<waiterVars, requests, threadVars, sib, cb, inbox, broken>>

Id == Conns \X (1..MaxRequests)   \* identity of a request (bookkeeping only)

\* for: the request answered; via: the kind of response message; local: made by
\* the handler itself, without the SIB.
Response == [for: Id, via: AllKinds, status: Statuses, local: BOOLEAN]
Confirmation == [for: Id, via: SimpleKinds, status: Statuses]
Token == [for: Id, kind: AllKinds, key: Keys]

ASSUME NullIsNoMessage == None \notin Confirmation

RequestsInit ==
    /\ WaitersInit
    /\ requests = [k \in Keys |-> None]
    /\ pc = [c \in Conns |-> "receive"]
    /\ op = [c \in Conns |-> None]
    /\ key = [c \in Conns |-> None]
    /\ waiter = [c \in Conns |-> None]
    /\ bd = [c \in Conns |-> None]
    /\ issued = [c \in Conns |-> 0]
    /\ sib = {}
    /\ cb = None
    /\ inbox = [c \in Conns |-> <<>>]
    /\ broken = {}

Goto(c, label) ==
    /\ pc' = [pc EXCEPT ![c] = label]
    /\ UNCHANGED <<op, key>>

\* The handler returns to the receive loop; its local variables are gone.
Return(c) ==
    /\ pc' = [pc EXCEPT ![c] = "receive"]
    /\ op' = [op EXCEPT ![c] = None]
    /\ key' = [key EXCEPT ![c] = None]
    /\ waiter' = [waiter EXCEPT ![c] = None]
    /\ bd' = [bd EXCEPT ![c] = None]
CurrentId(c) == <<c, issued[c]>>

\* Variant: the waiter is destroyed, the entry stays.
listener_remove_request_dangling(k) ==
    /\ UNCHANGED requests
    /\ waiter_destroy({requests[k]})

\* listener_remove_request(k): whatever waiter is in the table under k is
\* taken out and destroyed, its owner is not compared.
listener_remove_request(k) ==
    /\ requests' = [requests EXCEPT ![k] = None]
    /\ waiter_destroy({requests[k]})

-----------------------------------------------------------------------------
(* The thread of connection c.                                             *)

\* client_receive_message has returned a request of kind `kind` with key k.
Receive(c, kind, k) ==
    /\ pc[c] = "receive"
    /\ c \notin broken
    /\ issued[c] < MaxRequests
    /\ issued' = [issued EXCEPT ![c] = @ + 1]
    /\ UNCHANGED <<bd, sib, cb, inbox, broken>>

\* Variant: the key is not looked up first, an older entry is replaced.
AddRequest_unchecked(c, kind, k) ==
    /\ Receive(c, kind, k)
    /\ \E w \in Waiter \ live :
          /\ waiter_new(w, c)
          /\ waiter' = [waiter EXCEPT ![c] = w]
          /\ requests' = [requests EXCEPT ![k] = w]
    /\ pc' = [pc EXCEPT ![c] = "send"]
    /\ op' = [op EXCEPT ![c] = kind]
    /\ key' = [key EXCEPT ![c] = k]

\* waiter_new and a listener_add_request that found the key free.
AddRequest(c, kind, k) ==
    /\ Receive(c, kind, k)
    /\ requests[k] = None
    /\ \E w \in Waiter \ live :
          /\ waiter_new(w, c)
          /\ waiter' = [waiter EXCEPT ![c] = w]
          /\ requests' = [requests EXCEPT ![k] = w]
    /\ pc' = [pc EXCEPT ![c] = "send"]
    /\ op' = [op EXCEPT ![c] = kind]
    /\ key' = [key EXCEPT ![c] = k]

\* The key is taken (the new waiter is destroyed again) or there is no waiter:
\* the client is told nothing.
DropRequest(c, kind, k) ==
    /\ kind # "unsubscribe"
    /\ Receive(c, kind, k)
    /\ requests[k] # None \/ "alloc" \in Faults
    /\ UNCHANGED <<waiterVars, requests, pc, op, key, waiter>>

\* sib_object_send_*: the request is on its way.
SendRequest(c) ==
    /\ pc[c] = "send"
    /\ op[c] # "unsubscribe"
    /\ sib' = sib \cup {[for |-> CurrentId(c), kind |-> op[c], key |-> key[c]]}
    /\ Goto(c, "wait")
    /\ UNCHANGED <<waiterVars, requests, waiter, bd, issued, cb, inbox, broken>>

\* The status of a response the handler makes up itself.
LocalStatus(kind) ==
    (IF kind \in StyledKinds THEN {"notimpl"} ELSE {}) \cup
    (IF "send" \notin Faults THEN {}
     ELSE IF kind \in UnsetStatusKinds THEN Statuses ELSE {"failed"})

\* The encoding or query type is unsupported, or sib_object_send_* failed: the
\* request leaves the table, its waiter is destroyed, and a response is made.
RefuseRequest(c) ==
    /\ pc[c] = "send"
    /\ op[c] \in SimpleKinds
    /\ listener_remove_request(key[c])
    /\ \E s \in LocalStatus(op[c]) :
          \/ /\ bd' = [bd EXCEPT ![c] = [for |-> CurrentId(c), via |-> op[c],
                                         status |-> s, local |-> TRUE]]
             /\ Goto(c, "reply")
             /\ UNCHANGED waiter
          \/ "build" \in Faults /\ Return(c)
    /\ UNCHANGED <<issued, sib, cb, inbox, broken>>

\* waiter_wait_for_finished returns; there is no timeout.
Wake(c) ==
    /\ pc[c] = "wait"
    /\ waiter_wait_for_finished(waiter[c])
    /\ Goto(c, "build")
    /\ UNCHANGED <<requests, waiter, bd, issued, sib, cb, inbox, broken>>

\* The response is made from waiter->rsp, which is read without the lock.
BuildResponse(c) ==
    LET r == RspRead(waiter[c]) IN
    /\ pc[c] = "build"
    /\ op[c] \in SimpleKinds
    /\ r # None
    /\ bd' = [bd EXCEPT ![c] = [for |-> r.for, via |-> op[c],
                                status |-> r.status, local |-> FALSE]]
    /\ Goto(c, "reply")
    /\ UNCHANGED <<waiterVars, requests, waiter, issued, sib, cb, inbox, broken>>

\* Nothing in the slot, or ssBufDesc_Create*Response failed: the handler
\* returns, and what the table holds under the key stays there.
NoResponse(c) ==
    /\ pc[c] = "build"
    /\ op[c] \in SimpleKinds
    /\ RspRead(waiter[c]) = None \/ "build" \in Faults
    /\ Return(c)
    /\ UNCHANGED <<waiterVars, requests, issued, sib, cb, inbox, broken>>

\* client_send_message(waiter->fd, ...): after RefuseRequest waiter is freed.
Deliver(to, msg) ==
    inbox' = IF to \in Conns \ broken
             THEN [inbox EXCEPT ![to] = Append(@, msg)]
             ELSE inbox

\* Variant: a send that was cut short is done again from the start.
Reply_again(c) ==
    /\ pc[c] = "reply"
    /\ \E to \in FdRead(waiter[c]) : Deliver(to, bd[c])
    /\ Goto(c, "remove") \/ Goto(c, "reply")
    /\ UNCHANGED <<waiterVars, requests, waiter, bd, issued, sib, cb, broken>>

Reply(c) ==
    /\ pc[c] = "reply"
    /\ \E to \in FdRead(waiter[c]) : Deliver(to, bd[c])
    /\ Goto(c, "remove")
    /\ UNCHANGED <<waiterVars, requests, waiter, bd, issued, sib, cb, broken>>

\* Variant: the handler returns without it.
RemoveRequest_omitted(c) ==
    /\ pc[c] = "remove"
    /\ Return(c)
    /\ UNCHANGED <<waiterVars, requests, issued, sib, cb, inbox, broken>>

\* The handler's last listener_remove_request (the second after a refusal).
RemoveRequest(c) ==
    /\ pc[c] = "remove"
    /\ listener_remove_request(key[c])
    /\ Return(c)
    /\ UNCHANGED <<issued, sib, cb, inbox, broken>>

-----------------------------------------------------------------------------
(* The main loop.                                                          *)

\* handle_*_cnf up to listener_get_request: a confirmation for a key that is
\* not in the table is dropped.
ConfirmationArrives(t, status) ==
    /\ cb = None
    /\ t \in sib
    /\ t.kind \in SimpleKinds
    /\ sib' = sib \ {t}
    /\ cb' = IF requests[t.key] = None THEN None
             ELSE [waiter |-> requests[t.key],
                   msg |-> [for |-> t.for, via |-> t.kind, status |-> status]]
    /\ UNCHANGED <<waiterVars, requests, threadVars, inbox, broken>>

\* handle_*_cnf from g_mutex_lock(waiter->lock) to the end.
CompleteWaiter ==
    /\ cb # None
    /\ CompleteWith(cb.waiter, cb.msg)
    /\ cb' = None
    /\ UNCHANGED <<requests, threadVars, sib, inbox, broken>>

-----------------------------------------------------------------------------
\* The peer of connection c goes away: from now on the socket reports errors.
Break(c) ==
    /\ "break" \in Faults
    /\ c \notin broken
    /\ broken' = broken \cup {c}
    /\ UNCHANGED <<waiterVars, requests, threadVars, sib, cb, inbox>>

ThreadStep(c) ==
    \/ SendRequest(c)
    \/ RefuseRequest(c)
    \/ Wake(c)
    \/ BuildResponse(c)
    \/ NoResponse(c)
    \/ Reply(c)
    \/ RemoveRequest(c)

Next ==
    \/ \E c \in Conns, kind \in Kinds : \E k \in KeysOf[c] :
          AddRequest(c, kind, k) \/ DropRequest(c, kind, k)
    \/ \E c \in Conns : ThreadStep(c) \/ Break(c)
    \/ \E t \in sib, status \in {"ok", "failed"} : ConfirmationArrives(t, status)
    \/ CompleteWaiter

Spec == RequestsInit /\ [][Next]_requestVars

\* Threads that can run do run; the SIB confirms every request it was sent.
Fairness ==
    /\ \A c \in Conns : WF_requestVars(ThreadStep(c))
    /\ WF_requestVars(CompleteWaiter)
    /\ \A id \in Id : WF_requestVars(\E t \in sib, s \in {"ok", "failed"} :
                                        t.for = id /\ ConfirmationArrives(t, s))

FairSpec == Spec /\ Fairness

-----------------------------------------------------------------------------
TypeOK ==
    /\ live \subseteq Waiter
    /\ fd \in [Waiter -> Conns \cup {None}]
    /\ req_ready \in [Waiter -> BOOLEAN]
    /\ rsp \in [Waiter -> Confirmation \cup {None}]
    /\ requests \in [Keys -> Waiter \cup {None}]
    /\ pc \in [Conns -> {"receive", "send", "wait", "build", "reply", "remove"}]
    /\ op \in [Conns -> AllKinds \cup {None}]
    /\ key \in [Conns -> Keys \cup {None}]
    /\ waiter \in [Conns -> Waiter \cup {None}]
    /\ bd \in [Conns -> Response \cup {None}]
    /\ issued \in [Conns -> 0..MaxRequests]
    /\ sib \subseteq Token
    /\ cb \in [waiter: Waiter, msg: Confirmation] \cup {None}
    /\ inbox \in [Conns -> Seq(Response)]
    /\ broken \subseteq Conns
    /\ \A c \in Conns :
          /\ pc[c] # "receive" =>
                /\ op[c] \in AllKinds
                /\ key[c] \in Keys
                /\ waiter[c] \in Waiter
                /\ issued[c] \in 1..MaxRequests
          /\ pc[c] = "reply" => bd[c] \in Response

\* Every waiter in the request table is allocated, and under one key only: what
\* a callback finds under reqlock is a waiter, in spite of the handlers that
\* destroy waiters on three different paths (2240-2317).
TableHoldsLiveWaiters ==
    \A k \in Keys : requests[k] # None =>
        /\ requests[k] \in live
        /\ \A k2 \in Keys \ {k} : requests[k2] # requests[k]

\* A thread that has registered its request and has not answered it finds its
\* own waiter in the table under its key until it removes it itself.  It holds
\* while no two connections use one key, or while nothing is refused.
WaiterStaysRegistered ==
    \A c \in Conns : pc[c] \in {"send", "wait", "build"} =>
        /\ requests[key[c]] = waiter[c]
        /\ fd[waiter[c]] = c

\* A message that answers another connection's request can only be one a
\* handler made up itself (it was sent through the freed waiter): what the SIB
\* confirmed never reaches the wrong client.
OnlyRefusalsStray ==
    \A c \in Conns : \A i \in 1..Len(inbox[c]) :
        inbox[c][i].for[1] # c => inbox[c][i].local

\* No request is answered twice, on whatever connections the answers arrive.
AnsweredAtMostOnce ==
    \A c, d \in Conns : \A i \in 1..Len(inbox[c]), j \in 1..Len(inbox[d]) :
        inbox[c][i].for = inbox[d][j].for => c = d /\ i = j

\* An entry of the table belongs to a thread that is still busy with it: no
\* handler returns and leaves a waiter behind.
NoEntryLeftBehind ==
    \A k \in Keys : requests[k] # None =>
        \E c \in Conns : pc[c] # "receive" /\ waiter[c] = requests[k]

\* A thread whose request the SIB has taken returns to its socket: it does not
\* wait for ever, although the wait has no timeout.
EveryWaitEnds == \A c \in Conns : pc[c] = "wait" ~> pc[c] = "receive"
=============================================================================
