--------------------------- MODULE Requests_proofs ---------------------------
(***************************************************************************)
(* Proofs about the request table, for every number of connections, keys,  *)
(* waiters and requests, and for every set of faults.                      *)
(*                                                                         *)
(* TypeCorrect comes first, every other proof uses it.  The table then is  *)
(* sound whatever the clients do (TableSound): entries are allocated and   *)
(* distinct because a new waiter takes an address that is not live and a   *)
(* removal destroys just the one waiter it takes out.  Who finds his own   *)
(* waiter in it is another matter, which needs connections that use        *)
(* different keys (OwnEntries).  The answers that clients receive rest on  *)
(* the table and on what the SIB and the callbacks hold (AnswerInv).       *)
(***************************************************************************)
EXTENDS Requests, RequestKey_proofs

\* A confirmation is the confirmation of a request, not of a subscription.
LEMMA SlotType == ASSUME TypeOK, NEW w \in Waiter, RspRead(w) # None
                  PROVE  RspRead(w) \in Confirmation
  BY DEF TypeOK, RspRead

\* listener_remove_request keeps the types of the table and of the waiters.
LEMMA RemoveType == ASSUME TypeOK, NEW k \in Keys, listener_remove_request(k)
                    PROVE  /\ live' \subseteq Waiter
                           /\ fd' \in [Waiter -> Conns \cup {None}]
                           /\ req_ready' \in [Waiter -> BOOLEAN]
                           /\ rsp' \in [Waiter -> Confirmation \cup {None}]
                           /\ requests' \in [Keys -> Waiter \cup {None}]
  BY DEF TypeOK, listener_remove_request, waiter_destroy

\* The steps by which a request enters the table, or does not, keep the types.
LEMMA EnterType ==
    ASSUME TypeOK, NEW c \in Conns, NEW kind \in Kinds, NEW k \in KeysOf[c],
           AddRequest(c, kind, k) \/ DropRequest(c, kind, k)
    PROVE  TypeOK'
  <1>0. kind \in AllKinds /\ k \in Keys
    BY RequestsAssumption
  <1>1. /\ issued' \in [Conns -> 0..MaxRequests]
        /\ issued'[c] \in 1..MaxRequests
        /\ \A d \in Conns \ {c} : issued'[d] = issued[d]
        /\ pc[c] = "receive"
    <2>1. /\ issued' = [issued EXCEPT ![c] = @ + 1]
          /\ pc[c] = "receive"
          /\ issued[c] < MaxRequests
      BY DEF AddRequest, DropRequest, Receive
    <2>2. issued \in [Conns -> 0..MaxRequests] /\ MaxRequests \in Nat
      BY RequestsAssumption DEF TypeOK
    <2> QED
      BY <2>1, <2>2
  <1>2. CASE AddRequest(c, kind, k)
    <2>1. PICK w \in Waiter \ live :
            /\ waiter_new(w, c)
            /\ waiter' = [waiter EXCEPT ![c] = w]
            /\ requests' = [requests EXCEPT ![k] = w]
      BY <1>2 DEF AddRequest
    <2>2. /\ live' \subseteq Waiter
          /\ fd' \in [Waiter -> Conns \cup {None}]
          /\ req_ready' \in [Waiter -> BOOLEAN]
          /\ rsp' \in [Waiter -> Confirmation \cup {None}]
      BY <2>1 DEF waiter_new, TypeOK
    <2>3. /\ waiter' \in [Conns -> Waiter \cup {None}]
          /\ requests' \in [Keys -> Waiter \cup {None}]
      BY <1>0, <2>1 DEF TypeOK
    <2>4. /\ pc' = [pc EXCEPT ![c] = "send"]
          /\ op' = [op EXCEPT ![c] = kind]
          /\ key' = [key EXCEPT ![c] = k]
          /\ UNCHANGED <<bd, sib, cb, inbox, broken>>
      BY <1>2 DEF AddRequest, Receive
    <2>5. /\ pc' \in [Conns -> {"receive", "send", "wait", "build", "reply", "remove"}]
          /\ op' \in [Conns -> AllKinds \cup {None}]
          /\ key' \in [Conns -> Keys \cup {None}]
      BY <1>0, <2>4 DEF TypeOK
    <2>6. \A d \in Conns :
            /\ pc'[d] # "receive" =>
                  /\ op'[d] \in AllKinds
                  /\ key'[d] \in Keys
                  /\ waiter'[d] \in Waiter
                  /\ issued'[d] \in 1..MaxRequests
            /\ pc'[d] = "reply" => bd'[d] \in Response
      BY <1>0, <1>1, <2>1, <2>4 DEF TypeOK
    <2> QED
      BY <1>1, <2>2, <2>3, <2>4, <2>5, <2>6 DEF TypeOK
  <1>3. CASE DropRequest(c, kind, k)
    <2>1. UNCHANGED <<waiterVars, requests, pc, op, key, waiter, bd, sib, cb, inbox, broken>>
      BY <1>3 DEF DropRequest, Receive
    <2> QED
      BY <1>1, <2>1 DEF TypeOK, waiterVars
  <1> QED
    BY <1>2, <1>3

\* The steps of a connection's thread keep the types.
LEMMA ThreadType == ASSUME TypeOK, NEW c \in Conns, ThreadStep(c) PROVE TypeOK'
  <1>1. CASE SendRequest(c)
    <2>1. pc[c] = "send" /\ op[c] \in AllKinds /\ key[c] \in Keys
          /\ issued[c] \in 1..MaxRequests
      BY <1>1 DEF SendRequest, TypeOK
    <2>2. [for |-> CurrentId(c), kind |-> op[c], key |-> key[c]] \in Token
      BY <2>1 DEF Token, Id, CurrentId
    <2>3. sib' \subseteq Token
      BY <1>1, <2>2 DEF SendRequest, TypeOK
    <2> QED
      BY <1>1, <2>1, <2>3 DEF SendRequest, Goto, TypeOK, waiterVars
  <1>2. CASE RefuseRequest(c)
    <2>1. /\ pc[c] = "send"
          /\ key[c] \in Keys
          /\ op[c] \in AllKinds
          /\ listener_remove_request(key[c])
          /\ issued[c] \in 1..MaxRequests
          /\ UNCHANGED <<issued, sib, cb, inbox, broken>>
      BY <1>2 DEF RefuseRequest, TypeOK
    <2>2. /\ live' \subseteq Waiter
          /\ fd' \in [Waiter -> Conns \cup {None}]
          /\ req_ready' \in [Waiter -> BOOLEAN]
          /\ rsp' \in [Waiter -> Confirmation \cup {None}]
          /\ requests' \in [Keys -> Waiter \cup {None}]
      BY <2>1, RemoveType
    <2>3. PICK s \in LocalStatus(op[c]) :
            \/ /\ bd' = [bd EXCEPT ![c] = [for |-> CurrentId(c), via |-> op[c],
                                           status |-> s, local |-> TRUE]]
               /\ Goto(c, "reply")
               /\ UNCHANGED waiter
            \/ Return(c)
      BY <1>2 DEF RefuseRequest
    <2>4. CASE Return(c)
      BY <2>1, <2>2, <2>4 DEF Return, TypeOK
    <2>5. CASE /\ bd' = [bd EXCEPT ![c] = [for |-> CurrentId(c), via |-> op[c],
                                           status |-> s, local |-> TRUE]]
               /\ Goto(c, "reply")
               /\ UNCHANGED waiter
      <3>1. s \in Statuses
        BY <2>3 DEF LocalStatus, Statuses
      <3>2. [for |-> CurrentId(c), via |-> op[c], status |-> s, local |-> TRUE] \in Response
        BY <2>1, <3>1 DEF Response, Id, CurrentId
      <3> QED
        BY <2>1, <2>2, <2>5, <3>2 DEF Goto, TypeOK
    <2> QED
      BY <2>3, <2>4, <2>5
  <1>3. CASE Wake(c)
    <2>1. req_ready' \in [Waiter -> BOOLEAN] /\ UNCHANGED <<live, fd, rsp>>
      BY <1>3 DEF Wake, waiter_wait_for_finished, TypeOK
    <2> QED
      BY <1>3, <2>1 DEF Wake, Goto, TypeOK
  <1>4. CASE BuildResponse(c)
    <2> DEFINE r == RspRead(waiter[c])
    <2>1. pc[c] = "build" /\ waiter[c] \in Waiter /\ op[c] \in AllKinds /\ r # None
      BY <1>4 DEF BuildResponse, TypeOK
    <2>2. r \in Confirmation
      BY <2>1, SlotType
    <2>3. [for |-> r.for, via |-> op[c], status |-> r.status, local |-> FALSE] \in Response
      BY <2>1, <2>2 DEF Response, Confirmation
    <2>4. bd' = [bd EXCEPT ![c] = [for |-> r.for, via |-> op[c],
                                   status |-> r.status, local |-> FALSE]]
      BY <1>4 DEF BuildResponse
    <2>5. /\ Goto(c, "reply")
          /\ UNCHANGED <<waiterVars, requests, waiter, issued, sib, cb, inbox, broken>>
      BY <1>4 DEF BuildResponse
    <2> HIDE DEF r
    <2> QED
      BY <2>1, <2>3, <2>4, <2>5 DEF Goto, TypeOK, waiterVars
  <1>5. CASE NoResponse(c)
    BY <1>5 DEF NoResponse, Return, TypeOK, waiterVars
  <1>6. CASE Reply(c)
    <2>1. pc[c] = "reply" /\ bd[c] \in Response
      BY <1>6 DEF Reply, TypeOK
    <2>2. inbox' \in [Conns -> Seq(Response)]
      <3>1. PICK to : Deliver(to, bd[c])
        BY <1>6 DEF Reply
      <3>2. \A q \in Seq(Response) : Append(q, bd[c]) \in Seq(Response)
        BY <2>1
      <3>3. inbox \in [Conns -> Seq(Response)]
        BY DEF TypeOK
      <3> QED
        BY <3>1, <3>2, <3>3 DEF Deliver
    <2> QED
      BY <1>6, <2>1, <2>2 DEF Reply, Goto, TypeOK, waiterVars
  <1>7. CASE RemoveRequest(c)
    <2>1. key[c] \in Keys /\ listener_remove_request(key[c])
      BY <1>7 DEF RemoveRequest, TypeOK
    <2>2. /\ live' \subseteq Waiter
          /\ fd' \in [Waiter -> Conns \cup {None}]
          /\ req_ready' \in [Waiter -> BOOLEAN]
          /\ rsp' \in [Waiter -> Confirmation \cup {None}]
          /\ requests' \in [Keys -> Waiter \cup {None}]
      BY <2>1, RemoveType
    <2> QED
      BY <1>7, <2>2 DEF RemoveRequest, Return, TypeOK
  <1> QED
    BY <1>1, <1>2, <1>3, <1>4, <1>5, <1>6, <1>7 DEF ThreadStep

\* The callbacks of the main loop keep the types.
LEMMA CallbackType ==
    ASSUME TypeOK,
           \/ \E t \in sib, status \in {"ok", "failed"} : ConfirmationArrives(t, status)
           \/ CompleteWaiter
    PROVE  TypeOK'
  <1>1. CASE \E t \in sib, status \in {"ok", "failed"} : ConfirmationArrives(t, status)
    <2>1. PICK t \in sib, status \in {"ok", "failed"} : ConfirmationArrives(t, status)
      BY <1>1
    <2>2. t \in Token /\ t.kind \in SimpleKinds
      BY <2>1 DEF TypeOK, ConfirmationArrives
    <2>3. requests[t.key] \in Waiter \cup {None}
      BY <2>2 DEF TypeOK, Token
    <2>4. [for |-> t.for, via |-> t.kind, status |-> status] \in Confirmation
      BY <2>1, <2>2 DEF Confirmation, Token, Statuses
    <2>5. cb' \in [waiter: Waiter, msg: Confirmation] \cup {None}
      BY <2>1, <2>3, <2>4 DEF ConfirmationArrives
    <2>6. sib' \subseteq Token
      BY <2>1 DEF ConfirmationArrives, TypeOK
    <2>7. UNCHANGED <<waiterVars, requests, threadVars, inbox, broken>>
      BY <2>1 DEF ConfirmationArrives
    <2> QED
      BY <2>5, <2>6, <2>7 DEF TypeOK, waiterVars, threadVars
  <1>2. CASE CompleteWaiter
    <2>1. cb.waiter \in Waiter /\ cb.msg \in Confirmation
      BY <1>2 DEF CompleteWaiter, TypeOK
    <2>2. rsp' \in [Waiter -> Confirmation \cup {None}]
          /\ req_ready' \in [Waiter -> BOOLEAN]
      BY <1>2, <2>1 DEF CompleteWaiter, CompleteWith, TypeOK
    <2> QED
      BY <1>2, <2>2 DEF CompleteWaiter, CompleteWith, TypeOK, threadVars
  <1> QED
    BY <1>1, <1>2

LEMMA TypeInit == RequestsInit => TypeOK
  <1> SUFFICES ASSUME RequestsInit PROVE TypeOK
    OBVIOUS
  <1>1. /\ live = {}
        /\ fd \in [Waiter -> Conns \cup {None}]
        /\ req_ready \in [Waiter -> BOOLEAN]
        /\ rsp \in [Waiter -> Confirmation \cup {None}]
    BY DEF RequestsInit, WaitersInit
  <1>2. \A c \in Conns : <<>> \in Seq(Response)
    OBVIOUS
  <1>3. inbox \in [Conns -> Seq(Response)]
    BY <1>2 DEF RequestsInit
  <1>4. issued \in [Conns -> 0..MaxRequests]
    BY RequestsAssumption DEF RequestsInit
  <1>5. /\ requests \in [Keys -> Waiter \cup {None}]
        /\ pc \in [Conns -> {"receive", "send", "wait", "build", "reply", "remove"}]
        /\ op \in [Conns -> AllKinds \cup {None}]
        /\ key \in [Conns -> Keys \cup {None}]
        /\ waiter \in [Conns -> Waiter \cup {None}]
        /\ bd \in [Conns -> Response \cup {None}]
        /\ sib = {} /\ cb = None /\ broken = {}
        /\ \A c \in Conns : pc[c] = "receive"
    BY DEF RequestsInit
  <1> QED
    BY <1>1, <1>3, <1>4, <1>5 DEF TypeOK

LEMMA TypeNext == TypeOK /\ [Next]_requestVars => TypeOK'
  <1> SUFFICES ASSUME TypeOK, [Next]_requestVars PROVE TypeOK'
    OBVIOUS
  <1>1. CASE UNCHANGED requestVars
    BY <1>1 DEF requestVars, waiterVars, threadVars, TypeOK
  <1>2. ASSUME NEW c \in Conns, Break(c) PROVE TypeOK'
    BY <1>2 DEF Break, TypeOK, waiterVars, threadVars
  <1> QED
    BY <1>1, <1>2, EnterType, ThreadType, CallbackType DEF Next

\* Every variable keeps its type, and a thread that is inside a handler has a
\* request, a key, a waiter and, once it has built it, a response.
THEOREM TypeCorrect == Spec => []TypeOK
  BY TypeInit, TypeNext, PTL DEF Spec

-----------------------------------------------------------------------------
(* The table holds live waiters, each once.                                *)

LEMMA RemoveTable == ASSUME TypeOK, TableHoldsLiveWaiters, NEW k \in Keys,
                            listener_remove_request(k)
                     PROVE  TableHoldsLiveWaiters'
  <1>1. requests' = [requests EXCEPT ![k] = None] /\ live' = live \ {requests[k]}
    BY DEF listener_remove_request, waiter_destroy
  <1>2. ASSUME NEW j \in Keys, requests'[j] # None
        PROVE  j # k /\ requests'[j] = requests[j]
    BY <1>1, <1>2 DEF TypeOK
  <1>3. ASSUME NEW j \in Keys, requests'[j] # None
        PROVE  /\ requests'[j] \in live'
               /\ \A i \in Keys \ {j} : requests'[i] # requests'[j]
    <2>1. requests[j] \in live /\ \A i \in Keys \ {j} : requests[i] # requests[j]
      BY <1>2, <1>3 DEF TableHoldsLiveWaiters
    <2> QED
      BY <1>1, <1>2, <1>3, <2>1 DEF TypeOK
  <1> QED
    BY <1>3 DEF TableHoldsLiveWaiters

LEMMA AddTable == ASSUME TypeOK, TableHoldsLiveWaiters, NEW k \in Keys,
                         NEW w \in Waiter \ live,
                         live' = live \cup {w},
                         requests' = [requests EXCEPT ![k] = w]
                  PROVE  TableHoldsLiveWaiters'
  <1>1. \A j \in Keys \ {k} : requests[j] # w
    BY WaitersAssumption DEF TableHoldsLiveWaiters, TypeOK
  <1>2. requests'[k] = w /\ \A j \in Keys \ {k} : requests'[j] = requests[j]
    BY DEF TypeOK
  <1> QED
    BY <1>1, <1>2 DEF TableHoldsLiveWaiters

LEMMA TableInit == RequestsInit => TableHoldsLiveWaiters
  BY DEF RequestsInit, TableHoldsLiveWaiters

\* A step changes the table in one of three ways.
LEMMA TableSteps ==
    ASSUME TypeOK, [Next]_requestVars
    PROVE  \/ UNCHANGED <<requests, live>>
           \/ \E k \in Keys : listener_remove_request(k)
           \/ \E k \in Keys, w \in Waiter \ live :
                 live' = live \cup {w} /\ requests' = [requests EXCEPT ![k] = w]
  <1> DEFINE Table == \/ UNCHANGED <<requests, live>>
                      \/ \E k \in Keys : listener_remove_request(k)
                      \/ \E k \in Keys, w \in Waiter \ live :
                            live' = live \cup {w} /\ requests' = [requests EXCEPT ![k] = w]
  <1>1. CASE UNCHANGED requestVars
    BY <1>1 DEF requestVars, waiterVars
  <1>2. ASSUME NEW c \in Conns, NEW kind \in Kinds, NEW k \in KeysOf[c],
               AddRequest(c, kind, k)
        PROVE  Table
    <2>1. k \in Keys
      BY RequestsAssumption
    <2> QED
      BY <1>2, <2>1 DEF AddRequest, waiter_new
  <1>3. ASSUME NEW c \in Conns, NEW kind \in Kinds, NEW k \in KeysOf[c],
               DropRequest(c, kind, k)
        PROVE  Table
    BY <1>3 DEF DropRequest, waiterVars
  <1>4. ASSUME NEW c \in Conns, ThreadStep(c)
        PROVE  Table
    <2>1. CASE RefuseRequest(c)
      BY <2>1 DEF RefuseRequest, TypeOK
    <2>2. CASE RemoveRequest(c)
      BY <2>2 DEF RemoveRequest, TypeOK
    <2>3. CASE SendRequest(c) \/ BuildResponse(c) \/ NoResponse(c) \/ Reply(c)
      BY <2>3 DEF SendRequest, BuildResponse, NoResponse, Reply, waiterVars
    <2>4. CASE Wake(c)
      BY <2>4 DEF Wake, waiter_wait_for_finished
    <2> QED
      BY <1>4, <2>1, <2>2, <2>3, <2>4 DEF ThreadStep
  <1>5. ASSUME NEW c \in Conns, Break(c)
        PROVE  Table
    BY <1>5 DEF Break, waiterVars
  <1>6. ASSUME NEW t \in sib, NEW status \in {"ok", "failed"},
               ConfirmationArrives(t, status)
        PROVE  Table
    BY <1>6 DEF ConfirmationArrives, waiterVars
  <1>7. CASE CompleteWaiter
    BY <1>7 DEF CompleteWaiter, CompleteWith
  <1>8. CASE \E c \in Conns, kind \in Kinds : \E k \in KeysOf[c] :
                AddRequest(c, kind, k) \/ DropRequest(c, kind, k)
    BY <1>2, <1>3, <1>8
  <1>9. CASE \E c \in Conns : ThreadStep(c) \/ Break(c)
    BY <1>4, <1>5, <1>9
  <1>10. CASE \E t \in sib, status \in {"ok", "failed"} : ConfirmationArrives(t, status)
    BY <1>6, <1>10
  <1> QED
    BY <1>1, <1>7, <1>8, <1>9, <1>10 DEF Next

LEMMA TableNext ==
    TypeOK /\ TableHoldsLiveWaiters /\ [Next]_requestVars => TableHoldsLiveWaiters'
  <1> SUFFICES ASSUME TypeOK, TableHoldsLiveWaiters, [Next]_requestVars
               PROVE  TableHoldsLiveWaiters'
    OBVIOUS
  <1>1. CASE UNCHANGED <<requests, live>>
    BY <1>1 DEF TableHoldsLiveWaiters
  <1> QED
    BY <1>1, TableSteps, RemoveTable, AddTable

\* Whatever handlers refuse, drop or remove, and whichever clients share keys,
\* the request table holds allocated waiters, each under one key.
THEOREM TableSound == Spec => []TableHoldsLiveWaiters
  BY TypeInit, TypeNext, TableInit, TableNext, PTL DEF Spec

-----------------------------------------------------------------------------
(* Connections that use different keys do not disturb each other.          *)

\* No two connections use one key.
NoSharedKeys == \A c, d \in Conns : c # d => KeysOf[c] \cap KeysOf[d] = {}

\* A thread only uses the keys of its client.
UsesOwnKey == \A c \in Conns : pc[c] # "receive" => key[c] \in KeysOf[c]

LEMMA OwnKeyNext == TypeOK /\ UsesOwnKey /\ [Next]_requestVars => UsesOwnKey'
  <1> SUFFICES ASSUME TypeOK, UsesOwnKey, [Next]_requestVars PROVE UsesOwnKey'
    OBVIOUS
  <1> USE DEF UsesOwnKey
  <1>1. CASE UNCHANGED <<pc, key>>
    BY <1>1
  <1>2. ASSUME NEW c \in Conns, NEW kind \in Kinds, NEW k \in KeysOf[c],
               AddRequest(c, kind, k) \/ DropRequest(c, kind, k)
        PROVE  UsesOwnKey'
    BY <1>1, <1>2 DEF AddRequest, DropRequest, TypeOK
  <1>3. ASSUME NEW c \in Conns, ThreadStep(c) PROVE UsesOwnKey'
    <2>1. CASE SendRequest(c) \/ Wake(c) \/ BuildResponse(c) \/ Reply(c)
      BY <2>1 DEF SendRequest, Wake, BuildResponse, Reply, Goto, TypeOK
    <2>2. CASE NoResponse(c) \/ RemoveRequest(c)
      BY <2>2 DEF NoResponse, RemoveRequest, Return, TypeOK
    <2>3. CASE RefuseRequest(c)
      BY <2>3 DEF RefuseRequest, Goto, Return, TypeOK
    <2> QED
      BY <1>3, <2>1, <2>2, <2>3 DEF ThreadStep
  <1> QED
    BY <1>1, <1>2, <1>3
       DEF Next, Break, ConfirmationArrives, CompleteWaiter, threadVars, requestVars

\* What keeps d's entry: the entry of another key is removed, ...
LEMMA RemoveKeeps ==
    ASSUME TypeOK, TableHoldsLiveWaiters, NEW k \in Keys, listener_remove_request(k),
           NEW j \in Keys \ {k}, requests[j] # None
    PROVE  requests'[j] = requests[j] /\ fd'[requests[j]] = fd[requests[j]]
  <1>1. requests'[j] = requests[j]
    BY DEF listener_remove_request, TypeOK
  <1>2. requests[j] \in Waiter /\ requests[k] # requests[j]
    BY DEF TableHoldsLiveWaiters, TypeOK
  <1> QED
    BY <1>1, <1>2 DEF listener_remove_request, waiter_destroy

\* ... or a new waiter is entered under another key.
LEMMA AddKeeps ==
    ASSUME TypeOK, TableHoldsLiveWaiters, NEW k \in Keys, NEW c \in Conns,
           NEW w, waiter_new(w, c), requests' = [requests EXCEPT ![k] = w],
           NEW j \in Keys \ {k}, requests[j] # None
    PROVE  requests'[j] = requests[j] /\ fd'[requests[j]] = fd[requests[j]]
  <1>1. requests'[j] = requests[j]
    BY DEF TypeOK
  <1>2. requests[j] \in Waiter /\ w # requests[j]
    BY DEF TableHoldsLiveWaiters, TypeOK, waiter_new
  <1> QED
    BY <1>1, <1>2 DEF waiter_new, TypeOK

\* A thread is registered: the state predicate of WaiterStaysRegistered.
Registered(c) == pc[c] \in {"send", "wait", "build"} =>
                    /\ requests[key[c]] = waiter[c]
                    /\ fd[waiter[c]] = c

LEMMA RegisteredOther ==
    ASSUME TypeOK, NEW d \in Conns, Registered(d),
           pc[d] = pc'[d], key[d] = key'[d], waiter[d] = waiter'[d],
           pc[d] # "receive" =>
              /\ requests'[key[d]] = requests[key[d]]
              /\ fd'[waiter[d]] = fd[waiter[d]]
    PROVE  Registered(d)'
  BY DEF Registered

\* A removal under one key leaves the threads of other connections registered.
LEMMA RegisteredRemove ==
    ASSUME NoSharedKeys, TypeOK, UsesOwnKey, TableHoldsLiveWaiters,
           NEW c \in Conns, pc[c] # "receive", listener_remove_request(key[c]),
           NEW d \in Conns \ {c}, Registered(d),
           pc[d] = pc'[d], key[d] = key'[d], waiter[d] = waiter'[d]
    PROVE  Registered(d)'
  <1> SUFFICES ASSUME pc[d] \in {"send", "wait", "build"} PROVE Registered(d)'
    BY DEF Registered
  <1>1. key[c] \in Keys /\ key[d] \in Keys /\ waiter[d] \in Waiter
    BY DEF TypeOK
  <1>2. key[d] # key[c]
    BY DEF NoSharedKeys, UsesOwnKey
  <1>3. requests[key[d]] = waiter[d] /\ waiter[d] # None
    BY <1>1, WaitersAssumption DEF Registered
  <1>4. requests'[key[d]] = requests[key[d]] /\ fd'[requests[key[d]]] = fd[requests[key[d]]]
    BY <1>1, <1>2, <1>3, RemoveKeeps
  <1> QED
    BY <1>3, <1>4 DEF Registered

LEMMA RegisteredAdd ==
    ASSUME NoSharedKeys, TypeOK, UsesOwnKey, TableHoldsLiveWaiters,
           \A d \in Conns : Registered(d),
           NEW c \in Conns, NEW kind \in Kinds, NEW k \in KeysOf[c],
           AddRequest(c, kind, k), NEW d \in Conns
    PROVE  Registered(d)'
  <1>1. PICK w \in Waiter \ live :
            /\ waiter_new(w, c)
            /\ waiter' = [waiter EXCEPT ![c] = w]
            /\ requests' = [requests EXCEPT ![k] = w]
    BY DEF AddRequest
  <1>2. pc' = [pc EXCEPT ![c] = "send"] /\ key' = [key EXCEPT ![c] = k]
    BY DEF AddRequest
  <1>3. k \in Keys
    BY RequestsAssumption
  <1>4. CASE d = c
    BY <1>1, <1>2, <1>3, <1>4 DEF Registered, TypeOK, waiter_new
  <1>5. CASE d # c
    <2>1. pc[d] = pc'[d] /\ key[d] = key'[d] /\ waiter[d] = waiter'[d]
      BY <1>1, <1>2, <1>5 DEF TypeOK
    <2> SUFFICES ASSUME pc[d] \in {"send", "wait", "build"} PROVE Registered(d)'
      BY <2>1 DEF Registered
    <2>2. key[d] \in Keys \ {k} /\ waiter[d] \in Waiter
      <3>1. key[d] \in KeysOf[d] /\ KeysOf[c] \cap KeysOf[d] = {}
        BY <1>5 DEF UsesOwnKey, NoSharedKeys
      <3>2. key[d] \in Keys /\ waiter[d] \in Waiter
        BY DEF TypeOK
      <3> QED
        BY <3>1, <3>2
    <2>3. requests[key[d]] = waiter[d] /\ waiter[d] # None
      BY <2>2, WaitersAssumption DEF Registered
    <2>4. requests'[key[d]] = requests[key[d]] /\ fd'[requests[key[d]]] = fd[requests[key[d]]]
      BY <1>1, <1>3, <2>2, <2>3, AddKeeps
    <2> QED
      BY <2>1, <2>3, <2>4 DEF Registered
  <1> QED
    BY <1>4, <1>5

LEMMA RegisteredThread ==
    ASSUME NoSharedKeys, TypeOK, UsesOwnKey, TableHoldsLiveWaiters,
           \A d \in Conns : Registered(d),
           NEW c \in Conns, ThreadStep(c), NEW d \in Conns
    PROVE  Registered(d)'
  <1>1. CASE SendRequest(c) \/ BuildResponse(c)
    <2>1. /\ \E label : pc' = [pc EXCEPT ![c] = label]
          /\ pc[c] \in {"send", "build"}
          /\ UNCHANGED <<key, waiter, requests, fd>>
      BY <1>1 DEF SendRequest, BuildResponse, Goto, waiterVars
    <2> QED
      BY <2>1 DEF Registered, TypeOK
  <1>2. CASE Wake(c)
    <2>1. pc' = [pc EXCEPT ![c] = "build"] /\ pc[c] = "wait"
          /\ UNCHANGED <<key, waiter, requests, fd>>
      BY <1>2 DEF Wake, Goto, waiter_wait_for_finished
    <2> QED
      BY <2>1 DEF Registered, TypeOK
  <1>3. CASE Reply(c)
    <2>1. pc' = [pc EXCEPT ![c] = "remove"] /\ UNCHANGED <<key, waiter, requests, fd>>
      BY <1>3 DEF Reply, Goto, waiterVars
    <2> QED
      BY <2>1 DEF Registered, TypeOK
  <1>4. CASE NoResponse(c)
    <2>1. /\ pc' = [pc EXCEPT ![c] = "receive"]
          /\ key' = [key EXCEPT ![c] = None]
          /\ waiter' = [waiter EXCEPT ![c] = None]
          /\ UNCHANGED <<requests, fd>>
      BY <1>4 DEF NoResponse, Return, waiterVars
    <2> QED
      BY <2>1 DEF Registered, TypeOK
  <1>5. CASE RefuseRequest(c) \/ RemoveRequest(c)
    <2>1. /\ pc[c] # "receive"
          /\ listener_remove_request(key[c])
          /\ Return(c) \/ (Goto(c, "reply") /\ UNCHANGED waiter)
      BY <1>5 DEF RefuseRequest, RemoveRequest
    <2>2. CASE d = c
      BY <2>1, <2>2 DEF Return, Goto, Registered, TypeOK
    <2>3. CASE d # c
      <3>1. pc[d] = pc'[d] /\ key[d] = key'[d] /\ waiter[d] = waiter'[d]
        BY <2>1, <2>3 DEF Return, Goto, TypeOK
      <3> QED
        BY <2>1, <2>3, <3>1, RegisteredRemove
    <2> QED
      BY <2>2, <2>3
  <1> QED
    BY <1>1, <1>2, <1>3, <1>4, <1>5 DEF ThreadStep

OwnInv == TypeOK /\ TableHoldsLiveWaiters /\ UsesOwnKey /\ WaiterStaysRegistered

LEMMA OwnInit == RequestsInit => OwnInv
  <1> SUFFICES ASSUME RequestsInit PROVE OwnInv
    OBVIOUS
  <1>1. \A c \in Conns : pc[c] = "receive"
    BY DEF RequestsInit
  <1> QED
    BY <1>1, TypeInit, TableInit DEF OwnInv, UsesOwnKey, WaiterStaysRegistered

LEMMA OwnNext == ASSUME NoSharedKeys PROVE OwnInv /\ [Next]_requestVars => OwnInv'
  <1> SUFFICES ASSUME OwnInv, [Next]_requestVars PROVE OwnInv'
    OBVIOUS
  <1>1. TypeOK /\ TableHoldsLiveWaiters /\ UsesOwnKey /\ \A d \in Conns : Registered(d)
    BY DEF OwnInv, WaiterStaysRegistered, Registered
  <1>2. TypeOK' /\ TableHoldsLiveWaiters' /\ UsesOwnKey'
    BY <1>1, TypeNext, TableNext, OwnKeyNext
  <1>3. ASSUME NEW d \in Conns PROVE Registered(d)'
    <2>1. CASE UNCHANGED <<pc, key, waiter, requests, fd>>
      BY <1>1, <2>1 DEF Registered
    <2>2. ASSUME NEW c \in Conns, NEW kind \in Kinds, NEW k \in KeysOf[c],
                 AddRequest(c, kind, k)
          PROVE  Registered(d)'
      BY <1>1, <2>2, RegisteredAdd
    <2>3. ASSUME NEW c \in Conns, NEW kind \in Kinds, NEW k \in KeysOf[c],
                 DropRequest(c, kind, k)
          PROVE  Registered(d)'
      BY <2>1, <2>3 DEF DropRequest, waiterVars
    <2>4. ASSUME NEW c \in Conns, ThreadStep(c) PROVE Registered(d)'
      BY <1>1, <2>4, RegisteredThread
    <2>5. CASE \/ \E c \in Conns : Break(c)
               \/ \E t \in sib, status \in {"ok", "failed"} : ConfirmationArrives(t, status)
      BY <2>1, <2>5 DEF Break, ConfirmationArrives, waiterVars, threadVars
    <2>6. CASE CompleteWaiter \/ UNCHANGED requestVars
      BY <2>1, <2>6 DEF CompleteWaiter, CompleteWith, requestVars, waiterVars, threadVars
    <2> QED
      BY <2>2, <2>3, <2>4, <2>5, <2>6 DEF Next
  <1> QED
    BY <1>2, <1>3 DEF OwnInv, WaiterStaysRegistered, Registered

\* Connections that use different keys never lose their entries to each other:
\* from the registration to the answer each finds its own waiter in the table.
THEOREM OwnEntries == ASSUME NoSharedKeys PROVE Spec => []WaiterStaysRegistered
  <1>1. OwnInv /\ [Next]_requestVars => OwnInv'
    BY OwnNext
  <1>2. OwnInv => WaiterStaysRegistered
    BY DEF OwnInv
  <1> QED
    BY <1>1, <1>2, OwnInit, PTL DEF Spec

-----------------------------------------------------------------------------
(***************************************************************************)
(* When keys differ.  A client has a node id and numbers its requests.     *)
(***************************************************************************)
\* The keys get_request_key gives the client of each connection.
KeysOfNodes(Node, Numbers) ==
    [c \in Conns |-> {get_request_key(Node[c], m) : m \in Numbers[c]}]

LEMMA NodesSeparateKeys ==
    ASSUME NEW Node \in [Conns -> Seq(Int)], NEW Numbers \in [Conns -> SUBSET Int],
           KeysOf = KeysOfNodes(Node, Numbers),
           \A c, d \in Conns : c # d => Node[c] # Node[d] \/ Numbers[c] \cap Numbers[d] = {}
    PROVE  NoSharedKeys
  <1> SUFFICES ASSUME NEW c \in Conns, NEW d \in Conns, c # d, NEW k \in KeysOf[c] \cap KeysOf[d]
               PROVE  FALSE
    BY DEF NoSharedKeys
  <1>1. PICK m \in Numbers[c] : k = get_request_key(Node[c], m)
    BY DEF KeysOfNodes
  <1>2. PICK n \in Numbers[d] : k = get_request_key(Node[d], n)
    BY DEF KeysOfNodes
  <1>3. Node[c] \in Seq(Int) /\ Node[d] \in Seq(Int) /\ m \in Int /\ n \in Int
    OBVIOUS
  <1>4. get_request_key(Node[c], m) = get_request_key(Node[d], n)
    BY <1>1, <1>2
  <1>5. Node[c] = Node[d] /\ m = n
    BY <1>3, <1>4, KeyIdentifies
  <1> QED
    BY <1>5

\* Clients with node ids of their own, whatever these look like and however the
\* clients number their requests, never take each other's entries, and so do
\* clients of one node that use different numbers.
THEOREM NodesKeepTheirEntries ==
    ASSUME NEW Node \in [Conns -> Seq(Int)], NEW Numbers \in [Conns -> SUBSET Int],
           KeysOf = KeysOfNodes(Node, Numbers),
           \A c, d \in Conns : c # d => Node[c] # Node[d] \/ Numbers[c] \cap Numbers[d] = {}
    PROVE  Spec => []WaiterStaysRegistered
  BY NodesSeparateKeys, OwnEntries

-----------------------------------------------------------------------------
(***************************************************************************)
(* The answers that clients receive.                                       *)
(*                                                                         *)
(* While connections use different keys, a thread in its handler is alone  *)
(* with its waiter, its token at the SIB and the callback that confirms it *)
(* (AnswerInv): what it finds in its slot answers its own request, it      *)
(* leaves its wait only after that confirmation, and so nothing of it is   *)
(* still on its way when the waiter is destroyed.                          *)
(***************************************************************************)
\* What sending adds to the inboxes.
LEMMA Delivered ==
    ASSUME TypeOK, NEW to, NEW m \in Response, Deliver(to, m),
           NEW d \in Conns, NEW i \in 1..Len(inbox'[d])
    PROVE  \/ i \in 1..Len(inbox[d]) /\ inbox'[d][i] = inbox[d][i]
           \/ d = to /\ i = Len(inbox[d]) + 1 /\ inbox'[d][i] = m
  <1>1. inbox[d] \in Seq(Response)
    BY DEF TypeOK
  <1>2. CASE inbox'[d] = inbox[d]
    BY <1>2
  <1>3. CASE inbox'[d] # inbox[d]
    <2>1. inbox'[d] = Append(inbox[d], m) /\ d = to
      BY <1>3 DEF Deliver, TypeOK
    <2>2. /\ Len(inbox'[d]) = Len(inbox[d]) + 1
          /\ \A j \in 1..Len(inbox[d]) : inbox'[d][j] = inbox[d][j]
          /\ inbox'[d][Len(inbox[d]) + 1] = m
          /\ Len(inbox[d]) \in Nat
      BY <1>1, <2>1
    <2> QED
      BY <2>1, <2>2
  <1> QED
    BY <1>2, <1>3

-----------------------------------------------------------------------------
(* A thread alone with its exchange.                                       *)

Held(d) == pc[d] # "receive" /\ requests[key[d]] = waiter[d]

SameLocals(d) ==
    /\ pc'[d] = pc[d] /\ op'[d] = op[d] /\ key'[d] = key[d]
    /\ waiter'[d] = waiter[d] /\ bd'[d] = bd[d] /\ issued'[d] = issued[d]

SameMail(d) ==
    /\ requests'[key[d]] = requests[key[d]]
    /\ fd'[waiter[d]] = fd[waiter[d]]
    /\ req_ready'[waiter[d]] = req_ready[waiter[d]]
    /\ rsp'[waiter[d]] = rsp[waiter[d]]

\* Threads that use different keys have different waiters in the table.
LEMMA WaitersDiffer ==
    ASSUME NoSharedKeys, OwnInv, NEW c \in Conns, NEW d \in Conns \ {c}, Held(c), Held(d)
    PROVE  waiter[c] # waiter[d] /\ key[c] # key[d]
  <1>1. /\ key[c] \in KeysOf[c] /\ key[d] \in KeysOf[d]
        /\ key[c] \in Keys /\ key[d] \in Keys /\ waiter[d] \in Waiter
    BY DEF Held, OwnInv, UsesOwnKey, TypeOK
  <1>2. key[c] # key[d]
    BY <1>1 DEF NoSharedKeys
  <1> QED
    BY <1>1, <1>2, WaitersAssumption DEF Held, OwnInv, TableHoldsLiveWaiters

\* What a thread removes is not another thread's, ...
LEMMA RemoveLeavesMail ==
    ASSUME NoSharedKeys, OwnInv, NEW c \in Conns, pc[c] # "receive",
           listener_remove_request(key[c]), NEW d \in Conns \ {c}, Held(d)
    PROVE  SameMail(d)
  <1>1. /\ key[c] \in Keys /\ key[d] \in Keys /\ waiter[d] \in Waiter
        /\ key[c] # key[d]
    BY DEF OwnInv, TypeOK, Held, UsesOwnKey, NoSharedKeys
  <1>2. waiter[d] # requests[key[c]]
    BY <1>1, WaitersAssumption DEF Held, OwnInv, TableHoldsLiveWaiters
  <1>3. requests' = [requests EXCEPT ![key[c]] = None]
    BY DEF listener_remove_request
  <1>4. /\ fd' = [w \in Waiter |-> IF w \in {requests[key[c]]} THEN None ELSE fd[w]]
        /\ req_ready' = [w \in Waiter |-> w \notin {requests[key[c]]} /\ req_ready[w]]
        /\ rsp' = [w \in Waiter |-> IF w \in {requests[key[c]]} THEN None ELSE rsp[w]]
    BY DEF listener_remove_request, waiter_destroy
  <1>5. req_ready[waiter[d]] \in BOOLEAN /\ requests \in [Keys -> Waiter \cup {None}]
    BY <1>1 DEF OwnInv, TypeOK
  <1> QED
    BY <1>1, <1>2, <1>3, <1>4, <1>5 DEF SameMail

\* ... and what it enters takes neither its key nor its waiter.
LEMMA AddLeavesMail ==
    ASSUME NoSharedKeys, OwnInv, NEW c \in Conns, NEW k \in KeysOf[c], NEW w \in Waiter \ live,
           waiter_new(w, c), requests' = [requests EXCEPT ![k] = w],
           NEW d \in Conns \ {c}, Held(d)
    PROVE  SameMail(d)
  <1>1. /\ k \in Keys /\ key[d] \in Keys /\ waiter[d] \in Waiter /\ k # key[d]
    BY RequestsAssumption DEF OwnInv, TypeOK, Held, UsesOwnKey, NoSharedKeys
  <1>2. waiter[d] # w
    BY <1>1, WaitersAssumption DEF Held, OwnInv, TableHoldsLiveWaiters
  <1> QED
    BY <1>1, <1>2 DEF SameMail, waiter_new, OwnInv, TypeOK

\* Before it has answered, a thread finds its own, live waiter under its key.
LEMMA BusyIsHeld ==
    ASSUME OwnInv, NEW c \in Conns, pc[c] \in {"send", "wait", "build"}
    PROVE  Held(c) /\ waiter[c] \in live /\ waiter[c] \in Waiter /\ fd[waiter[c]] = c
  <1>1. requests[key[c]] = waiter[c] /\ fd[waiter[c]] = c
    BY DEF OwnInv, WaiterStaysRegistered
  <1>2. waiter[c] \in Waiter /\ key[c] \in Keys
    BY DEF OwnInv, TypeOK
  <1> QED
    BY <1>1, <1>2, WaitersAssumption DEF Held, OwnInv, TableHoldsLiveWaiters

\* The locals of the other threads, whether the handler goes on or returns.
LEMMA GotoLocals ==
    ASSUME TypeOK, NEW c \in Conns, NEW d \in Conns \ {c}, NEW label, Goto(c, label),
           UNCHANGED <<waiter, issued>>, bd'[d] = bd[d]
    PROVE  SameLocals(d)
  BY DEF SameLocals, Goto, TypeOK

LEMMA ReturnLocals ==
    ASSUME TypeOK, NEW c \in Conns, NEW d \in Conns \ {c}, Return(c), UNCHANGED issued
    PROVE  SameLocals(d)
  BY DEF SameLocals, Return, TypeOK

\* A step of one connection changes nothing of another one.
LEMMA StepLeavesOthers ==
    ASSUME NoSharedKeys, OwnInv, NEW c \in Conns,
           \/ ThreadStep(c)
           \/ \E kind \in Kinds, k \in KeysOf[c] : AddRequest(c, kind, k) \/ DropRequest(c, kind, k),
           NEW d \in Conns \ {c}
    PROVE  SameLocals(d) /\ (Held(d) => SameMail(d))
  <1>0. TypeOK
    BY DEF OwnInv
  <1>1. CASE SendRequest(c) \/ BuildResponse(c) \/ Reply(c) \/ NoResponse(c)
    <2>1. UNCHANGED <<waiterVars, requests>>
      BY <1>1 DEF SendRequest, BuildResponse, Reply, NoResponse
    <2>2. SameMail(d)
      BY <2>1 DEF SameMail, waiterVars
    <2>3. CASE SendRequest(c)
      BY <1>0, <2>2, <2>3, GotoLocals DEF SendRequest
    <2>4. CASE BuildResponse(c)
      <3>1. bd'[d] = bd[d]
        BY <1>0, <2>4 DEF BuildResponse, TypeOK
      <3> QED
        BY <1>0, <2>2, <2>4, <3>1, GotoLocals DEF BuildResponse
    <2>5. CASE Reply(c)
      BY <1>0, <2>2, <2>5, GotoLocals DEF Reply
    <2>6. CASE NoResponse(c)
      BY <1>0, <2>2, <2>6, ReturnLocals DEF NoResponse
    <2> QED
      BY <1>1, <2>3, <2>4, <2>5, <2>6
  <1>2. CASE Wake(c)
    <2>1. /\ pc[c] = "wait" /\ pc' = [pc EXCEPT ![c] = "build"]
          /\ req_ready' = [req_ready EXCEPT ![waiter[c]] = FALSE]
          /\ UNCHANGED <<fd, rsp, requests, op, key, waiter, bd, issued>>
      BY <1>2 DEF Wake, Goto, waiter_wait_for_finished
    <2>2. Held(d) => waiter[d] # waiter[c]
      BY <2>1, WaitersDiffer, BusyIsHeld
    <2>3. SameLocals(d)
      BY <1>0, <2>1 DEF SameLocals, TypeOK
    <2>4. Held(d) => waiter[d] \in Waiter
      BY <1>0 DEF Held, TypeOK
    <2>5. req_ready \in [Waiter -> BOOLEAN]
      BY <1>0 DEF TypeOK
    <2>6. Held(d) => SameMail(d)
      BY <2>1, <2>2, <2>4, <2>5 DEF SameMail
    <2> QED
      BY <2>3, <2>6
  <1>3. CASE RefuseRequest(c) \/ RemoveRequest(c)
    <2>1. pc[c] # "receive" /\ listener_remove_request(key[c])
      BY <1>3 DEF RefuseRequest, RemoveRequest
    <2>2. Held(d) => SameMail(d)
      BY <2>1, RemoveLeavesMail
    <2>3. CASE RefuseRequest(c)
      <3>1. PICK m : \/ /\ bd' = [bd EXCEPT ![c] = m]
                        /\ Goto(c, "reply") /\ UNCHANGED waiter
                     \/ Return(c)
        BY <2>3 DEF RefuseRequest
      <3>2. UNCHANGED issued
        BY <2>3 DEF RefuseRequest
      <3>3. bd' = [bd EXCEPT ![c] = m] => bd'[d] = bd[d]
        BY <1>0 DEF TypeOK
      <3> QED
        BY <1>0, <2>2, <3>1, <3>2, <3>3, GotoLocals, ReturnLocals
    <2>4. CASE RemoveRequest(c)
      BY <1>0, <2>2, <2>4, ReturnLocals DEF RemoveRequest
    <2> QED
      BY <1>3, <2>3, <2>4
  <1>4. ASSUME NEW kind \in Kinds, NEW k \in KeysOf[c], AddRequest(c, kind, k)
        PROVE  SameLocals(d) /\ (Held(d) => SameMail(d))
    <2>1. PICK w \in Waiter \ live :
            /\ waiter_new(w, c)
            /\ waiter' = [waiter EXCEPT ![c] = w]
            /\ requests' = [requests EXCEPT ![k] = w]
      BY <1>4 DEF AddRequest
    <2>2. Held(d) => SameMail(d)
      BY <2>1, AddLeavesMail
    <2>3. /\ pc' = [pc EXCEPT ![c] = "send"] /\ op' = [op EXCEPT ![c] = kind]
          /\ key' = [key EXCEPT ![c] = k] /\ bd' = bd
          /\ issued' = [issued EXCEPT ![c] = @ + 1]
      BY <1>4 DEF AddRequest, Receive
    <2> QED
      BY <1>0, <2>1, <2>2, <2>3 DEF SameLocals, TypeOK
  <1>5. ASSUME NEW kind \in Kinds, NEW k \in KeysOf[c], DropRequest(c, kind, k)
        PROVE  SameLocals(d) /\ (Held(d) => SameMail(d))
    BY <1>0, <1>5 DEF DropRequest, Receive, SameLocals, SameMail, waiterVars, TypeOK
  <1> QED
    BY <1>1, <1>2, <1>3, <1>4, <1>5 DEF ThreadStep

-----------------------------------------------------------------------------
(* The invariant.                                                          *)

\* What a thread has in its slot and in its response answers its own request,
\* and a response the SIB stands behind is sent through its own waiter.
Exchange(c) ==
    /\ pc[c] = "send" => ~req_ready[waiter[c]] /\ rsp[waiter[c]] = None
    /\ pc[c] \in {"wait", "build"} /\ rsp[waiter[c]] # None =>
          rsp[waiter[c]].for = CurrentId(c)
    /\ pc[c] = "reply" =>
          /\ bd[c].for = CurrentId(c)
          /\ ~bd[c].local => requests[key[c]] = waiter[c] /\ fd[waiter[c]] = c

\* The request id is the current one of a thread that waits for it.
Awaited(id) ==
    /\ id[1] \in Conns
    /\ id = CurrentId(id[1])
    /\ pc[id[1]] = "wait"
    /\ ~req_ready[waiter[id[1]]]

TokenAwaited(t) == Awaited(t.for) /\ t.key = key[t.for[1]] /\ t.kind = op[t.for[1]]

CallbackAwaited ==
    cb # None =>
        /\ Awaited(cb.msg.for)
        /\ cb.waiter = waiter[cb.msg.for[1]]
        /\ \A t \in sib : t.for # cb.msg.for

ExchangeInv ==
    /\ OwnInv
    /\ \A c \in Conns : Exchange(c)
    /\ \A t \in sib : TokenAwaited(t)
    /\ CallbackAwaited

LEMMA AwaitedIsBusy == ASSUME OwnInv, NEW id, Awaited(id)
                       PROVE  /\ Held(id[1]) /\ waiter[id[1]] \in Waiter
                              /\ waiter[id[1]] \in live
  BY BusyIsHeld DEF Awaited

\* What another connection does leaves an exchange as it is.
LEMMA ExchangeStays ==
    ASSUME OwnInv, NEW d \in Conns, Exchange(d), SameLocals(d), Held(d) => SameMail(d)
    PROVE  Exchange(d)'
  <1> USE DEF SameLocals
  <1>1. CASE pc[d] \in {"send", "wait", "build"}
    <2>1. SameMail(d)
      BY <1>1, BusyIsHeld
    <2> QED
      BY <1>1, <2>1 DEF Exchange, SameMail, CurrentId
  <1>2. CASE pc[d] = "reply"
    <2>1. CurrentId(d)' = CurrentId(d)
      BY DEF CurrentId
    <2>2. CASE bd[d].local
      BY <1>2, <2>1, <2>2 DEF Exchange
    <2>3. CASE ~bd[d].local
      <3>1. Held(d)
        BY <1>2, <2>3 DEF Held, Exchange
      <3> QED
        BY <1>2, <2>1, <2>3, <3>1 DEF Exchange, SameMail
    <2> QED
      BY <2>2, <2>3
  <1>3. CASE pc[d] \notin {"send", "wait", "build", "reply"}
    BY <1>3 DEF Exchange
  <1> QED
    BY <1>1, <1>2, <1>3

LEMMA AwaitedStays ==
    ASSUME OwnInv, NEW id, Awaited(id), SameLocals(id[1]), Held(id[1]) => SameMail(id[1])
    PROVE  Awaited(id)' /\ key'[id[1]] = key[id[1]] /\ op'[id[1]] = op[id[1]]
                        /\ waiter'[id[1]] = waiter[id[1]]
  <1>1. SameMail(id[1])
    BY AwaitedIsBusy
  <1> QED
    BY <1>1 DEF Awaited, SameLocals, SameMail, CurrentId

\* A thread that waits for a request on its way does not move.
LEMMA AwaitedBlocks ==
    ASSUME OwnInv, NEW id, Awaited(id)
    PROVE  ~ThreadStep(id[1])
  <1>1. pc[id[1]] = "wait" /\ ~req_ready[waiter[id[1]]] /\ waiter[id[1]] \in live
    BY AwaitedIsBusy DEF Awaited
  <1>2. ~Wake(id[1])
    BY <1>1 DEF Wake, waiter_wait_for_finished
  <1> QED
    BY <1>1, <1>2 DEF ThreadStep, SendRequest, RefuseRequest, BuildResponse, NoResponse,
                      Reply, RemoveRequest

\* The exchange of the thread that takes the step.
LEMMA ExchangeOwn ==
    ASSUME ExchangeInv, NEW c \in Conns, ThreadStep(c)
    PROVE  Exchange(c)'
  <1>0. TypeOK /\ OwnInv /\ Exchange(c)
    BY DEF ExchangeInv, OwnInv
  <1>1. CASE SendRequest(c)
    <2>1. /\ pc[c] = "send" /\ pc' = [pc EXCEPT ![c] = "wait"]
          /\ UNCHANGED <<rsp, waiter>>
      BY <1>1 DEF SendRequest, Goto, waiterVars
    <2>2. pc'[c] = "wait" /\ rsp'[waiter'[c]] = None
      BY <1>0, <2>1 DEF TypeOK, Exchange
    <2> QED
      BY <2>2 DEF Exchange
  <1>2. CASE RefuseRequest(c)
    <2>1. PICK s : \/ /\ bd' = [bd EXCEPT ![c] = [for |-> CurrentId(c), via |-> op[c],
                                                  status |-> s, local |-> TRUE]]
                      /\ pc' = [pc EXCEPT ![c] = "reply"]
                   \/ Return(c)
      BY <1>2 DEF RefuseRequest, Goto
    <2>2. CurrentId(c)' = CurrentId(c)
      BY <1>2 DEF RefuseRequest, CurrentId
    <2>3. CASE Return(c)
      BY <1>0, <2>3 DEF Return, Exchange, TypeOK
    <2>4. CASE /\ bd' = [bd EXCEPT ![c] = [for |-> CurrentId(c), via |-> op[c],
                                           status |-> s, local |-> TRUE]]
               /\ pc' = [pc EXCEPT ![c] = "reply"]
      <3>1. bd'[c].for = CurrentId(c) /\ bd'[c].local /\ pc'[c] = "reply"
        BY <1>0, <2>4 DEF TypeOK
      <3> QED
        BY <2>2, <3>1 DEF Exchange
    <2> QED
      BY <2>1, <2>3, <2>4
  <1>3. CASE Wake(c)
    <2>1. /\ pc[c] = "wait" /\ pc' = [pc EXCEPT ![c] = "build"]
          /\ UNCHANGED <<rsp, waiter, issued>>
      BY <1>3 DEF Wake, Goto, waiter_wait_for_finished
    <2> QED
      BY <1>0, <2>1 DEF Exchange, CurrentId, TypeOK
  <1>4. CASE BuildResponse(c)
    <2> DEFINE r == RspRead(waiter[c])
               m == [for |-> r.for, via |-> op[c], status |-> r.status, local |-> FALSE]
    <2>1. /\ pc[c] = "build" /\ r # None
          /\ bd' = [bd EXCEPT ![c] = m]
          /\ pc' = [pc EXCEPT ![c] = "reply"]
          /\ UNCHANGED <<requests, fd, key, waiter, issued>>
      BY <1>4 DEF BuildResponse, Goto, waiterVars
    <2>2. /\ r = rsp[waiter[c]]
          /\ requests[key[c]] = waiter[c] /\ fd[waiter[c]] = c
      BY <1>0, <2>1, BusyIsHeld DEF RspRead, Held
    <2>3. m.for = CurrentId(c)
      BY <1>0, <2>1, <2>2 DEF Exchange
    <2> HIDE DEF m
    <2> QED
      BY <1>0, <2>1, <2>2, <2>3 DEF Exchange, CurrentId, TypeOK
  <1>5. CASE NoResponse(c) \/ RemoveRequest(c)
    BY <1>0, <1>5 DEF NoResponse, RemoveRequest, Return, Exchange, TypeOK
  <1>6. CASE Reply(c)
    BY <1>0, <1>6 DEF Reply, Goto, Exchange, TypeOK
  <1> QED
    BY <1>1, <1>2, <1>3, <1>4, <1>5, <1>6 DEF ThreadStep

\* A step of a thread keeps the invariant.
LEMMA ExchangeThread ==
    ASSUME NoSharedKeys, ExchangeInv, OwnInv', NEW c \in Conns, ThreadStep(c)
    PROVE  ExchangeInv'
  <1>0. OwnInv /\ TypeOK /\ CallbackAwaited
        /\ (\A d \in Conns : Exchange(d)) /\ (\A t \in sib : TokenAwaited(t))
    BY DEF ExchangeInv, OwnInv
  <1>1. \A d \in Conns \ {c} : SameLocals(d) /\ (Held(d) => SameMail(d))
    BY <1>0, StepLeavesOthers
  <1>2. \A d \in Conns : Exchange(d)'
    BY <1>0, <1>1, ExchangeOwn, ExchangeStays
  <1>3. ASSUME NEW id, Awaited(id)
        PROVE  /\ id[1] # c /\ Awaited(id)' /\ key'[id[1]] = key[id[1]]
               /\ op'[id[1]] = op[id[1]] /\ waiter'[id[1]] = waiter[id[1]]
    <2>1. id[1] # c
      BY <1>0, <1>3, AwaitedBlocks
    <2>2. id[1] \in Conns \ {c}
      BY <1>3, <2>1 DEF Awaited
    <2> QED
      BY <1>0, <1>1, <1>3, <2>1, <2>2, AwaitedStays
  <1>4. ASSUME NEW t \in sib, TokenAwaited(t)
        PROVE  TokenAwaited(t)'
    BY <1>3, <1>4 DEF TokenAwaited
  <1>5. CASE SendRequest(c)
    <2>0. PICK t : t = [for |-> CurrentId(c), kind |-> op[c], key |-> key[c]]
      OBVIOUS
    <2>1. /\ pc[c] = "send" /\ sib' = sib \cup {t} /\ pc' = [pc EXCEPT ![c] = "wait"]
          /\ UNCHANGED <<req_ready, issued, key, op, waiter, cb>>
      BY <1>5, <2>0 DEF SendRequest, Goto, waiterVars
    <2>2. /\ CurrentId(c)[1] = c /\ CurrentId(c)' = CurrentId(c)
          /\ t.for = CurrentId(c) /\ t.kind = op[c] /\ t.key = key[c]
      BY <2>0, <2>1 DEF CurrentId
    <2>3. ~req_ready[waiter[c]]
      BY <1>0, <2>1 DEF Exchange
    <2>4. pc'[c] = "wait"
      BY <1>0, <2>1 DEF TypeOK
    <2>5. Awaited(t.for)'
      BY <2>1, <2>2, <2>3, <2>4 DEF Awaited
    <2>6. TokenAwaited(t)'
      BY <2>1, <2>2, <2>5 DEF TokenAwaited
    <2>7. \A u \in sib' : TokenAwaited(u)'
      BY <1>0, <1>4, <2>1, <2>6
    <2>8. CallbackAwaited'
      <3> SUFFICES ASSUME cb # None
                   PROVE  /\ Awaited(cb.msg.for)'
                          /\ cb.waiter = waiter'[cb.msg.for[1]]
                          /\ \A u \in sib' : u.for # cb.msg.for
        BY <2>1 DEF CallbackAwaited
      <3>1. /\ Awaited(cb.msg.for) /\ cb.waiter = waiter[cb.msg.for[1]]
            /\ \A u \in sib : u.for # cb.msg.for
        BY <1>0 DEF CallbackAwaited
      <3>2. t.for # cb.msg.for
        BY <1>3, <2>2, <3>1
      <3> QED
        BY <1>3, <2>1, <3>1, <3>2
    <2> QED
      BY <1>2, <2>7, <2>8 DEF ExchangeInv
  <1>6. CASE ~SendRequest(c)
    <2>1. UNCHANGED <<sib, cb>>
      BY <1>6 DEF ThreadStep, RefuseRequest, Wake, BuildResponse, NoResponse, Reply, RemoveRequest
    <2>2. \A u \in sib' : TokenAwaited(u)'
      BY <1>0, <1>4, <2>1
    <2>3. CallbackAwaited'
      BY <1>0, <1>3, <2>1 DEF CallbackAwaited
    <2> QED
      BY <1>2, <2>2, <2>3 DEF ExchangeInv
  <1> QED
    BY <1>5, <1>6

\* A new request is nobody's answer yet.
LEMMA ExchangeEnter ==
    ASSUME NoSharedKeys, ExchangeInv, OwnInv', NEW c \in Conns, NEW kind \in Kinds,
           NEW k \in KeysOf[c], AddRequest(c, kind, k) \/ DropRequest(c, kind, k)
    PROVE  ExchangeInv'
  <1>0. OwnInv /\ TypeOK /\ CallbackAwaited
        /\ (\A d \in Conns : Exchange(d)) /\ (\A t \in sib : TokenAwaited(t))
    BY DEF ExchangeInv, OwnInv
  <1>1. \A d \in Conns \ {c} : SameLocals(d) /\ (Held(d) => SameMail(d))
    BY <1>0, StepLeavesOthers
  <1>2. pc[c] = "receive" /\ UNCHANGED <<sib, cb>>
    BY DEF AddRequest, DropRequest, Receive
  <1>3. Exchange(c)'
    <2>1. CASE AddRequest(c, kind, k)
      <3>1. PICK w \in Waiter \ live :
              waiter_new(w, c) /\ waiter' = [waiter EXCEPT ![c] = w]
        BY <2>1 DEF AddRequest
      <3>2. pc' = [pc EXCEPT ![c] = "send"]
        BY <2>1 DEF AddRequest
      <3>3. pc'[c] = "send" /\ waiter'[c] = w /\ ~req_ready'[w] /\ rsp'[w] = None
        BY <1>0, <3>1, <3>2 DEF waiter_new, TypeOK
      <3> QED
        BY <3>3 DEF Exchange
    <2>2. CASE DropRequest(c, kind, k)
      BY <1>2, <2>2 DEF DropRequest, Exchange
    <2> QED
      BY <2>1, <2>2
  <1>4. ASSUME NEW id, Awaited(id)
        PROVE  /\ Awaited(id)' /\ key'[id[1]] = key[id[1]]
               /\ op'[id[1]] = op[id[1]] /\ waiter'[id[1]] = waiter[id[1]]
    <2>1. id[1] \in Conns \ {c}
      BY <1>2, <1>4 DEF Awaited
    <2> QED
      BY <1>0, <1>1, <1>4, <2>1, AwaitedStays
  <1>5. \A d \in Conns : Exchange(d)'
    BY <1>0, <1>1, <1>3, ExchangeStays
  <1>6. \A t \in sib' : TokenAwaited(t)'
    BY <1>0, <1>2, <1>4 DEF TokenAwaited
  <1>7. CallbackAwaited'
    BY <1>0, <1>2, <1>4 DEF CallbackAwaited
  <1> QED
    BY <1>5, <1>6, <1>7 DEF ExchangeInv

\* The callback finds the waiter of the thread that waits for the confirmation.
LEMMA ExchangeArrives ==
    ASSUME ExchangeInv, OwnInv', NEW t \in sib, NEW status \in {"ok", "failed"},
           ConfirmationArrives(t, status)
    PROVE  ExchangeInv'
  <1>0. OwnInv /\ TypeOK
        /\ (\A d \in Conns : Exchange(d)) /\ (\A u \in sib : TokenAwaited(u))
    BY DEF ExchangeInv, OwnInv
  <1>1. /\ sib' = sib \ {t}
        /\ UNCHANGED <<fd, req_ready, rsp, requests, pc, op, key, waiter, bd, issued>>
    BY DEF ConfirmationArrives, waiterVars, threadVars
  <1>2. \A d \in Conns : Exchange(d)'
    BY <1>0, <1>1 DEF Exchange, CurrentId
  <1>3. \A u \in sib' : TokenAwaited(u)'
    BY <1>0, <1>1 DEF TokenAwaited, Awaited, CurrentId
  <1>4. CallbackAwaited'
    <2>1. Awaited(t.for) /\ t.key = key[t.for[1]]
      BY <1>0 DEF TokenAwaited
    <2>2. requests[t.key] = waiter[t.for[1]]
      BY <1>0, <2>1, AwaitedIsBusy DEF Held
    <2>3. ASSUME NEW u \in sib, u.for = t.for PROVE u = t
      <3>1. u \in Token /\ t \in Token /\ u.key = t.key /\ u.kind = t.kind
        BY <1>0, <2>3 DEF TypeOK, TokenAwaited
      <3> QED
        BY <2>3, <3>1 DEF Token
    <2>4. ASSUME cb' # None
          PROVE  cb'.waiter = requests[t.key] /\ cb'.msg.for = t.for
      <3>1. cb' = [waiter |-> requests[t.key],
                   msg |-> [for |-> t.for, via |-> t.kind, status |-> status]]
        BY <2>4 DEF ConfirmationArrives
      <3> QED
        BY <3>1
    <2>5. Awaited(t.for)'
      BY <1>1, <2>1 DEF Awaited, CurrentId
    <2>6. \A u \in sib' : u.for # t.for
      BY <1>1, <2>3
    <2> QED
      BY <1>1, <2>2, <2>4, <2>5, <2>6 DEF CallbackAwaited
  <1> QED
    BY <1>2, <1>3, <1>4 DEF ExchangeInv

\* ... and fills that waiter and no other.
LEMMA ExchangeCompletes ==
    ASSUME NoSharedKeys, ExchangeInv, OwnInv', CompleteWaiter
    PROVE  ExchangeInv'
  <1>0. OwnInv /\ TypeOK
        /\ (\A d \in Conns : Exchange(d)) /\ (\A u \in sib : TokenAwaited(u))
    BY DEF ExchangeInv, OwnInv
  <1>a. /\ Awaited(cb.msg.for) /\ cb.waiter = waiter[cb.msg.for[1]]
        /\ \A u \in sib : u.for # cb.msg.for
    BY DEF ExchangeInv, CallbackAwaited, CompleteWaiter
  <1>b. PICK c \in Conns : c = cb.msg.for[1]
    BY <1>a DEF Awaited
  <1>1. /\ Awaited(cb.msg.for) /\ cb.waiter = waiter[c]
        /\ \A u \in sib : u.for # cb.msg.for
    BY <1>a, <1>b
  <1>2. c \in Conns /\ Held(c) /\ waiter[c] \in Waiter /\ waiter[c] \in live
        /\ pc[c] = "wait" /\ cb.msg.for = CurrentId(c)
    BY <1>0, <1>1, <1>b, AwaitedIsBusy DEF Awaited
  <1>3. /\ rsp' = [rsp EXCEPT ![waiter[c]] = cb.msg]
        /\ req_ready' = [req_ready EXCEPT ![waiter[c]] = TRUE]
        /\ cb' = None
        /\ UNCHANGED <<fd, requests, pc, op, key, waiter, bd, issued, sib>>
    BY <1>1, <1>2 DEF CompleteWaiter, CompleteWith, threadVars
  <1>4. ASSUME NEW d \in Conns \ {c}
        PROVE  SameLocals(d) /\ (Held(d) => SameMail(d))
    <2>1. SameLocals(d)
      BY <1>3 DEF SameLocals
    <2>2. ASSUME Held(d) PROVE SameMail(d)
      <3>1. waiter[d] # waiter[c] /\ waiter[d] \in Waiter
        BY <1>0, <1>2, <2>2, WaitersDiffer DEF Held, TypeOK
      <3> QED
        BY <1>0, <1>3, <3>1 DEF SameMail, TypeOK
    <2> QED
      BY <2>1, <2>2
  <1>5. Exchange(c)'
    <2>1. rsp'[waiter[c]] = cb.msg
      BY <1>0, <1>2, <1>3 DEF TypeOK
    <2> QED
      BY <1>2, <1>3, <2>1 DEF Exchange, CurrentId
  <1>6. \A d \in Conns : Exchange(d)'
    BY <1>0, <1>4, <1>5, ExchangeStays
  <1>7. ASSUME NEW t \in sib PROVE TokenAwaited(t)'
    <2>1. Awaited(t.for) /\ t.for # CurrentId(c)
      BY <1>0, <1>1, <1>2 DEF TokenAwaited
    <2>2. t.for[1] \in Conns \ {c}
      BY <2>1 DEF Awaited
    <2>3. Awaited(t.for)'
      BY <1>0, <1>4, <2>1, <2>2, AwaitedStays
    <2> QED
      BY <1>0, <1>3, <2>3 DEF TokenAwaited
  <1> QED
    BY <1>3, <1>6, <1>7 DEF ExchangeInv, CallbackAwaited

LEMMA ExchangeNext ==
    ASSUME NoSharedKeys PROVE ExchangeInv /\ [Next]_requestVars => ExchangeInv'
  <1> SUFFICES ASSUME ExchangeInv, [Next]_requestVars PROVE ExchangeInv'
    OBVIOUS
  <1>1. OwnInv'
    BY OwnNext DEF ExchangeInv
  <1>2. CASE UNCHANGED <<fd, req_ready, rsp, requests, pc, op, key, waiter, bd, issued, sib, cb>>
    BY <1>1, <1>2 DEF ExchangeInv, Exchange, TokenAwaited, Awaited, CallbackAwaited, CurrentId
  <1>3. CASE (\E c \in Conns : Break(c)) \/ UNCHANGED requestVars
    BY <1>2, <1>3 DEF Break, requestVars, waiterVars, threadVars
  <1> QED
    BY <1>1, <1>3, ExchangeThread, ExchangeEnter, ExchangeArrives, ExchangeCompletes DEF Next

-----------------------------------------------------------------------------
(* What the clients have received.                                         *)

\* The request id belongs to a request that has been answered, if at all.
Past(id) ==
    /\ id[2] <= issued[id[1]]
    /\ pc[id[1]] \in {"send", "wait", "build", "reply"} => id[2] < issued[id[1]]

InboxInv ==
    /\ \A c \in Conns : \A i \in 1..Len(inbox[c]) :
          /\ Past(inbox[c][i].for)
          /\ ~inbox[c][i].local => inbox[c][i].for[1] = c
    /\ AnsweredAtMostOnce

AnswerInv == ExchangeInv /\ InboxInv

\* A request that has been answered is not in hand again.
LEMMA PastStays ==
    ASSUME TypeOK, [Next]_requestVars, NEW id \in Id, Past(id)
    PROVE  Past(id)'
  <1>0. /\ id[1] \in Conns /\ id[2] \in 1..MaxRequests
        /\ issued \in [Conns -> 0..MaxRequests] /\ MaxRequests \in Nat
    BY RequestsAssumption DEF Id, TypeOK
  <1>1. CASE UNCHANGED <<pc, issued>>
    BY <1>1 DEF Past
  <1>2. ASSUME NEW c \in Conns, ThreadStep(c) PROVE Past(id)'
    <2>1. /\ issued' = issued
          /\ \E label : pc' = [pc EXCEPT ![c] = label] /\ (pc[c] = "remove" => label = "receive")
          /\ pc[c] \in {"send", "wait", "build", "reply", "remove"}
      <3>1. CASE SendRequest(c) \/ Wake(c) \/ BuildResponse(c) \/ Reply(c)
        BY <3>1 DEF SendRequest, Wake, BuildResponse, Reply, Goto
      <3>2. CASE RefuseRequest(c) \/ NoResponse(c) \/ RemoveRequest(c)
        BY <3>2 DEF RefuseRequest, NoResponse, RemoveRequest, Goto, Return
      <3> QED
        BY <1>2, <3>1, <3>2 DEF ThreadStep
    <2>2. pc \in [Conns -> {"receive", "send", "wait", "build", "reply", "remove"}]
      BY DEF TypeOK
    <2> QED
      BY <1>0, <2>1, <2>2 DEF Past
  <1>3. ASSUME NEW c \in Conns, NEW kind \in Kinds, NEW k \in KeysOf[c],
               AddRequest(c, kind, k) \/ DropRequest(c, kind, k)
        PROVE  Past(id)'
    <2>1. /\ issued' = [issued EXCEPT ![c] = @ + 1]
          /\ pc' = pc \/ pc' = [pc EXCEPT ![c] = "send"]
      BY <1>3 DEF AddRequest, DropRequest, Receive
    <2>2. pc \in [Conns -> {"receive", "send", "wait", "build", "reply", "remove"}]
      BY DEF TypeOK
    <2>3. CASE id[1] = c
      BY <1>0, <2>1, <2>2, <2>3 DEF Past
    <2>4. CASE id[1] # c
      BY <1>0, <2>1, <2>2, <2>4 DEF Past
    <2> QED
      BY <2>3, <2>4
  <1> QED
    BY <1>1, <1>2, <1>3
       DEF Next, Break, ConfirmationArrives, CompleteWaiter, threadVars, requestVars

LEMMA InboxType ==
    ASSUME TypeOK, NEW c \in Conns, NEW i \in 1..Len(inbox[c])
    PROVE  inbox[c][i] \in Response /\ inbox[c][i].for \in Id
  <1>1. inbox[c] \in Seq(Response)
    BY DEF TypeOK
  <1>2. inbox[c][i] \in Response
    BY <1>1
  <1> QED
    BY <1>2 DEF Response

LEMMA InboxStays ==
    ASSUME TypeOK, InboxInv, inbox' = inbox, \A id \in Id : Past(id) => Past(id)'
    PROVE  InboxInv'
  <1>1. ASSUME NEW c \in Conns, NEW i \in 1..Len(inbox[c])
        PROVE  Past(inbox[c][i].for)'
    <2>1. PICK m : m = inbox[c][i]
      OBVIOUS
    <2>2. m.for \in Id
      BY <2>1, InboxType
    <2>3. Past(m.for)
      BY <2>1 DEF InboxInv
    <2> QED
      BY <2>1, <2>2, <2>3
  <1> QED
    BY <1>1 DEF InboxInv, AnsweredAtMostOnce

\* The one step that answers.  The request is in hand, so no answer to it has
\* been sent; and what the SIB stands behind goes through the own waiter.
LEMMA InboxReply ==
    ASSUME OwnInv, InboxInv, NEW c \in Conns, Exchange(c), Reply(c),
           \A id \in Id : Past(id) => Past(id)'
    PROVE  InboxInv'
  <1>0. TypeOK
    BY DEF OwnInv
  <1>1. PICK m : m = bd[c]
    OBVIOUS
  <1>2. pc[c] = "reply" /\ m \in Response /\ m.for = CurrentId(c)
    BY <1>0, <1>1 DEF Reply, TypeOK, Exchange
  <1>3. PICK to \in FdRead(waiter[c]) : Deliver(to, m)
    BY <1>1 DEF Reply
  <1>4. m.for \in Id /\ ~Past(m.for)
    <2>1. issued[c] \in 0..MaxRequests
      BY <1>0 DEF TypeOK
    <2> QED
      BY <1>2, <2>1, RequestsAssumption DEF Response, Past, CurrentId
  <1>5. Past(m.for)'
    <2>1. pc'[c] = "remove" /\ issued'[c] = issued[c] /\ issued[c] \in 0..MaxRequests
      BY <1>0 DEF Reply, Goto, TypeOK
    <2> QED
      BY <1>2, <2>1, RequestsAssumption DEF Past, CurrentId
  <1>6. ~m.local => to = c
    <2>1. ASSUME ~m.local PROVE waiter[c] \in live /\ fd[waiter[c]] = c
      <3>1. requests[key[c]] = waiter[c] /\ fd[waiter[c]] = c
        BY <1>1, <1>2, <2>1 DEF Exchange
      <3>2. waiter[c] \in Waiter /\ key[c] \in Keys
        BY <1>0, <1>2 DEF TypeOK
      <3> QED
        BY <3>1, <3>2, WaitersAssumption DEF OwnInv, TableHoldsLiveWaiters
    <2> QED
      BY <1>3, <2>1 DEF FdRead
  <1> DEFINE Old(d, i) == i \in 1..Len(inbox[d]) /\ inbox'[d][i] = inbox[d][i]
             New(d, i) == d = to /\ i = Len(inbox[d]) + 1 /\ inbox'[d][i] = m
  <1>7. \A d \in Conns : \A i \in 1..Len(inbox'[d]) : Old(d, i) \/ New(d, i)
    BY <1>0, <1>2, <1>3, Delivered
  <1>8. ASSUME NEW d \in Conns, NEW i \in 1..Len(inbox[d])
        PROVE  inbox[d][i].for # m.for /\ inbox[d][i].for \in Id
    <2>1. inbox[d][i].for \in Id /\ Past(inbox[d][i].for)
      BY <1>0, InboxType DEF InboxInv
    <2> QED
      BY <1>4, <2>1
  <1>9. ASSUME NEW d \in Conns, NEW i \in 1..Len(inbox'[d])
        PROVE  /\ Past(inbox[d][i].for)' /\ (~inbox'[d][i].local => inbox'[d][i].for[1] = d)
    <2>1. PICK n : n = inbox'[d][i]
      OBVIOUS
    <2>2. CASE Old(d, i)
      <3>1. n = inbox[d][i] /\ i \in 1..Len(inbox[d])
        BY <2>1, <2>2
      <3>2. Past(n.for) /\ n.for \in Id /\ (~n.local => n.for[1] = d)
        BY <1>8, <3>1 DEF InboxInv
      <3> QED
        BY <2>1, <3>2
    <2>3. CASE New(d, i)
      <3>1. n = m /\ d = to
        BY <2>1, <2>3
      <3> QED
        BY <1>2, <1>5, <1>6, <2>1, <3>1 DEF CurrentId
    <2> QED
      BY <1>7, <2>2, <2>3
  <1>10. AnsweredAtMostOnce'
    <2> SUFFICES ASSUME NEW d \in Conns, NEW e \in Conns,
                        NEW i \in 1..Len(inbox'[d]), NEW j \in 1..Len(inbox'[e]),
                        inbox'[d][i].for = inbox'[e][j].for
                 PROVE  d = e /\ i = j
      BY DEF AnsweredAtMostOnce
    <2>1. CASE Old(d, i) /\ Old(e, j)
      BY <2>1 DEF InboxInv, AnsweredAtMostOnce
    <2>2. CASE New(d, i) /\ New(e, j)
      BY <2>2
    <2>3. CASE (Old(d, i) /\ New(e, j)) \/ (New(d, i) /\ Old(e, j))
      BY <1>8, <2>3
    <2> QED
      BY <1>7, <2>1, <2>2, <2>3
  <1> QED
    BY <1>9, <1>10 DEF InboxInv

LEMMA AnswerInit == RequestsInit => AnswerInv
  <1> SUFFICES ASSUME RequestsInit PROVE AnswerInv
    OBVIOUS
  <1>1. \A c \in Conns : pc[c] = "receive" /\ Len(inbox[c]) = 0
    <2>1. \A c \in Conns : pc[c] = "receive" /\ inbox[c] = <<>>
      BY DEF RequestsInit
    <2> QED
      BY <2>1
  <1>2. sib = {} /\ cb = None
    BY DEF RequestsInit
  <1>3. ExchangeInv
    BY <1>1, <1>2, OwnInit DEF ExchangeInv, Exchange, CallbackAwaited
  <1>4. InboxInv
    BY <1>1 DEF InboxInv, AnsweredAtMostOnce
  <1> QED
    BY <1>3, <1>4 DEF AnswerInv

LEMMA AnswerNext ==
    ASSUME NoSharedKeys PROVE AnswerInv /\ [Next]_requestVars => AnswerInv'
  <1> SUFFICES ASSUME AnswerInv, [Next]_requestVars PROVE AnswerInv'
    OBVIOUS
  <1>1. ExchangeInv' /\ OwnInv /\ TypeOK /\ InboxInv /\ \A c \in Conns : Exchange(c)
    BY ExchangeNext DEF AnswerInv, ExchangeInv, OwnInv
  <1>2. \A id \in Id : Past(id) => Past(id)'
    BY <1>1, PastStays
  <1>3. CASE inbox' = inbox
    BY <1>1, <1>2, <1>3, InboxStays DEF AnswerInv
  <1>4. ASSUME NEW c \in Conns, Reply(c) PROVE AnswerInv'
    BY <1>1, <1>2, <1>4, InboxReply DEF AnswerInv
  <1>5. ASSUME NEW c \in Conns, ThreadStep(c) PROVE AnswerInv'
    BY <1>3, <1>4, <1>5
       DEF ThreadStep, SendRequest, RefuseRequest, Wake, BuildResponse, NoResponse, RemoveRequest
  <1> QED
    BY <1>3, <1>5
       DEF Next, AddRequest, DropRequest, Receive, Break, ConfirmationArrives, CompleteWaiter,
           requestVars

\* While connections use different keys, what the SIB has confirmed reaches the
\* client that asked: only a refusal, sent through a freed waiter, can stray.
THEOREM ConfirmedNeverStrays == ASSUME NoSharedKeys PROVE Spec => []OnlyRefusalsStray
  <1>1. AnswerInv /\ [Next]_requestVars => AnswerInv'
    BY AnswerNext
  <1>2. AnswerInv => OnlyRefusalsStray
    BY DEF AnswerInv, InboxInv, OnlyRefusalsStray
  <1> QED
    BY <1>1, <1>2, AnswerInit, PTL DEF Spec

\* ... and no request is answered twice.
THEOREM OneAnswer == ASSUME NoSharedKeys PROVE Spec => []AnsweredAtMostOnce
  <1>1. AnswerInv /\ [Next]_requestVars => AnswerInv'
    BY AnswerNext
  <1>2. AnswerInv => AnsweredAtMostOnce
    BY DEF AnswerInv, InboxInv
  <1> QED
    BY <1>1, <1>2, AnswerInit, PTL DEF Spec

-----------------------------------------------------------------------------
(* Who the entries of the table belong to.                                 *)

\* A thread that has been woken finds a message.
Filled(c) ==
    /\ pc[c] = "wait" /\ req_ready[waiter[c]] => rsp[waiter[c]] # None
    /\ pc[c] = "build" => rsp[waiter[c]] # None

Owned == \A k \in Keys : requests[k] # None =>
            \E c \in Conns : pc[c] # "receive" /\ key[c] = k /\ waiter[c] = requests[k]

EntryInv == ExchangeInv /\ (\A c \in Conns : Filled(c)) /\ Owned

LEMMA FilledStays ==
    ASSUME OwnInv, NEW d \in Conns, Filled(d), SameLocals(d), Held(d) => SameMail(d)
    PROVE  Filled(d)'
  <1>1. CASE pc[d] \in {"wait", "build"}
    <2>1. SameMail(d)
      BY <1>1, BusyIsHeld
    <2> QED
      BY <2>1 DEF Filled, SameLocals, SameMail
  <1>2. CASE pc[d] \notin {"wait", "build"}
    BY <1>2 DEF Filled, SameLocals
  <1> QED
    BY <1>1, <1>2

LEMMA FilledThread ==
    ASSUME OwnInv, NEW c \in Conns, Exchange(c), Filled(c), ThreadStep(c)
    PROVE  Filled(c)'
  <1>0. TypeOK
    BY DEF OwnInv
  <1>1. CASE SendRequest(c)
    <2>1. pc[c] = "send" /\ pc'[c] = "wait" /\ UNCHANGED <<req_ready, rsp, waiter>>
      BY <1>0, <1>1 DEF SendRequest, Goto, waiterVars, TypeOK
    <2> QED
      BY <2>1 DEF Exchange, Filled
  <1>2. CASE Wake(c)
    <2>1. /\ pc[c] = "wait" /\ pc'[c] = "build" /\ UNCHANGED <<rsp, waiter>>
          /\ waiter[c] \in live => req_ready[waiter[c]]
      BY <1>0, <1>2 DEF Wake, Goto, waiter_wait_for_finished, TypeOK
    <2> QED
      BY <2>1, BusyIsHeld DEF Filled
  <1>3. CASE ~SendRequest(c) /\ ~Wake(c)
    <2>1. \E label \in {"receive", "reply", "remove"} : pc' = [pc EXCEPT ![c] = label]
      BY <1>3 DEF ThreadStep, RefuseRequest, BuildResponse, NoResponse, Reply, RemoveRequest,
                  Goto, Return
    <2> QED
      BY <1>0, <2>1 DEF Filled, TypeOK
  <1> QED
    BY <1>1, <1>2, <1>3

LEMMA FilledNext ==
    ASSUME NoSharedKeys, ExchangeInv, \A c \in Conns : Filled(c), [Next]_requestVars, NEW d \in Conns
    PROVE  Filled(d)'
  <1>0. OwnInv /\ TypeOK /\ \A c \in Conns : Exchange(c)
    BY DEF ExchangeInv, OwnInv
  <1>1. CASE UNCHANGED <<pc, waiter, req_ready, rsp>>
    BY <1>1 DEF Filled
  <1>2. ASSUME NEW c \in Conns, ThreadStep(c) PROVE Filled(d)'
    BY <1>0, <1>2, FilledThread, StepLeavesOthers, FilledStays
  <1>3. ASSUME NEW c \in Conns, NEW kind \in Kinds, NEW k \in KeysOf[c],
               AddRequest(c, kind, k) \/ DropRequest(c, kind, k)
        PROVE  Filled(d)'
    <2>1. CASE d = c
      <3>1. pc'[c] \in {"receive", "send"}
        BY <1>0, <1>3 DEF AddRequest, DropRequest, Receive, TypeOK
      <3> QED
        BY <2>1, <3>1 DEF Filled
    <2>2. CASE d # c
      BY <1>0, <1>3, <2>2, StepLeavesOthers, FilledStays
    <2> QED
      BY <2>1, <2>2
  <1>4. CASE CompleteWaiter
    <2>1. /\ cb.waiter \in Waiter /\ cb.msg \in Confirmation
          /\ UNCHANGED <<pc, waiter>>
      BY <1>0, <1>4 DEF CompleteWaiter, TypeOK, threadVars
    <2>2. cb.msg # None
      BY <2>1, NullIsNoMessage
    <2>3. \/ UNCHANGED <<rsp, req_ready>>
          \/ /\ rsp' = [rsp EXCEPT ![cb.waiter] = cb.msg]
             /\ req_ready' = [req_ready EXCEPT ![cb.waiter] = TRUE]
      BY <1>4 DEF CompleteWaiter, CompleteWith
    <2>4. pc[d] \in {"wait", "build"} => waiter[d] \in Waiter
      BY <1>0 DEF TypeOK
    <2> QED
      BY <1>0, <2>1, <2>2, <2>3, <2>4 DEF Filled, TypeOK
  <1> QED
    BY <1>1, <1>2, <1>3, <1>4
       DEF Next, Break, ConfirmationArrives, waiterVars, threadVars, requestVars

LEMMA OwnedNext ==
    ASSUME NoSharedKeys, "build" \notin Faults, EntryInv, [Next]_requestVars
    PROVE  Owned'
  <1>0. OwnInv /\ TypeOK /\ Owned /\ \A c \in Conns : Filled(c)
    BY DEF EntryInv, ExchangeInv, OwnInv
  <1>1. CASE UNCHANGED <<requests, pc, key, waiter>>
    BY <1>0, <1>1 DEF Owned
  <1>2. ASSUME NEW c \in Conns, ThreadStep(c) PROVE Owned'
    <2>1. CASE SendRequest(c) \/ Wake(c) \/ BuildResponse(c) \/ Reply(c)
      <3>1. /\ \E label : label # "receive" /\ pc' = [pc EXCEPT ![c] = label]
            /\ UNCHANGED <<requests, key, waiter>>
        BY <2>1 DEF SendRequest, Wake, BuildResponse, Reply, Goto
      <3> QED
        BY <1>0, <3>1 DEF Owned, TypeOK
    <2>2. ~NoResponse(c)
      <3>1. pc[c] = "build" => RspRead(waiter[c]) # None
        BY <1>0, BusyIsHeld DEF Filled, RspRead
      <3> QED
        BY <3>1 DEF NoResponse
    <2>3. CASE RefuseRequest(c) \/ RemoveRequest(c)
      <3>1. requests' = [requests EXCEPT ![key[c]] = None]
        BY <2>3 DEF RefuseRequest, RemoveRequest, listener_remove_request
      <3> SUFFICES ASSUME NEW k \in Keys, requests'[k] # None
                   PROVE  \E d \in Conns : pc'[d] # "receive" /\ key'[d] = k /\ waiter'[d] = requests'[k]
        BY DEF Owned
      <3>2. k # key[c] /\ requests'[k] = requests[k]
        BY <1>0, <3>1 DEF TypeOK
      <3>3. PICK d \in Conns : pc[d] # "receive" /\ key[d] = k /\ waiter[d] = requests[k]
        BY <1>0, <3>2 DEF Owned
      <3>4. SameLocals(d)
        BY <1>0, <1>2, <3>2, <3>3, StepLeavesOthers
      <3> QED
        BY <3>2, <3>3, <3>4 DEF SameLocals
    <2> QED
      BY <1>2, <2>1, <2>2, <2>3 DEF ThreadStep
  <1>3. ASSUME NEW c \in Conns, NEW kind \in Kinds, NEW k \in KeysOf[c],
               AddRequest(c, kind, k)
        PROVE  Owned'
    <2>1. PICK w \in Waiter \ live :
            waiter' = [waiter EXCEPT ![c] = w] /\ requests' = [requests EXCEPT ![k] = w]
      BY <1>3 DEF AddRequest
    <2>2. /\ pc[c] = "receive" /\ pc' = [pc EXCEPT ![c] = "send"]
          /\ key' = [key EXCEPT ![c] = k] /\ k \in Keys
      BY <1>3, RequestsAssumption DEF AddRequest, Receive
    <2> SUFFICES ASSUME NEW j \in Keys, requests'[j] # None
                 PROVE  \E d \in Conns : pc'[d] # "receive" /\ key'[d] = j /\ waiter'[d] = requests'[j]
      BY DEF Owned
    <2>3. CASE j = k
      <3>1. pc'[c] # "receive" /\ key'[c] = j /\ waiter'[c] = requests'[j]
        BY <1>0, <2>1, <2>2, <2>3 DEF TypeOK
      <3> QED
        BY <3>1
    <2>4. CASE j # k
      <3>1. requests'[j] = requests[j]
        BY <1>0, <2>1, <2>2, <2>4 DEF TypeOK
      <3>2. PICK d \in Conns : pc[d] # "receive" /\ key[d] = j /\ waiter[d] = requests[j]
        BY <1>0, <3>1 DEF Owned
      <3>3. SameLocals(d)
        BY <1>0, <1>3, <2>2, <3>2, StepLeavesOthers
      <3> QED
        BY <3>1, <3>2, <3>3 DEF SameLocals
    <2> QED
      BY <2>3, <2>4
  <1> QED
    BY <1>1, <1>2, <1>3
       DEF Next, DropRequest, Break, ConfirmationArrives, CompleteWaiter, threadVars, requestVars

\* While connections use different keys and responses can be built, a handler
\* that returns leaves no waiter in the table: the next request finds its key.
THEOREM NothingLeftBehind ==
    ASSUME NoSharedKeys, "build" \notin Faults PROVE Spec => []NoEntryLeftBehind
  <1>1. RequestsInit => EntryInv
    <2> SUFFICES ASSUME RequestsInit PROVE EntryInv
      OBVIOUS
    <2>1. (\A c \in Conns : pc[c] = "receive") /\ \A k \in Keys : requests[k] = None
      BY DEF RequestsInit
    <2> QED
      BY <2>1, AnswerInit DEF AnswerInv, EntryInv, Filled, Owned
  <1>2. EntryInv /\ [Next]_requestVars => EntryInv'
    <2> SUFFICES ASSUME EntryInv, [Next]_requestVars PROVE EntryInv'
      OBVIOUS
    <2>1. ExchangeInv /\ \A c \in Conns : Filled(c)
      BY DEF EntryInv
    <2>2. ExchangeInv'
      BY <2>1, ExchangeNext
    <2>3. \A c \in Conns : Filled(c)'
      BY <2>1, FilledNext
    <2>4. Owned'
      BY OwnedNext
    <2> QED
      BY <2>2, <2>3, <2>4 DEF EntryInv
  <1>3. EntryInv => NoEntryLeftBehind
    BY DEF EntryInv, Owned, NoEntryLeftBehind
  <1> QED
    BY <1>1, <1>2, <1>3, PTL DEF Spec
=============================================================================
