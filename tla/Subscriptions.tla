---------------------------- MODULE Subscriptions ----------------------------
(***************************************************************************)
(* Subscribe and unsubscribe, on top of the request table.                 *)
(*                                                                         *)
(* The thread of a connection that subscribes never goes back to its       *)
(* socket while the subscription lives: it waits on a second waiter, the   *)
(* subwaiter, that is filled by the indication callback, by the            *)
(* confirmation of an unsubscribe that came in on another connection, and  *)
(* by the wake thread, which empties the slot and signals so that the      *)
(* subscription thread probes its socket.  The slot holds one message, and *)
(* the thread reads and frees it without the waiter's lock.                *)
(***************************************************************************)
EXTENDS Requests

CONSTANTS SubIds,   \* subscription ids the SIB may hand out
          NoSub,    \* the id in a confirmation of a refused subscribe
          AutoKey,  \* AutoKey[c]: key of the unsubscribe a thread sends itself
          IndKey,   \* IndKey[c]: key that the indications for c's node carry
          Wakes,    \* the wake thread runs: -sub-wake-fr is above 0
          Hipdex,   \* built with --enable-hipdex
          MaxInd    \* bound: indications per subscription

ASSUME SubscriptionsAssumption ==
    /\ NoSub \notin SubIds
    /\ None \notin SubIds \cup {NoSub}
    /\ AutoKey \in [Conns -> Keys] /\ IndKey \in [Conns -> Keys]
    /\ Wakes \in BOOLEAN /\ Hipdex \in BOOLEAN
    /\ MaxInd \in Nat

VARIABLES subscriptions, \* Listener.subscriptions: id -> subwaiter
          subwaiter,     \* the handler's local pointer subwaiter
          subid,         \* its copy of the id; the id an unsubscribe names
          unsubs,        \* unsubscribes the SIB has received
          unsubcb,       \* handle_unsubscribe_cnf between its steps
          served,        \* what the SIB makes of an id: unused, active or ended
          sent,          \* indications the SIB has sent for an id
          strayed        \* has a message gone to a thread it is not for? (history)

subVars == <<subscriptions, subwaiter, subid, unsubs, unsubcb, served, sent, strayed>>
vars == <<requestVars, subVars>>

Ids == SubIds \cup {NoSub}

\* An unsubscribe a thread sends itself answers no request: its serial is 0.
UnsubId == Conns \X (0..MaxRequests)
UnsubToken == [for: UnsubId, key: Keys, id: Ids]

\* What a waiter's slot can hold.  The SIB grants a subscribe with a new id and
\* refuses it without one.
Granted == [via: {"subscribe"}, for: Id, id: SubIds, status: {"ok"}]
Refused == [via: {"subscribe"}, for: Id, id: {NoSub}, status: {"failed"}]
Indications == [via: {"ind"}, id: SubIds, seq: 1..MaxInd, status: {"failed"}, for: {None}]
Unsubscriptions ==
    [via: {"unsubscribe"}, id: Ids, key: Keys, status: {"ok", "failed"}, for: UnsubId]
Message == Confirmation \cup Granted \cup Refused \cup Indications \cup Unsubscriptions

ASSUME NullIsNoSubMessage == None \notin Message

\* An indication has no status and answers no request; the subscribe handler
\* takes a message without the status "ok" for a refusal.
Indication(id, n) ==
    [via |-> "ind", id |-> id, seq |-> n, status |-> "failed", for |-> None]
Unsubscribed(t, status) ==
    [via |-> "unsubscribe", id |-> t.id, key |-> t.key, status |-> status, for |-> t.for]

\* Has the message a subscription id?  That of the other kinds is NULL, and the
\* hash table and strlen do not survive it.
Named(msg) == msg.via \in {"subscribe", "unsubscribe", "ind"}

SubInit ==
    /\ RequestsInit
    /\ subscriptions = [id \in Ids |-> None]
    /\ subwaiter = [c \in Conns |-> None]
    /\ subid = [c \in Conns |-> None]
    /\ unsubs = {}
    /\ unsubcb = None
    /\ served = [id \in SubIds |-> "unused"]
    /\ sent = [id \in SubIds |-> 0]
    /\ strayed = FALSE

\* Has the process died: of a NULL message, a NULL subwaiter, or of SIGPIPE.
Dead == \E c \in Conns : pc[c] \in {"crashed", "nullsub", "killed"}

SubReturn(c) ==
    /\ Return(c)
    /\ subwaiter' = [subwaiter EXCEPT ![c] = None]
    /\ subid' = [subid EXCEPT ![c] = None]

\* Variant: the waiter is destroyed, the entry stays.
listener_remove_subscription_dangling(id) ==
    /\ UNCHANGED subscriptions
    /\ waiter_destroy({subscriptions[id]})

\* listener_remove_subscription(id): the entry's waiter is destroyed.
listener_remove_subscription(id) ==
    /\ subscriptions' = [subscriptions EXCEPT ![id] = None]
    /\ waiter_destroy({subscriptions[id]})

-----------------------------------------------------------------------------
(* listener_handle_subscribe up to the loop                                *)

\* Unsupported query type or failed send.
RefuseSubscribe(c) ==
    /\ pc[c] = "send" /\ op[c] = "subscribe"
    /\ listener_remove_request(key[c])
    /\ Goto(c, "refused")
    /\ UNCHANGED <<waiter, bd, issued, sib, cb, inbox, broken, subVars>>

\* The refusal is not sent: the branches that send need waiter->rsp, and waiter
\* is freed.  When its memory has become the waiter of another thread whose
\* answer is in, a branch is entered with subwaiter and subid still NULL.
ForgetRefusal(c) ==
    LET r == RspRead(waiter[c]) IN
    /\ pc[c] = "refused"
    /\ \/ /\ r = None \/ "build" \in Faults
          /\ SubReturn(c)
       \/ r # None /\ Goto(c, "nullsub") /\ UNCHANGED <<waiter, bd, subwaiter, subid>>
    /\ UNCHANGED <<waiterVars, requests, issued, sib, cb, inbox, broken,
                   subscriptions, unsubs, unsubcb, served, sent, strayed>>

\* The confirmation is in: a second waiter goes into the subscription table.
\* When the id is taken it is destroyed again, and the status of the response
\* is the handler's own variable, which is still ss_StatusOK.
RegisterSubwaiter(c) ==
    LET r == RspRead(waiter[c]) IN
    /\ pc[c] = "build" /\ op[c] = "subscribe" /\ r # None /\ Named(r)
    /\ \E w \in Waiter \ live :
        /\ subwaiter' = [subwaiter EXCEPT ![c] = w]
        /\ IF subscriptions[r.id] = None
           THEN /\ waiter_new(w, c)
                /\ subscriptions' = [subscriptions EXCEPT ![r.id] = w]
           ELSE UNCHANGED <<waiterVars, subscriptions>>
    /\ subid' = [subid EXCEPT ![c] = r.id]
    /\ bd' = [bd EXCEPT ![c] =
                [via |-> "subscribe", id |-> r.id,
                 status |-> IF subscriptions[r.id] = None THEN r.status ELSE "ok"]]
    /\ Goto(c, IF r.status = "ok" THEN "ack" ELSE "unlist")
    /\ UNCHANGED <<requests, waiter, issued, sib, cb, inbox, broken, unsubs, unsubcb, served, sent, strayed>>

\* No message was in the slot (a foreign unsubscribe confirmation woke the
\* thread) or no response could be built: both entries stay behind.  Without
\* memory for the second waiter, or without an id in the message (the
\* confirmation of another request under the key), the NULL pointer is used.
AbandonSubscribe(c) ==
    LET r == RspRead(waiter[c]) IN
    /\ pc[c] = "build" /\ op[c] = "subscribe"
    /\ \/ r = None /\ SubReturn(c) /\ UNCHANGED <<waiterVars, subscriptions>>
       \/ /\ r # None /\ Named(r) /\ "build" \in Faults
          /\ IF subscriptions[r.id] = None
             THEN \E w \in Waiter \ live :
                    waiter_new(w, c) /\ subscriptions' = [subscriptions EXCEPT ![r.id] = w]
             ELSE UNCHANGED <<waiterVars, subscriptions>>
          /\ SubReturn(c)
       \/ /\ r # None /\ ("alloc" \in Faults \/ ~Named(r))
          /\ Goto(c, "nullsub")
          /\ UNCHANGED <<waiterVars, waiter, bd, subscriptions, subwaiter, subid>>
    /\ UNCHANGED <<requests, issued, sib, cb, inbox, broken, unsubs, unsubcb, served, sent, strayed>>

\* Does getsockopt(w->fd, SO_ERROR) tell the thread that the client has gone?
SocketError(w) == \E d \in FdRead(w) : d \in broken

\* A send through waiter w, and what the thread comes to when it succeeds or fails.
SendThrough(w, c, onSuccess, onFailure) ==
    \E to \in FdRead(w) :
        /\ Deliver(to, bd[c])
        /\ Goto(c, IF to \in Conns \ broken THEN onSuccess ELSE onFailure)

\* The acknowledgement; when the socket is broken the loop is never entered.
Acknowledge(c) ==
    /\ pc[c] = "ack"
    /\ \/ SocketError(subwaiter[c]) /\ Goto(c, "remove") /\ UNCHANGED inbox
       \/ SendThrough(waiter[c], c, "registered", "remove")
    /\ UNCHANGED <<waiterVars, requests, waiter, bd, issued, sib, cb, broken, subVars>>

EnterLoop(c) ==
    /\ pc[c] = "registered"
    /\ listener_remove_request(key[c])
    /\ pc' = [pc EXCEPT ![c] = "subwait"]
    /\ UNCHANGED <<op, key, waiter, bd, issued, sib, cb, inbox, broken, subVars>>

\* The SIB said no: the entry under the id goes (whoever's it is), the client
\* is told, the request goes, and the socket is closed under the client.
Unlist(c) ==
    /\ pc[c] = "unlist"
    /\ listener_remove_subscription(subid[c])
    /\ Goto(c, "tell")
    /\ UNCHANGED <<requests, waiter, bd, issued, sib, cb, inbox, broken,
                   subwaiter, subid, unsubs, unsubcb, served, sent, strayed>>

\* SO_ERROR is asked of subwaiter->fd, which is freed.
TellRefusal(c) ==
    /\ pc[c] = "tell"
    /\ \/ SocketError(subwaiter[c]) /\ Goto(c, "close") /\ UNCHANGED inbox
       \/ SendThrough(waiter[c], c, "close", "close")
    /\ UNCHANGED <<waiterVars, requests, waiter, bd, issued, sib, cb, broken, subVars>>

CloseSocket(c) ==
    /\ pc[c] = "close"
    /\ listener_remove_request(key[c])
    /\ \E d \in Conns \cup {None} : broken' = broken \cup ({d} \ {None})
    /\ SubReturn(c)
    /\ UNCHANGED <<issued, sib, cb, inbox, subscriptions, unsubs, unsubcb, served, sent, strayed>>

-----------------------------------------------------------------------------
(* The loop: one message, or one wake-up, at a time                        *)

WakeSubscriber(c) ==
    /\ pc[c] = "subwait"
    /\ waiter_wait_for_finished(subwaiter[c])
    /\ Goto(c, "subread")
    /\ UNCHANGED <<requests, waiter, bd, issued, sib, cb, inbox, broken, subVars>>

\* subwaiter->rsp is tested and its first fields are copied into the message; a
\* confirmation of something else (left to a freed subwaiter) is an "invalid
\* response".
ReadSlot(c) ==
    LET r == RspRead(subwaiter[c]) IN
    /\ pc[c] = "subread"
    /\ \/ /\ r = None
          /\ Goto(c, "probe") /\ UNCHANGED bd
       \/ /\ r # None /\ r.via = "ind"
          /\ bd' = [bd EXCEPT ![c] = [via |-> "ind", id |-> r.id, seq |-> r.seq]]
          /\ Goto(c, "subfill")
       \/ /\ r # None /\ r.via = "unsubscribe"
          /\ bd' = [bd EXCEPT ![c] = r]
          /\ Goto(c, "subend")
       \/ /\ r # None /\ r.via \notin {"ind", "unsubscribe"}
          /\ Goto(c, "subunlist") /\ UNCHANGED bd
    /\ UNCHANGED <<waiterVars, requests, waiter, issued, sib, cb, inbox, broken, subVars>>

\* The other fields come from whatever message the slot holds by now; those of
\* a confirmation are empty, which the encoder may or may not take.  A message
\* that cannot be encoded either way is an "invalid response".
FillIndication(c) ==
    LET r == RspRead(subwaiter[c]) IN
    /\ pc[c] = "subfill"
    /\ \/ /\ r = None
          /\ Goto(c, "crashed") /\ UNCHANGED bd
       \/ /\ r # None /\ r.via = "ind"
          /\ bd' = [bd EXCEPT ![c] = [via |-> "ind", id |-> bd[c].id, seq |-> bd[c].seq,
                                      results |-> r.seq]]
          /\ Goto(c, "subsend")
       \/ /\ r # None /\ r.via = "ind" /\ "build" \in Faults
          /\ Goto(c, "subunlist") /\ UNCHANGED bd
       \/ /\ r # None /\ r.via # "ind"
          /\ \/ /\ bd' = [bd EXCEPT ![c] = [via |-> "ind", id |-> bd[c].id, seq |-> bd[c].seq,
                                            results |-> 0]]
                /\ Goto(c, "subsend")
             \/ /\ r.via = "unsubscribe"
                /\ bd' = [bd EXCEPT ![c] = r]
                /\ Goto(c, "subend")
             \/ r.via # "unsubscribe" /\ Goto(c, "subunlist") /\ UNCHANGED bd
    /\ UNCHANGED <<waiterVars, requests, waiter, issued, sib, cb, inbox, broken, subVars>>

\* Variant: a send that was cut short is done again from the start.
SendIndication_again(c) ==
    /\ pc[c] = "subsend"
    /\ \/ SendThrough(subwaiter[c], c, "subfree", "indunsub")
       \/ SendThrough(subwaiter[c], c, "subsend", "subsend")
    /\ UNCHANGED <<waiterVars, requests, waiter, bd, issued, sib, cb, broken, subVars>>

SendIndication(c) ==
    /\ pc[c] = "subsend"
    /\ \/ SocketError(subwaiter[c]) /\ Goto(c, "indunsub") /\ UNCHANGED inbox
       \/ SendThrough(subwaiter[c], c, "subfree", "indunsub")
    /\ UNCHANGED <<waiterVars, requests, waiter, bd, issued, sib, cb, broken, subVars>>

\* nodemsgcontent_free(&subwaiter->rsp), without the lock and whatever it holds.
FreeSlot(c) ==
    /\ pc[c] = "subfree"
    /\ rsp' = [rsp EXCEPT ![subwaiter[c]] = None]
    /\ Goto(c, "subwait")
    /\ UNCHANGED <<live, fd, req_ready, requests, waiter, bd, issued, sib, cb, inbox, broken, subVars>>

\* The confirmation of an unsubscribe is still read from the slot while the
\* response is made of it; the client is told and the loop ends.
EndSubscription(c) ==
    LET r == RspRead(subwaiter[c]) IN
    /\ pc[c] = "subend"
    /\ \/ r = None /\ Goto(c, "crashed") /\ UNCHANGED inbox
       \/ r # None /\ SendThrough(subwaiter[c], c, "subunlist", "subunlist")
       \/ /\ r # None /\ ("build" \in Faults \/ SocketError(subwaiter[c]))
          /\ Goto(c, "subunlist") /\ UNCHANGED inbox
    /\ UNCHANGED <<waiterVars, requests, waiter, bd, issued, sib, cb, broken, subVars>>

\* Variant: the loop ends and the entry stays.
UnlistEnded_listed(c) ==
    /\ pc[c] = "subunlist"
    /\ SubReturn(c)
    /\ UNCHANGED <<waiterVars, requests, issued, sib, cb, inbox, broken,
                   subscriptions, unsubs, unsubcb, served, sent, strayed>>

\* The id of the entry to take out is read from the slot once more.
UnlistEnded(c) ==
    LET r == RspRead(subwaiter[c]) IN
    /\ pc[c] = "subunlist"
    /\ IF r = None \/ ~Named(r)
       THEN /\ Goto(c, "crashed")
            /\ UNCHANGED <<waiterVars, subscriptions, waiter, bd, subwaiter, subid>>
       ELSE /\ listener_remove_subscription(r.id)
            /\ SubReturn(c)
    /\ UNCHANGED <<requests, issued, sib, cb, inbox, broken, unsubs, unsubcb, served, sent, strayed>>

\* Variant: the result of the send is not looked at.
Probe_ignored(c) ==
    /\ pc[c] = "probe"
    /\ Goto(c, "subwait")
    /\ UNCHANGED <<waiterVars, requests, waiter, bd, issued, sib, cb, inbox, broken, subVars>>

\* One byte to explore the socket.  The HIP-DEX build sends it without the
\* flag that keeps SIGPIPE away, and gives up a peer it has no SA with.
Probe(c) ==
    /\ pc[c] = "probe"
    /\ \E d \in FdRead(subwaiter[c]) :
        \/ d \in Conns \ broken /\ Goto(c, "subwait")
        \/ d \in broken /\ Goto(c, IF Hipdex THEN "killed" ELSE "autounsub")
        \/ d \notin broken /\ (Hipdex \/ d = None) /\ Goto(c, "autounsub")
    /\ UNCHANGED <<waiterVars, requests, waiter, bd, issued, sib, cb, inbox, broken, subVars>>

\* After a failed indication the ids of the unsubscribe, and of the entry to
\* take out, are read from the slot; after a failed probe they are the copies.
EndedId(c) == IF pc[c] \in {"indunsub", "indremove"} THEN RspRead(subwaiter[c]).id ELSE subid[c]
SlotIsNeeded(c) ==
    LET r == RspRead(subwaiter[c]) IN
    pc[c] \in {"indunsub", "indremove"} /\ (r = None \/ ~Named(r))

\* The key of the unsubscribe is made of the copied node id and the number 1, or
\* of the node id and the number in the slot: those of an indication, or, when a
\* confirmation has overwritten it, those of somebody else's request.
AutoKeys(c) ==
    LET r == RspRead(subwaiter[c]) IN
    CASE pc[c] = "autounsub" -> {AutoKey[c]}
      [] pc[c] # "autounsub" /\ r.via = "ind" /\ r.id = subid[c] -> {IndKey[c]}
      [] pc[c] # "autounsub" /\ r.via = "unsubscribe" -> {r.key}
      [] OTHER -> Keys

SendAutoUnsubscribe(c) ==
    \E k \in AutoKeys(c) :
        unsubs' = unsubs \cup {[for |-> <<c, 0>>, key |-> k, id |-> EndedId(c)]}

\* Variant: the entry is taken out first, and again at the end.
AutoUnsubscribe_unlisted(c) ==
    /\ pc[c] \in {"autounsub", "indunsub"}
    /\ ~SlotIsNeeded(c)
    /\ SendAutoUnsubscribe(c)
    /\ listener_remove_subscription(EndedId(c))
    /\ Goto(c, "autoremove")
    /\ UNCHANGED <<requests, waiter, bd, issued, sib, cb, inbox, broken,
                   subwaiter, subid, unsubcb, served, sent, strayed>>

\* AUTO UNSUB: nobody waits for the confirmation of this one, and a send that
\* fails is not done again.
AutoUnsubscribe(c) ==
    /\ pc[c] \in {"autounsub", "indunsub"}
    /\ IF SlotIsNeeded(c) THEN Goto(c, "crashed") /\ UNCHANGED unsubs
       ELSE /\ Goto(c, IF pc[c] = "indunsub" THEN "indremove" ELSE "autoremove")
            /\ \/ SendAutoUnsubscribe(c)
               \/ "send" \in Faults /\ UNCHANGED unsubs
    /\ UNCHANGED <<waiterVars, requests, waiter, bd, issued, sib, cb, inbox, broken,
                   subscriptions, subwaiter, subid, unsubcb, served, sent, strayed>>

AutoRemove(c) ==
    /\ pc[c] \in {"autoremove", "indremove"}
    /\ IF SlotIsNeeded(c)
       THEN /\ Goto(c, "crashed")
            /\ UNCHANGED <<waiterVars, subscriptions, waiter, bd, subwaiter, subid>>
       ELSE /\ listener_remove_subscription(EndedId(c))
            /\ SubReturn(c)
    /\ UNCHANGED <<requests, issued, sib, cb, inbox, broken, unsubs, unsubcb, served, sent, strayed>>

-----------------------------------------------------------------------------
(* listener_handle_unsubscribe                                             *)

\* Ids the client could have learnt: those an acknowledgement carried.
KnownIds == {id \in SubIds : \E d \in Conns : \E i \in 1..Len(inbox[d]) :
                inbox[d][i].via = "subscribe" /\ inbox[d][i].id = id}

AddUnsubscribe(c, k, id) ==
    /\ AddRequest(c, "unsubscribe", k)
    /\ subid' = [subid EXCEPT ![c] = id]
    /\ UNCHANGED <<subscriptions, subwaiter, unsubs, unsubcb, served, sent, strayed>>

\* The key is taken: the new waiter is destroyed, and the handler still ends
\* with listener_remove_request, which hits the waiter of the other request.
DropUnsubscribe(c, k) ==
    /\ Receive(c, "unsubscribe", k)
    /\ requests[k] # None
    /\ pc' = [pc EXCEPT ![c] = "remove"]
    /\ op' = [op EXCEPT ![c] = "unsubscribe"]
    /\ key' = [key EXCEPT ![c] = k]
    /\ UNCHANGED <<waiterVars, requests, waiter, subVars>>

SendUnsubscribe(c) ==
    /\ pc[c] = "send" /\ op[c] = "unsubscribe"
    /\ unsubs' = unsubs \cup {[for |-> CurrentId(c), key |-> key[c], id |-> subid[c]]}
    /\ Goto(c, "wait")
    /\ UNCHANGED <<waiterVars, requests, waiter, bd, issued, sib, cb, inbox, broken,
                   subscriptions, subwaiter, subid, unsubcb, served, sent, strayed>>

RefuseUnsubscribe(c) ==
    /\ pc[c] = "send" /\ op[c] = "unsubscribe" /\ "send" \in Faults
    /\ listener_remove_request(key[c])
    /\ \/ /\ bd' = [bd EXCEPT ![c] = [via |-> "unsubscribe", id |-> subid[c], key |-> key[c],
                                       status |-> "failed", for |-> CurrentId(c)]]
          /\ Goto(c, "reply")
       \/ "build" \in Faults /\ Goto(c, "remove") /\ UNCHANGED bd
    /\ UNCHANGED <<waiter, issued, sib, cb, inbox, broken, subVars>>

\* A response is made only of a message in the waiter's own slot, that is when
\* the confirmation found no subwaiter.
FinishUnsubscribe(c) ==
    LET r == RspRead(waiter[c]) IN
    /\ pc[c] = "build" /\ op[c] = "unsubscribe"
    /\ \/ /\ r # None
          /\ bd' = [bd EXCEPT ![c] = r]
          /\ Goto(c, "reply")
       \/ /\ r = None \/ "build" \in Faults
          /\ Goto(c, "remove") /\ UNCHANGED bd
    /\ UNCHANGED <<waiterVars, requests, waiter, issued, sib, cb, inbox, broken, subVars>>

-----------------------------------------------------------------------------
(* The wake thread and the main loop                                       *)

\* Variant: -sub-wake-fr 0 does not keep the thread from running.
WakeRound_always ==
    LET subs == {subscriptions[id] : id \in Ids} \ {None} IN
    /\ rsp' = [w \in Waiter |-> IF w \in subs THEN None ELSE rsp[w]]
    /\ req_ready' = [w \in Waiter |-> w \in subs \/ req_ready[w]]
    /\ UNCHANGED <<live, fd, requests, threadVars, sib, cb, inbox, broken, subVars>>

\* One round of sub_wake_thread, which holds sublock throughout: every
\* subwaiter's slot is emptied, whatever it holds, and its thread signalled.
WakeRound ==
    LET subs == {subscriptions[id] : id \in Ids} \ {None} IN
    /\ Wakes
    /\ rsp' = [w \in Waiter |-> IF w \in subs THEN None ELSE rsp[w]]
    /\ req_ready' = [w \in Waiter |-> w \in subs \/ req_ready[w]]
    /\ UNCHANGED <<live, fd, requests, threadVars, sib, cb, inbox, broken, subVars>>

MainLoopFree == cb = None /\ unsubcb = None

\* handle_subscribe_cnf up to listener_get_request; a subscription the SIB
\* grants gets an id it has not used before.
SubscribeConfirmed(t, id) ==
    /\ MainLoopFree
    /\ t \in sib /\ t.kind = "subscribe"
    /\ id # NoSub => served[id] = "unused"
    /\ sib' = sib \ {t}
    /\ served' = IF id = NoSub THEN served ELSE [served EXCEPT ![id] = "active"]
    /\ cb' = IF requests[t.key] = None THEN None
             ELSE [waiter |-> requests[t.key],
                   msg |-> [via |-> "subscribe", for |-> t.for, id |-> id,
                            status |-> IF id = NoSub THEN "failed" ELSE "ok"]]
    /\ UNCHANGED <<waiterVars, requests, threadVars, inbox, broken,
                   subscriptions, subwaiter, subid, unsubs, unsubcb, sent, strayed>>

\* handle_subscription_ind up to listener_get_subscription.
IndicationArrives(id) ==
    /\ MainLoopFree
    /\ served[id] = "active" /\ sent[id] < MaxInd
    /\ sent' = [sent EXCEPT ![id] = @ + 1]
    /\ cb' = IF subscriptions[id] = None THEN None
             ELSE [waiter |-> subscriptions[id], msg |-> Indication(id, sent[id] + 1)]
    /\ UNCHANGED <<waiterVars, requests, threadVars, sib, inbox, broken,
                   subscriptions, subwaiter, subid, unsubs, unsubcb, served, strayed>>

\* handle_unsubscribe_cnf in its steps: look the request up, look the
\* subscription up, fill the subwaiter (or, without a lock, the waiter), and
\* complete the waiter.  The confirmation of an unsubscribe that a thread sent
\* itself is for nobody: it has strayed when there is a request under its key.
UnsubscribeConfirmed(t) ==
    /\ MainLoopFree
    /\ t \in unsubs
    /\ unsubs' = unsubs \ {t}
    /\ served' = [served EXCEPT ![t.id] = "ended"]
    /\ unsubcb' = IF requests[t.key] = None THEN None
                  ELSE [step |-> "lookup", waiter |-> requests[t.key], sub |-> None, t |-> t,
                        status |-> IF t.id \in SubIds /\ served[t.id] = "active"
                                   THEN "ok" ELSE "failed"]
    /\ strayed' = (strayed \/ (t.for[2] = 0 /\ requests[t.key] # None))
    /\ UNCHANGED <<waiterVars, requests, threadVars, sib, cb, inbox, broken,
                   subscriptions, subwaiter, subid, sent>>

LookUpSubwaiter ==
    /\ unsubcb # None /\ unsubcb.step = "lookup"
    /\ IF subscriptions[unsubcb.t.id] # None
       THEN /\ unsubcb' = [unsubcb EXCEPT !.step = "fill", !.sub = subscriptions[unsubcb.t.id]]
            /\ UNCHANGED rsp
       ELSE /\ unsubcb' = [unsubcb EXCEPT !.step = "complete"]
            /\ rsp' = IF unsubcb.waiter \in live
                      THEN [rsp EXCEPT ![unsubcb.waiter] = Unsubscribed(unsubcb.t, "failed")]
                      ELSE rsp
    /\ UNCHANGED <<live, fd, req_ready, requests, threadVars, sib, cb, inbox, broken,
                   subscriptions, subwaiter, subid, unsubs, served, sent, strayed>>

\* A callback looked w up as the subwaiter of id; by now its thread has destroyed
\* it, and the address is another waiter's.
Reused(w, id) == w \in live /\ subscriptions[id] # w

\* The last step of the callbacks with one waiter: CompleteWaiter, which may
\* reach the wrong thread.
FillWaiter ==
    /\ CompleteWaiter
    /\ strayed' = (strayed \/ (cb.msg.via = "ind" /\ Reused(cb.waiter, cb.msg.id)))
    /\ UNCHANGED <<subscriptions, subwaiter, subid, unsubs, unsubcb, served, sent>>

\* Variant: the slot is filled, the subscription thread is not woken.
CompleteSubwaiter_silent ==
    /\ unsubcb # None /\ unsubcb.step = "fill"
    /\ rsp' = IF unsubcb.sub \in live
              THEN [rsp EXCEPT ![unsubcb.sub] = Unsubscribed(unsubcb.t, unsubcb.status)] ELSE rsp
    /\ unsubcb' = [unsubcb EXCEPT !.step = "complete"]
    /\ strayed' = (strayed \/ Reused(unsubcb.sub, unsubcb.t.id))
    /\ UNCHANGED <<live, fd, req_ready, requests, threadVars, sib, cb, inbox, broken,
                   subscriptions, subwaiter, subid, unsubs, served, sent>>

CompleteSubwaiter ==
    /\ unsubcb # None /\ unsubcb.step = "fill"
    /\ CompleteWith(unsubcb.sub, Unsubscribed(unsubcb.t, unsubcb.status))
    /\ unsubcb' = [unsubcb EXCEPT !.step = "complete"]
    /\ strayed' = (strayed \/ Reused(unsubcb.sub, unsubcb.t.id))
    /\ UNCHANGED <<requests, threadVars, sib, cb, inbox, broken,
                   subscriptions, subwaiter, subid, unsubs, served, sent>>

CompleteUnsubscribe ==
    /\ unsubcb # None /\ unsubcb.step = "complete"
    /\ CompleteWith(unsubcb.waiter, rsp[unsubcb.waiter])
    /\ unsubcb' = None
    /\ UNCHANGED <<requests, threadVars, sib, cb, inbox, broken,
                   subscriptions, subwaiter, subid, unsubs, served, sent, strayed>>

-----------------------------------------------------------------------------
SubscribeStep(c) ==
    \/ RefuseSubscribe(c)
    \/ ForgetRefusal(c)
    \/ RegisterSubwaiter(c)
    \/ AbandonSubscribe(c)
    \/ Acknowledge(c)
    \/ EnterLoop(c)
    \/ Unlist(c)
    \/ TellRefusal(c)
    \/ CloseSocket(c)
    \/ WakeSubscriber(c)
    \/ ReadSlot(c)
    \/ FillIndication(c)
    \/ SendIndication(c)
    \/ FreeSlot(c)
    \/ EndSubscription(c)
    \/ UnlistEnded(c)
    \/ Probe(c)
    \/ AutoUnsubscribe(c)
    \/ AutoRemove(c)

UnsubscribeStep(c) ==
    \/ SendUnsubscribe(c)
    \/ RefuseUnsubscribe(c)
    \/ FinishUnsubscribe(c)

\* A step the request table's module describes; a handler that returns takes
\* the locals of this module with it.
RequestStep(c) ==
    /\ ThreadStep(c)
    /\ subwaiter' = [subwaiter EXCEPT ![c] = IF pc'[c] = "receive" THEN None ELSE @]
    /\ subid' = [subid EXCEPT ![c] = IF pc'[c] = "receive" THEN None ELSE @]
    /\ UNCHANGED <<subscriptions, unsubs, unsubcb, served, sent, strayed>>

HandlerStep(c) == ~Dead /\ (RequestStep(c) \/ SubscribeStep(c) \/ UnsubscribeStep(c))

Callback ==
    /\ ~Dead
    /\ \/ FillWaiter
       \/ LookUpSubwaiter
       \/ CompleteSubwaiter
       \/ CompleteUnsubscribe

ClientStep(c) ==
    /\ ~Dead
    /\ \/ \E kind \in Kinds \ {"unsubscribe"}, k \in KeysOf[c] :
            (AddRequest(c, kind, k) \/ DropRequest(c, kind, k)) /\ UNCHANGED subVars
       \/ /\ "unsubscribe" \in Kinds
          /\ \E id \in KnownIds, k \in KeysOf[c] :
                AddUnsubscribe(c, k, id) \/ DropUnsubscribe(c, k)
       \/ Break(c) /\ UNCHANGED subVars

SibAnswers ==
    /\ ~Dead
    /\ \/ \E t \in sib, status \in {"ok", "failed"} :
            MainLoopFree /\ ConfirmationArrives(t, status) /\ UNCHANGED subVars
       \/ \E t \in sib, id \in Ids : SubscribeConfirmed(t, id)
       \/ \E t \in unsubs : UnsubscribeConfirmed(t)

SibNotifies == ~Dead /\ \E id \in SubIds : IndicationArrives(id)

SubNext ==
    \/ \E c \in Conns : ClientStep(c) \/ HandlerStep(c)
    \/ Callback
    \/ SibAnswers
    \/ SibNotifies
    \/ (~Dead /\ WakeRound)

SubSpec == SubInit /\ [][SubNext]_vars

\* Runnable threads run, the wake thread's sleep ends, and the SIB confirms
\* what it was sent; nothing obliges it to notify.
SubFairSpec ==
    /\ SubSpec
    /\ \A c \in Conns : WF_vars(HandlerStep(c))
    /\ WF_vars(Callback)
    /\ WF_vars(SibAnswers)
    /\ WF_vars(~Dead /\ WakeRound)

-----------------------------------------------------------------------------
Loop == {"subwait", "subread", "subfill", "subsend", "subfree", "subend", "subunlist",
         "probe", "autounsub", "indunsub", "autoremove", "indremove"}
Serving == Loop \cup {"ack", "registered", "unlist"}

\* What a client can be sent.
SubResponse == [via: {"subscribe"}, id: Ids, status: {"ok", "failed"}]
IndicationHead == [via: {"ind"}, id: SubIds, seq: 1..MaxInd]
SentIndication == [via: {"ind"}, id: SubIds, seq: 1..MaxInd, results: 0..MaxInd]
ClientMessage ==
    [for: UnsubId \cup {None}, via: AllKinds, status: Statuses, local: BOOLEAN]
        \cup Message \cup SubResponse \cup SentIndication

\* The memory and the two tables, the handlers' variables, and what is under way.
MemoryTypeOK ==
    /\ live \subseteq Waiter
    /\ fd \in [Waiter -> Conns \cup {None}]
    /\ req_ready \in [Waiter -> BOOLEAN]
    /\ rsp \in [Waiter -> Message \cup {None}]
    /\ requests \in [Keys -> Waiter \cup {None}]
    /\ subscriptions \in [Ids -> Waiter \cup {None}]

LocalsTypeOK ==
    /\ pc \in [Conns -> Serving \cup {"receive", "send", "wait", "build", "reply", "remove",
                  "tell", "close", "refused", "crashed", "nullsub", "killed"}]
    /\ op \in [Conns -> AllKinds \cup {None}]
    /\ key \in [Conns -> Keys \cup {None}]
    /\ waiter \in [Conns -> Waiter \cup {None}]
    /\ bd \in [Conns -> ClientMessage \cup IndicationHead \cup {None}]
    /\ issued \in [Conns -> 0..MaxRequests]
    /\ subwaiter \in [Conns -> Waiter \cup {None}]
    /\ subid \in [Conns -> Ids \cup {None}]

MailTypeOK ==
    /\ sib \subseteq Token
    /\ cb \in [waiter: Waiter, msg: Message] \cup {None}
    /\ unsubs \subseteq UnsubToken
    /\ unsubcb \in [step: {"lookup", "fill", "complete"}, waiter: Waiter,
                     sub: Waiter \cup {None}, t: UnsubToken, status: {"ok", "failed"}]
                    \cup {None}
    /\ inbox \in [Conns -> Seq(ClientMessage)]
    /\ broken \subseteq Conns
    /\ served \in [SubIds -> {"unused", "active", "ended"}]
    /\ sent \in [SubIds -> 0..MaxInd]
    /\ strayed \in BOOLEAN

\* What a handler has set by the time it uses it.
HandlerTypeOK(c) ==
    /\ pc[c] # "receive" => op[c] \in AllKinds /\ key[c] \in Keys /\ issued[c] # 0
    /\ pc[c] \in {"send", "wait", "build", "reply"} => waiter[c] \in Waiter
    /\ pc[c] \in {"send", "wait"} /\ op[c] = "unsubscribe" => subid[c] \in SubIds
    /\ pc[c] \in Serving \cup {"tell"} => subwaiter[c] \in Waiter /\ subid[c] \in Ids
    /\ pc[c] \in {"reply", "ack", "unlist", "tell", "subsend", "subend"} => bd[c] \in ClientMessage
    /\ pc[c] = "subfill" => bd[c] \in IndicationHead

SubTypeOK ==
    MemoryTypeOK /\ LocalsTypeOK /\ MailTypeOK /\ \A c \in Conns : HandlerTypeOK(c)

\* What the wake thread and the callbacks find in the two tables is allocated,
\* and no waiter is in both tables or twice in one.
TablesHoldLiveWaiters ==
    /\ TableHoldsLiveWaiters
    /\ \A id \in Ids : subscriptions[id] # None =>
        /\ subscriptions[id] \in live
        /\ \A k \in Keys : requests[k] # subscriptions[id]
        /\ \A id2 \in Ids \ {id} : subscriptions[id2] # subscriptions[id]

\* A subscriber sees the SIB's indications in the SIB's order and none twice,
\* although a later one may overwrite an earlier one at any moment.
IndicationsInOrder ==
    \A c \in Conns : \A i, j \in 1..Len(inbox[c]) :
        LET m == inbox[c][i]  n == inbox[c][j] IN
        i < j /\ m.via = "ind" /\ n.via = "ind" /\ m.id = n.id =>
            m.seq < n.seq /\ m.results < n.seq

\* A subscriber in its loop owns the entry under its id until it takes it out.
SubscriberStaysListed ==
    \A c \in Conns : pc[c] \in Loop =>
        /\ subscriptions[subid[c]] = subwaiter[c]
        /\ fd[subwaiter[c]] = c

\* Every entry of the subscription table has a thread that serves it; only the
\* entry of a connection that is broken can be left behind (its acknowledgement
\* failed, and that path neither removes the entry nor tells the SIB).
\* It holds until a message has strayed: a confirmation that is written into a
\* freed subwaiter, whose address is another subscriber's by then, ends the wrong
\* loop.
UnservedOnlyWhenBroken ==
    \A id \in Ids : ~Dead /\ ~strayed /\ subscriptions[id] # None =>
        \/ \E c \in Conns : pc[c] \in Serving /\ subwaiter[c] = subscriptions[id]
        \/ fd[subscriptions[id]] \in broken

\* The loop reads the slot without the lock and dereferences it more than once;
\* with the wake thread turned off nobody empties it in between.
NoNullMessage == \A c \in Conns : pc[c] # "crashed"

\* "MSG_NOSIGNAL needed to prevent signalling SIG_PIPE in case the remote side
\* has closed the connection" (main.c 39-41): no send raises the signal.
NoSigPipe == \A c \in Conns : pc[c] # "killed"

\* An acknowledged subscription whose client has gone is given up, at the
\* gateway and at the SIB, even if the SIB never sends an indication.
DeadSubscriberIsDropped ==
    \A c \in Conns : (c \in broken /\ pc[c] = "subwait")
        ~> (Dead \/ (pc[c] = "receive" /\ \A id \in SubIds : served[id] # "active"))

\* Once the SIB has ended a subscription the thread that served it returns and
\* its entry is gone, whoever asked for it and whether or not clients are still
\* there.  An indication before it may have put the thread where it frees the
\* slot, and the confirmation with it: then the loop goes on.
UnsubscribeEndsLoop ==
    \A id \in SubIds : served[id] = "ended" ~> subscriptions[id] = None \/ sent[id] > 0
=============================================================================
