------------------------------ MODULE Waiters ------------------------------
(***************************************************************************)
(* The Waiter of main.c: the one-slot mailbox through which a D-Bus        *)
(* callback hands a message to the client thread that waits for it.        *)
(*                                                                         *)
(* A waiter is a heap address.  waiter_destroy gives the address back and  *)
(* a later waiter_new may return it again, so a thread that keeps a        *)
(* pointer too long meets either freed memory or another thread's waiter.  *)
(* The lock of a waiter is only held for straight-line sections; each of   *)
(* them is one step here.  Only the owner of a waiter blocks on its        *)
(* condition variable, and it re-tests req_ready after every signal, so    *)
(* "cond signalled" is the flag req_ready itself.                          *)
(***************************************************************************)
EXTENDS Naturals, FiniteSets

CONSTANTS Conns,   \* client sockets, each with the pool thread that serves it
          Waiter,  \* heap addresses a Waiter can have
          None     \* NULL

ASSUME WaitersAssumption ==
    /\ None \notin Conns
    /\ None \notin Waiter

VARIABLES live,      \* addresses that hold an allocated Waiter
          fd,        \* Waiter.fd
          req_ready, \* Waiter.req_ready
          rsp        \* Waiter.rsp

waiterVars == <<live, fd, req_ready, rsp>>

WaitersInit ==
    /\ live = {}
    /\ fd = [w \in Waiter |-> None]
    /\ req_ready = [w \in Waiter |-> FALSE]
    /\ rsp = [w \in Waiter |-> None]

\* waiter_new(socket): g_try_new0 clears the slot and the flag.
waiter_new(w, socket) ==
    /\ w \in Waiter \ live
    /\ live' = live \cup {w}
    /\ fd' = [fd EXCEPT ![w] = socket]
    /\ req_ready' = [req_ready EXCEPT ![w] = FALSE]
    /\ rsp' = [rsp EXCEPT ![w] = None]

\* Variant: the condition is signalled, the flag is not set.
CompleteWith_noFlag(w, msg) ==
    /\ rsp' = IF w \in live THEN [rsp EXCEPT ![w] = msg] ELSE rsp
    /\ UNCHANGED <<live, fd, req_ready>>

\* A callback's lock; rsp = msg; waiter_completed.  On a freed address the
\* write lands in memory nobody reads as a waiter.
CompleteWith(w, msg) ==
    /\ rsp' = IF w \in live THEN [rsp EXCEPT ![w] = msg] ELSE rsp
    /\ req_ready' = IF w \in live THEN [req_ready EXCEPT ![w] = TRUE] ELSE req_ready
    /\ UNCHANGED <<live, fd>>

\* waiter_wait_for_finished returns: the flag was set and is cleared, the slot
\* stays as it is.  On freed memory the wait may end with any flag value.
waiter_wait_for_finished(w) ==
    /\ w \in live => req_ready[w]
    /\ req_ready' = [req_ready EXCEPT ![w] = FALSE]
    /\ UNCHANGED <<live, fd, rsp>>

\* waiter_destroy of the waiters ws (the hash tables' value destructor).  The
\* fields of a freed waiter are not read from these variables any more.
waiter_destroy(ws) ==
    /\ live' = live \ ws
    /\ fd' = [w \in Waiter |-> IF w \in ws THEN None ELSE fd[w]]
    /\ req_ready' = [w \in Waiter |-> w \notin ws /\ req_ready[w]]
    /\ rsp' = [w \in Waiter |-> IF w \in ws THEN None ELSE rsp[w]]

\* What reading waiter->fd and waiter->rsp can yield.  When the memory is another
\* waiter by now, that one's fields; as long as it is free, any descriptor, and the
\* NULL that waiter_destroy has left in the slot.  Memory that has been handed out
\* for something other than a waiter is not followed.
FdRead(w) == IF w \in live THEN {fd[w]} ELSE Conns \cup {None}
RspRead(w) == IF w \in live THEN rsp[w] ELSE None
=============================================================================
