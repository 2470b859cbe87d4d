----------------------------- MODULE ClientTable -----------------------------
(***************************************************************************)
(* The client sockets of the gateway: the listener thread accepts, enters  *)
(* the descriptor in Listener.clients and queues the client in the pool; a *)
(* pool thread, when one can be had, serves it until recv fails and takes  *)
(* it out again, which closes the descriptor.  The kernel hands out a      *)
(* closed descriptor again at once, so who closes what and when matters.   *)
(***************************************************************************)
EXTENDS Naturals, FiniteSets

CONSTANTS Fds,       \* descriptors the process may get for a client
          MaxThreads, \* MAX_THREADS, of the pool
          MaxConns   \* bound: connections accepted

ASSUME ClientTableAssumption == MaxConns \in Nat /\ MaxThreads \in Nat \ {0}

Conn == 1..MaxConns
NoConn == 0

VARIABLES accepted, \* connections accepted so far; the latest has this number
          peer,     \* the connection behind an open descriptor, NoConn if closed
          clients,  \* Listener.clients: descriptor -> client, by connection
          lpc,      \* the listener thread: in accept, about to lock, or ended
          new_fd,   \* its local variable, while lpc = "insert"
          tpc,      \* the pool's work for a connection: queued, or its thread
          client_fd, \* Client.fd of the connection's client
          selfclosed \* has a handler closed its client's descriptor (history)

vars == <<accepted, peer, clients, lpc, new_fd, tpc, client_fd, selfclosed>>

Init ==
    /\ accepted = 0
    /\ peer = [f \in Fds |-> NoConn]
    /\ clients = [f \in Fds |-> NoConn]
    /\ lpc = "accept"
    /\ new_fd \in Fds
    /\ tpc = [n \in Conn |-> "none"]
    /\ client_fd = [n \in Conn |-> new_fd]
    /\ selfclosed = FALSE

Accept ==
    /\ lpc = "accept"
    /\ accepted < MaxConns
    /\ \E f \in Fds :
        /\ peer[f] = NoConn
        /\ peer' = [peer EXCEPT ![f] = accepted + 1]
        /\ new_fd' = f
    /\ accepted' = accepted + 1
    /\ lpc' = "insert"
    /\ UNCHANGED <<clients, tpc, client_fd, selfclosed>>

\* accept reports an error: the loop ends, nobody is accepted any more.
AcceptFails ==
    /\ lpc = "accept"
    /\ lpc' = "ended"
    /\ UNCHANGED <<accepted, peer, clients, new_fd, tpc, client_fd, selfclosed>>

\* Under client_lock, as TurnAway: the descriptor must not be in the table.  The
\* push only queues the client.  Whether a thread could be started for it, and
\* the error that says it could not, changes nothing: that is only logged, and
\* the entry stays.
InsertClient ==
    /\ lpc = "insert"
    /\ clients[new_fd] = NoConn
    /\ clients' = [clients EXCEPT ![new_fd] = accepted]
    /\ client_fd' = [client_fd EXCEPT ![accepted] = new_fd]
    /\ tpc' = [tpc EXCEPT ![accepted] = "queued"]
    /\ lpc' = "accept"
    /\ UNCHANGED <<accepted, peer, new_fd, selfclosed>>

\* The descriptor is in the table, or there is no memory for the client.
TurnAway ==
    /\ lpc = "insert"
    /\ peer' = [peer EXCEPT ![new_fd] = NoConn]
    /\ lpc' = "accept"
    /\ UNCHANGED <<accepted, clients, new_fd, tpc, client_fd, selfclosed>>

Running(n) == tpc[n] \in {"recv", "handle", "leave"}

\* A thread of the pool, new or done with its last client, takes the client that
\* has waited longest.  Nothing says that there ever is one.
StartThread(n) ==
    /\ tpc[n] = "queued"
    /\ \A m \in 1..n - 1 : tpc[m] # "queued"
    /\ Cardinality({m \in Conn : Running(m)}) < MaxThreads
    /\ tpc' = [tpc EXCEPT ![n] = "recv"]
    /\ UNCHANGED <<accepted, peer, clients, lpc, new_fd, client_fd, selfclosed>>

\* Variant: the thread closes the descriptor before it has left the table.
Receive_closes(n) ==
    /\ tpc[n] = "recv"
    /\ \/ peer[client_fd[n]] # NoConn /\ tpc' = [tpc EXCEPT ![n] = "handle"] /\ UNCHANGED peer
       \/ /\ tpc' = [tpc EXCEPT ![n] = "leave"]
          /\ peer' = [peer EXCEPT ![client_fd[n]] = NoConn]
    /\ UNCHANGED <<accepted, clients, lpc, new_fd, client_fd, selfclosed>>

\* recv on the client's descriptor: a request, or the end.
Receive(n) ==
    /\ tpc[n] = "recv"
    /\ \/ peer[client_fd[n]] # NoConn /\ tpc' = [tpc EXCEPT ![n] = "handle"]
       \/ tpc' = [tpc EXCEPT ![n] = "leave"]
    /\ UNCHANGED <<accepted, peer, clients, lpc, new_fd, client_fd, selfclosed>>

HandleRequest(n) ==
    /\ tpc[n] = "handle"
    /\ tpc' = [tpc EXCEPT ![n] = "recv"]
    /\ UNCHANGED <<accepted, peer, clients, lpc, new_fd, client_fd, selfclosed>>

\* The end of listener_handle_subscribe after a refusal: close(waiter->fd).
HandleBadSubscribe(n) ==
    /\ tpc[n] = "handle"
    /\ peer' = [peer EXCEPT ![client_fd[n]] = NoConn]
    /\ tpc' = [tpc EXCEPT ![n] = "recv"]
    /\ selfclosed' = TRUE
    /\ UNCHANGED <<accepted, clients, lpc, new_fd, client_fd>>

\* Variant: the descriptor is closed, the entry stays.
LeaveTable_listed(n) ==
    /\ tpc[n] = "leave"
    /\ peer' = [peer EXCEPT ![client_fd[n]] = NoConn]
    /\ tpc' = [tpc EXCEPT ![n] = "done"]
    /\ UNCHANGED <<accepted, clients, lpc, new_fd, client_fd, selfclosed>>

\* g_hash_table_remove runs client_destroy, which closes the descriptor; the
\* entry is gone before, and client_lock is held throughout.
LeaveTable(n) ==
    /\ tpc[n] = "leave"
    /\ clients' = [clients EXCEPT ![client_fd[n]] = NoConn]
    /\ peer' = [peer EXCEPT ![client_fd[n]] = NoConn]
    /\ tpc' = [tpc EXCEPT ![n] = "done"]
    /\ UNCHANGED <<accepted, lpc, new_fd, client_fd, selfclosed>>

ThreadStep(n) ==
    \/ StartThread(n) \/ Receive(n) \/ HandleRequest(n) \/ HandleBadSubscribe(n)
    \/ LeaveTable(n)

Next ==
    \/ Accept \/ AcceptFails \/ InsertClient \/ TurnAway
    \/ \E n \in Conn : ThreadStep(n)

Spec == Init /\ [][Next]_vars

-----------------------------------------------------------------------------
\* The connections whose client is allocated.
Held(n) == tpc[n] = "queued" \/ Running(n)

TypeOK ==
    /\ accepted \in 0..MaxConns
    /\ peer \in [Fds -> Conn \cup {NoConn}]
    /\ clients \in [Fds -> Conn \cup {NoConn}]
    /\ lpc \in {"accept", "insert", "ended"}
    /\ new_fd \in Fds
    /\ tpc \in [Conn -> {"none", "queued", "recv", "handle", "leave", "done"}]
    /\ client_fd \in [Conn -> Fds]
    /\ selfclosed \in BOOLEAN

\* One client per descriptor: the table lets no second one in under a descriptor
\* until the thread of the first has left, even when a handler has closed the
\* descriptor under itself and the kernel has given it out again.
OneClientPerDescriptor ==
    \A m, n \in Conn : Held(m) /\ Held(n) /\ m # n => client_fd[m] # client_fd[n]

\* A client that the pool has, queued or running, is in the table, or it could
\* not be found; and an entry is such a client.  It may be one that waits for a
\* thread for ever, after a push that failed, but its descriptor is never barred
\* by a client that is in no queue and has no thread.
TableIsClientsOfPool ==
    \A f \in Fds : \A n \in Conn :
        clients[f] = n <=> Held(n) /\ client_fd[n] = f

\* A thread reads the connection it was started for, never a later one that got
\* the same descriptor, however long the client was queued.  The one way to lose
\* it is the close at the end of a refused subscribe, which frees the descriptor
\* under a running thread.
ReadsItsOwnConnection ==
    ~selfclosed => \A n \in Conn : Held(n) => peer[client_fd[n]] = n

\* No connection is turned away for its descriptor: that is never in the table
\* when the listener thread comes to enter it, unless a handler has closed a socket itself.
NobodyTurnedAway == ~selfclosed /\ lpc = "insert" => clients[new_fd] = NoConn
=============================================================================
