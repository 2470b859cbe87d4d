------------------------------- MODULE Startup -------------------------------
(***************************************************************************)
(* The gateway from main to exit, around the client table: the main thread *)
(* sets itself up and runs the main loop; once the SIB has registered, the *)
(* loop creates the listener, whose thread opens the port and serves while *)
(* listener_new has not yet returned; signals may come at any time.        *)
(*                                                                         *)
(* The global variable `listener` is assigned by the main thread when      *)
(* listener_new returns, and every pool thread reads it without a lock.    *)
(***************************************************************************)
EXTENDS ClientTable

CONSTANTS MaxRegister, \* bound: times the SIB registers
          MaxSignals,  \* bound: SIGINT and SIGTERM together
          MaxFaults    \* bound: calls of the system or a library that fail

ASSUME StartupAssumption ==
    MaxRegister \in Nat /\ MaxSignals \in Nat /\ MaxFaults \in Nat

NULL == 0
Listener == 1..MaxRegister

VARIABLES
    process,    \* "up", or how it ended: "exited", "killed" or "crashed"
    mpc,        \* the main thread: what it comes to next
    is_running, \* of the main loop
    signalled,  \* local variable of main_signal_handler
    signals,    \* signals delivered (history)
    faults,     \* calls that have failed (history)
    registered, \* calls of register_sib_cb
    idles,      \* create_listener_idle callbacks that are pending
    nodaemon,   \* is HIPDEX_pDaemon NULL when clients come?
    listener,   \* the global variable: a listener, by its number, or NULL
    self,       \* the listener listener_new has made last
    lthread,    \* the listener_thread of each listener
    freed,      \* has listener_new freed a listener that its thread uses?
    entered,    \* connections whose pool thread has found `listener` set
    early       \* connections accepted before `listener` was (history)

signalVars == <<signalled, signals>>
mainVars == <<mpc, is_running, registered, idles>>
listenerVars == <<listener, self, lthread, freed>>
poolVars == <<entered, early>>
allVars == <<vars, process, faults, nodaemon, signalVars, mainVars, listenerVars, poolVars>>

StartupInit ==
    /\ Init
    /\ process = "up"
    /\ mpc = "HIPDEX_Start"
    /\ is_running = FALSE
    /\ signalled = FALSE
    /\ signals = 0
    /\ faults = 0
    /\ registered = 0
    /\ idles = 0
    /\ nodaemon = FALSE
    /\ listener = NULL
    /\ self = NULL
    /\ lthread = [l \in Listener |-> "none"]
    /\ freed = FALSE
    /\ entered = {}
    /\ early = {}

Works == UNCHANGED faults
Fails == faults < MaxFaults /\ faults' = faults + 1

(***************************************************************************)
(* main and the handler of its signals                                     *)
(***************************************************************************)
\* The order of main up to g_main_loop_run; g_main_loop_new is in "setup".
Following == [HIPDEX_Start |-> "signal", signal |-> "parse_args", parse_args |-> "setup",
              setup |-> "g_main_loop_run"]

SetUp ==
    /\ mpc \in DOMAIN Following
    /\ mpc' = Following[mpc]
    /\ Works
    /\ UNCHANGED <<vars, process, nodaemon, signalVars, is_running, registered, idles, listenerVars, poolVars>>

Exits(stage) ==
    /\ mpc = stage
    /\ Fails
    /\ process' = "exited"
    /\ UNCHANGED <<vars, nodaemon, signalVars, mainVars, listenerVars, poolVars>>

\* No key.dat; a bad option, or --help; no thread pool.
LoadKeyFails == Exits("HIPDEX_Start")
ParseArgsExits == Exits("parse_args")
ThreadPoolFails == Exits("setup")

\* main does not look at the result of HIPDEX_Start: without a pool there is no
\* daemon, without its socket there is one that receives nothing.
DaemonFails ==
    /\ mpc = "HIPDEX_Start"
    /\ Fails
    /\ nodaemon' \in BOOLEAN
    /\ mpc' = Following[mpc]
    /\ UNCHANGED <<vars, process, signalVars, is_running, registered, idles, listenerVars, poolVars>>

\* g_main_loop_run sets is_running, whether or not the loop was quit before.
RunLoop ==
    /\ mpc = "g_main_loop_run"
    /\ is_running' = TRUE
    /\ mpc' = "create_control_idle"
    /\ UNCHANGED <<vars, nodaemon, process, faults, signalVars, registered, idles, listenerVars, poolVars>>

CreateControl ==
    /\ mpc = "create_control_idle"
    /\ \/ Works /\ mpc' = "looping" /\ UNCHANGED is_running
       \/ Fails /\ mpc' = "returning" /\ is_running' = FALSE
    /\ UNCHANGED <<vars, nodaemon, process, signalVars, registered, idles, listenerVars, poolVars>>

LoopStages == {"create_control_idle", "looping", "returning"}

\* Variant: the listener is freed on the way out, under its threads.
LoopReturns_destroys ==
    /\ mpc \in LoopStages
    /\ ~is_running
    /\ IF listener # NULL THEN listener' = NULL /\ UNCHANGED process
       ELSE process' = "exited" /\ UNCHANGED listener
    /\ UNCHANGED <<vars, nodaemon, faults, signalVars, mainVars, self, lthread, freed, poolVars>>

\* The loop looks at is_running between two rounds of callbacks; exit(0) ends
\* the other threads where they are.
LoopReturns ==
    /\ mpc \in LoopStages
    /\ ~is_running
    /\ process' = "exited"
    /\ UNCHANGED <<vars, nodaemon, faults, signalVars, mainVars, listenerVars, poolVars>>

\* Variant: every signal asks the loop to quit.
Signal_quits ==
    /\ signals < MaxSignals
    /\ signals' = signals + 1
    /\ IF mpc \in {"HIPDEX_Start", "signal"}
       THEN process' = "killed" /\ UNCHANGED <<signalled, is_running>>
       ELSE signalled' = TRUE /\ is_running' = FALSE /\ UNCHANGED process
    /\ UNCHANGED <<vars, nodaemon, faults, mpc, registered, idles, listenerVars, poolVars>>

\* Before the handler is set a signal kills; after the first one, too.  A loop
\* that does not run yet is not quit by it.
Signal ==
    /\ signals < MaxSignals
    /\ signals' = signals + 1
    /\ IF signalled \/ mpc \in {"HIPDEX_Start", "signal"}
       THEN process' = "killed" /\ UNCHANGED <<signalled, is_running>>
       ELSE signalled' = TRUE /\ is_running' = FALSE /\ UNCHANGED process
    /\ UNCHANGED <<vars, nodaemon, faults, mpc, registered, idles, listenerVars, poolVars>>

(***************************************************************************)
(* Callbacks of the main loop.  One that is pending may still be called in *)
(* the round in which the loop was asked to quit.                          *)
(***************************************************************************)
\* register_sib_cb has answered before there is a listener.
Register ==
    /\ mpc = "looping"
    /\ registered < MaxRegister
    /\ registered' = registered + 1
    /\ idles' = idles + 1
    /\ UNCHANGED <<vars, nodaemon, process, faults, signalVars, mpc, is_running, listenerVars, poolVars>>

\* Variant: a listener is made for every registration.
CreateListener_again ==
    /\ mpc = "looping"
    /\ idles > 0
    /\ idles' = idles - 1
    /\ self' = self + 1 /\ mpc' = "listener_create_sib_object"
    /\ UNCHANGED <<vars, nodaemon, process, faults, signalVars, is_running, registered, listener, lthread,
                   freed, poolVars>>

\* Variant: the test is the wrong way round.
CreateListener_inverted ==
    /\ mpc = "looping"
    /\ idles > 0
    /\ idles' = idles - 1
    /\ IF listener # NULL
       THEN self' = self + 1 /\ mpc' = "listener_create_sib_object"
       ELSE UNCHANGED <<self, mpc>>
    /\ UNCHANGED <<vars, nodaemon, process, faults, signalVars, is_running, registered, listener, lthread,
                   freed, poolVars>>

CreateListener ==
    /\ mpc = "looping"
    /\ idles > 0
    /\ idles' = idles - 1
    /\ IF listener = NULL
       THEN self' = self + 1 /\ mpc' = "listener_create_sib_object"
       ELSE UNCHANGED <<self, mpc>>
    /\ UNCHANGED <<vars, nodaemon, process, faults, signalVars, is_running, registered, listener, lthread,
                   freed, poolVars>>

\* Without a SIB object listener_new calls listener_destroy, which reads lfd
\* through the global variable.
CreateSibObject ==
    /\ mpc = "listener_create_sib_object"
    /\ \/ Works /\ mpc' = "listener_thread" /\ UNCHANGED process
       \/ Fails /\ listener = NULL /\ process' = "crashed" /\ UNCHANGED mpc
    /\ UNCHANGED <<vars, nodaemon, signalVars, is_running, registered, idles, listenerVars, poolVars>>

\* listener_new returns NULL, and create_listener_idle quits the loop.
CreateListenerFails ==
    /\ Fails
    /\ mpc' = "looping"
    /\ is_running' = FALSE

CreateListenerThread ==
    /\ mpc = "listener_thread"
    /\ \/ /\ Works
          /\ lthread' = [lthread EXCEPT ![self] = "socket"]
          /\ mpc' = "sub_wake_thread"
          /\ UNCHANGED is_running
       \/ CreateListenerFails /\ UNCHANGED lthread
    /\ UNCHANGED <<vars, nodaemon, process, signalVars, registered, idles, listener, self, freed, poolVars>>

\* The listener thread runs already when g_free(self) follows a failure here.
CreateWakeThread ==
    /\ mpc = "sub_wake_thread"
    /\ \/ Works /\ mpc' = "listener" /\ UNCHANGED <<is_running, freed>>
       \/ CreateListenerFails /\ freed' = TRUE
    /\ UNCHANGED <<vars, nodaemon, process, signalVars, registered, idles, listener, self, lthread, poolVars>>

AssignListener ==
    /\ mpc = "listener"
    /\ listener' = self
    /\ mpc' = "looping"
    /\ UNCHANGED <<vars, nodaemon, process, faults, signalVars, is_running, registered, idles, self, lthread,
                   freed, poolVars>>

MainStep ==
    \/ SetUp \/ LoadKeyFails \/ ParseArgsExits \/ ThreadPoolFails \/ DaemonFails \/ RunLoop \/ CreateControl \/ LoopReturns
    \/ CreateListener \/ CreateSibObject \/ CreateListenerThread \/ CreateWakeThread
    \/ AssignListener

(***************************************************************************)
(* listener_thread.  Two sockets cannot listen on one port.  When the port *)
(* cannot be had the main loop is quit; without a socket the thread only   *)
(* returns.  What a thread does with a listener that has been freed is not *)
(* followed here: the process may crash, or go on until the loop returns.  *)
(***************************************************************************)
Listening == \E l \in Listener : lthread[l] = "listening"

OpenSocket(l) ==
    /\ lthread[l] = "socket"
    /\ ~freed
    /\ \/ Works /\ lthread' = [lthread EXCEPT ![l] = "bind"] /\ UNCHANGED process
       \/ Fails /\ lthread' = [lthread EXCEPT ![l] = "returned"] /\ UNCHANGED process
       \/ Fails /\ process' = "exited" /\ UNCHANGED lthread        \* setsockopt
    /\ UNCHANGED <<vars, nodaemon, signalVars, mainVars, listener, self, freed, poolVars>>

\* bind, then listen.
OpenPort(l) ==
    /\ lthread[l] \in {"bind", "listen"}
    /\ ~freed
    /\ \/ /\ ~Listening
          /\ Works
          /\ lthread' = [lthread EXCEPT ![l] = IF @ = "bind" THEN "listen" ELSE "listening"]
          /\ UNCHANGED is_running
       \/ /\ IF Listening THEN Works ELSE Fails
          /\ lthread' = [lthread EXCEPT ![l] = "returned"]
          /\ is_running' = FALSE
    /\ UNCHANGED <<vars, nodaemon, process, signalVars, mpc, registered, idles, listener, self, freed, poolVars>>

\* The accept loop of ClientTable; early remembers who came too soon.
AcceptStep ==
    /\ Listening
    /\ ~freed
    /\ Accept \/ AcceptFails \/ InsertClient \/ TurnAway
    /\ early' = IF accepted' # accepted /\ listener = NULL THEN early \cup {accepted'} ELSE early
    /\ UNCHANGED <<nodaemon, process, faults, signalVars, mainVars, listenerVars, entered>>

(***************************************************************************)
(* client_handler_thread                                                   *)
(***************************************************************************)
\* The pool needs no listener to start a thread.
PoolStartsThread(n) ==
    /\ StartThread(n)
    /\ UNCHANGED <<nodaemon, process, faults, signalVars, mainVars, listenerVars, poolVars>>

\* `if(listener && client)`: without a listener the thread skips its loop.
EnterLoop(n) ==
    /\ tpc[n] = "recv"
    /\ n \notin entered
    /\ ~freed
    /\ IF listener # NULL
       THEN entered' = entered \cup {n} /\ UNCHANGED tpc
       ELSE tpc' = [tpc EXCEPT ![n] = "leave"] /\ UNCHANGED entered
    /\ UNCHANGED <<nodaemon, accepted, peer, clients, lpc, new_fd, client_fd, selfclosed, early,
                   process, faults, signalVars, mainVars, listenerVars>>

\* In the HIP-DEX build client_receive_message asks the daemon for an SA.
ServeStep(n) ==
    /\ n \in entered
    /\ ~freed
    /\ IF nodaemon /\ tpc[n] = "recv"
       THEN process' = "crashed" /\ UNCHANGED vars
       ELSE /\ Receive(n) \/ HandleRequest(n) \/ HandleBadSubscribe(n)
            /\ UNCHANGED process
    /\ UNCHANGED <<faults, nodaemon, signalVars, mainVars, listenerVars, poolVars>>

\* g_mutex_lock(listener->client_lock), with or without a listener.
LeaveStep(n) ==
    /\ ~freed
    /\ IF listener # NULL
       THEN LeaveTable(n) /\ UNCHANGED process
       ELSE tpc[n] = "leave" /\ process' = "crashed" /\ UNCHANGED vars
    /\ UNCHANGED <<nodaemon, faults, signalVars, mainVars, listenerVars, poolVars>>

UseFreed ==
    /\ freed
    /\ process' = "crashed"
    /\ UNCHANGED <<vars, nodaemon, faults, signalVars, mainVars, listenerVars, poolVars>>

ListenerStep(l) == OpenSocket(l) \/ OpenPort(l)
PoolStep(n) == PoolStartsThread(n) \/ EnterLoop(n) \/ ServeStep(n) \/ LeaveStep(n)

StartupNext ==
    /\ process = "up"
    /\ \/ MainStep \/ Signal \/ Register \/ AcceptStep \/ UseFreed
       \/ \E l \in Listener : ListenerStep(l)
       \/ \E n \in Conn : PoolStep(n)

\* The main thread and the listener threads get to run.
StartupSpec ==
    /\ StartupInit /\ [][StartupNext]_allVars
    /\ WF_allVars(process = "up" /\ MainStep)
    /\ \A l \in Listener : WF_allVars(process = "up" /\ ListenerStep(l))

-----------------------------------------------------------------------------
StartupTypeOK ==
    /\ process \in {"up", "exited", "killed", "crashed"}
    /\ mpc \in DOMAIN Following \cup LoopStages \cup
         {"g_main_loop_run", "listener_create_sib_object", "listener_thread",
          "sub_wake_thread", "listener"}
    /\ nodaemon \in BOOLEAN
    /\ is_running \in BOOLEAN /\ signalled \in BOOLEAN /\ freed \in BOOLEAN
    /\ signals \in 0..MaxSignals /\ faults \in 0..MaxFaults
    /\ registered \in 0..MaxRegister /\ idles \in 0..registered
    /\ listener \in Listener \cup {NULL} /\ self \in Listener \cup {NULL}
    /\ lthread \in [Listener -> {"none", "socket", "bind", "listen", "listening", "returned"}]
    /\ entered \subseteq Conn /\ early \subseteq Conn

\* The gateway stops only for a signal or for a call that failed: a SIB that
\* registers again does not bring it down.
QuitHasCause ==
    process = "exited" \/ (mpc \in LoopStages /\ ~is_running) => signalled \/ faults > 0

\* Nobody but a client that was accepted before listener_new had returned finds
\* the gateway without a listener: any other is served, until the process ends.
\* Three failures of start-up crash it as well: no daemon (whose result main
\* ignores), no SIB object (listener_destroy), no wake thread (g_free).
OnlyEarlyClientsSuffer ==
    /\ process = "crashed" =>
          early # {} \/ nodaemon \/ freed \/ mpc = "listener_create_sib_object"
    /\ \A n \in Conn \ early : tpc[n] \in {"leave", "done"} => n \in entered

\* The first signal may be lost on a loop that does not run yet; it is not lost
\* on one that runs, and the second one ends the process in any case.
SignalsEnd ==
    signals >= 2 \/ (signals = 1 /\ mpc \in LoopStages /\ ~is_running) ~> process # "up"

\* Once the SIB has registered the port is opened and clients find the listener,
\* unless a call fails or the process has ended.
RegisteredIsServed ==
    registered > 0 ~> \/ listener # NULL /\ lthread[listener] = "listening"
                      \/ faults > 0 \/ process # "up"
=============================================================================
