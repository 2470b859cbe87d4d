---------------------------- MODULE Startup_proofs ----------------------------
(***************************************************************************)
(* Proofs about Startup and the client table it starts, for every number   *)
(* of registrations, signals, failing calls, connections and descriptors.  *)
(*                                                                         *)
(* What makes the table safe is that an entry and a client the pool has,   *)
(* queued or running, are the same thing (TableIsClientsOfPool): it alone  *)
(* rules out a second client for a descriptor.  That a client also keeps   *)
(* its own connection needs to know who owns the descriptors,              *)
(* PendingIsOpen.                                                          *)
(*                                                                         *)
(* As long as no call fails there is one listener and one listener thread  *)
(* (OneListener): that is why a second registration cannot find the port   *)
(* taken and quit the loop.  Who may come too early is seen from           *)
(* LateAreServed: a connection that is not early was accepted after the    *)
(* global variable was set, for good.                                      *)
(***************************************************************************)
EXTENDS Startup, TLAPS

-----------------------------------------------------------------------------
(* The client table.                                                       *)

\* A connection that has not been entered in the table has no thread yet.
NotStarted ==
    /\ \A n \in Conn : n > accepted => tpc[n] = "none"
    /\ lpc = "insert" => accepted \in Conn /\ tpc[accepted] = "none"

\* The descriptor the listener thread is about to enter is still open, unless
\* a handler has closed one itself.
PendingIsOpen == ~selfclosed /\ lpc = "insert" => peer[new_fd] = accepted

IndInv ==
    /\ TypeOK
    /\ NotStarted
    /\ TableIsClientsOfPool
    /\ PendingIsOpen
    /\ ReadsItsOwnConnection

\* The variables keep their types, in every state the table can reach.
LEMMA TypeStep == ASSUME TypeOK, NotStarted, [Next]_vars PROVE TypeOK'
  <1> USE ClientTableAssumption DEF TypeOK, Conn, NoConn
  <1>1. CASE Accept
    BY <1>1 DEF Accept
  <1>2. CASE AcceptFails \/ TurnAway
    BY <1>2 DEF AcceptFails, TurnAway
  <1>3. CASE InsertClient
    BY <1>3 DEF InsertClient, NotStarted
  <1>4. ASSUME NEW n \in Conn, ThreadStep(n) PROVE TypeOK'
    BY <1>4 DEF ThreadStep, StartThread, Receive, HandleRequest, HandleBadSubscribe, LeaveTable
  <1>5. CASE UNCHANGED vars
    BY <1>5 DEF vars
  <1> QED
    BY <1>1, <1>2, <1>3, <1>4, <1>5 DEF Next

\* In the initial states of the gateway the strengthened invariant holds.
LEMMA InitIndInv == Init => IndInv
  <1> USE ClientTableAssumption DEF Init, Conn, NoConn
  <1>1. ASSUME Init PROVE TypeOK
    <2>1. client_fd \in [Conn -> Fds] /\ tpc \in [Conn -> {"none"}]
      BY <1>1
    <2>2. peer \in [Fds -> {NoConn}] /\ clients \in [Fds -> {NoConn}]
      BY <1>1
    <2>3. accepted \in 0..MaxConns /\ lpc = "accept" /\ new_fd \in Fds /\ selfclosed = FALSE
      BY <1>1
    <2> QED
      BY <2>1, <2>2, <2>3 DEF TypeOK
  <1>2. Init => NotStarted /\ PendingIsOpen
    BY DEF NotStarted, PendingIsOpen
  <1>3. Init => TableIsClientsOfPool /\ ReadsItsOwnConnection
    BY DEF TableIsClientsOfPool, ReadsItsOwnConnection, Running, Held
  <1> QED
    BY <1>1, <1>2, <1>3 DEF IndInv

\* The listener thread keeps the invariant: it accepts, enters or turns away.
LEMMA AcceptLoopStep ==
    ASSUME IndInv, Accept \/ AcceptFails \/ InsertClient \/ TurnAway, TypeOK'
    PROVE  IndInv'
  <1> USE ClientTableAssumption DEF IndInv, TypeOK, Conn, NoConn, Running, Held
  <1>1. CASE Accept
    BY <1>1 DEF Accept, NotStarted, TableIsClientsOfPool, PendingIsOpen, ReadsItsOwnConnection
  <1>2. CASE AcceptFails
    BY <1>2 DEF AcceptFails, NotStarted, TableIsClientsOfPool, PendingIsOpen, ReadsItsOwnConnection
  <1>3. CASE InsertClient
    <2>1. NotStarted'
      BY <1>3 DEF InsertClient, NotStarted
    <2>2. TableIsClientsOfPool'
      BY <1>3 DEF InsertClient, NotStarted, TableIsClientsOfPool
    <2>3. PendingIsOpen' /\ ReadsItsOwnConnection'
      BY <1>3 DEF InsertClient, NotStarted, PendingIsOpen, ReadsItsOwnConnection
    <2> QED
      BY <2>1, <2>2, <2>3
  <1>4. CASE TurnAway
    <2>1. NotStarted' /\ TableIsClientsOfPool' /\ PendingIsOpen'
      BY <1>4 DEF TurnAway, NotStarted, TableIsClientsOfPool, PendingIsOpen
    <2>2. ReadsItsOwnConnection'
      BY <1>4 DEF TurnAway, NotStarted, PendingIsOpen, ReadsItsOwnConnection
    <2> QED
      BY <2>1, <2>2
  <1> QED
    BY <1>1, <1>2, <1>3, <1>4

\* A pool thread keeps the invariant, on whichever path it leaves.
LEMMA PoolThreadStep ==
    ASSUME IndInv, NEW n \in Conn, ThreadStep(n), TypeOK'
    PROVE  IndInv'
  <1> USE ClientTableAssumption DEF IndInv, TypeOK, Conn, NoConn, Running, Held
  <1>1. CASE StartThread(n) \/ Receive(n) \/ HandleRequest(n)
    BY <1>1 DEF StartThread, Receive, HandleRequest, NotStarted, TableIsClientsOfPool, PendingIsOpen,
                ReadsItsOwnConnection
  <1>2. CASE HandleBadSubscribe(n)
    BY <1>2 DEF HandleBadSubscribe, NotStarted, TableIsClientsOfPool, PendingIsOpen,
                ReadsItsOwnConnection
  <1>3. CASE LeaveTable(n)
    <2>1. NotStarted'
      BY <1>3 DEF LeaveTable, NotStarted
    <2>2. TableIsClientsOfPool'
      BY <1>3 DEF LeaveTable, TableIsClientsOfPool
    <2>3. PendingIsOpen'
      BY <1>3 DEF LeaveTable, NotStarted, PendingIsOpen, ReadsItsOwnConnection
    <2>4. ReadsItsOwnConnection'
      BY <1>3 DEF LeaveTable, TableIsClientsOfPool, ReadsItsOwnConnection
    <2> QED
      BY <2>1, <2>2, <2>3, <2>4
  <1> QED
    BY <1>1, <1>2, <1>3 DEF ThreadStep

\* The invariant from which the properties of the table follow holds always.
THEOREM Invariance == Spec => []IndInv
  <1>1. IndInv /\ [Next]_vars => IndInv'
    <2> SUFFICES ASSUME IndInv, [Next]_vars PROVE IndInv'
      OBVIOUS
    <2>1. TypeOK'
      BY TypeStep DEF IndInv
    <2>2. CASE Accept \/ AcceptFails \/ InsertClient \/ TurnAway
      BY <2>1, <2>2, AcceptLoopStep
    <2>3. ASSUME NEW n \in Conn, ThreadStep(n) PROVE IndInv'
      BY <2>1, <2>3, PoolThreadStep
    <2>4. CASE UNCHANGED vars
      BY <2>4 DEF vars, IndInv, TypeOK, NotStarted, TableIsClientsOfPool, PendingIsOpen,
                  ReadsItsOwnConnection, Running, Held
    <2> QED
      BY <2>2, <2>3, <2>4 DEF Next
  <1> QED
    BY <1>1, InitIndInv, PTL DEF Spec

\* listener_thread and client_handler_thread: the entries of the client table
\* are exactly the clients that are queued in the pool or served by one of its
\* threads, also after a handler has closed a socket or a thread could not be
\* started.
THEOREM TableCorrect == Spec => []TableIsClientsOfPool
  BY Invariance, PTL DEF IndInv

\* No two clients that are queued or served have one descriptor.
THEOREM NoSharedDescriptor == Spec => []OneClientPerDescriptor
  <1>1. IndInv => OneClientPerDescriptor
    BY DEF IndInv, TypeOK, TableIsClientsOfPool, OneClientPerDescriptor
  <1> QED
    BY <1>1, Invariance, PTL

\* As long as no handler has closed a socket the client that is queued or served
\* under a descriptor is the one whose connection it is.
THEOREM OwnConnection == Spec => []ReadsItsOwnConnection
  BY Invariance, PTL DEF IndInv

\* ... and no accepted connection finds its descriptor in the table.
THEOREM DescriptorIsFree == Spec => []NobodyTurnedAway
  <1>1. IndInv => NobodyTurnedAway
    BY DEF IndInv, TypeOK, NotStarted, TableIsClientsOfPool, PendingIsOpen,
           ReadsItsOwnConnection, NobodyTurnedAway, Running, Held, Conn, NoConn
  <1> QED
    BY <1>1, Invariance, PTL

-----------------------------------------------------------------------------
(* Start-up and shutdown.                                                  *)

CreateStages == {"listener_create_sib_object", "listener_thread", "sub_wake_thread", "listener"}

\* Each listener is made for a registration of its own.
Made ==
    /\ self + idles <= registered
    /\ mpc \in CreateStages => self \in Listener

TypeInv == StartupTypeOK /\ Made

\* StartupTypeOK in two parts: its Boolean variables, and the others.
Flags == nodaemon \in BOOLEAN /\ is_running \in BOOLEAN /\ signalled \in BOOLEAN /\ freed \in BOOLEAN
Values ==
    /\ process \in {"up", "exited", "killed", "crashed"}
    /\ mpc \in DOMAIN Following \cup LoopStages \cup CreateStages \cup {"g_main_loop_run"}
    /\ signals \in 0..MaxSignals /\ faults \in 0..MaxFaults
    /\ registered \in 0..MaxRegister /\ idles \in 0..registered
    /\ listener \in Listener \cup {NULL} /\ self \in Listener \cup {NULL}
    /\ lthread \in [Listener -> {"none", "socket", "bind", "listen", "listening", "returned"}]
    /\ entered \subseteq Conn /\ early \subseteq Conn

\* Without a failure the first registration makes the only listener there is.
OneListener ==
    faults = 0 =>
        /\ self \in {NULL, 1}
        /\ listener \in {NULL, self}
        /\ self # NULL /\ listener = NULL => mpc \in CreateStages
        /\ mpc \in CreateStages => self # NULL /\ listener = NULL
        /\ mpc \in {"listener_create_sib_object", "listener_thread"} => \A l \in Listener : lthread[l] = "none"
        /\ \A l \in Listener : lthread[l] # "none" => l = 1 /\ self = 1

HasCause == signalled \/ faults > 0

\* QuitHasCause also while the loop is in a callback.
Quit ==
    /\ process = "exited" => HasCause
    /\ mpc \in LoopStages \cup CreateStages /\ ~is_running => HasCause

\* A connection that is not early, and a thread in its loop, has a listener.
LateAreServed ==
    /\ \A n \in Conn \ early : n <= accepted => listener # NULL
    /\ entered # {} => listener # NULL

-----------------------------------------------------------------------------
\* What main, the callbacks and the threads do to the table are steps of the
\* table: the first thing a pool thread may find is that it has to leave.
LEMMA TableStep == ASSUME StartupNext PROVE [Next]_vars
  <1>1. CASE MainStep \/ Signal \/ Register \/ UseFreed
    BY <1>1 DEF MainStep, SetUp, LoadKeyFails, ParseArgsExits, ThreadPoolFails, Exits, DaemonFails,
                RunLoop, CreateControl, LoopReturns, CreateListener, CreateSibObject,
                CreateListenerThread, CreateWakeThread, AssignListener, Signal, Register, UseFreed
  <1>2. CASE AcceptStep
    BY <1>2 DEF AcceptStep, Next
  <1>3. ASSUME NEW l \in Listener, ListenerStep(l) PROVE UNCHANGED vars
    BY <1>3 DEF ListenerStep, OpenSocket, OpenPort
  <1>4. ASSUME NEW n \in Conn, EnterLoop(n) PROVE [Next]_vars
    <2>1. CASE listener # NULL
      BY <1>4, <2>1 DEF EnterLoop, vars
    <2>2. CASE listener = NULL
      <3>1. Receive(n)
        BY <1>4, <2>2 DEF EnterLoop, Receive
      <3> QED
        BY <3>1 DEF Next, ThreadStep
    <2> QED
      BY <2>1, <2>2
  <1>5. ASSUME NEW n \in Conn, ServeStep(n) \/ LeaveStep(n) PROVE [Next]_vars
    BY <1>5 DEF ServeStep, LeaveStep, Next, ThreadStep
  <1>6. ASSUME NEW n \in Conn, PoolStartsThread(n) PROVE [Next]_vars
    BY <1>6 DEF PoolStartsThread, Next, ThreadStep
  <1> QED
    BY <1>1, <1>2, <1>3, <1>4, <1>5, <1>6 DEF StartupNext, PoolStep

\* The gateway keeps the promises of its client table: it is one, whatever
\* happens to the main thread and to the listener.
THEOREM GatewayHasTable == StartupSpec => Spec
  <1>1. StartupInit => Init
    BY DEF StartupInit
  <1>2. [StartupNext]_allVars => [Next]_vars
    BY TableStep DEF allVars
  <1> QED
    BY <1>1, <1>2, PTL DEF StartupSpec, Spec

\* From main to exit the entries of the client table are the clients the
\* pool has in its queue or in a thread.
THEOREM GatewayTable == StartupSpec => []TableIsClientsOfPool
  BY GatewayHasTable, TableCorrect, PTL

\* ... and each of them has the connection it was accepted for.
THEOREM GatewayConnections == StartupSpec => []ReadsItsOwnConnection
  BY GatewayHasTable, OwnConnection, PTL

-----------------------------------------------------------------------------
(* The actions of the main thread, of a signal and of the other threads    *)
(* that touch more than the table.                                         *)
InMain ==
    MainStep \/ Signal \/ Register \/ UseFreed \/ \E l \in Listener : ListenerStep(l)

\* The two parts are the type invariant.
LEMMA Parts == StartupTypeOK <=> Flags /\ Values
  BY DEF StartupTypeOK, Flags, Values, CreateStages

\* No step leaves a flag without a truth value.
LEMMA FlagTypes == ASSUME Flags, InMain PROVE Flags'
  <1> USE DEF Flags, signalVars, mainVars, listenerVars, CreateListenerFails
  <1>1. CASE SetUp \/ LoadKeyFails \/ ParseArgsExits \/ ThreadPoolFails
    BY <1>1, Zenon DEF SetUp, LoadKeyFails, ParseArgsExits, ThreadPoolFails, Exits
  <1>2. CASE DaemonFails \/ RunLoop \/ CreateControl \/ LoopReturns
    BY <1>2, Zenon DEF DaemonFails, RunLoop, CreateControl, LoopReturns
  <1>3. CASE Signal
    BY <1>3, Zenon DEF Signal
  <1>4. CASE Register \/ UseFreed \/ CreateListener
    BY <1>4, Zenon DEF Register, UseFreed, CreateListener
  <1>5. CASE CreateSibObject \/ AssignListener \/ CreateListenerThread \/ CreateWakeThread
    BY <1>5, Zenon DEF CreateSibObject, AssignListener, CreateListenerThread, CreateWakeThread
  <1>6. ASSUME NEW l \in Listener, ListenerStep(l) PROVE Flags'
    <2>1. CASE OpenSocket(l)
      BY <2>1, Zenon DEF OpenSocket
    <2>2. CASE OpenPort(l)
      BY <2>2, Zenon DEF OpenPort
    <2> QED
      BY <1>6, <2>1, <2>2 DEF ListenerStep
  <1> QED
    BY <1>1, <1>2, <1>3, <1>4, <1>5, <1>6 DEF InMain, MainStep

\* The other variables keep their types in a step of the main thread.
LEMMA MainTypes == ASSUME Values, Made, InMain PROVE Values' /\ Made'
  <1> USE StartupAssumption DEF Values, Made, NULL, Listener, LoopStages, CreateStages, Works, Fails,
                                Following, mainVars, signalVars, listenerVars, poolVars
  <1>1. CASE SetUp \/ LoadKeyFails \/ ParseArgsExits \/ ThreadPoolFails \/ DaemonFails
    BY <1>1 DEF SetUp, LoadKeyFails, ParseArgsExits, ThreadPoolFails, Exits, DaemonFails
  <1>2. CASE RunLoop \/ CreateControl \/ LoopReturns
    <2>1. CASE RunLoop
      BY <2>1 DEF RunLoop
    <2>2. CASE CreateControl
      BY <2>2 DEF CreateControl
    <2>3. CASE LoopReturns
      BY <2>3 DEF LoopReturns
    <2> QED
      BY <1>2, <2>1, <2>2, <2>3
  <1>3. CASE Signal \/ Register \/ UseFreed
    BY <1>3 DEF Signal, Register, UseFreed
  <1>4. CASE CreateListener \/ CreateSibObject \/ AssignListener
    BY <1>4 DEF CreateListener, CreateSibObject, AssignListener
  <1>5. CASE CreateListenerThread \/ CreateWakeThread
    <2>1. lthread' \in [Listener -> {"none", "socket", "bind", "listen", "listening", "returned"}]
      BY <1>5 DEF CreateListenerThread, CreateWakeThread
    <2>2. /\ mpc' \in {"sub_wake_thread", "listener", "looping"}
          /\ faults' \in 0..MaxFaults
          /\ mpc' # "looping" => self \in Listener
      BY <1>5 DEF CreateListenerThread, CreateWakeThread, CreateListenerFails
    <2>3. UNCHANGED <<process, signals, registered, idles, listener, self, entered, early>>
      BY <1>5 DEF CreateListenerThread, CreateWakeThread
    <2> QED
      BY <2>1, <2>2, <2>3
  <1>6. ASSUME NEW l \in Listener, ListenerStep(l) PROVE Values' /\ Made'
    <2>1. lthread' \in [Listener -> {"none", "socket", "bind", "listen", "listening", "returned"}]
      BY <1>6 DEF ListenerStep, OpenSocket, OpenPort
    <2>2. faults' \in 0..MaxFaults /\ process' \in {process, "exited"}
      BY <1>6 DEF ListenerStep, OpenSocket, OpenPort
    <2>3. UNCHANGED <<mpc, signals, registered, idles, listener, self, entered, early>>
      BY <1>6 DEF ListenerStep, OpenSocket, OpenPort
    <2> QED
      BY <2>1, <2>2, <2>3
  <1> QED
    BY <1>1, <1>2, <1>3, <1>4, <1>5, <1>6 DEF InMain, MainStep

\* ... and in a step of the accept loop or of a pool thread.
LEMMA PoolTypes ==
    ASSUME TypeInv, TypeOK, TypeOK', AcceptStep \/ \E n \in Conn : PoolStep(n)
    PROVE  TypeInv'
  <1> USE StartupAssumption DEF TypeInv, StartupTypeOK, Made, NULL, Listener, LoopStages, CreateStages,
                                Following, mainVars, signalVars, listenerVars
  <1>1. CASE AcceptStep
    <2>1. accepted' # accepted => accepted' \in Conn
      BY <1>1, ClientTableAssumption DEF AcceptStep, Accept, AcceptFails, InsertClient, TurnAway, TypeOK, Conn
    <2> QED
      BY <1>1, <2>1 DEF AcceptStep
  <1>2. ASSUME NEW n \in Conn, PoolStep(n) PROVE TypeInv'
    BY <1>2 DEF PoolStep, PoolStartsThread, EnterLoop, ServeStep, LeaveStep, poolVars
  <1> QED
    BY <1>1, <1>2

\* Only one listener is made and only one thread started, or a call has failed.
LEMMA OneListenerStep ==
    ASSUME TypeInv, OneListener, Quit, InMain
    PROVE  OneListener' /\ Quit'
  <1> USE StartupAssumption DEF TypeInv, StartupTypeOK, Made, OneListener, Quit, HasCause, NULL, Listener,
                                LoopStages, CreateStages, Works, Fails, Following
  <1>1. CASE SetUp \/ LoadKeyFails \/ ParseArgsExits \/ ThreadPoolFails \/ DaemonFails
    BY <1>1 DEF SetUp, LoadKeyFails, ParseArgsExits, ThreadPoolFails, Exits, DaemonFails, mainVars, signalVars,
                listenerVars, poolVars
  <1>2. CASE RunLoop \/ CreateControl \/ LoopReturns \/ Signal \/ Register \/ UseFreed
    BY <1>2 DEF RunLoop, CreateControl, LoopReturns, Signal, Register, UseFreed, mainVars, signalVars,
                listenerVars, poolVars
  <1>3. CASE CreateListener \/ CreateSibObject \/ AssignListener
    BY <1>3 DEF CreateListener, CreateSibObject, AssignListener, mainVars, signalVars, listenerVars, poolVars
  <1>4. CASE CreateListenerThread
    <2>1. Quit'
      BY <1>4 DEF CreateListenerThread, CreateListenerFails, signalVars
    <2>2. ASSUME faults' = 0 PROVE OneListener'
      <3>1. faults = 0 /\ mpc' = "sub_wake_thread" /\ UNCHANGED <<self, listener>>
        BY <1>4, <2>2 DEF CreateListenerThread, CreateListenerFails
      <3>2. lthread' = [lthread EXCEPT ![1] = "socket"] /\ self = 1 /\ listener = NULL
        BY <1>4, <2>2, <3>1 DEF CreateListenerThread, CreateListenerFails
      <3> QED
        BY <1>4, <3>1, <3>2 DEF CreateListenerThread
    <2> QED
      BY <2>1, <2>2
  <1>6. CASE CreateWakeThread
    BY <1>6 DEF CreateWakeThread, CreateListenerFails, mainVars, signalVars, listenerVars, poolVars
  <1>5. ASSUME NEW l \in Listener, ListenerStep(l) PROVE OneListener' /\ Quit'
    <2>1. CASE OpenSocket(l)
      BY <2>1 DEF OpenSocket, mainVars, signalVars, listenerVars, poolVars
    <2>2. CASE OpenPort(l)
      BY <2>2 DEF OpenPort, Listening, mainVars, signalVars, listenerVars, poolVars
    <2> QED
      BY <1>5, <2>1, <2>2 DEF ListenerStep
  <1> QED
    BY <1>1, <1>2, <1>3, <1>4, <1>5, <1>6 DEF InMain, MainStep

\* The other threads do not touch what OneListener and Quit speak of.
LEMMA PoolKeepsListener ==
    ASSUME OneListener, Quit, AcceptStep \/ \E n \in Conn : PoolStep(n)
    PROVE  OneListener' /\ Quit'
  <1>1. UNCHANGED <<faults, signalled, mpc, is_running, listener, self, lthread>>
    BY DEF AcceptStep, PoolStep, PoolStartsThread, EnterLoop, ServeStep, LeaveStep, signalVars, mainVars, listenerVars
  <1>2. process' \in {process, "crashed"}
    BY DEF AcceptStep, PoolStep, PoolStartsThread, EnterLoop, ServeStep, LeaveStep
  <1>3. OneListener'
    BY <1>1 DEF OneListener
  <1>4. Quit'
    BY <1>1, <1>2 DEF Quit, HasCause
  <1> QED
    BY <1>3, <1>4

\* The global variable is set once and for all: nobody who came late, or whose
\* thread is in its loop, loses the listener again.
LEMMA LateStep ==
    ASSUME TypeInv, TypeOK, NotStarted, LateAreServed, StartupNext
    PROVE  LateAreServed'
  <1>1. CASE InMain
    <2>1. UNCHANGED <<vars, entered, early>>
      BY <1>1 DEF InMain, MainStep, SetUp, LoadKeyFails, ParseArgsExits, ThreadPoolFails, Exits, DaemonFails,
                  RunLoop, CreateControl, LoopReturns, CreateListener, CreateSibObject,
                  CreateListenerThread, CreateWakeThread, AssignListener, Signal, Register, UseFreed,
                  ListenerStep, OpenSocket, OpenPort, poolVars
    <2>2. listener # NULL => listener' # NULL
      <3>1. CASE AssignListener
        BY <3>1 DEF AssignListener, TypeInv, Made, CreateStages, Listener, NULL
      <3>2. CASE ~AssignListener
        BY <1>1, <3>2 DEF InMain, MainStep, SetUp, LoadKeyFails, ParseArgsExits, ThreadPoolFails, Exits,
                  DaemonFails, RunLoop, CreateControl, LoopReturns, CreateListener, CreateSibObject,
                  CreateListenerThread, CreateWakeThread, Signal, Register, UseFreed,
                  ListenerStep, OpenSocket, OpenPort, listenerVars
      <3> QED
        BY <3>1, <3>2
    <2> QED
      BY <2>1, <2>2 DEF LateAreServed, vars
  <1>2. CASE AcceptStep
    <2>1. UNCHANGED <<listener, entered>>
      BY <1>2 DEF AcceptStep, listenerVars
    <2>2. accepted' = accepted \/ (accepted' = accepted + 1 /\ (listener = NULL => accepted' \in early'))
      BY <1>2, ClientTableAssumption
         DEF AcceptStep, Accept, AcceptFails, InsertClient, TurnAway, TypeOK
    <2>3. early \subseteq early'
      BY <1>2 DEF AcceptStep
    <2> QED
      BY <2>1, <2>2, <2>3, ClientTableAssumption DEF LateAreServed, TypeOK, Conn
  <1>3. ASSUME NEW n \in Conn, PoolStep(n) PROVE LateAreServed'
    <2>1. UNCHANGED <<accepted, listener, early>>
      BY <1>3 DEF PoolStep, PoolStartsThread, EnterLoop, ServeStep, LeaveStep, Receive, HandleRequest, HandleBadSubscribe,
                  StartThread, LeaveTable, listenerVars, poolVars, vars
    <2>2. entered' # {} => listener # NULL
      BY <1>3 DEF PoolStep, PoolStartsThread, EnterLoop, ServeStep, LeaveStep, poolVars, LateAreServed
    <2> QED
      BY <2>1, <2>2 DEF LateAreServed
  <1> QED
    BY <1>1, <1>2, <1>3 DEF StartupNext, InMain

\* A client can only be dropped, or crash its thread, if it came early.
LEMMA EarlyStep ==
    ASSUME TypeInv, TypeOK, NotStarted, LateAreServed, OnlyEarlyClientsSuffer, StartupNext
    PROVE  OnlyEarlyClientsSuffer'
  <1>0. process = "up"
    BY DEF StartupNext
  <1>1. CASE InMain
    <2>1. UNCHANGED <<vars, entered, early>>
      BY <1>1 DEF InMain, MainStep, SetUp, LoadKeyFails, ParseArgsExits, ThreadPoolFails, Exits, DaemonFails,
                  RunLoop, CreateControl, LoopReturns, CreateListener, CreateSibObject,
                  CreateListenerThread, CreateWakeThread, AssignListener, Signal, Register, UseFreed,
                  ListenerStep, OpenSocket, OpenPort, poolVars
    <2>2. process' = "crashed" => freed' \/ mpc' = "listener_create_sib_object"
      BY <1>0, <1>1 DEF InMain, MainStep, SetUp, LoadKeyFails, ParseArgsExits, ThreadPoolFails, Exits,
                  DaemonFails, RunLoop, CreateControl, LoopReturns, CreateListener, CreateSibObject,
                  CreateListenerThread, CreateWakeThread, AssignListener, Signal, Register, UseFreed,
                  ListenerStep, OpenSocket, OpenPort, listenerVars, mainVars
    <2> QED
      BY <2>1, <2>2 DEF OnlyEarlyClientsSuffer, vars
  <1>2. CASE AcceptStep
    <2>1. \A n \in Conn : tpc'[n] \in {"leave", "done"} => tpc[n] \in {"leave", "done"}
      BY <1>2, ClientTableAssumption
         DEF AcceptStep, Accept, AcceptFails, InsertClient, TurnAway, TypeOK, NotStarted, Conn
    <2>2. early \subseteq early' /\ UNCHANGED <<process, entered>>
      BY <1>2 DEF AcceptStep
    <2> QED
      BY <1>0, <2>1, <2>2 DEF OnlyEarlyClientsSuffer
  <1>3. ASSUME NEW n \in Conn, EnterLoop(n) PROVE OnlyEarlyClientsSuffer'
    <2>1. CASE listener # NULL
      BY <1>0, <1>3, <2>1 DEF EnterLoop, OnlyEarlyClientsSuffer
    <2>2. CASE listener = NULL
      <3>1. n \in early
        BY <1>3, <2>2, ClientTableAssumption DEF EnterLoop, LateAreServed, NotStarted, TypeOK, Conn
      <3>2. tpc' = [tpc EXCEPT ![n] = "leave"] /\ UNCHANGED <<early, entered, process>>
        BY <1>3, <2>2 DEF EnterLoop
      <3> QED
        BY <1>0, <3>1, <3>2 DEF OnlyEarlyClientsSuffer, TypeOK
    <2> QED
      BY <2>1, <2>2
  <1>4. ASSUME NEW n \in Conn, ServeStep(n) PROVE OnlyEarlyClientsSuffer'
    <2>1. /\ process' = "crashed" => nodaemon'
          /\ UNCHANGED <<early, entered, nodaemon>>
      BY <1>0, <1>4 DEF ServeStep, poolVars
    <2>2. \A m \in Conn : m # n => tpc'[m] = tpc[m]
      BY <1>4 DEF ServeStep, Receive, HandleRequest, HandleBadSubscribe, vars, TypeOK
    <2> QED
      BY <1>4, <2>1, <2>2 DEF ServeStep, OnlyEarlyClientsSuffer
  <1>5. ASSUME NEW n \in Conn, LeaveStep(n) PROVE OnlyEarlyClientsSuffer'
    <2>1. tpc[n] = "leave" /\ UNCHANGED <<early, entered>>
      BY <1>5 DEF LeaveStep, LeaveTable, poolVars
    <2>2. \A m \in Conn : m # n => tpc'[m] = tpc[m]
      BY <1>5 DEF LeaveStep, LeaveTable, vars, TypeOK
    <2>3. process' = "crashed" => early' # {}
      BY <1>0, <1>5, <2>1 DEF LeaveStep, LateAreServed, OnlyEarlyClientsSuffer
    <2> QED
      BY <2>1, <2>2, <2>3 DEF OnlyEarlyClientsSuffer
  <1>6. ASSUME NEW n \in Conn, PoolStartsThread(n) PROVE OnlyEarlyClientsSuffer'
    <2>1. tpc' = [tpc EXCEPT ![n] = "recv"]
      BY <1>6 DEF PoolStartsThread, StartThread
    <2>2. UNCHANGED <<process, nodaemon, early, entered, freed, mpc>>
      BY <1>6 DEF PoolStartsThread, mainVars, listenerVars, poolVars
    <2> QED
      BY <2>1, <2>2 DEF OnlyEarlyClientsSuffer, TypeOK
  <1> QED
    BY <1>1, <1>2, <1>3, <1>4, <1>5, <1>6 DEF StartupNext, InMain, PoolStep

-----------------------------------------------------------------------------
StartupInv == TypeInv /\ OneListener /\ Quit /\ LateAreServed /\ OnlyEarlyClientsSuffer

\* At the entry of main the invariant holds: no listener, nobody accepted.
LEMMA StartupInitInv == StartupInit => StartupInv
  <1> SUFFICES ASSUME StartupInit PROVE StartupInv
    OBVIOUS
  <1>1. Flags
    BY Zenon DEF StartupInit, Flags
  <1>2. Values /\ Made
    BY StartupAssumption DEF StartupInit, Values, Made, Following, CreateStages, NULL
  <1>3. OneListener /\ Quit
    BY DEF StartupInit, OneListener, Quit, CreateStages, LoopStages
  <1>4. LateAreServed /\ OnlyEarlyClientsSuffer
    BY ClientTableAssumption DEF StartupInit, Init, LateAreServed, OnlyEarlyClientsSuffer, Conn
  <1> QED
    BY <1>1, <1>2, <1>3, <1>4, Parts DEF StartupInv, TypeInv

\* The invariant of the table and that of start-up hold together.
THEOREM StartupInvariance == StartupSpec => [](IndInv /\ StartupInv)
  <1>1. IndInv /\ IndInv' /\ StartupInv /\ [StartupNext]_allVars => StartupInv'
    <2> SUFFICES ASSUME IndInv, IndInv', StartupInv, [StartupNext]_allVars PROVE StartupInv'
      OBVIOUS
    <2>1. CASE StartupNext
      <3>1. InMain \/ AcceptStep \/ \E n \in Conn : PoolStep(n)
        BY <2>1 DEF StartupNext, InMain
      <3>2. TypeInv'
        <4>1. CASE InMain
          <5>1. Flags /\ Values /\ Made
            BY Parts DEF StartupInv, TypeInv
          <5>2. Flags' /\ Values' /\ Made'
            BY <4>1, <5>1, FlagTypes, MainTypes
          <5>3. StartupTypeOK'
            BY <5>2 DEF StartupTypeOK, Flags, Values, CreateStages
          <5> QED
            BY <5>2, <5>3 DEF TypeInv
        <4>2. CASE AcceptStep \/ \E n \in Conn : PoolStep(n)
          BY <4>2, PoolTypes DEF StartupInv, IndInv
        <4> QED
          BY <3>1, <4>1, <4>2
      <3>3. OneListener' /\ Quit'
        BY <3>1, OneListenerStep, PoolKeepsListener DEF StartupInv
      <3>4. LateAreServed' /\ OnlyEarlyClientsSuffer'
        BY <2>1, LateStep, EarlyStep DEF StartupInv, IndInv
      <3> QED
        BY <3>2, <3>3, <3>4 DEF StartupInv
    <2>2. CASE UNCHANGED allVars
      <3>1. StartupTypeOK' /\ Made'
        BY <2>2 DEF allVars, vars, signalVars, mainVars, listenerVars, poolVars, StartupInv, TypeInv,
                    StartupTypeOK, Made
      <3>2. OneListener' /\ Quit'
        BY <2>2 DEF allVars, vars, signalVars, mainVars, listenerVars, poolVars, StartupInv, OneListener, Quit,
                    HasCause
      <3>3. LateAreServed' /\ OnlyEarlyClientsSuffer'
        BY <2>2 DEF allVars, vars, signalVars, mainVars, listenerVars, poolVars, StartupInv, LateAreServed,
                    OnlyEarlyClientsSuffer
      <3> QED
        BY <3>1, <3>2, <3>3 DEF StartupInv, TypeInv
    <2> QED
      BY <2>1, <2>2
  <1>2. StartupSpec => []IndInv
    BY GatewayHasTable, Invariance, PTL
  <1> QED
    BY <1>1, <1>2, StartupInitInv, PTL DEF StartupSpec

\* The state of main, of the listener and of the signals keeps its types.
THEOREM StartupTypeCorrect == StartupSpec => []StartupTypeOK
  BY StartupInvariance, PTL DEF StartupInv, TypeInv

\* main leaves its loop, and the process exits, only after a signal or a call
\* that failed, however often the SIB registers.
THEOREM NoQuitWithoutCause == StartupSpec => []QuitHasCause
  <1>1. StartupInv => QuitHasCause
    BY DEF StartupInv, Quit, QuitHasCause, HasCause
  <1> QED
    BY <1>1, StartupInvariance, PTL

\* A client that is accepted once `listener` has been assigned finds it.
THEOREM LateClientsAreSafe == StartupSpec => []OnlyEarlyClientsSuffer
  BY StartupInvariance, PTL DEF StartupInv
===============================================================================
