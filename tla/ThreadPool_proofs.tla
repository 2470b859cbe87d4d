-------------------------- MODULE ThreadPool_proofs --------------------------
(***************************************************************************)
(* Proofs about the thread pool and the daemon that uses it, for every     *)
(* number of workers and packets.                                          *)
(*                                                                         *)
(* PoolInv relates the workers to the phases of Close: a worker only       *)
(* leaves when the pool is closed and its queue empty, and a closed pool   *)
(* accepts nothing, so once the workers are joined everything is drained.  *)
(* TasksInv says where the tasks are: a task is in one place only, and the *)
(* packet about to be assigned is in none.  With both, the steps of the    *)
(* pool are those of TaskPool.                                             *)
(***************************************************************************)
EXTENDS ThreadPool, FiniteSetTheorems, TLAPS

PoolInv ==
    /\ TypeOK
    /\ \A w \in Worker : wpc[w] = "run" <=> pTask[w] # Idle
    /\ hpc = "assign" => received # 0
    /\ iClosed <=> opc \in {"join", "stopped"}
    /\ NoSleepAfterClose
    /\ \A w \in Worker : wpc[w] = "exit" => iClosed /\ iQueue = <<>>
    /\ \A w \in 1..joined : wpc[w] = "exit"
    /\ opc = "stopped" <=> joined = Workers

\* Where a task can be.
Queued(t) == \E i \in 1..Len(iQueue) : iQueue[i] = t
InWorker(t) == \E w \in Worker : pTask[w] = t
Known(t) == Queued(t) \/ InWorker(t) \/ t \in ended

TasksInv ==
    /\ \A i, j \in 1..Len(iQueue) : iQueue[i] = iQueue[j] => i = j
    /\ \A v, w \in Worker : pTask[v] = pTask[w] /\ pTask[v] # Idle => v = w
    /\ \A t \in Task : ~(Queued(t) /\ InWorker(t))
    /\ \A t \in ended : ~Queued(t) /\ ~InWorker(t)
    /\ \A t \in Task : Known(t) => t <= received
    /\ hpc = "assign" => ~Known(received)
    /\ opc = "start" => \A t \in Task : ~Known(t)

-----------------------------------------------------------------------------
(* Types and phases                                                        *)

\* A signal only ever moves a worker from the wait set to the queue.
LEMMA NotifyMoves ==
    ASSUME TypeOK, Notify
    PROVE  /\ wpc' \in [Worker -> {"lock", "wait", "run", "exit"}]
           /\ \A w \in Worker : wpc'[w] = wpc[w] \/ (wpc[w] = "wait" /\ wpc'[w] = "lock")
  BY DEF TypeOK, Notify, Waiting

LEMMA AssignMoves ==
    ASSUME TypeOK, NEW t \in Task, Assign(t)
    PROVE  /\ iQueue' \in Seq(Task)
           /\ wpc' \in [Worker -> {"lock", "wait", "run", "exit"}]
           /\ \A w \in Worker : wpc'[w] = wpc[w] \/ (wpc[w] = "wait" /\ wpc'[w] = "lock")
           /\ iClosed => UNCHANGED <<iQueue, wpc>>
           /\ UNCHANGED <<iClosed, pTask>>
  <1>1. iQueue' \in Seq(Task)
    BY DEF Assign, TypeOK
  <1> QED
    BY <1>1, NotifyMoves DEF Assign, TypeOK

LEMMA PoolInit == Init => PoolInv
  <1> SUFFICES ASSUME Init PROVE PoolInv
    OBVIOUS
  <1> USE ThreadPoolAssumption
  <1>1. TypeOK
    <2>1. <<>> \in Seq(Task)
      OBVIOUS
    <2>2. /\ wpc \in [Worker -> {"lock", "wait", "run", "exit"}]
          /\ pTask \in [Worker -> Task \cup {Idle}]
      BY DEF Init
    <2>3. received \in 0..MaxPackets /\ joined \in 0..Workers
      BY DEF Init
    <2> QED
      BY <2>1, <2>2, <2>3 DEF Init, TypeOK
  <1>2. \A w \in Worker : wpc[w] = "lock" /\ pTask[w] = Idle
    BY DEF Init
  <1>3. joined = 0 /\ joined # Workers /\ opc = "start" /\ iClosed = FALSE /\ hpc = "test"
    BY DEF Init
  <1> QED
    BY <1>1, <1>2, <1>3 DEF PoolInv, NoSleepAfterClose

\* The steps of the workers keep the invariant.
LEMMA PoolWorker == ASSUME PoolInv, NEW w \in Worker, WorkerStep(w) \/ SpuriousWakeup(w)
                    PROVE  PoolInv'
  <1> USE ThreadPoolAssumption DEF PoolInv
  <1>1. 1..joined \subseteq Worker
    BY DEF TypeOK, Worker
  <1>2. CASE TakeTask(w)
    <2>1. Head(iQueue) \in Task /\ Tail(iQueue) \in Seq(Task)
      <3>1. iQueue # <<>> /\ iQueue \in Seq(Task)
        BY <1>2 DEF TakeTask, TypeOK
      <3> QED
        BY <3>1
    <2>2. Head(iQueue) # Idle
      BY <2>1 DEF Task, Packet, Listening, Idle
    <2>3. TypeOK'
      BY <1>2, <2>1 DEF TakeTask, TypeOK, daemonVars
    <2> QED
      BY <1>1, <1>2, <2>2, <2>3
         DEF TakeTask, TypeOK, daemonVars, NoSleepAfterClose, Waiting
  <1>3. CASE Exit(w) \/ Wait(w)
    <2>1. TypeOK'
      BY <1>3 DEF Exit, Wait, TypeOK, daemonVars
    <2> QED
      BY <1>1, <1>3, <2>1
         DEF Exit, Wait, TypeOK, daemonVars, NoSleepAfterClose, Waiting
  <1>4. CASE EndTask(w)
    <2>1. pTask[w] \in Task
      BY <1>4 DEF EndTask, TypeOK
    <2>2. TypeOK'
      BY <1>4, <2>1 DEF EndTask, TypeOK, daemonVars
    <2> QED
      BY <1>1, <1>4, <2>2
         DEF EndTask, TypeOK, daemonVars, NoSleepAfterClose, Waiting
  <1>5. CASE SpuriousWakeup(w)
    <2>1. TypeOK'
      BY <1>5 DEF SpuriousWakeup, TypeOK, daemonVars
    <2> QED
      BY <1>1, <1>5, <2>1
         DEF SpuriousWakeup, TypeOK, daemonVars, NoSleepAfterClose, Waiting
  <1> QED
    BY <1>2, <1>3, <1>4, <1>5 DEF WorkerStep

\* The steps of the connection handler keep it.
LEMMA PoolHandler == ASSUME PoolInv, HandlerStep PROVE PoolInv'
  <1> USE ThreadPoolAssumption DEF PoolInv
  <1>1. 1..joined \subseteq Worker
    BY DEF TypeOK, Worker
  <1>2. CASE TestRunning \/ Receive
    <2>1. /\ hpc' \in {"test", "recv", "assign", "return"}
          /\ received' \in 0..MaxPackets
          /\ hpc' = "assign" => received' # 0
          /\ UNCHANGED <<poolVars, daemonVars, ended>>
      BY <1>2 DEF TestRunning, Receive, TypeOK
    <2> QED
      BY <2>1 DEF poolVars, daemonVars, TypeOK, NoSleepAfterClose, Waiting
  <1>3. CASE AssignPacket
    <2>1. received \in Task
      BY <1>3 DEF AssignPacket, TypeOK, Task, Packet
    <2>2. /\ Assign(received)
          /\ hpc' = "test"
          /\ UNCHANGED <<daemonVars, received, ended>>
      BY <1>3 DEF AssignPacket
    <2>3. TypeOK'
      BY <2>1, <2>2, AssignMoves DEF TypeOK, daemonVars
    <2> QED
      BY <1>1, <2>1, <2>2, <2>3, AssignMoves
         DEF TypeOK, daemonVars, NoSleepAfterClose, Waiting
  <1> QED
    BY <1>2, <1>3 DEF HandlerStep

\* The steps of the thread that starts and stops the daemon keep it.
LEMMA PoolDaemon == ASSUME PoolInv, Start \/ Stop \/ Close \/ Join PROVE PoolInv'
  <1> USE ThreadPoolAssumption DEF PoolInv
  <1>1. 1..joined \subseteq Worker
    BY DEF TypeOK, Worker
  <1>2. CASE Start
    <2>1. Listening \in Task
      BY DEF Task
    <2>2. TypeOK'
      BY <1>2, <2>1, AssignMoves DEF Start, TypeOK
    <2>3. /\ opc = "start" /\ opc' = "running"
          /\ Assign(Listening)
          /\ UNCHANGED <<joined, hpc, received, ended>>
      BY <1>2 DEF Start
    <2>4. /\ ~iClosed /\ ~iClosed'
          /\ UNCHANGED pTask
          /\ \A w \in Worker : wpc'[w] = wpc[w] \/ (wpc[w] = "wait" /\ wpc'[w] = "lock")
      BY <2>1, <2>3, AssignMoves
    <2> QED
      BY <1>1, <2>2, <2>3, <2>4 DEF NoSleepAfterClose
  <1>3. CASE Stop
    BY <1>3 DEF Stop, poolVars, TypeOK, NoSleepAfterClose, Waiting
  <1>4. CASE Close
    <2>1. TypeOK'
      BY <1>4 DEF Close, TypeOK
    <2>2. \A w \in Worker : /\ wpc'[w] # "wait"
                            /\ wpc'[w] = wpc[w] \/ (wpc'[w] = "lock" /\ wpc[w] = "wait")
      BY <1>4 DEF Close, TypeOK
    <2> QED
      BY <1>1, <1>4, <2>1, <2>2 DEF Close, TypeOK, NoSleepAfterClose, Waiting
  <1>5. CASE Join
    <2>1. joined \in Nat /\ joined < Workers
      BY <1>5 DEF Join, TypeOK
    <2>2. /\ opc = "join"
          /\ joined' = joined + 1
          /\ wpc[joined + 1] = "exit"
          /\ opc' = IF joined + 1 = Workers THEN "stopped" ELSE "join"
          /\ UNCHANGED <<poolVars, iRunning, hpc, received, ended>>
      BY <1>5 DEF Join
    <2>3. TypeOK'
      BY <2>1, <2>2 DEF TypeOK, poolVars
    <2>4. \A w \in 1..joined' : wpc'[w] = "exit"
      <3>1. \A w \in 1..joined' : w \in 1..joined \/ w = joined + 1
        BY <2>1, <2>2
      <3> QED
        BY <2>2, <3>1 DEF poolVars
    <2> QED
      BY <2>1, <2>2, <2>3, <2>4 DEF poolVars, NoSleepAfterClose, Waiting
  <1> QED
    BY <1>2, <1>3, <1>4, <1>5

LEMMA PoolNext == PoolInv /\ [Next]_vars => PoolInv'
  <1>1. PoolInv /\ UNCHANGED vars => PoolInv'
    BY DEF PoolInv, TypeOK, vars, poolVars, daemonVars, NoSleepAfterClose, Waiting
  <1> QED
    BY <1>1, PoolWorker, PoolHandler, PoolDaemon DEF Next

THEOREM PoolInvariant == Spec => []PoolInv
  BY PoolInit, PoolNext, PTL DEF Spec

\* A worker that sleeps cannot be joined: no worker of a closed pool sleeps.
THEOREM ClosedIsAwake == Spec => []NoSleepAfterClose
  <1>1. PoolInv => NoSleepAfterClose
    BY DEF PoolInv
  <1> QED
    BY <1>1, PoolInvariant, PTL

\* Once Close has returned, nothing that was accepted is left anywhere.
THEOREM Drained == Spec => []StoppedIsDrained
  <1>1. PoolInv => StoppedIsDrained
    <2> SUFFICES ASSUME PoolInv, opc = "stopped"
                 PROVE  iQueue = <<>> /\ \A w \in Worker : wpc[w] = "exit" /\ pTask[w] = Idle
      BY DEF StoppedIsDrained
    <2>1. \A w \in Worker : wpc[w] = "exit"
      BY DEF PoolInv, Worker
    <2>2. 1 \in Worker
      BY ThreadPoolAssumption DEF Worker
    <2> QED
      BY <2>1, <2>2 DEF PoolInv
  <1> QED
    BY <1>1, PoolInvariant, PTL

-----------------------------------------------------------------------------
(* Wakeups                                                                 *)

Awake == {w \in Worker : wpc[w] = "lock"}

LEMMA WorkersFinite == ASSUME NEW S \in SUBSET Worker
                       PROVE  IsFiniteSet(S) /\ Cardinality(S) \in Nat
  <1>1. IsFiniteSet(Worker)
    BY ThreadPoolAssumption, FS_Interval DEF Worker
  <1>2. IsFiniteSet(S)
    BY <1>1, FS_Subset
  <1> QED
    BY <1>2, FS_CardinalityType

LEMMA AwakeIsFinite == IsFiniteSet(Awake) /\ Cardinality(Awake) \in Nat
  BY WorkersFinite DEF Awake

\* A task that is queued wakes a sleeper, if there is one.
LEMMA AssignWakes == ASSUME TypeOK, NEW t \in Task, Assign(t), NoLostWakeup
                     PROVE  NoLostWakeup'
  <1>1. CASE iClosed
    BY <1>1 DEF Assign, NoLostWakeup, Waiting
  <1>2. CASE ~iClosed
    <2>1. iQueue' = Append(iQueue, t) /\ Len(iQueue') = Len(iQueue) + 1
      BY <1>2 DEF Assign, TypeOK
    <2>2. CASE Waiting = {}
      <3>1. UNCHANGED wpc
        BY <1>2, <2>2 DEF Assign, Notify
      <3> QED
        BY <2>2, <3>1 DEF NoLostWakeup, Waiting
    <2>3. CASE Waiting # {}
      <3>1. PICK v \in Worker : wpc[v] = "wait" /\ wpc' = [wpc EXCEPT ![v] = "lock"]
        BY <1>2, <2>3 DEF Assign, Notify, Waiting
      <3>2. Awake' = Awake \cup {v} /\ v \notin Awake
        BY <3>1 DEF Awake, TypeOK
      <3>3. Cardinality(Awake') = Cardinality(Awake) + 1
        BY <3>2, AwakeIsFinite, FS_AddElement
      <3>4. Cardinality(Awake) >= Len(iQueue) /\ Len(iQueue) \in Nat
        BY <2>3 DEF NoLostWakeup, Awake, TypeOK
      <3>5. Cardinality(Awake') >= Len(iQueue')
        BY <2>1, <3>3, <3>4, AwakeIsFinite
      <3> QED
        BY <3>5 DEF NoLostWakeup, Awake
    <2> QED
      BY <2>2, <2>3
  <1> QED
    BY <1>1, <1>2

LEMMA WakeupWorker ==
    ASSUME TypeOK, NoLostWakeup, NEW w \in Worker, WorkerStep(w) \/ SpuriousWakeup(w)
    PROVE  NoLostWakeup'
  <1>1. Len(iQueue) \in Nat
    BY DEF TypeOK
  <1>2. CASE TakeTask(w)
    <2>1. Awake' = Awake \ {w} /\ w \in Awake /\ Waiting' = Waiting
      BY <1>2 DEF TakeTask, Awake, Waiting, TypeOK
    <2>2. Cardinality(Awake') = Cardinality(Awake) - 1
      BY <2>1, AwakeIsFinite, FS_RemoveElement
    <2>3. Len(iQueue') = Len(iQueue) - 1
      <3>1. iQueue \in Seq(Task) /\ iQueue # <<>> /\ iQueue' = Tail(iQueue)
        BY <1>2 DEF TakeTask, TypeOK
      <3> QED
        BY <3>1
    <2>4. Waiting # {} => Cardinality(Awake) >= Len(iQueue)
      BY DEF NoLostWakeup, Awake
    <2>5. Waiting' # {} => Cardinality(Awake') >= Len(iQueue')
      BY <1>1, <2>1, <2>2, <2>3, <2>4, AwakeIsFinite
    <2> QED
      BY <2>5 DEF NoLostWakeup, Awake
  <1>3. CASE Exit(w) \/ Wait(w)
    <2>1. Len(iQueue') = 0
      BY <1>3 DEF Exit, Wait
    <2>2. Cardinality(Awake') \in Nat
      BY WorkersFinite DEF Awake
    <2> QED
      BY <2>1, <2>2 DEF NoLostWakeup, Awake
  <1>4. CASE EndTask(w) \/ SpuriousWakeup(w)
    <2>1. Awake' = Awake \cup {w} /\ Waiting' \subseteq Waiting /\ w \notin Awake
      BY <1>4 DEF EndTask, SpuriousWakeup, Awake, Waiting, TypeOK
    <2>2. Cardinality(Awake') = Cardinality(Awake) + 1
      BY <2>1, AwakeIsFinite, FS_AddElement
    <2>3. iQueue' = iQueue
      BY <1>4 DEF EndTask, SpuriousWakeup
    <2>4. Waiting # {} => Cardinality(Awake) >= Len(iQueue)
      BY DEF NoLostWakeup, Awake
    <2>5. Waiting' # {} => Cardinality(Awake') >= Len(iQueue')
      BY <1>1, <2>1, <2>2, <2>3, <2>4, AwakeIsFinite
    <2> QED
      BY <2>5 DEF NoLostWakeup, Awake
  <1> QED
    BY <1>2, <1>3, <1>4 DEF WorkerStep

LEMMA WakeupNext == PoolInv /\ NoLostWakeup /\ [Next]_vars => NoLostWakeup'
  <1> SUFFICES ASSUME PoolInv, NoLostWakeup, [Next]_vars PROVE NoLostWakeup'
    OBVIOUS
  <1>1. TypeOK
    BY DEF PoolInv
  <1>2. CASE UNCHANGED <<iQueue, wpc>>
    BY <1>2 DEF NoLostWakeup, Waiting
  <1>3. CASE AssignPacket
    <2>1. received \in Task
      BY <1>3 DEF PoolInv, AssignPacket, TypeOK, Task, Packet
    <2> QED
      BY <1>1, <1>3, <2>1, AssignWakes DEF AssignPacket
  <1>4. CASE Start
    <2>1. Listening \in Task
      BY DEF Task
    <2> QED
      BY <1>1, <1>4, <2>1, AssignWakes DEF Start
  <1>5. CASE Close
    <2>1. Waiting' = {}
      BY <1>1, <1>5 DEF Close, Waiting, TypeOK
    <2> QED
      BY <2>1 DEF NoLostWakeup
  <1>6. CASE TestRunning \/ Receive \/ Stop \/ Join \/ UNCHANGED vars
    BY <1>2, <1>6 DEF TestRunning, Receive, Stop, Join, vars, poolVars
  <1> QED
    BY <1>1, <1>3, <1>4, <1>5, <1>6, WakeupWorker DEF Next, HandlerStep

\* While a worker sleeps, as many workers are on their way to the queue as
\* there are tasks in it: one signal per task is enough.
THEOREM WakeupsSuffice == Spec => []NoLostWakeup
  <1>1. Init => NoLostWakeup
    BY DEF Init, NoLostWakeup, Waiting
  <1>2. PoolInv /\ [Next]_vars /\ NoLostWakeup => NoLostWakeup'
    BY WakeupNext
  <1> QED
    BY <1>1, <1>2, PoolInvariant, PTL DEF Spec

-----------------------------------------------------------------------------
(* Tasks                                                                   *)

LEMMA IdleIsNoTask == Idle \notin Task
  BY ThreadPoolAssumption DEF Idle, Task, Packet, Listening

\* A task moves from the head of the queue to a worker, ...
LEMMA TakeMoves ==
    ASSUME PoolInv, TasksInv, NEW w \in Worker, TakeTask(w)
    PROVE  /\ Head(iQueue) \in Task
           /\ \A i, j \in 1..Len(iQueue') : iQueue'[i] = iQueue'[j] => i = j
           /\ \A t \in Task : Queued(t)' <=> Queued(t) /\ t # Head(iQueue)
           /\ \A t \in Task : InWorker(t)' <=> InWorker(t) \/ t = Head(iQueue)
           /\ \A v \in Worker : pTask'[v] = IF v = w THEN Head(iQueue) ELSE pTask[v]
           /\ Queued(Head(iQueue))
           /\ pTask[w] = Idle
  <1>1. iQueue \in Seq(Task) /\ iQueue # <<>> /\ iQueue' = Tail(iQueue)
    BY DEF PoolInv, TypeOK, TakeTask
  <1>2. /\ Head(iQueue) = iQueue[1]
        /\ Len(iQueue) \in Nat \ {0}
        /\ Len(iQueue') = Len(iQueue) - 1
        /\ \A i \in 1..Len(iQueue') : iQueue'[i] = iQueue[i + 1]
    BY <1>1
  <1>3. Head(iQueue) \in Task
    BY <1>1
  <1>4. \A v \in Worker : pTask'[v] = IF v = w THEN Head(iQueue) ELSE pTask[v]
    BY DEF TakeTask, PoolInv, TypeOK
  <1>5. pTask[w] = Idle
    BY DEF TakeTask, PoolInv
  <1>6. \A i, j \in 1..Len(iQueue) : iQueue[i] = iQueue[j] => i = j
    BY DEF TasksInv
  <1>7. ASSUME NEW i \in 1..Len(iQueue'), NEW j \in 1..Len(iQueue'),
               iQueue'[i] = iQueue'[j]
        PROVE  i = j
    <2>1. i + 1 \in 1..Len(iQueue) /\ j + 1 \in 1..Len(iQueue)
      BY <1>2
    <2>2. iQueue[i + 1] = iQueue[j + 1]
      BY <1>2, <1>7
    <2>3. i + 1 = j + 1
      BY <1>6, <2>1, <2>2
    <2> QED
      BY <2>3
  <1>8. ASSUME NEW t \in Task
        PROVE  Queued(t)' <=> Queued(t) /\ t # Head(iQueue)
    <2>1. Queued(t)' => Queued(t) /\ t # Head(iQueue)
      BY <1>2, <1>6 DEF Queued
    <2>2. ASSUME NEW i \in 1..Len(iQueue), iQueue[i] = t, t # Head(iQueue)
          PROVE  Queued(t)'
      <3>1. i - 1 \in 1..Len(iQueue') /\ iQueue'[i - 1] = t
        BY <1>2, <2>2
      <3> QED
        BY <3>1 DEF Queued
    <2> QED
      BY <2>1, <2>2 DEF Queued
  <1>9. ASSUME NEW t \in Task
        PROVE  InWorker(t)' <=> InWorker(t) \/ t = Head(iQueue)
    BY <1>4, <1>5, IdleIsNoTask DEF InWorker
  <1>10. Queued(Head(iQueue))
    BY <1>2 DEF Queued
  <1> QED
    BY <1>3, <1>4, <1>5, <1>7, <1>8, <1>9, <1>10

\* ... from the worker to the ones that have ended, ...
LEMMA EndMoves ==
    ASSUME PoolInv, TasksInv, NEW w \in Worker, EndTask(w)
    PROVE  /\ pTask[w] \in Task
           /\ \A t \in Task : InWorker(t)' <=> InWorker(t) /\ t # pTask[w]
           /\ \A v \in Worker : pTask'[v] = IF v = w THEN Idle ELSE pTask[v]
           /\ ended' = ended \cup {pTask[w]}
           /\ InWorker(pTask[w])
           /\ UNCHANGED <<iQueue, iClosed, daemonVars, hpc, received>>
  <1>1. /\ \A v \in Worker : pTask'[v] = IF v = w THEN Idle ELSE pTask[v]
        /\ pTask[w] \in Task
    BY DEF PoolInv, TypeOK, EndTask
  <1>2. \A t \in Task : InWorker(t)' <=> InWorker(t) /\ t # pTask[w]
    BY <1>1, IdleIsNoTask DEF InWorker, TasksInv
  <1> QED
    BY <1>1, <1>2 DEF EndTask, InWorker

\* ... and into the queue from nowhere.
LEMMA AssignAppends ==
    ASSUME PoolInv, TasksInv, NEW a \in Task, Assign(a), ~iClosed, ~Known(a)
    PROVE  /\ iQueue' = Append(iQueue, a)
           /\ \A i, j \in 1..Len(iQueue') : iQueue'[i] = iQueue'[j] => i = j
           /\ \A t \in Task : Queued(t)' <=> Queued(t) \/ t = a
           /\ \A t : InWorker(t)' <=> InWorker(t)
           /\ pTask' = pTask
  <1>1. iQueue \in Seq(Task) /\ iQueue' = Append(iQueue, a) /\ pTask' = pTask
    BY DEF PoolInv, TypeOK, Assign
  <1>2. /\ Len(iQueue) \in Nat
        /\ Len(iQueue') = Len(iQueue) + 1
        /\ \A i \in 1..Len(iQueue) : iQueue'[i] = iQueue[i]
        /\ iQueue'[Len(iQueue) + 1] = a
    BY <1>1
  <1>3. \A i \in 1..Len(iQueue) : iQueue[i] # a
    BY DEF Known, Queued
  <1>4. \A i \in 1..Len(iQueue') : i \in 1..Len(iQueue) \/ i = Len(iQueue) + 1
    BY <1>2
  <1>5. \A i, j \in 1..Len(iQueue') : iQueue'[i] = iQueue'[j] => i = j
    BY <1>2, <1>3, <1>4 DEF TasksInv
  <1>6. \A t \in Task : Queued(t)' <=> Queued(t) \/ t = a
    BY <1>2, <1>4 DEF Queued
  <1> QED
    BY <1>1, <1>5, <1>6 DEF InWorker

LEMMA TasksInit == Init => TasksInv
  <1> SUFFICES ASSUME Init PROVE TasksInv
    OBVIOUS
  <1>1. iQueue = <<>> /\ ended = {} /\ hpc = "test" /\ \A w \in Worker : pTask[w] = Idle
    BY DEF Init
  <1>2. \A t \in Task : ~Known(t)
    BY <1>1, IdleIsNoTask DEF Known, Queued, InWorker
  <1> QED
    BY <1>1, <1>2 DEF TasksInv, Known

LEMMA TasksTake == ASSUME PoolInv, TasksInv, NEW w \in Worker, TakeTask(w)
                   PROVE  TasksInv'
  <1>1. UNCHANGED <<daemonVars, hpc, received, ended>>
    BY DEF TakeTask
  <1>2. ended \subseteq Task
    BY DEF PoolInv, TypeOK
  <1>3. \A t \in Task : Known(t)' <=> Known(t)
    BY <1>1, TakeMoves DEF Known
  <1>4. \A u, v \in Worker : pTask'[u] = pTask'[v] /\ pTask'[u] # Idle => u = v
    BY TakeMoves DEF TasksInv, InWorker
  <1>5. hpc = "assign" => received \in Task
    BY DEF PoolInv, TypeOK, Task, Packet
  <1>6. /\ \A t \in Task : ~(Queued(t)' /\ InWorker(t)')
        /\ \A t \in ended : ~Queued(t)' /\ ~InWorker(t)'
    BY <1>2, TakeMoves DEF TasksInv
  <1>7. /\ \A t \in Task : Known(t)' => t <= received'
        /\ hpc' = "assign" => ~Known(received)'
        /\ opc' = "start" => \A t \in Task : ~Known(t)'
    BY <1>1, <1>3, <1>5 DEF TasksInv, daemonVars
  <1> QED
    BY <1>1, <1>4, <1>6, <1>7, TakeMoves DEF TasksInv

LEMMA TasksEnd == ASSUME PoolInv, TasksInv, NEW w \in Worker, EndTask(w)
                  PROVE  TasksInv'
  <1>1. \A t \in Task : Queued(t)' <=> Queued(t)
    BY EndMoves DEF Queued
  <1>2. ended \subseteq Task
    BY DEF PoolInv, TypeOK
  <1>3. \A t \in Task : Known(t)' <=> Known(t)
    BY <1>1, EndMoves DEF Known
  <1>4. \A u, v \in Worker : pTask'[u] = pTask'[v] /\ pTask'[u] # Idle => u = v
    BY EndMoves DEF TasksInv
  <1>5. hpc = "assign" => received \in Task
    BY DEF PoolInv, TypeOK, Task, Packet
  <1>6. /\ \A t \in Task : ~(Queued(t)' /\ InWorker(t)')
        /\ \A t \in ended' : ~Queued(t)' /\ ~InWorker(t)'
    BY <1>1, <1>2, EndMoves DEF TasksInv
  <1>7. /\ \A t \in Task : Known(t)' => t <= received'
        /\ hpc' = "assign" => ~Known(received)'
        /\ opc' = "start" => \A t \in Task : ~Known(t)'
    BY <1>3, <1>5, EndMoves DEF TasksInv, daemonVars
  <1> QED
    BY <1>4, <1>6, <1>7, EndMoves DEF TasksInv

\* Assign keeps it: what is accepted was known nowhere.
LEMMA TasksAssign ==
    ASSUME PoolInv, TasksInv, NEW a \in Task, Assign(a), ~Known(a),
           a <= received, hpc' = "assign" => hpc = "assign" /\ a # received,
           UNCHANGED <<received, ended>>, opc' # "start"
    PROVE  TasksInv'
  <1>1. CASE iClosed
    <2>1. UNCHANGED <<iQueue, pTask>>
      BY <1>1 DEF Assign
    <2> QED
      BY <2>1 DEF TasksInv, Known, Queued, InWorker
  <1>2. CASE ~iClosed
    <2>1. ended \subseteq Task /\ pTask' = pTask
      BY <1>2, AssignAppends DEF PoolInv, TypeOK
    <2>2. \A t \in Task : Known(t)' <=> Known(t) \/ t = a
      BY <1>2, AssignAppends DEF Known
    <2>3. hpc' = "assign" => received \in Task
      BY DEF PoolInv, TypeOK, Task, Packet
    <2>4. /\ \A t \in Task : ~(Queued(t)' /\ InWorker(t)')
          /\ \A t \in ended' : ~Queued(t)' /\ ~InWorker(t)'
      BY <1>2, <2>1, AssignAppends DEF TasksInv, Known
    <2>5. /\ \A t \in Task : Known(t)' => t <= received'
          /\ hpc' = "assign" => ~Known(received)'
      BY <2>2, <2>3 DEF TasksInv
    <2> QED
      BY <1>2, <2>1, <2>4, <2>5, AssignAppends DEF TasksInv
  <1> QED
    BY <1>1, <1>2

\* The packet to assign, and the connection handler to start, are new.
LEMMA NewTask ==
    ASSUME PoolInv, TasksInv
    PROVE  /\ AssignPacket => received \in Task /\ ~Known(received) /\ opc # "start"
           /\ Start => Listening \in Task /\ ~Known(Listening) /\ ~iClosed
  <1>1. Listening \in Task
    BY DEF Task
  <1>2. ASSUME AssignPacket
        PROVE  received \in Task /\ ~Known(received) /\ opc # "start"
    <2>1. received \in Task /\ ~Known(received)
      BY <1>2 DEF AssignPacket, PoolInv, TasksInv, TypeOK, Task, Packet
    <2>2. Known(Listening)
      BY <1>2 DEF AssignPacket, Handling, Known, InWorker
    <2> QED
      BY <1>1, <2>1, <2>2 DEF TasksInv
  <1>3. ASSUME Start
        PROVE  ~Known(Listening) /\ ~iClosed
    BY <1>1, <1>3 DEF Start, TasksInv, PoolInv
  <1> QED
    BY <1>1, <1>2, <1>3

LEMMA TasksNext == PoolInv /\ TasksInv /\ [Next]_vars => TasksInv'
  <1> SUFFICES ASSUME PoolInv, TasksInv, [Next]_vars PROVE TasksInv'
    OBVIOUS
  <1>1. received \in 0..MaxPackets /\ MaxPackets \in Nat
    BY ThreadPoolAssumption DEF PoolInv, TypeOK
  <1>2. CASE /\ UNCHANGED <<iQueue, pTask, received, ended>>
             /\ hpc' = "assign" => hpc = "assign"
             /\ opc' = "start" => opc = "start"
    BY <1>2 DEF TasksInv, Known, Queued, InWorker
  <1>3. CASE AssignPacket
    <2>1. /\ Assign(received) /\ hpc' = "test"
          /\ UNCHANGED <<daemonVars, received, ended>>
          /\ opc' # "start"
      BY <1>3, NewTask DEF AssignPacket, daemonVars
    <2> QED
      BY <1>1, <1>3, <2>1, NewTask, TasksAssign
  <1>4. CASE Start
    <2>1. /\ Assign(Listening) /\ opc' # "start"
          /\ UNCHANGED <<hpc, received, ended>>
      BY <1>4 DEF Start
    <2>2. Listening <= received /\ (hpc = "assign" => Listening # received)
      BY <1>1 DEF Listening, PoolInv
    <2> QED
      BY <1>4, <2>1, <2>2, NewTask, TasksAssign
  <1>5. CASE Receive
    <2>1. CASE received' = received + 1 /\ hpc' = "assign" /\ received < MaxPackets
      <3>1. UNCHANGED <<iQueue, pTask, ended, opc>>
        BY <1>5 DEF Receive, poolVars, daemonVars
      <3>2. \A t \in Task : t \in Nat
        BY DEF Task, Packet, Listening
      <3>3. received' \in Task
        BY <1>1, <2>1 DEF Task, Packet
      <3>4. \A t : Known(t)' <=> Known(t)
        BY <3>1 DEF Known, Queued, InWorker
      <3>5. \A t \in Task : Known(t) => t <= received
        BY DEF TasksInv
      <3>6. /\ \A t \in Task : Known(t)' => t <= received'
            /\ ~Known(received')
        BY <1>1, <2>1, <3>2, <3>3, <3>4, <3>5
      <3>7. ~Known(received)'
        BY <3>1, <3>6 DEF Known, Queued, InWorker
      <3> QED
        <4>1. \A t : (Queued(t)' <=> Queued(t)) /\ (InWorker(t)' <=> InWorker(t))
          BY <3>1 DEF Queued, InWorker
        <4> QED
          BY <3>1, <3>4, <3>6, <3>7, <4>1 DEF TasksInv
    <2>2. CASE hpc' = "test" /\ UNCHANGED received
      BY <1>2, <1>5, <2>2 DEF Receive, poolVars, daemonVars
    <2> QED
      BY <1>5, <2>1, <2>2 DEF Receive
  <1>6. CASE TestRunning \/ Stop \/ Close \/ Join \/ UNCHANGED vars
    BY <1>2, <1>6 DEF TestRunning, Stop, Close, Join, vars, poolVars, daemonVars
  <1>7. ASSUME NEW w \in Worker, Exit(w) \/ Wait(w) \/ SpuriousWakeup(w)
        PROVE  TasksInv'
    BY <1>2, <1>7 DEF Exit, Wait, SpuriousWakeup, daemonVars
  <1> QED
    BY <1>3, <1>4, <1>5, <1>6, <1>7, TasksTake, TasksEnd DEF Next, HandlerStep, WorkerStep

-----------------------------------------------------------------------------
(* The pool is a TaskPool                                                  *)

Running == {pTask[w] : w \in Worker} \ {Idle}

LEMMA RunningTasks == ASSUME TypeOK
                      PROVE  Running \subseteq Task /\ \A t \in Task : t \in Running <=> InWorker(t)
  BY IdleIsNoTask DEF Running, InWorker, TypeOK

LEMMA AbstractInit == Init => Abstract!Init
  <1> SUFFICES ASSUME Init PROVE Abstract!Init
    OBVIOUS
  <1>1. iQueue = <<>> /\ ended = {} /\ opc = "start" /\ iClosed = FALSE
    BY DEF Init
  <1>2. Running = {}
    BY DEF Init, Running
  <1> QED
    BY <1>1, <1>2 DEF Abstract!Init, Running

\* The value TaskPool's phase has in ThreadPool, as in Abstract.
Phase == IF opc = "stopped" THEN "closed" ELSE IF iClosed THEN "closing" ELSE "open"

LEMMA AbstractNext == ASSUME PoolInv, TasksInv, [Next]_vars
                      PROVE  [Abstract!Next]_Abstract!vars
  <1> USE DEF Phase, Running
  <1>0. TypeOK
    BY DEF PoolInv
  <1>1. CASE UNCHANGED <<iQueue, pTask, ended, opc, iClosed>>
    BY <1>1 DEF Abstract!vars
  <1>2. ASSUME NEW w \in Worker, TakeTask(w)
        PROVE  Abstract!Begin
    <2>1. Running' = Running \cup {Head(iQueue)}
      BY <1>2, TakeMoves, IdleIsNoTask
    <2>2. /\ iQueue # <<>> /\ iQueue' = Tail(iQueue)
          /\ UNCHANGED <<ended, opc, iClosed>>
      BY <1>2 DEF TakeTask, daemonVars
    <2> QED
      BY <2>1, <2>2 DEF Abstract!Begin
  <1>3. ASSUME NEW w \in Worker, EndTask(w)
        PROVE  \E t \in Task : Abstract!End(t)
    <2>1. PICK t \in Task : t = pTask[w]
      BY <1>3, EndMoves
    <2>2. Running' = Running \ {t} /\ t \in Running
      <3>1. \A v \in Worker : pTask[v] = t => v = w
        BY <2>1, IdleIsNoTask DEF TasksInv
      <3> QED
        BY <1>3, <2>1, <3>1, EndMoves, IdleIsNoTask
    <2>3. ended' = ended \cup {t} /\ UNCHANGED <<iQueue, opc, iClosed>>
      BY <1>3, <2>1, EndMoves DEF daemonVars
    <2>4. Abstract!End(t)
      BY <2>2, <2>3 DEF Abstract!End
    <2> QED
      BY <2>4
  <1>4. ASSUME NEW a \in Task, Assign(a), ~Known(a), ~iClosed,
               opc # "stopped", opc' # "stopped", UNCHANGED ended
        PROVE  Abstract!Accept(a)
    <2>1. a \notin Running /\ a \notin ended /\ \A i \in 1..Len(iQueue) : iQueue[i] # a
      BY <1>4 DEF Known, Queued, InWorker
    <2>2. iQueue' = Append(iQueue, a) /\ UNCHANGED <<pTask, iClosed>>
      BY <1>4 DEF Assign
    <2>3. Phase = "open" /\ Phase' = "open" /\ UNCHANGED Running
      BY <1>4, <2>2
    <2> QED
      BY <1>4, <2>1, <2>2, <2>3 DEF Abstract!Accept
  <1>5. CASE AssignPacket
    <2>1. UNCHANGED <<opc, ended>> /\ Assign(received)
      BY <1>5 DEF AssignPacket, daemonVars
    <2>2. CASE iClosed
      BY <1>1, <2>1, <2>2 DEF Assign
    <2>3. CASE ~iClosed
      <3>1. opc # "stopped"
        BY <2>3 DEF PoolInv
      <3> QED
        BY <1>4, <1>5, <2>1, <2>3, <3>1, NewTask DEF Abstract!Next
    <2> QED
      BY <2>2, <2>3
  <1>6. CASE Start
    <2>1. UNCHANGED ended /\ Assign(Listening) /\ opc # "stopped" /\ opc' # "stopped"
      BY <1>6 DEF Start
    <2> QED
      BY <1>4, <1>6, <2>1, NewTask DEF Abstract!Next
  <1>7. CASE Close
    <2>1. /\ opc = "close" /\ opc' = "join" /\ iClosed' = TRUE
          /\ UNCHANGED <<iQueue, pTask, ended>>
      BY <1>7 DEF Close
    <2>2. ~iClosed
      BY <2>1 DEF PoolInv
    <2> QED
      BY <2>1, <2>2 DEF Abstract!Close, Abstract!Next
  <1>8. CASE Join
    <2>1. opc = "join" /\ iClosed /\ UNCHANGED <<iQueue, pTask, ended, iClosed>>
      BY <1>8 DEF Join, poolVars, PoolInv
    <2>2. CASE opc' = "join"
      BY <1>1, <2>1, <2>2
    <2>3. CASE opc' = "stopped"
      <3>1. \A w \in Worker : wpc[w] = "exit"
        <4>1. joined + 1 = Workers /\ wpc[Workers] = "exit"
          BY <1>8, <2>3 DEF Join
        <4>2. joined \in Nat /\ Workers \in Nat
          BY <1>0, ThreadPoolAssumption DEF TypeOK
        <4>3. \A w \in Worker : w \in 1..joined \/ w = Workers
          BY <4>1, <4>2 DEF Worker
        <4> QED
          BY <4>1, <4>3 DEF PoolInv
      <3>2. 1 \in Worker
        BY ThreadPoolAssumption DEF Worker
      <3>3. iQueue = <<>> /\ Running = {}
        BY <3>1, <3>2 DEF PoolInv
      <3> QED
        BY <2>1, <2>3, <3>3 DEF Abstract!Closed, Abstract!Next
    <2> QED
      BY <1>8, <2>2, <2>3 DEF Join
  <1>9. CASE TestRunning \/ Receive \/ Stop \/ UNCHANGED vars
    <2>1. CASE Stop
      BY <2>1 DEF Stop, poolVars, Abstract!vars
    <2> QED
      BY <1>1, <1>9, <2>1 DEF TestRunning, Receive, vars, poolVars, daemonVars
  <1>10. ASSUME NEW w \in Worker, Exit(w) \/ Wait(w) \/ SpuriousWakeup(w)
         PROVE  [Abstract!Next]_Abstract!vars
    BY <1>1, <1>10 DEF Exit, Wait, SpuriousWakeup, daemonVars
  <1>11. ASSUME NEW w \in Worker, WorkerStep(w)
         PROVE  [Abstract!Next]_Abstract!vars
    <2>1. CASE TakeTask(w)
      BY <1>2, <2>1 DEF Abstract!Next
    <2>2. CASE EndTask(w)
      BY <1>3, <2>2 DEF Abstract!Next
    <2> QED
      BY <1>10, <1>11, <2>1, <2>2 DEF WorkerStep
  <1> QED
    BY <1>5, <1>6, <1>7, <1>8, <1>9, <1>10, <1>11 DEF Next, HandlerStep

\* The pool keeps the promise of TaskPool: accepted tasks start in their turn,
\* run once, and Close returns when all of them have run.
THEOREM Refinement == Spec => ImplementsTaskPool
  <1>1. PoolInv /\ TasksInv /\ [Next]_vars => [Abstract!Next]_Abstract!vars
    BY AbstractNext
  <1>2. PoolInv /\ TasksInv /\ [Next]_vars => PoolInv' /\ TasksInv'
    BY PoolNext, TasksNext
  <1> QED
    BY <1>1, <1>2, PoolInit, TasksInit, AbstractInit, PTL
       DEF Spec, ImplementsTaskPool, Abstract!Spec
=============================================================================
