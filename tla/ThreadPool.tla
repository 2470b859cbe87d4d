----------------------------- MODULE ThreadPool -----------------------------
(***************************************************************************)
(* The thread pool of the HIP-DEX daemon with its one client, the daemon:  *)
(* Start gives the pool the connection handler, a task that keeps one      *)
(* worker busy for as long as the daemon runs and that gives the pool a    *)
(* task for every packet it receives; Stop clears iRunning and closes the  *)
(* pool, which joins the workers one after the other.                      *)
(*                                                                         *)
(* A section under the pool's mutex is one step; a worker that finds the   *)
(* queue empty releases the mutex and joins the wait set in the same step, *)
(* as pthread_cond_wait does, and tests the queue again when it is woken,  *)
(* which may also happen without a signal.                                 *)
(***************************************************************************)
EXTENDS Naturals, FiniteSets, Sequences

CONSTANTS Workers,   \* size of the pool, HDX_NUM_THREADS
          MaxPackets \* bound: packets that arrive

\* One worker belongs to the connection handler, the others serve packets.
ASSUME ThreadPoolAssumption == Workers \in Nat \ {0, 1} /\ MaxPackets \in Nat

Worker == 1..Workers
Packet == 1..MaxPackets
Listening == 0                    \* the task CConnectionHandler
Task == {Listening} \cup Packet
Idle == MaxPackets + 1            \* no task

VARIABLES iQueue,   \* CThreadPool.iQueue
          iClosed,  \* CThreadPool.iClosed
          wpc,      \* the workers: "lock", "wait", "run" or "exit"
          pTask,    \* the task a worker runs
          iRunning, \* CDexDaemon.iRunning
          opc,      \* the thread that starts and stops the daemon
          joined,   \* workers it has joined in Close
          hpc,      \* the connection handler, when some worker runs it
          received, \* packets it has received, they are numbered
          ended     \* tasks that have been run to the end (history)

poolVars == <<iQueue, iClosed, wpc, pTask>>
daemonVars == <<iRunning, opc, joined>>
vars == <<poolVars, daemonVars, hpc, received, ended>>

Init ==
    /\ iQueue = <<>>
    /\ iClosed = FALSE
    /\ wpc = [w \in Worker |-> "lock"]
    /\ pTask = [w \in Worker |-> Idle]
    /\ iRunning = FALSE
    /\ opc = "start"
    /\ joined = 0
    /\ hpc = "test"
    /\ received = 0
    /\ ended = {}

Waiting == {w \in Worker : wpc[w] = "wait"}

\* pthread_cond_signal: one waiter, if there is one.
Notify ==
    IF Waiting = {} THEN UNCHANGED wpc
    ELSE \E w \in Waiting : wpc' = [wpc EXCEPT ![w] = "lock"]

\* Variant: nobody is signalled.
Assign_silent(t) ==
    /\ iQueue' = IF iClosed THEN iQueue ELSE Append(iQueue, t)
    /\ UNCHANGED <<iClosed, wpc, pTask>>

\* Variant: iClosed is not tested.
Assign_whenClosed(t) ==
    /\ iQueue' = Append(iQueue, t)
    /\ Notify
    /\ UNCHANGED <<iClosed, pTask>>

\* CThreadPool::Assign.  A closed pool drops the task without a word.
Assign(t) ==
    /\ IF iClosed THEN UNCHANGED <<iQueue, wpc>>
       ELSE iQueue' = Append(iQueue, t) /\ Notify
    /\ UNCHANGED <<iClosed, pTask>>

-----------------------------------------------------------------------------
(* CWorkerThread::Run                                                      *)

TakeTask(w) ==
    /\ wpc[w] = "lock"
    /\ iQueue # <<>>
    /\ pTask' = [pTask EXCEPT ![w] = Head(iQueue)]
    /\ iQueue' = Tail(iQueue)
    /\ wpc' = [wpc EXCEPT ![w] = "run"]
    /\ UNCHANGED <<iClosed, daemonVars, hpc, received, ended>>

Exit(w) ==
    /\ wpc[w] = "lock"
    /\ iQueue = <<>> /\ iClosed
    /\ wpc' = [wpc EXCEPT ![w] = "exit"]
    /\ UNCHANGED <<iQueue, iClosed, pTask, daemonVars, hpc, received, ended>>

Wait(w) ==
    /\ wpc[w] = "lock"
    /\ iQueue = <<>> /\ ~iClosed
    /\ wpc' = [wpc EXCEPT ![w] = "wait"]
    /\ UNCHANGED <<iQueue, iClosed, pTask, daemonVars, hpc, received, ended>>

SpuriousWakeup(w) ==
    /\ wpc[w] = "wait"
    /\ wpc' = [wpc EXCEPT ![w] = "lock"]
    /\ UNCHANGED <<iQueue, iClosed, pTask, daemonVars, hpc, received, ended>>

\* pTask->Run() returns; the packet handlers run to the end, the connection
\* handler ends when its loop has.
EndTask(w) ==
    /\ wpc[w] = "run"
    /\ pTask[w] = Listening => hpc = "return"
    /\ ended' = ended \cup {pTask[w]}
    /\ pTask' = [pTask EXCEPT ![w] = Idle]
    /\ wpc' = [wpc EXCEPT ![w] = "lock"]
    /\ UNCHANGED <<iQueue, iClosed, daemonVars, hpc, received>>

-----------------------------------------------------------------------------
(* CConnectionHandler::Run, in the worker that took it                     *)

Handling == \E w \in Worker : wpc[w] = "run" /\ pTask[w] = Listening

\* Variant: the loop of the connection handler has no condition.
TestRunning_forever ==
    /\ Handling /\ hpc = "test"
    /\ hpc' = "recv"
    /\ UNCHANGED <<poolVars, daemonVars, received, ended>>

TestRunning ==
    /\ Handling /\ hpc = "test"
    /\ hpc' = IF iRunning THEN "recv" ELSE "return"
    /\ UNCHANGED <<poolVars, daemonVars, received, ended>>

\* The receive times out or is interrupted, or there is a packet.
Receive ==
    /\ Handling /\ hpc = "recv"
    /\ \/ hpc' = "test" /\ UNCHANGED received
       \/ received < MaxPackets /\ received' = received + 1 /\ hpc' = "assign"
    /\ UNCHANGED <<poolVars, daemonVars, ended>>

AssignPacket ==
    /\ Handling /\ hpc = "assign"
    /\ Assign(received)
    /\ hpc' = "test"
    /\ UNCHANGED <<daemonVars, received, ended>>

-----------------------------------------------------------------------------
(* CDexDaemon::Start, Stop and CThreadPool::Close                          *)

Start ==
    /\ opc = "start"
    /\ ~iRunning
    /\ iRunning' = TRUE
    /\ Assign(Listening)
    /\ opc' = "running"
    /\ UNCHANGED <<joined, hpc, received, ended>>

Stop ==
    /\ opc = "running"
    /\ iRunning
    /\ iRunning' = FALSE
    /\ opc' = "close"
    /\ UNCHANGED <<poolVars, joined, hpc, received, ended>>

Close ==
    /\ opc = "close"
    /\ iClosed' = TRUE
    /\ wpc' = [w \in Worker |-> IF wpc[w] = "wait" THEN "lock" ELSE wpc[w]]
    /\ opc' = "join"
    /\ UNCHANGED <<iQueue, pTask, iRunning, joined, hpc, received, ended>>

Join ==
    /\ opc = "join"
    /\ wpc[joined + 1] = "exit"
    /\ joined' = joined + 1
    /\ opc' = IF joined + 1 = Workers THEN "stopped" ELSE "join"
    /\ UNCHANGED <<poolVars, iRunning, hpc, received, ended>>

-----------------------------------------------------------------------------
WorkerStep(w) == TakeTask(w) \/ Exit(w) \/ Wait(w) \/ EndTask(w)
HandlerStep == TestRunning \/ Receive \/ AssignPacket

Next ==
    \/ \E w \in Worker : WorkerStep(w) \/ SpuriousWakeup(w)
    \/ HandlerStep
    \/ Start \/ Stop \/ Close \/ Join

Spec == Init /\ [][Next]_vars

\* Every thread that can run does: the workers, the handler (its receive has a
\* timeout) and, once it has begun to stop, the thread that stops the daemon.
FairSpec ==
    /\ Spec
    /\ \A w \in Worker : WF_vars(WorkerStep(w))
    /\ WF_vars(HandlerStep)
    /\ WF_vars(Close \/ Join)

-----------------------------------------------------------------------------
TypeOK ==
    /\ iQueue \in Seq(Task)
    /\ iClosed \in BOOLEAN
    /\ wpc \in [Worker -> {"lock", "wait", "run", "exit"}]
    /\ pTask \in [Worker -> Task \cup {Idle}]
    /\ iRunning \in BOOLEAN
    /\ opc \in {"start", "running", "close", "join", "stopped"}
    /\ joined \in 0..Workers
    /\ hpc \in {"test", "recv", "assign", "return"}
    /\ received \in 0..MaxPackets
    /\ ended \subseteq Task

\* No wakeup is lost: while some worker sleeps, there are at least as many
\* awake and on their way to the queue as there are tasks in it.  (Assign
\* signals once per task, Worker::Run re-tests in a loop.)
NoLostWakeup ==
    Waiting # {} => Cardinality({w \in Worker : wpc[w] = "lock"}) >= Len(iQueue)

\* A closed pool has no sleepers, so Close can join every worker.
NoSleepAfterClose == iClosed => Waiting = {}

\* When Close has returned nothing that was accepted is left, neither in the
\* queue nor in a worker, although it was closed with tasks in the queue.
StoppedIsDrained ==
    opc = "stopped" => iQueue = <<>> /\ \A w \in Worker : wpc[w] = "exit" /\ pTask[w] = Idle

\* The pool is the one of TaskPool: tasks start in the order in which they were
\* accepted, each is run once, and Close returns when all have been.
Abstract == INSTANCE TaskPool WITH
    pending <- iQueue,
    running <- {pTask[w] : w \in Worker} \ {Idle},
    finished <- ended,
    phase <- IF opc = "stopped" THEN "closed" ELSE IF iClosed THEN "closing" ELSE "open"
ImplementsTaskPool == Abstract!Spec

\* An accepted packet is handled, although one worker never leaves the
\* connection handler, and whether or not the pool is closed meanwhile.
AcceptedIsHandled ==
    \A p \in Packet : (\E i \in 1..Len(iQueue) : iQueue[i] = p) ~> p \in ended

\* Stop returns: the connection handler notices that iRunning is cleared, the
\* workers drain the queue and leave.
StopReturns == opc = "close" ~> opc = "stopped"
=============================================================================
