------------------------- MODULE ConnectionFactory -------------------------
(***************************************************************************)
(* The connections of the HIP-DEX daemon and the counted references to     *)
(* them.  CConnectionFactory keeps one CSafePtr per HIT for good; a pool   *)
(* thread that handles a packet, or a thread that initiates, takes a copy  *)
(* and destroys it when it is done.  A CSafePtr is two CRCPtr, one to the  *)
(* mutex of the connection and one to the connection, each with a counter  *)
(* of its own.  Create runs under the factory's mutex, so copies are made  *)
(* one at a time; they are destroyed under no mutex at all.                *)
(*                                                                         *)
(* ++*iCount and --*iCount are a read and a write.  What is read from a    *)
(* counter that has been deleted is any number.                            *)
(***************************************************************************)
EXTENDS Integers, FiniteSets

CONSTANTS Hit,      \* HITs of peers, keys of iConnections
          Thread,   \* threads of the pool, and those that initiate
          NULL,
          MaxCalls  \* bound: calls of Create

ASSUME FactoryAssumption ==
    NULL \notin Thread /\ IsFiniteSet(Thread) /\ MaxCalls \in Nat

Part == {"iMutex", "iValue"}   \* the members of a CSafePtr

VARIABLES iConnections, \* HITs that have a connection
          iCount,       \* per HIT and member, the number of references
          deleted,      \* what has been deleted with its counter
          factory,      \* holder of the factory's mutex, or NULL
          calls,        \* of Create
          pc,           \* per thread: "idle", "create", "copy", "increment",
                        \* "use", "drop", "decrement", "test"
          aHit,         \* the HIT it works for
          part,         \* the member it copies or drops
          read,         \* what it has read from the counter
          overtaken,    \* counters incremented during a decrement (history)
          mixed         \* counters with any two changes at once (history)

countVars == <<iConnections, iCount, deleted>>
threadVars == <<pc, aHit, part, read>>
vars == <<countVars, factory, calls, threadVars, overtaken, mixed>>

Counter == Hit \X Part

TypeOK ==
    /\ iConnections \subseteq Hit
    /\ iCount \in [Counter -> Int]
    /\ deleted \subseteq Counter
    /\ factory \in Thread \cup {NULL}
    /\ calls \in 0..MaxCalls
    /\ pc \in [Thread -> {"idle", "create", "copy", "increment", "use", "drop", "decrement", "test"}]
    /\ aHit \in [Thread -> Hit]
    /\ part \in [Thread -> Part]
    /\ read \in [Thread -> Int]
    /\ overtaken \subseteq Counter
    /\ mixed \subseteq Counter

Init ==
    /\ iConnections = {}
    /\ iCount = [x \in Counter |-> 0]
    /\ deleted = {}
    /\ factory = NULL
    /\ calls = 0
    /\ pc = [t \in Thread |-> "idle"]
    /\ aHit \in [Thread -> Hit]
    /\ part = [t \in Thread |-> "iMutex"]
    /\ read = [t \in Thread |-> 0]
    /\ overtaken = {}
    /\ mixed = {}

\* The counter a thread is at, and the threads between a read and its write.
At(t) == <<aHit[t], part[t]>>
Changing(x) == {t \in Thread : At(t) = x /\ pc[t] \in {"increment", "decrement"}}
Decrementing(x) == {t \in Thread : At(t) = x /\ pc[t] = "decrement"}

Value(x) == IF x \in deleted THEN 0..MaxCalls ELSE {iCount[x]}

Read(t) ==
    /\ \E n \in Value(At(t)) : read' = [read EXCEPT ![t] = n]
    /\ mixed' = IF Changing(At(t)) = {} THEN mixed ELSE mixed \cup {At(t)}

\* Variant: Create is called without the proxy.
EnterCreate_unlocked(t, h) ==
    /\ pc[t] = "idle"
    /\ calls < MaxCalls
    /\ factory' = t
    /\ calls' = calls + 1
    /\ pc' = [pc EXCEPT ![t] = "create"]
    /\ aHit' = [aHit EXCEPT ![t] = h]
    /\ part' = [part EXCEPT ![t] = "iMutex"]
    /\ UNCHANGED <<countVars, read, overtaken, mixed>>

\* (*iConnFactory)->Create(aHit), from the lock of the proxy on.
EnterCreate(t, h) ==
    /\ pc[t] = "idle"
    /\ calls < MaxCalls
    /\ factory = NULL
    /\ factory' = t
    /\ calls' = calls + 1
    /\ pc' = [pc EXCEPT ![t] = "create"]
    /\ aHit' = [aHit EXCEPT ![t] = h]
    /\ part' = [part EXCEPT ![t] = "iMutex"]
    /\ UNCHANGED <<countVars, read, overtaken, mixed>>

\* Variant: the assignment to iConnections[aHit] does not count.
CreateNew_uncounted(t) ==
    /\ pc[t] = "create"
    /\ aHit[t] \notin iConnections
    /\ iConnections' = iConnections \cup {aHit[t]}
    /\ iCount' = [x \in Counter |-> IF x[1] = aHit[t] THEN 1 ELSE iCount[x]]
    /\ factory' = NULL
    /\ pc' = [pc EXCEPT ![t] = "use"]
    /\ part' = [part EXCEPT ![t] = "iValue"]
    /\ UNCHANGED <<deleted, calls, aHit, read, overtaken, mixed>>

\* No connection yet: a new one, whose counters no other thread can reach
\* before the mutex is released.
CreateNew(t) ==
    /\ pc[t] = "create"
    /\ aHit[t] \notin iConnections
    /\ iConnections' = iConnections \cup {aHit[t]}
    /\ iCount' = [x \in Counter |-> IF x[1] = aHit[t] THEN 2 ELSE iCount[x]]
    /\ factory' = NULL
    /\ pc' = [pc EXCEPT ![t] = "use"]
    /\ part' = [part EXCEPT ![t] = "iValue"]
    /\ UNCHANGED <<deleted, calls, aHit, read, overtaken, mixed>>

CreateFound(t) ==
    /\ pc[t] = "create"
    /\ aHit[t] \in iConnections
    /\ pc' = [pc EXCEPT ![t] = "copy"]
    /\ UNCHANGED <<countVars, factory, calls, aHit, part, read, overtaken, mixed>>

\* The copy constructor, of iMutex and then of iValue.
CopyRead(t) ==
    /\ pc[t] = "copy"
    /\ Read(t)
    /\ pc' = [pc EXCEPT ![t] = "increment"]
    /\ UNCHANGED <<countVars, factory, calls, aHit, part, overtaken>>

CopyWrite(t) ==
    /\ pc[t] = "increment"
    /\ iCount' = [iCount EXCEPT ![At(t)] = read[t] + 1]
    /\ overtaken' = IF Decrementing(At(t)) = {} THEN overtaken ELSE overtaken \cup {At(t)}
    /\ IF part[t] = "iMutex"
       THEN /\ pc' = [pc EXCEPT ![t] = "copy"]
            /\ part' = [part EXCEPT ![t] = "iValue"]
            /\ UNCHANGED factory
       ELSE /\ pc' = [pc EXCEPT ![t] = "use"]
            /\ factory' = NULL
            /\ UNCHANGED part
    /\ UNCHANGED <<iConnections, deleted, calls, aHit, read, mixed>>

\* The destructor, of iValue when the thread has used the connection, and then
\* of iMutex.
DropRead(t) ==
    /\ pc[t] \in {"use", "drop"}
    /\ Read(t)
    /\ pc' = [pc EXCEPT ![t] = "decrement"]
    /\ UNCHANGED <<countVars, factory, calls, aHit, part, overtaken>>

\* A size_t: -1 stands for the largest one.
DropWrite(t) ==
    /\ pc[t] = "decrement"
    /\ iCount' = [iCount EXCEPT ![At(t)] = read[t] - 1]
    /\ pc' = [pc EXCEPT ![t] = "test"]
    /\ UNCHANGED <<iConnections, deleted, factory, calls, aHit, part, read, overtaken, mixed>>

\* The build tests the number it has written or reads the counter again.
DropTest(t) ==
    /\ pc[t] = "test"
    /\ \E n \in {read[t] - 1} \cup Value(At(t)) :
          deleted' = IF n = 0 THEN deleted \cup {At(t)} ELSE deleted
    /\ IF part[t] = "iValue"
       THEN /\ pc' = [pc EXCEPT ![t] = "drop"]
            /\ part' = [part EXCEPT ![t] = "iMutex"]
       ELSE /\ pc' = [pc EXCEPT ![t] = "idle"]
            /\ UNCHANGED part
    /\ UNCHANGED <<iConnections, iCount, factory, calls, aHit, read, overtaken, mixed>>

Create(t) ==
    (\E h \in Hit : EnterCreate(t, h)) \/ CreateNew(t) \/ CreateFound(t) \/ CopyRead(t) \/ CopyWrite(t)
Destroy(t) == DropRead(t) \/ DropWrite(t) \/ DropTest(t)

Next == \E t \in Thread : Create(t) \/ Destroy(t)

Spec == Init /\ [][Next]_vars

-----------------------------------------------------------------------------
\* The members of its CSafePtr that a thread has counted and not discounted.
Owned(t) ==
    IF part[t] = "iValue"
    THEN CASE pc[t] \in {"use", "decrement"} -> Part
           [] pc[t] \in {"copy", "increment", "test"} -> {"iMutex"}
           [] OTHER -> {}
    ELSE IF pc[t] \in {"drop", "decrement"} THEN {"iMutex"} ELSE {}

Owners(x) == {t \in Thread : aHit[t] = x[1] /\ x[2] \in Owned(t)}

\* A connection and its mutex, which the factory keeps for ever, are deleted
\* only if a copy was counted while a destructor was between reading and
\* writing the same counter.  Destructors that overlap each other, or overlap
\* the read of a copy, can only leave the counter too high.
DeletedOnlyWhenOvertaken == deleted \subseteq overtaken

\* While no two changes of a counter overlap, it counts the factory's reference
\* and those of the threads, also in the middle of a copy or a destructor.
ExactUnlessMixed ==
    \A x \in Counter : x[1] \in iConnections /\ x \notin mixed =>
        iCount[x] = 1 + Cardinality(Owners(x))
=============================================================================
