------------------------------ MODULE TaskPool ------------------------------
(***************************************************************************)
(* What the thread pool of the HIP-DEX daemon promises: an accepted task   *)
(* is started in its turn and run once, a closed pool accepts nothing, and *)
(* Close returns when everything that was accepted has been run.           *)
(***************************************************************************)
EXTENDS Naturals, Sequences

CONSTANT Task

VARIABLES pending,  \* accepted and not yet started, in the order of acceptance
          running,  \* started and not yet finished
          finished, \* run to the end
          phase     \* "open", "closing" or "closed"

vars == <<pending, running, finished, phase>>

Init ==
    /\ pending = <<>>
    /\ running = {}
    /\ finished = {}
    /\ phase = "open"

Accept(t) ==
    /\ phase = "open"
    /\ t \notin running \cup finished
    /\ \A i \in 1..Len(pending) : pending[i] # t
    /\ pending' = Append(pending, t)
    /\ UNCHANGED <<running, finished, phase>>

Begin ==
    /\ pending # <<>>
    /\ running' = running \cup {Head(pending)}
    /\ pending' = Tail(pending)
    /\ UNCHANGED <<finished, phase>>

End(t) ==
    /\ t \in running
    /\ running' = running \ {t}
    /\ finished' = finished \cup {t}
    /\ UNCHANGED <<pending, phase>>

Close ==
    /\ phase = "open"
    /\ phase' = "closing"
    /\ UNCHANGED <<pending, running, finished>>

Closed ==
    /\ phase = "closing"
    /\ pending = <<>> /\ running = {}
    /\ phase' = "closed"
    /\ UNCHANGED <<pending, running, finished>>

Next == Begin \/ Close \/ Closed \/ \E t \in Task : Accept(t) \/ End(t)

Spec == Init /\ [][Next]_vars
=============================================================================
