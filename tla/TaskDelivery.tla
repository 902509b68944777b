---------------------------- MODULE TaskDelivery ----------------------------
(***************************************************************************)
(* What the companion promises a phone that dispatches tasks, with nothing *)
(* said of queues, processes, polls or restarts:                           *)
(*   - a task belongs to the phone that dispatched it first, for good;     *)
(*   - only a dispatched task is answered, and an answer is never undone;  *)
(*   - an answer is shown to the task's owner and to nobody else;          *)
(*   - a task is retired (not shown any more) only after its owner has     *)
(*     seen an answer to it.                                               *)
(* MeshQueue implements this specification; the refinement mapping is      *)
(* there.                                                                  *)
(***************************************************************************)
EXTENDS FiniteSets

CONSTANTS
    Phone,      \* the paired phones
    Task,       \* the task identifiers
    Nobody      \* the owner of a task that was never dispatched

VARIABLES
    owner,      \* [Task -> Phone \cup {Nobody}]
    answered,   \* the tasks that have an answer
    seen,       \* for every phone, the tasks it has seen an answer to
    retired     \* the tasks whose answer is not offered any more

vars == <<owner, answered, seen, retired>>

Init ==
    /\ owner = [t \in Task |-> Nobody]
    /\ answered = {}
    /\ seen = [p \in Phone |-> {}]
    /\ retired = {}

Accept(p, t) ==
    /\ owner[t] = Nobody
    /\ owner' = [owner EXCEPT ![t] = p]
    /\ UNCHANGED <<answered, seen, retired>>

Answer(t) ==
    /\ owner[t] # Nobody
    /\ answered' = answered \cup {t}
    /\ UNCHANGED <<owner, seen, retired>>

Show(p, T) ==
    /\ \A t \in T : owner[t] = p /\ t \in answered
    /\ seen' = [seen EXCEPT ![p] = @ \cup T]
    /\ UNCHANGED <<owner, answered, retired>>

Retire(p, T) ==
    /\ \A t \in T : owner[t] = p /\ t \in seen[p]
    /\ retired' = retired \cup T
    /\ UNCHANGED <<owner, answered, seen>>

Next ==
    \/ \E p \in Phone, t \in Task : Accept(p, t)
    \/ \E t \in Task : Answer(t)
    \/ \E p \in Phone, T \in SUBSET Task : Show(p, T) \/ Retire(p, T)

Spec == Init /\ [][Next]_vars

=============================================================================
