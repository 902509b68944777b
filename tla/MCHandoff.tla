----------------------------- MODULE MCHandoff ------------------------------
(* An instance of Handoff for TLC. *)
EXTENDS Handoff, TLC

\* The sessions are interchangeable, and so are the runs of the command line.
Symmetry == Permutations(Session) \cup Permutations(Cli)

\* A pull changes nothing that the command line or a later pull looks at, and the columns
\* of the lock decide nothing in it: what a pull does is looked at in behaviours with one
\* pull, what the command line does in behaviours without a bundle that was pulled.
Apart ==
    \/ \A x \in Puller : thread[x] = Idle /\ phone[x].pc = "idle" /\ phone[x].got = {}
    \/ tasks = 1

\* What tells states apart here: a session that was released is as open as one that was
\* never locked, and of exported and brought only the sum is ever looked at.
Seen ==
    <<live, [s \in Session |-> IF handoff_state[s] = "failed" THEN "none" ELSE handoff_state[s]],
      columns, thread, frames, phone, writes, tasks, views, Accounted, imported, strayed>>

=============================================================================
