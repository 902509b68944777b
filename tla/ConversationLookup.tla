------------------------ MODULE ConversationLookup -------------------------
(***************************************************************************)
(* What looking up a conversation promises its callers, with nothing said  *)
(* of loops, statements or cycle guards: it returns at one instant, and    *)
(* what it returns lies between the conversation as it was when the call   *)
(* began and as it is now.  Sessions may be inserted meanwhile.            *)
(*                                                                         *)
(* ResolveChain implements this; Handoff relies on it, for the snapshot of *)
(* an export, where nothing is inserted, and for the lock.                 *)
(***************************************************************************)

CONSTANTS
    Session,    \* the session ids
    NoParent    \* parent of a session that has none

VARIABLES
    rows,       \* the sessions that there are
    parent,     \* the parent of each of them
    session_id, \* the session that is asked for
    rowsAtCall, \* the sessions that there were when the call began
    returned,   \* it has ended
    result      \* with these sessions

vars == <<rows, parent, session_id, rowsAtCall, returned, result>>

\* No parent link of the rows in R leads into or out of the set.
Closed(S, R) ==
    \A r \in R : parent[r] \in Session => (r \in S <=> parent[r] \in S)

\* The sessions that links of the rows in R connect with s; nothing if s has no row.
Conversation(s, R) ==
    {t \in Session : s \in R /\ \A S \in SUBSET Session : s \in S /\ Closed(S, R) => t \in S}

Init ==
    /\ rows \in SUBSET Session
    /\ parent \in [Session -> Session \cup {NoParent}]
    /\ session_id \in Session
    /\ rowsAtCall = rows
    /\ returned = FALSE
    /\ result = {}

Insert(s, p) ==
    /\ ~returned
    /\ s \notin rows
    /\ rows' = rows \cup {s}
    /\ parent' = [parent EXCEPT ![s] = p]
    /\ UNCHANGED <<session_id, rowsAtCall, returned, result>>

Return ==
    /\ ~returned
    /\ returned' = TRUE
    /\ result' \in SUBSET Conversation(session_id, rows)
    /\ Conversation(session_id, rowsAtCall) \subseteq result'
    /\ UNCHANGED <<rows, parent, session_id, rowsAtCall>>

Next ==
    \/ \E s \in Session, p \in Session \cup {NoParent} : Insert(s, p)
    \/ Return

Spec == Init /\ [][Next]_vars

=============================================================================
