------------------------- MODULE ConversationMerge --------------------------
(***************************************************************************)
(* What merging conversations promises, with nothing said of databases,    *)
(* transactions or threads: an import happens at one instant, all of it or *)
(* none of it, and it is a union.  What was there stays, and everything    *)
(* the bundle carries is there afterwards.  ImportBundle implements this.  *)
(***************************************************************************)

CONSTANTS
    Effect,         \* what the bundles carry: records of sessions and content
    LocalSession,   \* the sessions that are there before any import
    LocalMessage    \* the messages that are there before any import

VARIABLES
    sessions,  \* the sessions of state.db
    content    \* the messages of state.db

vars == <<sessions, content>>

Init ==
    /\ sessions = LocalSession
    /\ content = LocalMessage

Merge(e) ==
    /\ sessions' = sessions \cup e.sessions
    /\ content' = content \cup e.content

Next == \E e \in Effect : Merge(e)

Spec == Init /\ [][Next]_vars

=============================================================================
