---------------------------- MODULE ResolveChain -----------------------------
(***************************************************************************)
(* resolve_chain of handoff_core.py: which sessions make up the one        *)
(* conversation that a user sees.  It walks up from a session to the root  *)
(* of its chain and then collects all descendants of the root, one SELECT  *)
(* per session.                                                            *)
(*                                                                         *)
(* For an export it reads a private snapshot.  For the single-owner lock   *)
(* (_set_lock of desktop_export.py) it reads the live database, and hermes *)
(* or an import may insert sessions between any two of its statements.     *)
(* The parent links are what the bundles of other devices say: they may    *)
(* form a cycle, and a parent may be missing or arrive after its child.    *)
(*                                                                         *)
(* A definition marked "Wrong:" is a plausible bug in the one after it;    *)
(* no action uses it.                                                      *)
(***************************************************************************)
EXTENDS Integers, Sequences

CONSTANTS
    Session,    \* the session ids
    NoParent,   \* parent_session_id of a session that has none
    MaxInserts  \* bound: how many sessions are inserted during the call

ASSUME NoParentAssumption == NoParent \notin Session
ASSUME BoundAssumption == MaxInserts \in Nat

VARIABLES
    (* table sessions *)
    rows,       \* the ids that have a row
    parent,     \* parent_session_id of each of them
    (* the call *)
    session_id, \* its argument
    pc,         \* "up" in the first loop, "down" in the second, "done" after it
    root,
    seen_up,
    stack,      \* as a set: the order of the children is the database's
    chain,      \* the set `seen' of the code is what stands in it
    (* observations *)
    rowsAtCall, \* the rows when the call began
    inserts     \* how many sessions were inserted since

db   == <<rows, parent>>
call == <<session_id, pc, root, seen_up, stack, chain>>
vars == <<db, call, rowsAtCall, inserts>>

seen == {chain[k] : k \in 1 .. Len(chain)}

TypeOK ==
    /\ rows \in SUBSET Session
    /\ parent \in [Session -> Session \cup {NoParent}]
    /\ session_id \in Session
    /\ pc \in {"up", "down", "done"}
    /\ root \in Session
    /\ seen_up \in SUBSET Session
    /\ stack \in SUBSET Session
    /\ chain \in Seq(Session)
    /\ rowsAtCall \in SUBSET Session
    /\ inserts \in 0 .. MaxInserts

Init ==
    /\ rows \in SUBSET Session
    /\ parent \in [Session -> Session \cup {NoParent}]
    /\ \A s \in Session \ rows : parent[s] = NoParent
    /\ session_id \in Session
    /\ pc = "up"
    /\ root = session_id
    /\ seen_up = {}
    /\ stack = {}
    /\ chain = <<>>
    /\ rowsAtCall = rows
    /\ inserts = 0

-----------------------------------------------------------------------------
(* 1. walk up to the root *)

\* Wrong: only what is below the session itself is collected.
GoDownFromSession ==
    /\ pc' = "down"
    /\ stack' = {session_id}

\* The root is known: the second loop begins with it.
GoDown ==
    /\ pc' = "down"
    /\ stack' = {root}

\* Wrong: no guard against cycles.
NeverSeen == FALSE

\* The cycle guard.
SeenUp == root \in seen_up

UpCycle ==
    /\ pc = "up" /\ SeenUp
    /\ GoDown
    /\ UNCHANGED <<db, session_id, root, seen_up, chain, rowsAtCall, inserts>>

\* The session itself does not exist: the chain is empty.
UpNothing ==
    /\ pc = "up" /\ ~SeenUp
    /\ root \notin rows /\ root = session_id
    /\ seen_up' = seen_up \cup {root}
    /\ pc' = "done"
    /\ UNCHANGED <<db, session_id, root, stack, chain, rowsAtCall, inserts>>

\* A parent that does not exist ends the walk like one that has no parent.
UpEnds ==
    /\ pc = "up" /\ ~SeenUp
    /\ IF root \in rows THEN parent[root] = NoParent ELSE root # session_id
    /\ seen_up' = seen_up \cup {root}
    /\ GoDown
    /\ UNCHANGED <<db, session_id, root, chain, rowsAtCall, inserts>>

\* Up to the parent, which need not exist.
UpParent ==
    /\ pc = "up" /\ ~SeenUp
    /\ root \in rows /\ parent[root] \in Session
    /\ seen_up' = seen_up \cup {root}
    /\ root' = parent[root]
    /\ UNCHANGED <<db, session_id, pc, stack, chain, rowsAtCall, inserts>>

-----------------------------------------------------------------------------
(* 2. collect all descendants *)

\* Wrong: what was collected before is collected again.
Fresh(s) == TRUE

\* A session that is not in `seen' yet.
New(s) == s \notin seen

DownKnown ==
    /\ pc = "down"
    /\ \E s \in stack :
         /\ ~New(s)
         /\ stack' = stack \ {s}
    /\ UNCHANGED <<db, session_id, pc, root, seen_up, chain, rowsAtCall, inserts>>

\* Wrong: the comparison also finds the sessions without a parent.
ChildrenOrRoots(s) == {c \in rows : parent[c] \in {s, NoParent}}

Children(s) == {c \in rows : parent[c] = s}

DownNew ==
    /\ pc = "down"
    /\ \E s \in stack :
         /\ New(s)
         /\ chain' = Append(chain, s)
         /\ stack' = (stack \ {s}) \cup Children(s)
    /\ UNCHANGED <<db, session_id, pc, root, seen_up, rowsAtCall, inserts>>

Return ==
    /\ pc = "down" /\ stack = {}
    /\ pc' = "done"
    /\ UNCHANGED <<db, session_id, root, seen_up, stack, chain, rowsAtCall, inserts>>

-----------------------------------------------------------------------------
(* Hermes, or an import, inserts a session; the links of the others stay. *)
Insert(s, p) ==
    /\ pc # "done"
    /\ inserts < MaxInserts
    /\ s \notin rows
    /\ rows' = rows \cup {s}
    /\ parent' = [parent EXCEPT ![s] = p]
    /\ inserts' = inserts + 1
    /\ UNCHANGED <<call, rowsAtCall>>

CallStep ==
    \/ UpCycle \/ UpNothing \/ UpEnds \/ UpParent
    \/ DownKnown \/ DownNew \/ Return

Next ==
    \/ CallStep
    \/ \E s \in Session, p \in Session \cup {NoParent} : Insert(s, p)

Spec == Init /\ [][Next]_vars

(* The call is a loop in one thread: it goes on for as long as it can. *)
FairSpec == Spec /\ WF_vars(CallStep)

-----------------------------------------------------------------------------
(* Properties *)

(***************************************************************************)
(* A conversation is a set of ids that no parent link of a row leads into  *)
(* or out of.  Links to a parent that is missing count: they are what the  *)
(* children of a session that was not sent have in common.                 *)
(***************************************************************************)
Closed(S, R) ==
    \A x \in R : parent[x] \in Session => (x \in S <=> parent[x] \in S)

\* A session is in the chain at most once, whatever cycles the links form.
NoRepeats ==
    \A j, k \in 1 .. Len(chain) : chain[j] = chain[k] => j = k

\* What is returned is a whole conversation, as it was when the call began: the
\* session itself, and with every session its parent and all its children.
ReturnsAll ==
    pc = "done" /\ session_id \in rowsAtCall =>
        session_id \in seen /\ Closed(seen, rowsAtCall)

\* Nothing is returned that does not belong to the conversation by now.
ReturnsNothingElse ==
    \A S \in SUBSET Session : session_id \in S /\ Closed(S, rows) => seen \subseteq S

(***************************************************************************)
(* To its callers the whole of the call, with its loops and one statement  *)
(* after the other, is a single step that returns a conversation: all that *)
(* belonged to it when the call began, and nothing that does not by now.   *)
(***************************************************************************)
Lookup == INSTANCE ConversationLookup
          WITH returned <- pc = "done", result <- IF pc = "done" THEN seen ELSE {}

LooksUpConversation == Lookup!Spec

\* Neither a cycle nor sessions that are inserted all the time keep the call from
\* returning.
Returns == <>(pc = "done")

-----------------------------------------------------------------------------
(* The inductive invariant *)

\* The root heads the chain (export_session takes chain[0] for root_session_id).
RootFirst == chain # <<>> => chain[1] = root

\* The walk has left a path: who has the root, and the children that the walk came
\* by, has the session it began at.
PathKept ==
    /\ \A S \in SUBSET Session :
         /\ root \in S
         /\ \A x \in seen_up : x \in rows /\ parent[x] \in S => x \in S
         => seen_up \cup {session_id} \subseteq S
    /\ \A x \in seen_up :
         pc = "up" \/ x # root => x \in rows /\ parent[x] \in seen_up \cup {root}

\* Above the root there is nothing that the walk has not seen.
RootIsTop ==
    pc = "down" \/ (pc = "done" /\ chain # <<>>) =>
        /\ root \in seen_up
        /\ root \in stack \cup seen
        /\ root \in rowsAtCall => parent[root] \in seen_up \cup {NoParent}

\* The children of what is collected are collected or on the stack, and so is
\* the parent of everything that is, but the root's.
Collected ==
    /\ \A x \in rows \cap (rowsAtCall \cup seen_up) :
          parent[x] \in seen => x \in seen \cup stack
    /\ \A x \in seen \cup stack : x # root => x \in rows /\ parent[x] \in seen

\* Everything belongs to the conversation.
Belongs ==
    \A S \in SUBSET Session :
        session_id \in S /\ Closed(S, rows) => seen \cup stack \cup seen_up \cup {root} \subseteq S

\* Where the call is.
Places ==
    /\ rowsAtCall \subseteq rows
    /\ pc = "up" => chain = <<>> /\ stack = {}
    /\ pc = "done" => stack = {}
    /\ pc = "done" /\ chain = <<>> => session_id \notin rowsAtCall
    /\ pc = "down" /\ chain = <<>> => stack = {root}
    /\ pc = "down" => session_id \in rows

IInv == TypeOK /\ NoRepeats /\ RootFirst /\ PathKept /\ RootIsTop /\ Collected /\ Belongs /\ Places
=============================================================================
