------------------------------ MODULE Handoff -------------------------------
(***************************************************************************)
(* Handing a conversation to a phone: the export of desktop_export.py and  *)
(* handoff_core.py, the two servers that send it (_op_pull of the broker   *)
(* and HandoffServer of the plugin, which answer alike), the phone's       *)
(* pull_session, the command line, and the single-owner lock.              *)
(*                                                                         *)
(* An export works on a private snapshot of state.db while hermes goes on  *)
(* writing.  The lock works on the live database: it resolves the chain of *)
(* sessions there, SELECT by SELECT, outside of a transaction, and writes  *)
(* all rows in one.  Of resolve_chain this module uses what ResolveChain   *)
(* shows of it: on a snapshot it returns the conversation, on the live     *)
(* database something between the conversation as it was when the call     *)
(* began and as it is when it ends.                                        *)
(*                                                                         *)
(* Two write to the database: hermes, which the lock keeps off what is     *)
(* archived, and import_bundle, which does not look at the lock.  Both     *)
(* only add: messages to a session, of which a count is all that matters   *)
(* here, and sessions.  archived and handoff_state are always written      *)
(* together, so the latter stands for both.  Of import_bundle this module  *)
(* uses what ImportBundle shows of it: an import happens at once.  The     *)
(* memory files of a bundle are in MemorySync, who may connect is in       *)
(* PeerTrust.                                                              *)
(*                                                                         *)
(* A definition marked "Wrong:" is a plausible bug in the one after it;    *)
(* no action uses it.                                                      *)
(***************************************************************************)
EXTENDS Integers, Sequences, FiniteSets

CONSTANTS
    Session,    \* the session ids
    NoSession,  \* no session id: of an idle thread, and of a session without parent
    Puller,     \* the connections over which phones pull
    Cli,        \* the runs of the command line, and the callers of release_handoff
    MaxWrites,  \* bound: how often hermes or an import writes
    MaxTasks    \* bound: how many pulls, exports and releases begin

ASSUME SessionAssumption == NoSession \notin Session
ASSUME ThreadAssumption == Puller \cap Cli = {}
ASSUME BoundAssumption == MaxWrites \in Nat /\ MaxTasks \in Nat

Thread == Puller \cup Cli

VARIABLES
    (* state.db *)
    live,           \* tables sessions and messages, see Database
    handoff_state,  \* its column, and the column archived
    columns,        \* the table has these columns (hermes 0.16.0)
    (* the processes *)
    thread,         \* the servers' threads and the command line, see ThreadState
    frames,         \* the answer on its way to the phone
    phone,          \* the phone's side of a pull, see PhoneState
    (* bounds and observations *)
    writes, tasks,
    views,          \* for every pull, what its conversation was at every instant since
    exported,       \* for every session, how many messages of it the command line wrote out
    brought,        \* how many messages imports have added to it since then
    imported,       \* the sessions that an import has made, and no lock reached since
    strayed         \* the sessions written to in the middle of a handoff

done == <<writes, tasks, views, exported, brought, imported, strayed>>
vars == <<live, handoff_state, columns, thread, frames, phone, done>>

Database ==
    [rows : SUBSET Session, parent : [Session -> Session \cup {NoSession}],
     messages : [Session -> Nat]]

\* What a bundle holds: rows of sessions, and how many messages of each.
Bundle == [sessions : SUBSET Session, messages : [Session -> Nat]]

Nothing == [sessions |-> {}, messages |-> [s \in Session |-> 0]]

ThreadState ==
    [pc     : {"idle", "snapshot", "guard", "resolve", "sessions", "messages",
               "ok", "bundle", "write", "lock", "chain", "update"},
     want   : Session \cup {NoSession},
     mark   : BOOLEAN,         \* the lock to set: completed, or failed
     snap   : Database,
     chain  : SUBSET Session,
     bundle : Bundle]

NoDatabase ==
    [rows |-> {}, parent |-> [s \in Session |-> NoSession], messages |-> [s \in Session |-> 0]]

Idle == [pc |-> "idle", want |-> NoSession, mark |-> FALSE, snap |-> NoDatabase,
         chain |-> {}, bundle |-> Nothing]

PhoneState ==
    [pc : {"idle", "ok", "bundle"}, want : Session \cup {NoSession}, got : SUBSET Bundle]

Frame == [kind : {"ok", "err", "bundle"}, bundle : Bundle]

HandoffState == {"none", "completed", "failed"}

pc(x) == thread[x].pc
want(x) == thread[x].want

TypeOK ==
    /\ live \in Database
    /\ handoff_state \in [Session -> HandoffState]
    /\ columns \in BOOLEAN
    /\ thread \in [Thread -> ThreadState]
    /\ frames \in [Puller -> Seq(Frame)]
    /\ phone \in [Puller -> PhoneState]
    /\ writes \in 0 .. MaxWrites
    /\ tasks \in 0 .. MaxTasks
    /\ views \in [Puller -> SUBSET Bundle]
    /\ exported \in [Session -> Nat \cup {-1}]
    /\ brought \in [Session -> Nat]
    /\ imported \in SUBSET Session
    /\ strayed \in SUBSET Session

Init ==
    /\ live \in [rows : SUBSET Session, parent : [Session -> Session \cup {NoSession}],
                 messages : [Session -> {0}]]
    /\ \A s \in Session \ live.rows : live.parent[s] = NoSession
    /\ handoff_state = [s \in Session |-> "none"]
    /\ columns \in BOOLEAN
    /\ thread = [x \in Thread |-> Idle]
    /\ frames = [x \in Puller |-> <<>>]
    /\ phone = [x \in Puller |-> [pc |-> "idle", want |-> NoSession, got |-> {}]]
    /\ writes = 0 /\ tasks = 0
    /\ views = [x \in Puller |-> {}]
    /\ exported = [s \in Session |-> -1]
    /\ brought = [s \in Session |-> 0]
    /\ imported = {} /\ strayed = {}

-----------------------------------------------------------------------------
(* Conversations *)

\* No parent link of a row leads into or out of the set.
Closed(S, d) ==
    \A r \in d.rows : d.parent[r] \in Session => (r \in S <=> d.parent[r] \in S)

\* What resolve_chain returns on a database that stays as it is.
Conversation(s, d) ==
    IF s \in d.rows
    THEN {t \in Session : \A S \in SUBSET Session : s \in S /\ Closed(S, d) => t \in S}
    ELSE {}

\* The bundle of a conversation at one instant.
View(s, d) ==
    [sessions |-> Conversation(s, d) \cap d.rows,
     messages |-> [t \in Session |-> IF t \in Conversation(s, d) THEN d.messages[t] ELSE 0]]

-----------------------------------------------------------------------------
(* export_for_handoff *)

Go(x, place) == thread' = [thread EXCEPT ![x].pc = place]
Finish(x) == thread' = [thread EXCEPT ![x] = Idle]

\* What is sent to a phone that has gone is lost.
Send(x, f) ==
    frames' = IF phone[x].pc = "idle" THEN frames ELSE [frames EXCEPT ![x] = Append(@, f)]

\* Wrong: the export reads the live database.
LiveSource(x) == live

\* The database that the export reads.
Source(x) == thread[x].snap

\* _snapshot: the backup API copies one state of the database.
Snapshot(x) ==
    /\ pc(x) = "snapshot"
    /\ thread' = [thread EXCEPT ![x].pc = "guard", ![x].snap = live]
    /\ UNCHANGED <<live, handoff_state, columns, frames, phone, done>>

\* _require_handoff_schema; without the columns Refuse is the only way on.
Guard(x) ==
    /\ pc(x) = "guard"
    /\ columns
    /\ Go(x, "resolve")
    /\ UNCHANGED <<live, handoff_state, columns, frames, phone, done>>

\* resolve_chain on the snapshot; of an unknown session nothing is exported.
Resolve(x) ==
    /\ pc(x) = "resolve"
    /\ Conversation(want(x), Source(x)) # {}
    /\ thread' = [thread EXCEPT ![x].pc = "sessions",
                                ![x].chain = Conversation(want(x), Source(x))]
    /\ UNCHANGED <<live, handoff_state, columns, frames, phone, done>>

\* SELECT FROM sessions WHERE id IN chain
SelectSessions(x) ==
    /\ pc(x) = "sessions"
    /\ thread' = [thread EXCEPT ![x].pc = "messages",
                                ![x].bundle.sessions = thread[x].chain \cap Source(x).rows]
    /\ UNCHANGED <<live, handoff_state, columns, frames, phone, done>>

\* SELECT FROM messages WHERE session_id IN chain; then the snapshot is removed.
SelectMessages(x) ==
    /\ pc(x) = "messages"
    /\ thread' = [thread EXCEPT
         ![x].pc = IF x \in Puller THEN "ok" ELSE "write",
         ![x].snap = NoDatabase, ![x].chain = {},
         ![x].bundle.messages =
             [t \in Session |-> IF t \in thread[x].chain THEN Source(x).messages[t] ELSE 0]]
    /\ UNCHANGED <<live, handoff_state, columns, frames, phone, done>>

-----------------------------------------------------------------------------
(* The servers: _op_pull, and _handle of HandoffServer *)

\* A request arrives.
Ask(x, s) ==
    /\ pc(x) = "idle" /\ phone[x].pc = "idle"
    /\ tasks < MaxTasks
    /\ tasks' = tasks + 1
    /\ thread' = [thread EXCEPT ![x] = [Idle EXCEPT !.pc = "snapshot", !.want = s]]
    /\ phone' = [phone EXCEPT ![x].pc = "ok", ![x].want = s]
    /\ views' = [views EXCEPT ![x] = {View(s, live)}]
    /\ UNCHANGED <<live, handoff_state, columns, frames, writes,
                   exported, brought, imported, strayed>>

SendOk(x) ==
    /\ pc(x) = "ok"
    /\ Send(x, [kind |-> "ok", bundle |-> Nothing])
    /\ Go(x, "bundle")
    /\ UNCHANGED <<live, handoff_state, columns, phone, done>>

\* The bundle, encrypted for this phone; then the connection is closed.
SendBundle(x) ==
    /\ pc(x) = "bundle"
    /\ Send(x, [kind |-> "bundle", bundle |-> thread[x].bundle])
    /\ Finish(x)
    /\ UNCHANGED <<live, handoff_state, columns, phone, done>>

(***************************************************************************)
(* The session is unknown, the schema is too old, a file or statement      *)
(* fails, or the phone has gone: an error is sent for as long as that is   *)
(* possible, and the connection is closed.  Also after the ok: the phone   *)
(* then finds an error where the bundle should be.                         *)
(***************************************************************************)
Refuse(x) ==
    /\ pc(x) \in {"snapshot", "guard", "resolve", "sessions", "messages", "ok", "bundle"}
    /\ \/ Send(x, [kind |-> "err", bundle |-> Nothing])
       \/ UNCHANGED frames
    /\ Finish(x)
    /\ UNCHANGED <<live, handoff_state, columns, phone, done>>

-----------------------------------------------------------------------------
(* pull_session *)

\* The phone has the ok frame and waits for the bundle.
ReadOk(x) ==
    /\ phone[x].pc = "ok" /\ frames[x] # <<>> /\ Head(frames[x]).kind = "ok"
    /\ phone' = [phone EXCEPT ![x].pc = "bundle"]
    /\ frames' = [frames EXCEPT ![x] = Tail(@)]
    /\ UNCHANGED <<live, handoff_state, columns, thread, done>>

\* The connection is closed on the phone's side, with what it has taken.
Leave(x, bundles) ==
    /\ phone' = [phone EXCEPT ![x] = [pc |-> "idle", want |-> NoSession,
                                      got |-> @.got \cup bundles]]
    /\ frames' = [frames EXCEPT ![x] = <<>>]
    /\ views' = [views EXCEPT ![x] = {}]
    /\ UNCHANGED <<live, handoff_state, columns, thread, writes, tasks,
                   exported, brought, imported, strayed>>

\* Wrong: the blob is taken for the bundle without looking.
ReadAnything(x) ==
    /\ phone[x].pc = "bundle" /\ frames[x] # <<>>
    /\ Leave(x, {Head(frames[x]).bundle})

\* The second frame: only what this server encrypted as a bundle can be decrypted.
ReadBundle(x) ==
    /\ phone[x].pc = "bundle" /\ frames[x] # <<>> /\ Head(frames[x]).kind = "bundle"
    /\ Leave(x, {Head(frames[x]).bundle})

\* An error, an undecipherable frame, or a connection that was closed (the thread
\* has nothing more to send): the pull raises.
GiveUp(x) ==
    /\ \/ phone[x].pc # "idle" /\ frames[x] # <<>> /\ Head(frames[x]).kind = "err"
       \/ phone[x].pc # "idle" /\ frames[x] = <<>> /\ thread[x] = Idle
    /\ Leave(x, {})

\* The 15 seconds are over, or the network is gone.
TimeOut(x) ==
    /\ phone[x].pc # "idle"
    /\ Leave(x, {})

-----------------------------------------------------------------------------
(* The command line: _main *)

CliExport(x, s) ==
    /\ pc(x) = "idle"
    /\ tasks < MaxTasks
    /\ tasks' = tasks + 1
    /\ thread' = [thread EXCEPT ![x] =
                      [Idle EXCEPT !.pc = "snapshot", !.want = s, !.mark = TRUE]]
    /\ UNCHANGED <<live, handoff_state, columns, frames, phone, writes, views,
                   exported, brought, imported, strayed>>

\* os.replace of the bundle's file; then, with --mark, mark_handed_off.
CliWrite(x) ==
    /\ pc(x) = "write"
    /\ exported' = [s \in Session |->
                       IF s \in thread[x].bundle.sessions
                       THEN thread[x].bundle.messages[s] ELSE exported[s]]
    /\ brought' = [s \in Session |-> IF s \in thread[x].bundle.sessions THEN 0 ELSE brought[s]]
    /\ Go(x, "lock")
    /\ UNCHANGED <<live, handoff_state, columns, frames, phone, writes, tasks, views,
                   imported, strayed>>

\* Wrong: a bundle that could not be written is marked as handed off all the same.
CliGoesOn(x) ==
    /\ pc(x) \notin {"idle", "lock", "chain", "update"}
    /\ Go(x, "lock")
    /\ UNCHANGED <<live, handoff_state, columns, frames, phone, done>>

\* A raised exception, an unknown session, or no --mark: the run ends, and what a
\* transaction has begun is rolled back.
CliEnds(x) ==
    /\ pc(x) # "idle"
    /\ Finish(x)
    /\ UNCHANGED <<live, handoff_state, columns, frames, phone, done>>

\* release_handoff is called.
Release(x, s) ==
    /\ pc(x) = "idle"
    /\ tasks < MaxTasks
    /\ tasks' = tasks + 1
    /\ thread' = [thread EXCEPT ![x] = [Idle EXCEPT !.pc = "lock", !.want = s]]
    /\ UNCHANGED <<live, handoff_state, columns, frames, phone, writes, views,
                   exported, brought, imported, strayed>>

-----------------------------------------------------------------------------
(* _set_lock, on the live database *)

\* _chain_for begins: from now on hermes may overtake it.
LockBegin(x) ==
    /\ pc(x) = "lock"
    /\ columns
    /\ thread' = [thread EXCEPT ![x].pc = "chain",
                                ![x].chain = Conversation(want(x), live)]
    /\ UNCHANGED <<live, handoff_state, columns, frames, phone, done>>

\* Wrong: only the session itself.
LockOne(x) ==
    /\ pc(x) = "chain"
    /\ thread' = [thread EXCEPT ![x].pc = "update", ![x].chain = {want(x)}]
    /\ UNCHANGED <<live, handoff_state, columns, frames, phone, done>>

\* _chain_for ends: the conversation, with or without what came in meanwhile.
LockChain(x) ==
    /\ pc(x) = "chain"
    /\ \E more \in SUBSET Conversation(want(x), live) :
         thread' = [thread EXCEPT ![x].pc = "update",
                                  ![x].chain = thread[x].chain \cup more \cup {want(x)}]
    /\ UNCHANGED <<live, handoff_state, columns, frames, phone, done>>

\* Wrong: a state that nothing else knows.
LockReleased(x) == IF thread[x].mark THEN "completed" ELSE "released"

\* mark_handed_off, or release_handoff.
Lock(x) == IF thread[x].mark THEN "completed" ELSE "failed"

\* The UPDATEs and the commit; rows that do not exist are not made.
Update(x) ==
    /\ pc(x) = "update"
    /\ handoff_state' = [s \in Session |-> IF s \in thread[x].chain \cap live.rows
                                           THEN Lock(x) ELSE handoff_state[s]]
    /\ imported' = imported \ (thread[x].chain \cap live.rows)
    /\ Finish(x)
    /\ UNCHANGED <<live, columns, frames, phone, writes, tasks, views,
                   exported, brought, strayed>>

-----------------------------------------------------------------------------
(* Hermes, and the imports *)

\* A handoff of the command line is between its snapshot and its end.
HandoffUnderWay == \E x \in Cli : pc(x) \notin {"idle", "snapshot"}

\* The conversations that hold one of these sessions.
Touched(T, d) ==
    UNION {c \in {Conversation(r, d) : r \in d.rows} : c \cap T # {}}

\* The database becomes d, by a transaction that adds to the sessions T.
Become(d, T) ==
    /\ writes < MaxWrites
    /\ live' = d
    /\ writes' = writes + 1
    /\ strayed' = IF HandoffUnderWay THEN strayed \cup Touched(T, d) ELSE strayed
    /\ views' = [x \in Puller |-> IF phone[x].pc = "idle" THEN views[x]
                                  ELSE views[x] \cup {View(phone[x].want, d)}]
    /\ UNCHANGED <<columns, thread, frames, phone, tasks, exported>>

(***************************************************************************)
(* The desktop writes: one more message of a session, or one more session. *)
(* It keeps off conversations that are archived, which is what the lock    *)
(* asks of it.  The session may be the missing parent of others.           *)
(***************************************************************************)
Write(s, d) ==
    /\ \A t \in Conversation(s, d) : handoff_state[t] # "completed"
    /\ Become(d, {s})
    /\ UNCHANGED <<handoff_state, brought, imported>>

AddMessage(s) ==
    /\ s \in live.rows
    /\ Write(s, [live EXCEPT !.messages[s] = @ + 1])

AddSession(s, p) ==
    /\ s \notin live.rows
    /\ Write(s, [live EXCEPT !.rows = @ \cup {s}, !.parent[s] = p])

\* How many messages more an import of one for each session of M makes.
More(s, M) == IF s \in M THEN 1 ELSE 0

\* The database after an import of the rows R with the parents p, and of the messages.
WithBundle(R, p, M) ==
    [rows     |-> live.rows \cup R,
     parent   |-> [s \in Session |-> IF s \in R THEN p[s] ELSE live.parent[s]],
     messages |-> [s \in Session |-> live.messages[s] + More(s, M)]]

(***************************************************************************)
(* import_bundle, run by the broker: rows that are missing come with the   *)
(* bundle's own columns, the lock among them if this table has it; rows    *)
(* that are there stay as they are.  Messages that are missing come to any *)
(* session, archived or not, also to one without a row.                    *)
(***************************************************************************)
Import(R, M) ==
    /\ R \cap live.rows = {} /\ R \cup M # {}
    /\ \E p \in [R -> Session \cup {NoSession}],
          lock \in [R -> IF columns THEN HandoffState ELSE {"none"}] :
         /\ Become(WithBundle(R, p, M), R \cup M)
         /\ handoff_state' = [s \in Session |-> IF s \in R THEN lock[s] ELSE handoff_state[s]]
    /\ brought' = [s \in Session |-> brought[s] + More(s, M)]
    /\ imported' = imported \cup R

-----------------------------------------------------------------------------
Export(x) ==
    Snapshot(x) \/ Guard(x) \/ Resolve(x) \/ SelectSessions(x) \/ SelectMessages(x)

Serve(x) == Export(x) \/ SendOk(x) \/ SendBundle(x) \/ Refuse(x)

Pull(x) == ReadOk(x) \/ ReadBundle(x) \/ GiveUp(x)

SetLock(x) == LockBegin(x) \/ LockChain(x) \/ Update(x)

Next ==
    \/ \E x \in Puller : Serve(x) \/ Pull(x) \/ TimeOut(x) \/ \E s \in Session : Ask(x, s)
    \/ \E x \in Cli : \/ Export(x) \/ CliWrite(x) \/ CliEnds(x) \/ SetLock(x)
                      \/ \E s \in Session : CliExport(x, s) \/ Release(x, s)
    \/ \E s \in Session : AddMessage(s) \/ \E p \in Session \cup {NoSession} : AddSession(s, p)
    \/ \E R, M \in SUBSET Session : Import(R, M)

Spec == Init /\ [][Next]_vars

-----------------------------------------------------------------------------
(* Properties *)

\* The bundle a phone is sent is its whole conversation as it was at one instant
\* between the request and the answer, whatever hermes wrote meanwhile.
BundleIsOneInstant ==
    \A x \in Puller : phone[x].pc # "idle" =>
        \A k \in 1 .. Len(frames[x]) :
            frames[x][k].kind = "bundle" => frames[x][k].bundle \in views[x]

\* What a phone has taken for a bundle is a conversation: an error after the ok, or a
\* connection that breaks off, never passes for an empty one.
NothingHalfTaken == \A x \in Puller : \A b \in phone[x].got : b.sessions # {}

\* The messages of a session that the command line wrote out, and those that imports
\* have added since.
Accounted == [s \in Session |-> exported[s] + brought[s]]

\* A session that is archived as handed off was exported with all its messages but those
\* an import has brought since; unless its row came archived with an import, or something
\* was written to its conversation during the handoff.
ArchivedWasSent ==
    \A s \in Session : handoff_state[s] = "completed" =>
        Accounted[s] = live.messages[s] \/ s \in imported \/ s \in strayed

\* A conversation is locked as a whole or not at all, through failures, a release, imports
\* of messages and handoffs that overlap; unless an import has added a session to it and no
\* lock was set since, or something was written to it in the middle of a handoff.
OneLock ==
    \A s \in live.rows : handoff_state[s] = "completed" =>
        \A t \in Conversation(s, live) \cap live.rows :
            \/ handoff_state[t] = "completed"
            \/ t \in strayed
            \/ Conversation(s, live) \cap imported # {}

=============================================================================
