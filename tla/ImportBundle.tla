---------------------------- MODULE ImportBundle ----------------------------
(***************************************************************************)
(* import_bundle of handoff_core.py: the merge of a bundle of sessions and *)
(* messages into hermes' state.db.  The broker runs it in the thread of    *)
(* the connection that sent push_session, so several may run at once: two  *)
(* phones that sync, or one that lost the answer and sends the bundle      *)
(* again.  Each has a connection of its own to the database.               *)
(*                                                                         *)
(* The transaction is the one of Python's sqlite3 module: `with conn' only *)
(* ends it.  It begins with the first INSERT, which takes the write lock   *)
(* of the database until the commit; what is read before that is read      *)
(* outside of it.  Other connections see a write when it is committed.     *)
(*                                                                         *)
(* A message is told apart by its session, by its text (standing for role, *)
(* content and the value of its time stamp) and by the form of the stamp.  *)
(* The stamp of a bundle is a JSON number; the column is REAL and makes a  *)
(* float of an integer, and the natural key is taken from str(timestamp),  *)
(* where 5 and 5.0 differ.                                                 *)
(*                                                                         *)
(* A definition marked "Wrong:" is a plausible bug in the one after it;    *)
(* no action uses it.                                                      *)
(***************************************************************************)
EXTENDS Integers, Sequences, FiniteSets

CONSTANTS
    Session,        \* the session ids
    Text,           \* role, content and time of a message
    Bundle,         \* the bundles phones send
    LocalSession,   \* the sessions hermes has made itself on this computer
    LocalMessage,   \* their messages
    Importer,       \* the threads that may run an import
    Nobody,         \* no thread
    MaxBusy,        \* environment: how many imports may run at once
    MaxImports      \* bound: how many imports are begun

Message == [session : Session, text : Text, form : {"int", "real"}]

ASSUME BundleAssumption ==
    Bundle \subseteq [sessions : Seq(Session), messages : Seq(Message)]
ASSUME LocalAssumption ==
    /\ LocalSession \subseteq Session
    /\ LocalMessage \subseteq {m \in Message : m.form = "real" /\ m.session \in LocalSession}
ASSUME ThreadAssumption ==
    /\ Nobody \notin Importer /\ IsFiniteSet(Importer)
    /\ MaxBusy \in Nat /\ MaxImports \in Nat

VARIABLES
    sessions,   \* the committed rows of table sessions
    copies,     \* for every message, how many committed rows of table messages hold it
    writer,     \* the importer whose transaction has the write lock
    import,     \* the imports, see ImportState
    begun,      \* how many imports have begun
    together    \* observation: two imports have run at the same time

vars == <<sessions, copies, writer, import, begun, together>>

\* What stands at the places of a sequence.
Elements(s) == {s[k] : k \in 1 .. Len(s)}

Empty == [sessions |-> <<>>, messages |-> <<>>]

ImportState ==
    [pc       : {"idle", "sessions", "insert", "messages"},
     bundle   : Bundle \cup {Empty},
     n        : Nat \ {0},           \* the place in the list that is worked off
     unread   : SUBSET Session,      \* target_sids whose keys are not loaded yet
     keys     : SUBSET Message,      \* existing_keys
     added    : SUBSET Session,      \* sessions inserted, not committed yet
     rows     : [Message -> Nat]]    \* messages inserted, not committed yet

NoRows == [m \in Message |-> 0]

Idle == [pc |-> "idle", bundle |-> Empty, n |-> 1, unread |-> {}, keys |-> {},
         added |-> {}, rows |-> NoRows]

TypeOK ==
    /\ sessions \in SUBSET Session
    /\ copies \in [Message -> Nat]
    /\ writer \in Importer \cup {Nobody}
    /\ import \in [Importer -> ImportState]
    /\ begun \in 0 .. MaxImports
    /\ together \in BOOLEAN

Init ==
    /\ sessions = LocalSession
    /\ copies = [m \in Message |-> IF m \in LocalMessage THEN 1 ELSE 0]
    /\ writer = Nobody
    /\ import = [i \in Importer |-> Idle]
    /\ begun = 0
    /\ together = FALSE

-----------------------------------------------------------------------------
(* Messages and their keys *)

\* _natural_key: the stamp goes in as it is written, as an integer or as a float.
NaturalKey(m) == [session |-> m.session, text |-> m.text, form |-> m.form]

\* The row that an INSERT of the message makes: the REAL column turns 5 into 5.0.
AsStored(m) == [m EXCEPT !.form = "real"]

-----------------------------------------------------------------------------
(* The connection of an importer *)

pc(i) == import[i].pc
CurrentSession(i) == import[i].bundle.sessions[import[i].n]
CurrentMessage(i) == import[i].bundle.messages[import[i].n]
SessionsLeft(i) == import[i].n <= Len(import[i].bundle.sessions)
MessagesLeft(i) == import[i].n <= Len(import[i].bundle.messages)

\* What a SELECT on the connection of i sees: the committed rows and its own.
SeesSession(i, s) == s \in sessions \cup import[i].added
SeesMessage(i, m) == copies[m] + import[i].rows[m] > 0

\* An INSERT waits for the write lock; the transaction keeps it.
MayWrite(i) == writer \in {Nobody, i}

Busy == {i \in Importer : pc(i) # "idle"}

Release(i) == IF writer = i THEN Nobody ELSE writer

-----------------------------------------------------------------------------
(* import_bundle *)

\* A push_session arrives.
Begin(i, b) ==
    /\ pc(i) = "idle"
    /\ Cardinality(Busy) < MaxBusy
    /\ begun < MaxImports
    /\ begun' = begun + 1
    /\ together' = (together \/ Busy # {})
    /\ import' = [import EXCEPT ![i] = [Idle EXCEPT !.pc = "sessions", !.bundle = b]]
    /\ UNCHANGED <<sessions, copies, writer>>

\* SELECT 1 FROM sessions: a session that exists is passed over.
LookForSession(i) ==
    /\ pc(i) = "sessions" /\ SessionsLeft(i)
    /\ import' = IF SeesSession(i, CurrentSession(i))
                 THEN [import EXCEPT ![i].n = @ + 1]
                 ELSE [import EXCEPT ![i].pc = "insert"]
    /\ UNCHANGED <<sessions, copies, writer, begun, together>>

\* Wrong: the sessions are committed one by one.
InsertSessionAlone(i) ==
    /\ pc(i) = "insert"
    /\ MayWrite(i)
    /\ sessions' = sessions \cup {CurrentSession(i)}
    /\ import' = [import EXCEPT ![i].pc = "sessions", ![i].n = @ + 1]
    /\ UNCHANGED <<copies, writer, begun, together>>

\* INSERT OR IGNORE INTO sessions: somebody may have inserted it since.
InsertSession(i) ==
    /\ pc(i) = "insert"
    /\ MayWrite(i)
    /\ writer' = i
    /\ import' = [import EXCEPT ![i].pc = "sessions", ![i].n = @ + 1,
                                ![i].added = @ \cup {CurrentSession(i)}]
    /\ UNCHANGED <<sessions, copies, begun, together>>

\* Wrong: target_sids is what the bundle lists as its sessions.
SessionsDoneListed(i) ==
    /\ pc(i) = "sessions" /\ ~SessionsLeft(i)
    /\ import' = [import EXCEPT ![i].pc = "messages", ![i].n = 1,
                     ![i].unread = Elements(import[i].bundle.sessions)]
    /\ UNCHANGED <<sessions, copies, writer, begun, together>>

\* The sessions are through; target_sids is what the messages name.
SessionsDone(i) ==
    /\ pc(i) = "sessions" /\ ~SessionsLeft(i)
    /\ import' = [import EXCEPT ![i].pc = "messages", ![i].n = 1,
                     ![i].unread = {m.session : m \in Elements(import[i].bundle.messages)}]
    /\ UNCHANGED <<sessions, copies, writer, begun, together>>

\* SELECT ... FROM messages of one session, into existing_keys.
LoadKeys(i, s) ==
    /\ pc(i) = "messages" /\ s \in import[i].unread
    /\ import' = [import EXCEPT ![i].unread = @ \ {s},
                     ![i].keys = @ \cup
                        {NaturalKey(m) : m \in {x \in Message : x.session = s /\ SeesMessage(i, x)}}]
    /\ UNCHANGED <<sessions, copies, writer, begun, together>>

SkipMessage(i) ==
    /\ pc(i) = "messages" /\ import[i].unread = {} /\ MessagesLeft(i)
    /\ NaturalKey(CurrentMessage(i)) \in import[i].keys
    /\ import' = [import EXCEPT ![i].n = @ + 1]
    /\ UNCHANGED <<sessions, copies, writer, begun, together>>

\* INSERT INTO messages, and existing_keys.add.
InsertMessage(i) ==
    /\ pc(i) = "messages" /\ import[i].unread = {} /\ MessagesLeft(i)
    /\ NaturalKey(CurrentMessage(i)) \notin import[i].keys
    /\ MayWrite(i)
    /\ writer' = i
    /\ import' = [import EXCEPT ![i].n = @ + 1,
                                ![i].rows[AsStored(CurrentMessage(i))] = @ + 1,
                                ![i].keys = @ \cup {NaturalKey(CurrentMessage(i))}]
    /\ UNCHANGED <<sessions, copies, begun, together>>

\* The end of `with conn'.
Commit(i) ==
    /\ pc(i) = "messages" /\ import[i].unread = {} /\ ~MessagesLeft(i)
    /\ sessions' = sessions \cup import[i].added
    /\ copies' = [m \in Message |-> copies[m] + import[i].rows[m]]
    /\ writer' = Release(i)
    /\ import' = [import EXCEPT ![i] = Idle]
    /\ UNCHANGED <<begun, together>>

\* Wrong: an import that fails keeps what it has inserted so far.
FailKeeping(i) ==
    /\ pc(i) # "idle"
    /\ sessions' = sessions \cup import[i].added
    /\ copies' = [m \in Message |-> copies[m] + import[i].rows[m]]
    /\ writer' = Release(i)
    /\ import' = [import EXCEPT ![i] = Idle]
    /\ UNCHANGED <<begun, together>>

\* The lock does not come within the busy timeout, the disk is full, a row is
\* refused, or the process dies: the transaction is rolled back.
Fail(i) ==
    /\ pc(i) # "idle"
    /\ writer' = Release(i)
    /\ import' = [import EXCEPT ![i] = Idle]
    /\ UNCHANGED <<sessions, copies, begun, together>>

-----------------------------------------------------------------------------
Step(i) ==
    \/ \E b \in Bundle : Begin(i, b)
    \/ LookForSession(i) \/ InsertSession(i) \/ SessionsDone(i)
    \/ \E s \in Session : LoadKeys(i, s)
    \/ SkipMessage(i) \/ InsertMessage(i)
    \/ Commit(i) \/ Fail(i)

Next == \E i \in Importer : Step(i)

Spec == Init /\ [][Next]_vars

-----------------------------------------------------------------------------
(* Properties *)

\* No message is in the database twice, however often bundles that overlap are
\* imported, fail half-way and are sent again: the natural-key dedup is complete.
NoDuplicates == \A m \in Message : copies[m] <= 1

\* A row whose stamp no bundle writes as an integer.
SameKey(m) ==
    /\ m.form = "real"
    /\ \A b \in Bundle : [m EXCEPT !.form = "int"] \notin Elements(b.messages)

\* The same as far as it is true: as long as no two imports have run at the same time,
\* and of messages that have one key wherever they are.
NoDuplicatesInTurn ==
    ~together => \A m \in Message : SameKey(m) => copies[m] <= 1

\* The one bundle that brings a conversation begun on the phone.
BringsNew(b, s) ==
    /\ s \notin LocalSession
    /\ \A c \in Bundle : s \in Elements(c.sessions) <=> c = b
    /\ \A c \in Bundle : \A m \in Elements(c.messages) :
         m.session = s => c = b /\ m.form = "real"

\* Also when imports overlap: the messages of a conversation begun on the phone are
\* stored once, since the INSERT of its session takes the write lock before the
\* keys are read.
NewIsStoredOnce ==
    \A b \in Bundle : \A m \in Message : BringsNew(b, m.session) => copies[m] <= 1

\* An import takes effect at its commit, all of it at once, as a union with what is
\* there by then, however many run at the same time and wherever they fail.
Merge == INSTANCE ConversationMerge WITH
    Effect  <- {[sessions |-> Elements(b.sessions),
                 content  |-> {AsStored(m) : m \in Elements(b.messages)}] : b \in Bundle},
    content <- {m \in Message : copies[m] > 0}

MergesAsOne == Merge!Spec

-----------------------------------------------------------------------------
(* The inductive invariant behind MergesAsOne *)

\* An importer passes over nothing that is not there: what is behind its place in a
\* list, and every key it has loaded, is in the database or in its own transaction.
MissesNothing(i) ==
    /\ \A k \in 1 .. Len(import[i].bundle.sessions) :
           pc(i) = "messages" \/ k < import[i].n =>
               SeesSession(i, import[i].bundle.sessions[k])
    /\ pc(i) = "messages" =>
           \A k \in 1 .. Len(import[i].bundle.messages) : k < import[i].n =>
               SeesMessage(i, AsStored(import[i].bundle.messages[k]))
    /\ \A m \in import[i].keys : SeesMessage(i, AsStored(m))

\* An importer inserts nothing that its bundle does not carry.
AddsNothingElse(i) ==
    /\ pc(i) = "insert" => SessionsLeft(i)
    /\ import[i].added \subseteq Elements(import[i].bundle.sessions)
    /\ \A m \in Message : import[i].rows[m] > 0 =>
           \E x \in Elements(import[i].bundle.messages) : m = AsStored(x)

\* The database keeps stamps as floats.
StampsAreFloats == \A m \in Message : copies[m] > 0 => m.form = "real"

IInv ==
    /\ TypeOK
    /\ StampsAreFloats
    /\ \A i \in Importer : MissesNothing(i) /\ AddsNothingElse(i)

\* The inductive invariant behind NoDuplicatesInTurn.
SerialInv ==
    ~together =>
        /\ \A i, j \in Importer : pc(i) # "idle" /\ pc(j) # "idle" => i = j
        /\ \A i \in Importer :
             /\ pc(i) # "messages" => import[i].rows = NoRows
             /\ \A m \in Message : SameKey(m) => copies[m] + import[i].rows[m] <= 1
             /\ pc(i) = "messages" =>
                  \A m \in Elements(import[i].bundle.messages) :
                      SameKey(m) /\ m.session \notin import[i].unread /\ SeesMessage(i, m)
                          => m \in import[i].keys
        /\ NoDuplicatesInTurn

(* The inductive invariant behind NewIsStoredOnce *)

\* Who has inserted something, a session first, holds the write lock.
HoldsLock(i) ==
    /\ import[i].added # {} \/ import[i].rows # NoRows => writer = i
    /\ pc(i) # "messages" => import[i].rows = NoRows

\* A conversation begun on the phone is there with all that its bundle brings, or not
\* at all.
AllOrNothing(b, s) ==
    /\ \A m \in Message : m.session = s =>
         copies[m] <= 1 /\ (s \notin sessions => copies[m] = 0)
    /\ s \in sessions =>
         \A m \in Elements(b.messages) : m.session = s => copies[m] = 1

\* Its messages are inserted only by who adds the session, while it is not there.
InsertsNew(i, s) ==
    /\ \A m \in Message : m.session = s =>
         /\ import[i].rows[m] <= 1
         /\ import[i].rows[m] > 0 => s \in import[i].added \ sessions
    /\ pc(i) = "messages" /\ s \notin import[i].unread =>
         \A m \in Elements(import[i].bundle.messages) :
             m.session = s /\ SeesMessage(i, m) => m \in import[i].keys

NewInv ==
    /\ \A i \in Importer : HoldsLock(i)
    /\ \A b \in Bundle, s \in Session : BringsNew(b, s) =>
         AllOrNothing(b, s) /\ \A i \in Importer : InsertsNew(i, s)
=============================================================================
