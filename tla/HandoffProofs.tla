---------------------------- MODULE HandoffProofs ----------------------------
(***************************************************************************)
(* What a phone gets from a pull, and what the single-owner lock holds     *)
(* together, for any number of sessions, phones, handoffs that overlap,    *)
(* writes of hermes and imports.                                           *)
(*                                                                         *)
(* The argument follows the bundle on its way: the snapshot is one of the  *)
(* states the database has been in since the request (Exporting), what is  *)
(* selected from it step by step is the view of that state, and only such  *)
(* views are sent (Sent).  That it is not empty is carried along the same  *)
(* way, from the test in resolve_chain to the phone.                       *)
(*                                                                         *)
(* For the lock, what each run of the command line has in its hands is     *)
(* compared with the live database (Settled).  Conversations are the       *)
(* components of the graph of parent links: what hermes or an import adds  *)
(* leaves one alone or touches all of it (ConversationGrows), and then all *)
(* of it counts as strayed, if a handoff is under way.  An import when     *)
(* none is may reach what is archived: its messages are counted, and the   *)
(* sessions it makes are named.                                            *)
(***************************************************************************)
EXTENDS Handoff, TLAPS

-----------------------------------------------------------------------------
(* The inductive invariant *)

Waiting(x) == phone[x].pc # "idle"

\* Where the export of a thread stands: what it has so far, and which states of the
\* conversation its phone, if it still waits, may be sent.
Stands(t, waiting, states) ==
    /\ t.pc \in {"guard", "resolve", "sessions", "messages"} /\ waiting =>
         View(t.want, t.snap) \in states
    /\ t.pc \in {"sessions", "messages"} =>
         t.chain = Conversation(t.want, t.snap) /\ t.chain # {}
    /\ t.pc = "messages" => t.bundle.sessions = t.chain \cap t.snap.rows
    /\ t.pc \in {"ok", "bundle"} =>
         t.bundle.sessions # {} /\ (waiting => t.bundle \in states)

Exporting == \A x \in Puller : Stands(thread[x], Waiting(x), views[x])

\* The phone and the thread that answers it are about the same request.
SameRequest ==
    \A x \in Puller :
        /\ Waiting(x) => View(phone[x].want, live) \in views[x]
        /\ Waiting(x) /\ pc(x) # "idle" => want(x) = phone[x].want
        /\ pc(x) \in {"idle", "snapshot", "guard", "resolve", "sessions", "messages", "ok", "bundle"}

\* What is on its way to a phone.
Sent ==
    \A x \in Puller :
        /\ ~Waiting(x) => frames[x] = <<>>
        /\ \A k \in 1 .. Len(frames[x]) :
             frames[x][k].kind = "bundle" =>
               frames[x][k].bundle.sessions # {} /\ (Waiting(x) => frames[x][k].bundle \in views[x])

\* The types of what the lock is about.
LockTypes ==
    /\ handoff_state \in [Session -> HandoffState]
    /\ exported \in [Session -> Nat \cup {-1}] /\ brought \in [Session -> Nat]
    /\ imported \in SUBSET Session

\* Whoever works does so for a session.
HasSession == \A x \in Thread : pc(x) # "idle" => want(x) \in Session

HandoffInv ==
    TypeOK /\ Exporting /\ SameRequest /\ Sent /\ HasSession /\ NothingHalfTaken

-----------------------------------------------------------------------------
(* Facts about conversations *)

LEMMA ViewType ==
    ASSUME NEW s, NEW d \in Database
    PROVE  View(s, d) \in Bundle /\ Conversation(s, d) \in SUBSET Session
  <1>1. Conversation(s, d) \in SUBSET Session
    BY DEF Conversation
  <1>2. [t \in Session |-> IF t \in Conversation(s, d) THEN d.messages[t] ELSE 0]
          \in [Session -> Nat]
    BY DEF Database
  <1>3. QED
    BY <1>1, <1>2 DEF View, Bundle

\* A conversation that is not empty has the session it was asked for, and its row.
LEMMA ConversationHasSession ==
    ASSUME NEW s, NEW d \in Database, Conversation(s, d) # {}
    PROVE  s \in Conversation(s, d) \cap d.rows
  BY DEF Conversation, Database

-----------------------------------------------------------------------------
(* Facts about single steps *)

Place == {"idle", "snapshot", "guard", "resolve", "sessions", "messages",
          "ok", "bundle", "write", "lock", "chain", "update"}

Shape(r, p, w, m, d, c, b) ==
    /\ r \in ThreadState
    /\ r.pc = p /\ r.want = w /\ r.mark = m /\ r.snap = d /\ r.chain = c /\ r.bundle = b

\* An update of a field of a thread keeps the type and the other fields.
LEMMA PcUpdate ==
    ASSUME NEW s \in ThreadState, NEW v \in Place
    PROVE  Shape([s EXCEPT !.pc = v], v, s.want, s.mark, s.snap, s.chain, s.bundle)
  BY DEF ThreadState, Shape, Place

LEMMA SnapUpdate ==
    ASSUME NEW s \in ThreadState, NEW v \in Database
    PROVE  Shape([s EXCEPT !.snap = v], s.pc, s.want, s.mark, v, s.chain, s.bundle)
  BY DEF ThreadState, Shape

LEMMA ChainUpdate ==
    ASSUME NEW s \in ThreadState, NEW v \in SUBSET Session
    PROVE  Shape([s EXCEPT !.chain = v], s.pc, s.want, s.mark, s.snap, v, s.bundle)
  BY DEF ThreadState, Shape

LEMMA BundleUpdate ==
    ASSUME NEW s \in ThreadState, NEW v \in Bundle
    PROVE  Shape([s EXCEPT !.bundle = v], s.pc, s.want, s.mark, s.snap, s.chain, v)
  BY DEF ThreadState, Shape

LEMMA BundleFields ==
    ASSUME NEW b \in Bundle, NEW S \in SUBSET Session, NEW f \in [Session -> Nat]
    PROVE  /\ [b EXCEPT !.sessions = S] \in Bundle
           /\ [b EXCEPT !.sessions = S].sessions = S
           /\ [b EXCEPT !.messages = f] = [sessions |-> b.sessions, messages |-> f]
           /\ [b EXCEPT !.messages = f] \in Bundle
  BY DEF Bundle

\* What the update of a thread comes to.
LEMMA ThreadUpdate ==
    ASSUME TypeOK, NEW x \in Thread, NEW r \in ThreadState, thread' = [thread EXCEPT ![x] = r]
    PROVE  /\ thread' \in [Thread -> ThreadState]
           /\ \A y \in Thread : thread'[y] = IF y = x THEN r ELSE thread[y]
  BY DEF TypeOK

LEMMA IdleType == Idle \in ThreadState /\ Idle.pc = "idle" /\ Nothing \in Bundle
  <1>1. NoDatabase \in Database
    BY DEF NoDatabase, Database
  <1>2. Nothing \in Bundle
    BY DEF Nothing, Bundle
  <1>3. QED
    BY <1>1, <1>2 DEF Idle, ThreadState

LEMMA GoType ==
    ASSUME TypeOK, NEW x \in Thread, NEW p \in Place, Go(x, p)
    PROVE  \E r \in ThreadState :
             /\ thread' = [thread EXCEPT ![x] = r]
             /\ r.pc = p /\ r.want = want(x) /\ r.snap = thread[x].snap
             /\ r.chain = thread[x].chain /\ r.bundle = thread[x].bundle
  <1>1. thread[x] \in ThreadState
    BY DEF TypeOK
  <1>2. thread' = [thread EXCEPT ![x] = [thread[x] EXCEPT !.pc = p]]
    BY DEF Go
  <1>3. QED
    BY <1>1, <1>2, PcUpdate DEF Shape, want

-----------------------------------------------------------------------------
(* Every step keeps the invariant *)

Serving == {"idle", "snapshot", "guard", "resolve", "sessions", "messages", "ok", "bundle"}

\* A step of one thread, and what it sends.
LEMMA ThreadSends ==
    ASSUME HandoffInv, NEW x \in Thread, NEW r \in ThreadState,
           thread' = [thread EXCEPT ![x] = r],
           r.pc # "idle" => r.want \in Session,
           x \in Puller => /\ Stands(r, Waiting(x), views[x])
                           /\ r.pc \in Serving
                           /\ r.pc # "idle" => pc(x) # "idle" /\ r.want = want(x),
           frames' \in [Puller -> Seq(Frame)], Sent',
           UNCHANGED <<live, columns, phone, views, writes, strayed>>,
           LockTypes', tasks' \in 0 .. MaxTasks
    PROVE  HandoffInv'
  <1>1. /\ thread' \in [Thread -> ThreadState]
        /\ \A y \in Thread : thread'[y] = IF y = x THEN r ELSE thread[y]
    BY ThreadUpdate DEF HandoffInv
  <1>2. TypeOK'
    BY <1>1 DEF HandoffInv, TypeOK, LockTypes
  <1>3. Exporting'
    <2> SUFFICES ASSUME NEW y \in Puller PROVE Stands(thread'[y], Waiting(y), views[y])
      BY DEF Exporting, Waiting
    <2>1. Stands(thread[y], Waiting(y), views[y])
      BY DEF HandoffInv, Exporting
    <2>2. QED
      BY <1>1, <2>1, Zenon DEF Thread
  <1>4. SameRequest'
    BY <1>1 DEF HandoffInv, SameRequest, Waiting, pc, want, Thread, Serving
  <1>5. Sent' /\ NothingHalfTaken'
    BY DEF HandoffInv, NothingHalfTaken
  <1>6. HasSession'
    BY <1>1 DEF HandoffInv, HasSession, pc, want
  <1>7. QED
    BY <1>2, <1>3, <1>4, <1>5, <1>6 DEF HandoffInv

\* A step of one thread that sends nothing.
LEMMA ThreadKeeps ==
    ASSUME HandoffInv, NEW x \in Thread, NEW r \in ThreadState,
           thread' = [thread EXCEPT ![x] = r],
           r.pc # "idle" => r.want \in Session,
           x \in Puller => /\ Stands(r, Waiting(x), views[x])
                           /\ r.pc \in Serving
                           /\ r.pc # "idle" => pc(x) # "idle" /\ r.want = want(x),
           UNCHANGED <<live, columns, frames, phone, views, writes, strayed>>,
           LockTypes', tasks' \in 0 .. MaxTasks
    PROVE  HandoffInv'
  <1>1. frames' \in [Puller -> Seq(Frame)] /\ Sent'
    BY DEF HandoffInv, TypeOK, Sent, Waiting
  <1>2. QED
    BY <1>1, ThreadSends

\* The export: one step, by where the thread stands.
ExportStep(x, t, r) ==
    \/ t.pc = "snapshot" /\ Shape(r, "guard", t.want, t.mark, live, t.chain, t.bundle)
    \/ t.pc = "guard" /\ Shape(r, "resolve", t.want, t.mark, t.snap, t.chain, t.bundle)
    \/ /\ t.pc = "resolve" /\ Conversation(t.want, t.snap) # {}
       /\ Shape(r, "sessions", t.want, t.mark, t.snap, Conversation(t.want, t.snap), t.bundle)
    \/ /\ t.pc = "sessions"
       /\ Shape(r, "messages", t.want, t.mark, t.snap, t.chain, r.bundle)
       /\ r.bundle.sessions = t.chain \cap t.snap.rows
    \/ /\ t.pc = "messages"
       /\ Shape(r, IF x \in Puller THEN "ok" ELSE "write", t.want, t.mark, NoDatabase, {}, r.bundle)
       /\ r.bundle =
            [sessions |-> t.bundle.sessions,
             messages |-> [s \in Session |-> IF s \in t.chain THEN t.snap.messages[s] ELSE 0]]

LEMMA ExportUpdate ==
    ASSUME TypeOK, NEW x \in Thread, Export(x)
    PROVE  \E r \in ThreadState :
             thread' = [thread EXCEPT ![x] = r] /\ ExportStep(x, thread[x], r)
  <1> DEFINE t == thread[x]
  <1>1. t \in ThreadState /\ t.snap \in Database /\ t.bundle \in Bundle /\ live \in Database
    BY DEF TypeOK, ThreadState
  <1>2. CASE Snapshot(x)
    <2> DEFINE q == [t EXCEPT !.pc = "guard"]
               r == [q EXCEPT !.snap = live]
    <2>1. thread' = [thread EXCEPT ![x] = r] /\ t.pc = "snapshot"
      BY <1>2 DEF Snapshot, TypeOK, pc
    <2>2. Shape(q, "guard", t.want, t.mark, t.snap, t.chain, t.bundle)
      BY <1>1, PcUpdate DEF Place
    <2> HIDE DEF q
    <2>3. Shape(r, "guard", t.want, t.mark, live, t.chain, t.bundle)
      BY <1>1, <2>2, SnapUpdate DEF Shape
    <2> HIDE DEF r
    <2>4. QED
      BY <2>1, <2>3 DEF Shape, ExportStep
  <1>3. CASE Guard(x)
    <2> DEFINE r == [t EXCEPT !.pc = "resolve"]
    <2>1. thread' = [thread EXCEPT ![x] = r] /\ t.pc = "guard"
      BY <1>3 DEF Guard, Go, TypeOK, pc
    <2>2. Shape(r, "resolve", t.want, t.mark, t.snap, t.chain, t.bundle)
      BY <1>1, PcUpdate DEF Place
    <2> HIDE DEF r
    <2>3. QED
      BY <2>1, <2>2 DEF Shape, ExportStep
  <1>4. CASE Resolve(x)
    <2> DEFINE c == Conversation(t.want, t.snap)
               q == [t EXCEPT !.pc = "sessions"]
               r == [q EXCEPT !.chain = c]
    <2>1. thread' = [thread EXCEPT ![x] = r] /\ t.pc = "resolve" /\ c # {}
      BY <1>4 DEF Resolve, TypeOK, Source, pc, want
    <2>2. Shape(q, "sessions", t.want, t.mark, t.snap, t.chain, t.bundle)
      BY <1>1, PcUpdate DEF Place
    <2> HIDE DEF q
    <2>3. c \in SUBSET Session
      BY <1>1, ViewType
    <2>4. Shape(r, "sessions", t.want, t.mark, t.snap, c, t.bundle)
      BY <2>2, <2>3, ChainUpdate DEF Shape
    <2> HIDE DEF r
    <2>5. QED
      BY <2>1, <2>4 DEF Shape, ExportStep
  <1>5. CASE SelectSessions(x)
    <2> DEFINE S == t.chain \cap t.snap.rows
               b == [t.bundle EXCEPT !.sessions = S]
               q == [t EXCEPT !.pc = "messages"]
               r == [q EXCEPT !.bundle = b]
    <2>1. t.pc = "sessions"
      BY <1>5 DEF SelectSessions, pc
    <2>2. Shape(q, "messages", t.want, t.mark, t.snap, t.chain, t.bundle)
      BY <1>1, PcUpdate DEF Place
    <2>3. thread' = [thread EXCEPT ![x] = r]
      <3>1. thread' = [thread EXCEPT ![x] = [[t EXCEPT !.pc = "messages"]
                                                EXCEPT !.bundle = [@ EXCEPT !.sessions = S]]]
        BY <1>5 DEF SelectSessions, TypeOK, Source
      <3>2. q.bundle = t.bundle
        BY <2>2 DEF Shape
      <3>3. QED
        BY <3>1, <3>2
    <2> HIDE DEF q
    <2>4. b \in Bundle /\ b.sessions = S
      <3>1. S \in SUBSET Session
        BY <1>1 DEF Database
      <3>2. QED
        BY <1>1, <3>1, BundleFields DEF Bundle
    <2> HIDE DEF b
    <2>5. Shape(r, "messages", t.want, t.mark, t.snap, t.chain, b)
      BY <2>2, <2>4, BundleUpdate DEF Shape
    <2> HIDE DEF r
    <2>6. QED
      BY <2>1, <2>3, <2>4, <2>5 DEF Shape, ExportStep
  <1>6. CASE SelectMessages(x)
    <2> DEFINE p == IF x \in Puller THEN "ok" ELSE "write"
               f == [s \in Session |-> IF s \in t.chain THEN t.snap.messages[s] ELSE 0]
               b == [t.bundle EXCEPT !.messages = f]
               q == [t EXCEPT !.pc = p]
               u == [q EXCEPT !.snap = NoDatabase]
               v == [u EXCEPT !.chain = {}]
               r == [v EXCEPT !.bundle = b]
    <2>1. t.pc = "messages"
      BY <1>6 DEF SelectMessages, pc
    <2>2. Shape(q, p, t.want, t.mark, t.snap, t.chain, t.bundle)
      BY <1>1, PcUpdate DEF Place
    <2>3. f \in [Session -> Nat]
      BY <1>1 DEF Database
    <2>4. b \in Bundle /\ b = [sessions |-> t.bundle.sessions, messages |-> f]
      <3> HIDE DEF f
      <3>1. QED
        BY <1>1, <2>3, BundleFields DEF Bundle
    <2>5. Shape(u, p, t.want, t.mark, NoDatabase, t.chain, t.bundle)
      <3> HIDE DEF q, p
      <3>1. NoDatabase \in Database
        BY DEF NoDatabase, Database
      <3>2. QED
        BY <2>2, <3>1, SnapUpdate DEF Shape
    <2>6. Shape(v, p, t.want, t.mark, NoDatabase, {}, t.bundle)
      <3> HIDE DEF u, p
      <3>1. QED
        BY <2>5, ChainUpdate DEF Shape
    <2>7. Shape(r, p, t.want, t.mark, NoDatabase, {}, b)
      <3> HIDE DEF v, p, b
      <3>1. QED
        BY <2>4, <2>6, BundleUpdate DEF Shape
    <2>8. thread' = [thread EXCEPT ![x] = r]
      <3>1. v.bundle = t.bundle
        BY <2>6 DEF Shape
      <3>2. thread' = [thread EXCEPT ![x] = [v EXCEPT !.bundle = [@ EXCEPT !.messages = f]]]
        <4>1. thread' = [thread EXCEPT ![x].pc = p, ![x].snap = NoDatabase, ![x].chain = {},
                                       ![x].bundle.messages = f]
          BY <1>6 DEF SelectMessages, Source
        <4> DEFINE T == [thread EXCEPT ![x] = v]
        <4>2. T = [thread EXCEPT ![x].pc = p, ![x].snap = NoDatabase, ![x].chain = {}]
          <5> HIDE DEF p, f
          <5>1. QED
            BY DEF TypeOK
        <4>3. thread' = [T EXCEPT ![x].bundle.messages = f]
          <5> HIDE DEF p, f, T
          <5>1. QED
            BY <4>1, <4>2
        <4>4. QED
          <5> HIDE DEF f, v
          <5>1. QED
            BY <4>3 DEF TypeOK
      <3> HIDE DEF v
      <3>3. QED
        BY <3>1, <3>2
    <2> HIDE DEF r, b
    <2>9. r.bundle = b /\ r \in ThreadState
      BY <2>7 DEF Shape
    <2>10. QED
      BY <2>1, <2>4, <2>7, <2>8, <2>9 DEF ExportStep
  <1>7. QED
    BY <1>2, <1>3, <1>4, <1>5, <1>6 DEF Export

LEMMA ExportLeaves ==
    ASSUME NEW x, Export(x)
    PROVE  UNCHANGED <<live, handoff_state, columns, frames, phone, views, writes, tasks,
                       exported, brought, imported, strayed>>
  BY DEF Export, Snapshot, Guard, Resolve, SelectSessions, SelectMessages, done

LEMMA ExportKeeps ==
    ASSUME HandoffInv, NEW x \in Thread, Export(x)
    PROVE  HandoffInv'
  <1> DEFINE t == thread[x]
  <1>1. /\ t \in ThreadState /\ t.snap \in Database
        /\ x \in Puller => Stands(t, Waiting(x), views[x])
        /\ x \in Puller /\ Waiting(x) /\ t.pc # "idle" => View(t.want, live) \in views[x]
        /\ t.pc # "idle" => t.want \in Session
    BY DEF HandoffInv, TypeOK, ThreadState, Exporting, SameRequest, HasSession, pc, want
  <1>2. PICK r \in ThreadState : thread' = [thread EXCEPT ![x] = r] /\ ExportStep(x, t, r)
    BY ExportUpdate DEF HandoffInv
  <1>3. t.pc # "idle" /\ r.want = t.want /\ (x \in Puller => r.pc \in Serving)
    BY <1>2 DEF ExportStep, Shape, Serving
  <1>4. ASSUME x \in Puller PROVE Stands(r, Waiting(x), views[x])
    <2>1. CASE t.pc \in {"snapshot", "guard", "resolve", "sessions"}
      BY <1>1, <1>2, <1>4, <2>1 DEF ExportStep, Shape, Stands
    <2>2. CASE t.pc = "messages"
      <3>1. /\ t.chain = Conversation(t.want, t.snap) /\ t.chain # {}
            /\ t.bundle.sessions = t.chain \cap t.snap.rows
            /\ Waiting(x) => View(t.want, t.snap) \in views[x]
        BY <1>1, <1>4, <2>2 DEF Stands
      <3>2. /\ r.pc = "ok"
            /\ r.bundle = [sessions |-> t.bundle.sessions,
                           messages |-> [s \in Session |-> IF s \in t.chain
                                                           THEN t.snap.messages[s] ELSE 0]]
        BY <1>2, <1>4, <2>2 DEF ExportStep, Shape
      <3>3. r.bundle = View(t.want, t.snap)
        BY <3>1, <3>2 DEF View
      <3>4. r.bundle.sessions # {}
        BY <1>1, <3>1, <3>2, ConversationHasSession
      <3>5. QED
        BY <3>1, <3>2, <3>3, <3>4 DEF Stands
    <2>3. QED
      BY <1>2, <2>1, <2>2 DEF ExportStep
  <1>5. LockTypes' /\ tasks' \in 0 .. MaxTasks
    BY ExportLeaves DEF HandoffInv, TypeOK, LockTypes
  <1>6. QED
    BY <1>1, <1>2, <1>3, <1>4, <1>5, ExportLeaves, ThreadKeeps DEF pc, want

\* The command line and the lock: one step, by where the run stands.
CliStep(t, r) ==
    \/ r = Idle
    \/ Shape(r, "snapshot", r.want, TRUE, r.snap, r.chain, r.bundle)
    \/ Shape(r, "lock", r.want, FALSE, r.snap, r.chain, r.bundle)
    \/ t.pc = "write" /\ Shape(r, "lock", t.want, t.mark, t.snap, t.chain, t.bundle)
    \/ /\ t.pc = "lock"
       /\ Shape(r, "chain", t.want, t.mark, t.snap, Conversation(t.want, live), t.bundle)
    \/ /\ t.pc = "chain"
       /\ \E more \in SUBSET Conversation(t.want, live) :
            Shape(r, "update", t.want, t.mark, t.snap, t.chain \cup more \cup {t.want}, t.bundle)

LEMMA CliUpdate ==
    ASSUME TypeOK, HasSession, NEW x \in Cli, NEW s \in Session,
           CliExport(x, s) \/ Release(x, s) \/ CliWrite(x) \/ CliEnds(x) \/ SetLock(x)
    PROVE  \E r \in ThreadState : /\ thread' = [thread EXCEPT ![x] = r]
                                  /\ CliStep(thread[x], r)
                                  /\ r.pc # "idle" => r.want \in Session
  <1> DEFINE t == thread[x]
  <1>1. /\ x \in Thread /\ t \in ThreadState /\ t.chain \in SUBSET Session
        /\ Conversation(t.want, live) \in SUBSET Session
        /\ t.pc # "idle" => t.want \in Session
    BY ViewType DEF Thread, TypeOK, ThreadState, HasSession, pc, want
  <1>2. CASE CliExport(x, s)
    <2> DEFINE r == [Idle EXCEPT !.pc = "snapshot", !.want = s, !.mark = TRUE]
    <2>1. r \in ThreadState /\ r.want = s /\ r.pc = "snapshot" /\ r.mark = TRUE
      BY DEF Idle, ThreadState, NoDatabase, Database, Nothing, Bundle
    <2>2. thread' = [thread EXCEPT ![x] = r]
      BY <1>2 DEF CliExport
    <2> HIDE DEF r
    <2>3. QED
      BY <2>1, <2>2 DEF CliStep, Shape
  <1>3. CASE Release(x, s)
    <2> DEFINE r == [Idle EXCEPT !.pc = "lock", !.want = s]
    <2>1. r \in ThreadState /\ r.want = s /\ r.pc = "lock" /\ r.mark = FALSE
      BY DEF Idle, ThreadState, NoDatabase, Database, Nothing, Bundle
    <2>2. thread' = [thread EXCEPT ![x] = r]
      BY <1>3 DEF Release
    <2> HIDE DEF r
    <2>3. QED
      BY <2>1, <2>2 DEF CliStep, Shape
  <1>4. CASE CliWrite(x)
    <2> DEFINE r == [t EXCEPT !.pc = "lock"]
    <2>1. thread' = [thread EXCEPT ![x] = r] /\ t.pc = "write"
      BY <1>4 DEF CliWrite, Go, pc, TypeOK
    <2>2. Shape(r, "lock", t.want, t.mark, t.snap, t.chain, t.bundle)
      BY <1>1, PcUpdate DEF Place
    <2> HIDE DEF r
    <2>3. QED
      BY <1>1, <2>1, <2>2 DEF CliStep, Shape
  <1>5. CASE CliEnds(x) \/ Update(x)
    BY <1>5, IdleType DEF CliEnds, Update, Finish, CliStep
  <1>6. ASSUME NEW p \in Place, NEW c \in SUBSET Session, t.pc # "idle",
               thread' = [thread EXCEPT ![x].pc = p, ![x].chain = c]
        PROVE  \E r \in ThreadState : /\ thread' = [thread EXCEPT ![x] = r]
                                      /\ Shape(r, p, t.want, t.mark, t.snap, c, t.bundle)
                                      /\ r.want \in Session
    <2> DEFINE q == [t EXCEPT !.pc = p]
               r == [q EXCEPT !.chain = c]
    <2>1. thread' = [thread EXCEPT ![x] = r]
      BY <1>6 DEF TypeOK
    <2>2. Shape(q, p, t.want, t.mark, t.snap, t.chain, t.bundle)
      BY <1>1, PcUpdate
    <2> HIDE DEF q
    <2>3. Shape(r, p, t.want, t.mark, t.snap, c, t.bundle)
      BY <2>2, ChainUpdate DEF Shape
    <2> HIDE DEF r
    <2>4. QED
      BY <1>1, <1>6, <2>1, <2>3 DEF Shape
  <1>7. CASE LockBegin(x)
    <2>1. /\ t.pc = "lock"
          /\ thread' = [thread EXCEPT ![x].pc = "chain", ![x].chain = Conversation(t.want, live)]
      BY <1>7 DEF LockBegin, pc, want
    <2>2. QED
      BY <1>1, <1>6, <2>1 DEF Place, CliStep
  <1>8. CASE LockChain(x)
    <2>1. PICK more \in SUBSET Conversation(t.want, live) :
            thread' = [thread EXCEPT ![x].pc = "update",
                                     ![x].chain = t.chain \cup more \cup {t.want}]
      BY <1>8 DEF LockChain, want
    <2>2. t.pc = "chain"
      BY <1>8 DEF LockChain, pc
    <2>3. t.chain \cup more \cup {t.want} \in SUBSET Session
      BY <1>1, <2>2
    <2>4. QED
      BY <1>6, <2>1, <2>2, <2>3 DEF Place, CliStep
  <1>9. QED
    BY <1>2, <1>3, <1>4, <1>5, <1>7, <1>8 DEF SetLock

LEMMA CliLeaves ==
    ASSUME NEW x, NEW s,
           CliExport(x, s) \/ Release(x, s) \/ CliWrite(x) \/ CliEnds(x) \/ SetLock(x)
    PROVE  /\ UNCHANGED <<live, columns, frames, phone, views, writes, strayed>>
           /\ CliWrite(x) \/ UNCHANGED <<exported, brought>>
           /\ Update(x) \/ UNCHANGED <<handoff_state, imported>>
  BY DEF CliExport, Release, CliWrite, CliEnds, SetLock, LockBegin, LockChain, Update, done

\* No phone is concerned.
LEMMA CliKeeps ==
    ASSUME HandoffInv, NEW x \in Cli, NEW s \in Session,
           CliExport(x, s) \/ Release(x, s) \/ CliWrite(x) \/ CliEnds(x) \/ SetLock(x)
    PROVE  HandoffInv'
  <1>1. x \in Thread /\ x \notin Puller /\ thread[x] \in ThreadState
    BY ThreadAssumption DEF Thread, HandoffInv, TypeOK
  <1>2. tasks' \in 0 .. MaxTasks
    BY BoundAssumption DEF HandoffInv, TypeOK, CliExport, Release, CliWrite, CliEnds, SetLock,
       LockBegin, LockChain, Update, done
  <1>3. handoff_state' \in [Session -> HandoffState] /\ imported' \in SUBSET Session
    <2>1. CASE Update(x)
      BY <2>1 DEF Update, Lock, HandoffState, HandoffInv, TypeOK
    <2>2. QED
      BY <2>1, CliLeaves DEF HandoffInv, TypeOK
  <1>4. exported' \in [Session -> Nat \cup {-1}] /\ brought' \in [Session -> Nat]
    <2>1. CASE CliWrite(x)
      BY <1>1, <2>1 DEF CliWrite, ThreadState, Bundle, HandoffInv, TypeOK
    <2>2. QED
      BY <2>1, CliLeaves DEF HandoffInv, TypeOK
  <1>5. \E r \in ThreadState : /\ thread' = [thread EXCEPT ![x] = r]
                               /\ r.pc # "idle" => r.want \in Session
    BY CliUpdate DEF HandoffInv
  <1>6. QED
    BY <1>1, <1>2, <1>3, <1>4, <1>5, CliLeaves, ThreadKeeps DEF LockTypes

\* The servers' answers.
LEMMA AnswerKeeps ==
    ASSUME HandoffInv, NEW x \in Puller, SendOk(x) \/ SendBundle(x) \/ Refuse(x)
    PROVE  HandoffInv'
  <1> DEFINE t == thread[x]
  <1>1. /\ x \in Thread /\ t \in ThreadState /\ t.bundle \in Bundle /\ Nothing \in Bundle
        /\ Stands(t, Waiting(x), views[x]) /\ pc(x) # "idle" /\ want(x) \in Session
        /\ frames \in [Puller -> Seq(Frame)]
    <2>1. pc(x) # "idle"
      BY DEF SendOk, SendBundle, Refuse
    <2>2. QED
      BY <2>1, IdleType
         DEF Thread, HandoffInv, TypeOK, ThreadState, Exporting, HasSession
  <1>2. /\ UNCHANGED <<live, columns, phone, views, writes, strayed>>
        /\ LockTypes' /\ tasks' \in 0 .. MaxTasks
    BY DEF HandoffInv, TypeOK, LockTypes, SendOk, SendBundle, Refuse, done
  <1>3. PICK f \in Frame :
          /\ frames' = frames \/ (Waiting(x) /\ frames' = [frames EXCEPT ![x] = Append(@, f)])
          /\ f.kind = "bundle" => f.bundle.sessions # {} /\ (Waiting(x) => f.bundle \in views[x])
    <2> DEFINE ok == [kind |-> "ok", bundle |-> Nothing]
               err == [kind |-> "err", bundle |-> Nothing]
               bundle == [kind |-> "bundle", bundle |-> t.bundle]
    <2>1. ok \in Frame /\ err \in Frame /\ bundle \in Frame
      BY <1>1 DEF Frame
    <2>2. CASE SendOk(x)
      BY <2>1, <2>2 DEF SendOk, Send, Waiting
    <2>3. CASE SendBundle(x)
      <3>1. t.bundle.sessions # {} /\ (Waiting(x) => t.bundle \in views[x])
        BY <1>1, <2>3 DEF SendBundle, Stands, pc
      <3>2. frames' = frames \/ (Waiting(x) /\ frames' = [frames EXCEPT ![x] = Append(@, bundle)])
        BY <2>3 DEF SendBundle, Send, Waiting
      <3>3. QED
        BY <2>1, <3>1, <3>2
    <2>4. CASE Refuse(x)
      BY <2>1, <2>4 DEF Refuse, Send, Waiting
    <2>5. QED
      BY <2>2, <2>3, <2>4
  <1>4. frames' \in [Puller -> Seq(Frame)]
    <2>1. frames[x] \in Seq(Frame)
      BY <1>1
    <2>2. Append(frames[x], f) \in Seq(Frame)
      BY <2>1
    <2>3. QED
      BY <1>1, <1>3, <2>2
  <1>5. Sent'
    <2>0. \A y \in Puller : ~Waiting(y)' => frames'[y] = <<>>
      BY <1>1, <1>2, <1>3 DEF HandoffInv, Sent, Waiting
    <2> SUFFICES ASSUME NEW y \in Puller, NEW k \in 1 .. Len(frames'[y]),
                        frames'[y][k].kind = "bundle"
                 PROVE  /\ frames'[y][k].bundle.sessions # {}
                        /\ Waiting(y) => frames'[y][k].bundle \in views[y]
      BY <1>2, <2>0 DEF Sent, Waiting
    <2>1. k \in 1 .. Len(frames[y]) =>
            (frames[y][k].kind = "bundle" =>
               frames[y][k].bundle.sessions # {} /\ (Waiting(y) => frames[y][k].bundle \in views[y]))
      BY DEF HandoffInv, Sent
    <2>2. CASE k \in 1 .. Len(frames[y]) /\ frames'[y][k] = frames[y][k]
      BY <2>1, <2>2
    <2>3. CASE ~(k \in 1 .. Len(frames[y]) /\ frames'[y][k] = frames[y][k])
      <3>1. y = x /\ frames'[x] = Append(frames[x], f)
        BY <1>1, <1>3, <2>3
      <3>2. frames'[y][k] = f
        BY <1>1, <2>3, <3>1
      <3>3. QED
        BY <1>3, <3>1, <3>2
    <2>4. QED
      BY <2>2, <2>3
  <1>6. \E r \in ThreadState :
          /\ thread' = [thread EXCEPT ![x] = r]
          /\ Stands(r, Waiting(x), views[x]) /\ r.pc \in Serving
          /\ r.pc # "idle" => r.want = want(x)
    <2>1. CASE SendOk(x)
      <3>1. Go(x, "bundle") /\ pc(x) = "ok"
        BY <2>1 DEF SendOk
      <3>2. PICK r \in ThreadState :
              /\ thread' = [thread EXCEPT ![x] = r]
              /\ r.pc = "bundle" /\ r.want = want(x) /\ r.bundle = t.bundle
        BY <1>1, <3>1, GoType DEF Place, HandoffInv
      <3>3. QED
        BY <1>1, <3>1, <3>2 DEF Stands, Serving, pc
    <2>2. CASE SendBundle(x) \/ Refuse(x)
      <3>1. Finish(x)
        BY <2>2 DEF SendBundle, Refuse
      <3>2. QED
        BY <3>1, IdleType DEF Finish, Stands, Serving
    <2>3. QED
      BY <2>1, <2>2
  <1>7. QED
    BY <1>1, <1>2, <1>4, <1>5, <1>6, ThreadSends

\* The phone's side of a pull.
LEMMA PhoneKeeps ==
    ASSUME HandoffInv, NEW x \in Puller, Pull(x) \/ TimeOut(x)
    PROVE  HandoffInv'
  <1>1. /\ phone[x] \in PhoneState /\ frames[x] \in Seq(Frame)
        /\ phone \in [Puller -> PhoneState] /\ frames \in [Puller -> Seq(Frame)]
        /\ views \in [Puller -> SUBSET Bundle]
        /\ \A b \in phone[x].got : b.sessions # {}
    BY DEF HandoffInv, TypeOK, NothingHalfTaken
  <1>2. CASE ReadOk(x)
    <2>1. /\ Waiting(x) /\ frames[x] # <<>> /\ frames' = [frames EXCEPT ![x] = Tail(frames[x])]
          /\ UNCHANGED <<live, handoff_state, columns, thread, done>>
      BY <1>2 DEF ReadOk, Waiting
    <2> DEFINE r == [phone[x] EXCEPT !.pc = "bundle"]
    <2>2. r \in PhoneState /\ r.pc = "bundle" /\ r.want = phone[x].want /\ r.got = phone[x].got
      BY <1>1 DEF PhoneState
    <2>3. phone' = [phone EXCEPT ![x] = r]
      BY <1>2 DEF ReadOk
    <2> HIDE DEF r
    <2>4. /\ phone' \in [Puller -> PhoneState]
          /\ \A y \in Puller : /\ Waiting(y)' <=> Waiting(y)
                               /\ phone'[y].want = phone[y].want /\ phone'[y].got = phone[y].got
      BY <1>1, <2>1, <2>2, <2>3 DEF Waiting
    <2>5. /\ Tail(frames[x]) \in Seq(Frame)
          /\ \A k \in 1 .. Len(Tail(frames[x])) :
               k + 1 \in 1 .. Len(frames[x]) /\ Tail(frames[x])[k] = frames[x][k + 1]
      BY <1>1, <2>1
    <2>6. TypeOK'
      BY <1>1, <2>1, <2>4, <2>5 DEF HandoffInv, TypeOK, done
    <2>7. Exporting' /\ SameRequest' /\ HasSession'
      BY <2>1, <2>4 DEF HandoffInv, Exporting, SameRequest, HasSession, Stands, pc, want, done
    <2>8. Sent'
      <3>0. \A y \in Puller : ~Waiting(y)' => frames'[y] = <<>>
        BY <1>1, <2>1, <2>4 DEF HandoffInv, Sent
      <3> SUFFICES ASSUME NEW y \in Puller, NEW k \in 1 .. Len(frames'[y]),
                          frames'[y][k].kind = "bundle"
                   PROVE  /\ frames'[y][k].bundle.sessions # {}
                          /\ Waiting(y) => frames'[y][k].bundle \in views[y]
        BY <2>1, <2>4, <3>0 DEF Sent, done
      <3>1. CASE y = x
        <4>1. k + 1 \in 1 .. Len(frames[x]) /\ frames'[x][k] = frames[x][k + 1]
          BY <1>1, <2>1, <2>5, <3>1
        <4>2. QED
          BY <3>1, <4>1 DEF HandoffInv, Sent
      <3>2. CASE y # x
        BY <1>1, <2>1, <3>2 DEF HandoffInv, Sent
      <3>3. QED
        BY <3>1, <3>2
    <2>9. NothingHalfTaken'
      BY <2>4 DEF HandoffInv, NothingHalfTaken
    <2>10. QED
      BY <2>6, <2>7, <2>8, <2>9 DEF HandoffInv
  <1>3. ASSUME NEW bundles \in SUBSET Bundle, Leave(x, bundles),
               \A b \in bundles : b.sessions # {}
        PROVE  HandoffInv'
    <2>1. UNCHANGED <<live, handoff_state, columns, thread, writes, tasks,
                      exported, brought, imported, strayed>>
      BY <1>3 DEF Leave
    <2>2. /\ phone' \in [Puller -> PhoneState]
          /\ \A y \in Puller : phone'[y] = IF y = x
                 THEN [pc |-> "idle", want |-> NoSession, got |-> phone[x].got \cup bundles]
                 ELSE phone[y]
      BY <1>1, <1>3 DEF Leave, PhoneState
    <2>3. /\ frames' \in [Puller -> Seq(Frame)] /\ views' \in [Puller -> SUBSET Bundle]
          /\ \A y \in Puller : /\ frames'[y] = IF y = x THEN <<>> ELSE frames[y]
                               /\ views'[y] = IF y = x THEN {} ELSE views[y]
      BY <1>1, <1>3 DEF Leave
    <2>4. TypeOK'
      BY <2>1, <2>2, <2>3 DEF HandoffInv, TypeOK
    <2>5. ~Waiting(x)' /\ \A y \in Puller \ {x} : Waiting(y)' <=> Waiting(y)
      BY <2>2 DEF Waiting
    <2>6. Exporting'
      BY <2>1, <2>3, <2>5 DEF HandoffInv, Exporting, Stands
    <2>7. SameRequest' /\ HasSession'
      BY <2>1, <2>2, <2>3, <2>5 DEF HandoffInv, SameRequest, HasSession, pc, want
    <2>8. Sent'
      <3>1. Len(frames'[x]) = 0 /\ frames'[x] = <<>>
        BY <2>3
      <3>2. \A y \in Puller \ {x} : frames'[y] = frames[y] /\ views'[y] = views[y]
        BY <2>3
      <3>3. QED
        BY <2>5, <3>1, <3>2 DEF HandoffInv, Sent
    <2>9. NothingHalfTaken'
      <3>1. phone'[x].got = phone[x].got \cup bundles
        BY <2>2
      <3>2. \A y \in Puller \ {x} : phone'[y] = phone[y]
        BY <2>2
      <3>3. QED
        BY <1>1, <1>3, <3>1, <3>2 DEF HandoffInv, NothingHalfTaken
    <2>10. QED
      BY <2>4, <2>6, <2>7, <2>8, <2>9 DEF HandoffInv
  <1>4. CASE ReadBundle(x)
    <2> DEFINE b == Head(frames[x]).bundle
    <2>1. frames[x] # <<>> /\ Head(frames[x]).kind = "bundle" /\ Leave(x, {b})
      BY <1>4 DEF ReadBundle
    <2>2. 1 \in 1 .. Len(frames[x]) /\ Head(frames[x]) = frames[x][1] /\ frames[x][1] \in Frame
      BY <1>1, <2>1
    <2>3. b \in Bundle /\ b.sessions # {}
      BY <2>1, <2>2 DEF HandoffInv, Sent, Frame
    <2>4. QED
      BY <1>3, <2>1, <2>3
  <1>5. CASE GiveUp(x) \/ TimeOut(x)
    BY <1>3, <1>5 DEF GiveUp, TimeOut
  <1>6. QED
    BY <1>2, <1>4, <1>5 DEF Pull

\* A request: the conversation as it is now is the first that may be sent.
LEMMA AskKeeps ==
    ASSUME HandoffInv, NEW x \in Puller, NEW s \in Session, Ask(x, s)
    PROVE  HandoffInv'
  <1>1. /\ pc(x) = "idle" /\ ~Waiting(x) /\ live \in Database /\ x \in Thread
        /\ UNCHANGED <<live, handoff_state, columns, frames, writes,
                       exported, brought, imported, strayed>>
        /\ tasks' \in 0 .. MaxTasks
        /\ views \in [Puller -> SUBSET Bundle] /\ phone \in [Puller -> PhoneState]
    BY BoundAssumption DEF Ask, Waiting, HandoffInv, TypeOK, Thread
  <1>2. View(s, live) \in Bundle /\ frames[x] = <<>>
    BY <1>1, ViewType DEF HandoffInv, Sent
  <1>3. /\ views' \in [Puller -> SUBSET Bundle]
        /\ \A y \in Puller : views'[y] = IF y = x THEN {View(s, live)} ELSE views[y]
    BY <1>1, <1>2 DEF Ask
  <1>4. /\ phone' \in [Puller -> PhoneState]
        /\ \A y \in Puller : /\ phone'[y].got = phone[y].got
                             /\ phone'[y].want = IF y = x THEN s ELSE phone[y].want
                             /\ Waiting(y)' <=> (y = x \/ Waiting(y))
    <2> DEFINE q == [phone[x] EXCEPT !.pc = "ok"]
               r == [q EXCEPT !.want = s]
    <2>1. phone' = [phone EXCEPT ![x] = r]
      BY <1>1 DEF Ask
    <2>2. q \in PhoneState /\ q.pc = "ok" /\ q.got = phone[x].got
      BY <1>1 DEF PhoneState
    <2> HIDE DEF q
    <2>3. r \in PhoneState /\ r.pc = "ok" /\ r.got = phone[x].got /\ r.want = s
      BY <2>2 DEF PhoneState
    <2> HIDE DEF r
    <2>4. QED
      BY <1>1, <2>1, <2>3 DEF Waiting
  <1>5. /\ thread' \in [Thread -> ThreadState]
        /\ \A y \in Thread \ {x} : thread'[y] = thread[y]
        /\ pc(x)' = "snapshot" /\ want(x)' = s
    <2> DEFINE r == [Idle EXCEPT !.pc = "snapshot", !.want = s]
    <2>1. r \in ThreadState /\ r.pc = "snapshot" /\ r.want = s
      BY DEF Idle, ThreadState, NoDatabase, Database, Nothing, Bundle
    <2>2. thread' = [thread EXCEPT ![x] = r]
      BY DEF Ask
    <2> HIDE DEF r
    <2>3. QED
      BY <1>1, <2>1, <2>2, ThreadUpdate DEF HandoffInv, pc, want
  <1>6. TypeOK'
    BY <1>1, <1>3, <1>4, <1>5 DEF HandoffInv, TypeOK
  <1>7. Exporting'
    <2> SUFFICES ASSUME NEW y \in Puller PROVE Stands(thread'[y], Waiting(y)', views'[y])
      BY DEF Exporting
    <2>1. CASE y = x
      BY <1>5, <2>1 DEF Stands, pc
    <2>2. CASE y # x
      BY <1>3, <1>4, <1>5, <2>2 DEF Stands, HandoffInv, Exporting, Thread
    <2>3. QED
      BY <2>1, <2>2
  <1>8. SameRequest' /\ HasSession'
    BY <1>1, <1>3, <1>4, <1>5 DEF HandoffInv, SameRequest, HasSession, pc, want, Thread
  <1>9. Sent'
    <2>1. Len(frames[x]) = 0
      BY <1>2
    <2>2. \A y \in Puller \ {x} : views'[y] = views[y] /\ (Waiting(y)' <=> Waiting(y))
      BY <1>3, <1>4
    <2>3. frames' = frames /\ Waiting(x)'
      BY <1>1, <1>4
    <2>4. QED
      BY <2>1, <2>2, <2>3 DEF HandoffInv, Sent
  <1>10. NothingHalfTaken'
    BY <1>4 DEF HandoffInv, NothingHalfTaken
  <1>11. QED
    BY <1>6, <1>7, <1>8, <1>9, <1>10 DEF HandoffInv

\* A touched conversation is one of sessions.
LEMMA TouchedType ==
    ASSUME NEW T, NEW d \in Database
    PROVE  Touched(T, d) \in SUBSET Session
  BY ViewType DEF Touched, Database

\* What is added: every phone that waits may now also be sent what is there afterwards.
LEMMA BecomeKeeps ==
    ASSUME HandoffInv, NEW d \in Database, NEW T \in SUBSET Session, Become(d, T), LockTypes'
    PROVE  HandoffInv'
  <1>1. /\ live' = d /\ writes' \in 0 .. MaxWrites
        /\ UNCHANGED <<columns, thread, frames, phone, tasks, exported>>
        /\ phone \in [Puller -> PhoneState] /\ views \in [Puller -> SUBSET Bundle]
    BY BoundAssumption DEF Become, HandoffInv, TypeOK
  <1>2. strayed' \in SUBSET Session
    BY TouchedType DEF Become, HandoffInv, TypeOK
  <1>3. /\ views' \in [Puller -> SUBSET Bundle]
        /\ \A y \in Puller : /\ views[y] \subseteq views'[y]
                             /\ Waiting(y) => View(phone[y].want, d) \in views'[y]
    <2>1. \A y \in Puller : View(phone[y].want, d) \in Bundle
      BY ViewType
    <2>2. QED
      BY <1>1, <2>1 DEF Become, Waiting
  <1>4. TypeOK'
    BY <1>1, <1>2, <1>3 DEF HandoffInv, TypeOK, LockTypes
  <1>5. Exporting'
    BY <1>1, <1>3 DEF HandoffInv, Exporting, Stands, Waiting
  <1>6. SameRequest' /\ HasSession'
    BY <1>1, <1>3 DEF HandoffInv, SameRequest, HasSession, Waiting, pc, want
  <1>7. Sent' /\ NothingHalfTaken'
    BY <1>1, <1>3 DEF HandoffInv, Sent, NothingHalfTaken, Waiting
  <1>8. QED
    BY <1>4, <1>5, <1>6, <1>7 DEF HandoffInv

\* Database d is what a transaction that adds to the sessions T makes of the live one.
Adds(d, T) ==
    /\ live.rows \subseteq d.rows /\ d.rows \subseteq live.rows \cup T
    /\ \A r \in live.rows : d.parent[r] = live.parent[r]
    /\ \A t \in Session \ T : d.messages[t] = live.messages[t]

\* What hermes and the imports do to the database.
LEMMA WriteAdds ==
    ASSUME live \in Database, NEW s \in Session, NEW p \in Session \cup {NoSession},
           AddMessage(s) \/ AddSession(s, p)
    PROVE  \E d \in Database : Write(s, d) /\ Adds(d, {s}) /\ s \in d.rows
  <1>1. CASE AddMessage(s)
    <2> DEFINE d == [live EXCEPT !.messages[s] = @ + 1]
    <2>1. d \in Database /\ Adds(d, {s}) /\ s \in d.rows
      BY <1>1 DEF AddMessage, Database, Adds
    <2>2. Write(s, d)
      BY <1>1 DEF AddMessage
    <2> HIDE DEF d
    <2>3. QED
      BY <2>1, <2>2
  <1>2. CASE AddSession(s, p)
    <2> DEFINE d == [live EXCEPT !.rows = @ \cup {s}, !.parent[s] = p]
    <2>1. d \in Database /\ Adds(d, {s}) /\ s \in d.rows
      BY <1>2 DEF AddSession, Database, Adds
    <2>2. Write(s, d)
      BY <1>2 DEF AddSession
    <2> HIDE DEF d
    <2>3. QED
      BY <2>1, <2>2
  <1>3. QED
    BY <1>1, <1>2

LEMMA ImportAdds ==
    ASSUME live \in Database, NEW R \in SUBSET Session, NEW M \in SUBSET Session, Import(R, M)
    PROVE  \E d \in Database :
             /\ Become(d, R \cup M) /\ Adds(d, R \cup M) /\ d.rows = live.rows \cup R
             /\ \A s \in Session : d.messages[s] = live.messages[s] + More(s, M)
  <1>1. PICK p \in [R -> Session \cup {NoSession}] : Become(WithBundle(R, p, M), R \cup M)
    BY DEF Import
  <1>2. R \cap live.rows = {}
    BY DEF Import
  <1> DEFINE d == WithBundle(R, p, M)
  <1>3. d \in Database /\ d.rows = live.rows \cup R
    BY DEF WithBundle, Database, More
  <1>4. \A s \in Session : d.messages[s] = live.messages[s] + More(s, M)
    BY DEF WithBundle
  <1>5. Adds(d, R \cup M)
    BY <1>2 DEF WithBundle, Database, Adds, More
  <1> HIDE DEF d
  <1>6. QED
    BY <1>1, <1>3, <1>4, <1>5 DEF d

\* What the import does beside.
LEMMA ImportLeaves ==
    ASSUME HandoffInv, NEW R \in SUBSET Session, NEW M \in SUBSET Session, Import(R, M)
    PROVE  /\ LockTypes'
           /\ \A s \in Session \ R : handoff_state'[s] = handoff_state[s]
           /\ brought' = [s \in Session |-> brought[s] + More(s, M)]
           /\ imported' = imported \cup R
           /\ UNCHANGED <<thread, exported>>
  <1>1. PICK lock \in [R -> IF columns THEN HandoffState ELSE {"none"}] :
          handoff_state' = [s \in Session |-> IF s \in R THEN lock[s] ELSE handoff_state[s]]
    BY DEF Import
  <1>2. \A s \in R : lock[s] \in HandoffState
    BY DEF HandoffState
  <1>3. /\ brought' = [s \in Session |-> brought[s] + More(s, M)]
        /\ imported' = imported \cup R /\ UNCHANGED <<thread, exported>>
    BY DEF Import, Become
  <1>4. LockTypes'
    BY <1>1, <1>2, <1>3 DEF LockTypes, HandoffInv, TypeOK, More
  <1>5. QED
    BY <1>1, <1>3, <1>4

LEMMA StepHandoffInv == HandoffInv /\ [Next]_vars => HandoffInv'
  <1> SUFFICES ASSUME HandoffInv, [Next]_vars PROVE HandoffInv'
    OBVIOUS
  <1>0. live \in Database
    BY DEF HandoffInv, TypeOK
  <1>1. ASSUME NEW s \in Session, NEW p \in Session \cup {NoSession},
               AddMessage(s) \/ AddSession(s, p)
        PROVE  HandoffInv'
    <2>1. PICK d \in Database : Write(s, d)
      BY <1>0, <1>1, WriteAdds
    <2>2. LockTypes' /\ Become(d, {s})
      BY <2>1 DEF Write, Become, LockTypes, HandoffInv, TypeOK
    <2>3. QED
      BY <2>2, BecomeKeeps
  <1>5. ASSUME NEW R \in SUBSET Session, NEW M \in SUBSET Session, Import(R, M)
        PROVE  HandoffInv'
    <2>1. PICK d \in Database : Become(d, R \cup M)
      BY <1>0, <1>5, ImportAdds
    <2>2. QED
      BY <1>5, <2>1, ImportLeaves, BecomeKeeps
  <1>2. CASE UNCHANGED vars
    BY <1>2 DEF vars, done, HandoffInv, TypeOK, Exporting, SameRequest, Sent, HasSession,
                NothingHalfTaken, Stands, Waiting, pc, want
  <1>3. ASSUME NEW x \in Cli, CliWrite(x) \/ CliEnds(x) \/ SetLock(x) PROVE HandoffInv'
    <2>1. \E s \in Session : TRUE
      <3>1. x \in Thread /\ pc(x) # "idle"
        BY <1>3 DEF Thread, CliWrite, CliEnds, SetLock, LockBegin, LockChain, Update
      <3>2. QED
        BY <3>1 DEF HandoffInv, HasSession
    <2>2. QED
      BY <1>3, <2>1, CliKeeps
  <1>4. QED
    BY <1>1, <1>2, <1>3, <1>5, ExportKeeps, CliKeeps, AnswerKeeps, PhoneKeeps, AskKeeps
       DEF Next, Serve, Thread

LEMMA InitHandoffInv == Init => HandoffInv
  <1> SUFFICES ASSUME Init PROVE HandoffInv
    OBVIOUS
  <1>1. live \in Database
    BY DEF Init, Database
  <1>2. phone \in [Puller -> PhoneState] /\ \A x \in Puller : ~Waiting(x) /\ phone[x].got = {}
    BY DEF Init, PhoneState, Waiting
  <1>3. /\ thread \in [Thread -> ThreadState]
        /\ \A x \in Thread : pc(x) = "idle"
    BY IdleType DEF Init, pc
  <1>4. TypeOK
    <2>1. /\ handoff_state \in [Session -> HandoffState]
          /\ frames \in [Puller -> Seq(Frame)] /\ views \in [Puller -> SUBSET Bundle]
          /\ exported \in [Session -> Nat \cup {-1}] /\ brought \in [Session -> Nat]
          /\ imported \in SUBSET Session /\ strayed \in SUBSET Session
      BY DEF Init, HandoffState
    <2>2. writes \in 0 .. MaxWrites /\ tasks \in 0 .. MaxTasks /\ columns \in BOOLEAN
      BY BoundAssumption DEF Init
    <2>3. QED
      BY <1>1, <1>2, <1>3, <2>1, <2>2 DEF TypeOK
  <1>5. Exporting /\ SameRequest /\ HasSession
    BY <1>2, <1>3 DEF Exporting, Stands, SameRequest, HasSession, Thread, pc
  <1>6. Sent /\ NothingHalfTaken
    BY <1>2 DEF Init, Sent, NothingHalfTaken
  <1>7. QED
    BY <1>4, <1>5, <1>6 DEF HandoffInv

-----------------------------------------------------------------------------
(* Conversations are the components of the graph of parent links *)

LEMMA ConversationIsClosed ==
    ASSUME NEW s \in Session, NEW d \in Database, s \in d.rows
    PROVE  s \in Conversation(s, d) /\ Closed(Conversation(s, d), d)
  BY DEF Conversation, Closed, Database

LEMMA ConversationIsLeast ==
    ASSUME NEW s \in Session, NEW d \in Database, s \in d.rows,
           NEW S \in SUBSET Session, s \in S, Closed(S, d)
    PROVE  Conversation(s, d) \subseteq S
  BY DEF Conversation

\* Conversations with a session in common are the same.
LEMMA SameConversation ==
    ASSUME NEW a \in Session, NEW b \in Session, NEW d \in Database,
           NEW u, u \in Conversation(a, d), u \in Conversation(b, d)
    PROVE  Conversation(a, d) = Conversation(b, d)
  <1>1. ASSUME NEW x \in {a, b}, NEW y \in {a, b}
        PROVE  Conversation(x, d) \subseteq Conversation(y, d)
    <2> DEFINE C == Conversation(y, d)
    <2>1. x \in Session /\ x \in d.rows /\ y \in Session /\ y \in d.rows
      BY DEF Conversation
    <2>2. C \in SUBSET Session /\ y \in C /\ Closed(C, d)
      BY <2>1, ViewType, ConversationIsClosed
    <2>3. x \in C
      <3> SUFFICES ASSUME x \notin C PROVE FALSE
        OBVIOUS
      <3>1. Closed(Session \ C, d)
        <4> HIDE DEF C
        <4>1. QED
          BY <2>2 DEF Closed, Database
      <3>2. Conversation(x, d) \subseteq Session \ C
        BY <2>1, <3>1, ConversationIsLeast
      <3>3. QED
        BY <3>2
    <2>4. QED
      BY <2>1, <2>2, <2>3, ConversationIsLeast
  <1>2. QED
    BY <1>1

\* A conversation that holds nothing of what was added to is left alone; any other is
\* touched as a whole.
LEMMA ConversationGrows ==
    ASSUME live \in Database, NEW T \in SUBSET Session, NEW d \in Database, Adds(d, T),
           NEW w \in Session
    PROVE  /\ Conversation(w, live) \subseteq Conversation(w, d)
           /\ T \cap Conversation(w, d) = {} => Conversation(w, d) = Conversation(w, live)
           /\ T \cap Conversation(w, d) # {} => Conversation(w, d) \subseteq Touched(T, d)
  <1> DEFINE old == Conversation(w, live)
             new == Conversation(w, d)
  <1>1. old \in SUBSET Session /\ new \in SUBSET Session
    BY ViewType
  <1>2. old \subseteq new
    <2>1. CASE w \in live.rows
      <3>1. w \in d.rows
        BY <2>1 DEF Adds
      <3>2. w \in new /\ Closed(new, d)
        BY <3>1, ConversationIsClosed
      <3>3. Closed(new, live)
        BY <3>2 DEF Closed, Adds
      <3>4. QED
        BY <1>1, <2>1, <3>2, <3>3, ConversationIsLeast
    <2>2. CASE w \notin live.rows
      BY <2>2 DEF Conversation
    <2>3. QED
      BY <2>1, <2>2
  <1>3. ASSUME T \cap new # {} PROVE new \subseteq Touched(T, d)
    <2>1. w \in d.rows
      BY <1>3 DEF Conversation
    <2> HIDE DEF new
    <2>2. new \in {Conversation(r, d) : r \in d.rows}
      BY <2>1 DEF new
    <2>3. QED
      BY <1>3, <2>2 DEF Touched
  <1>4. ASSUME T \cap new = {} PROVE new = old
    <2>1. CASE w \in d.rows
      <3>1. w \in new /\ Closed(new, d)
        BY <2>1, ConversationIsClosed
      <3>2. w \in live.rows
        BY <1>4, <2>1, <3>1 DEF Adds
      <3>3. w \in old /\ Closed(old, live)
        BY <3>2, ConversationIsClosed
      <3>4. Closed(old, d)
        <4> HIDE DEF old, new
        <4> SUFFICES ASSUME NEW r \in d.rows, d.parent[r] \in Session
                     PROVE  r \in old <=> d.parent[r] \in old
          BY DEF Closed
        <4>1. CASE r \in live.rows
          BY <3>3, <4>1 DEF Closed, Adds
        <4>2. CASE r \in T
          BY <1>2, <1>4, <3>1, <4>2 DEF Closed
        <4>3. QED
          BY <4>1, <4>2 DEF Adds
      <3>5. new \subseteq old
        BY <1>1, <2>1, <3>3, <3>4, ConversationIsLeast
      <3>6. QED
        BY <1>2, <3>5
    <2>2. CASE w \notin d.rows
      BY <1>2, <2>2 DEF Conversation
    <2>3. QED
      BY <2>1, <2>2
  <1>5. QED
    BY <1>2, <1>3, <1>4

\* Messages make no conversation: it is left alone when it holds no new row.
LEMMA SameLinks ==
    ASSUME live \in Database, NEW R \in SUBSET Session, NEW d \in Database,
           d.rows = live.rows \cup R, \A r \in live.rows : d.parent[r] = live.parent[r],
           NEW w \in Session, R \cap Conversation(w, d) = {}
    PROVE  Conversation(w, d) = Conversation(w, live)
  <1> DEFINE e == [d EXCEPT !.messages = live.messages]
  <1>1. e \in Database /\ e.rows = d.rows /\ e.parent = d.parent /\ e.messages = live.messages
    BY DEF Database
  <1>2. Conversation(w, e) = Conversation(w, d)
    BY <1>1 DEF Conversation, Closed
  <1>3. Adds(e, R)
    BY <1>1 DEF Adds
  <1> HIDE DEF e
  <1>4. QED
    BY <1>1, <1>2, <1>3, ConversationGrows

-----------------------------------------------------------------------------
(* The lock *)

(***************************************************************************)
(* What a run of the command line has read, written out or looked up, and  *)
(* the conversation as it is now (d), are the same, or all of the          *)
(* conversation has been written to (lost).  It is all of it: the next     *)
(* write may join it to another that had been spared.                      *)
(***************************************************************************)
Unread(t, d, lost) ==
    /\ Conversation(t.want, t.snap) \subseteq Conversation(t.want, d)
    /\ \/ Conversation(t.want, d) \subseteq lost
       \/ /\ Conversation(t.want, t.snap) = Conversation(t.want, d)
          /\ \A s \in Conversation(t.want, d) :
               (s \in t.snap.rows <=> s \in d.rows) /\ t.snap.messages[s] = d.messages[s]

Unwritten(t, d, lost) ==
    /\ t.bundle.sessions \subseteq Conversation(t.want, d)
    /\ \/ Conversation(t.want, d) \subseteq lost
       \/ /\ Conversation(t.want, d) \cap d.rows \subseteq t.bundle.sessions
          /\ \A s \in t.bundle.sessions : t.bundle.messages[s] = d.messages[s]

Unmarked(t, d, sent, lost) ==
    \/ Conversation(t.want, d) \subseteq lost
    \/ \A s \in Conversation(t.want, d) \cap d.rows : sent[s] = d.messages[s]

Unlocked(t, d, lost) ==
    /\ t.chain \subseteq Conversation(t.want, d) \cup {t.want}
    /\ \/ Conversation(t.want, d) \subseteq lost
       \/ Conversation(t.want, d) \subseteq t.chain

Settled(t, d, sent, lost) ==
    /\ t.pc \in {"guard", "resolve", "sessions", "messages"} => Unread(t, d, lost)
    /\ t.pc \in {"sessions", "messages"} => t.chain = Conversation(t.want, t.snap)
    /\ t.pc = "messages" => t.bundle.sessions = t.chain \cap t.snap.rows
    /\ t.pc = "write" => Unwritten(t, d, lost)
    /\ t.pc \in {"lock", "chain", "update"} /\ t.mark => Unmarked(t, d, sent, lost)
    /\ t.pc \in {"chain", "update"} => Unlocked(t, d, lost)

AllSettled == \A x \in Cli : Settled(thread[x], live, Accounted, strayed)

LockInv == HandoffInv /\ AllSettled /\ ArchivedWasSent /\ OneLock

\* Something is added in the middle of a run.
LEMMA AddSettles ==
    ASSUME live \in Database, NEW T \in SUBSET Session, NEW d \in Database, Adds(d, T),
           NEW sent, NEW told, \A s \in Session \ T : told[s] = sent[s],
           NEW t \in ThreadState, t.want \in Session, Settled(t, live, sent, strayed)
    PROVE  Settled(t, d, told, strayed \cup Touched(T, d))
  <1> DEFINE old == Conversation(t.want, live)
             new == Conversation(t.want, d)
             lost == strayed \cup Touched(T, d)
  <1>1. /\ old \subseteq new /\ new \subseteq Session
        /\ new \subseteq lost \/ (new = old /\ T \cap new = {})
    BY ConversationGrows, ViewType
  <1>2. new \subseteq lost \/ \A r \in new : /\ (r \in d.rows <=> r \in live.rows)
                                             /\ d.messages[r] = live.messages[r]
                                             /\ told[r] = sent[r]
    <2> HIDE DEF old, new, lost
    <2>1. QED
      BY <1>1 DEF Adds
  <1> HIDE DEF old, new, lost
  <1>3. Unread(t, live, strayed) => Unread(t, d, lost)
    BY <1>1, <1>2 DEF Unread, old, new, lost
  <1>4. Unwritten(t, live, strayed) => Unwritten(t, d, lost)
    BY <1>1, <1>2 DEF Unwritten, old, new, lost
  <1>5. Unmarked(t, live, sent, strayed) => Unmarked(t, d, told, lost)
    BY <1>1, <1>2 DEF Unmarked, old, new, lost
  <1>6. Unlocked(t, live, strayed) => Unlocked(t, d, lost)
    BY <1>1, <1>2 DEF Unlocked, old, new, lost
  <1>7. QED
    BY <1>3, <1>4, <1>5, <1>6 DEF Settled, lost

LEMMA BecomeSettles ==
    ASSUME LockInv, NEW T \in SUBSET Session, NEW d \in Database, Become(d, T), Adds(d, T),
           \A s \in Session \ T : Accounted'[s] = Accounted[s]
    PROVE  AllSettled'
  <1>1. /\ live \in Database /\ live' = d /\ UNCHANGED thread
        /\ thread \in [Thread -> ThreadState]
    BY DEF Become, LockInv, HandoffInv, TypeOK
  <1> SUFFICES ASSUME NEW x \in Cli PROVE Settled(thread[x], d, Accounted', strayed')
    BY <1>1 DEF AllSettled
  <1>2. x \in Thread /\ thread[x] \in ThreadState
    BY <1>1 DEF Thread
  <1>3. CASE pc(x) \in {"idle", "snapshot"}
    BY <1>3 DEF pc, Settled
  <1>4. CASE pc(x) \notin {"idle", "snapshot"}
    <2>1. strayed' = strayed \cup Touched(T, d)
      BY <1>4 DEF Become, HandoffUnderWay
    <2>2. thread[x].want \in Session /\ Settled(thread[x], live, Accounted, strayed)
      BY <1>2, <1>4 DEF LockInv, HandoffInv, HasSession, pc, want, AllSettled
    <2>3. QED
      BY <1>1, <1>2, <2>1, <2>2, AddSettles
  <1>5. QED
    BY <1>3, <1>4

\* Hermes writes; it keeps off what is archived.
LEMMA WriteKeepsLock ==
    ASSUME LockInv, HandoffInv', NEW s \in Session, NEW d \in Database,
           Write(s, d), Adds(d, {s}), s \in d.rows
    PROVE  LockInv'
  <1>1. /\ live \in Database /\ live' = d /\ strayed \subseteq strayed'
        /\ UNCHANGED <<handoff_state, exported, brought, imported>>
        /\ \A t \in Conversation(s, d) : handoff_state[t] # "completed"
        /\ Become(d, {s})
    BY DEF Write, Become, LockInv, HandoffInv, TypeOK
  <1>2. AllSettled' /\ Accounted' = Accounted
    BY <1>1, BecomeSettles DEF Accounted
  <1>3. s \in Conversation(s, d)
    BY ConversationIsClosed
  <1>4. ArchivedWasSent'
    <2> SUFFICES ASSUME NEW t \in Session, handoff_state[t] = "completed",
                        t \notin imported, t \notin strayed'
                 PROVE  Accounted[t] = d.messages[t]
      BY <1>1, <1>2 DEF ArchivedWasSent
    <2>1. t # s
      BY <1>1, <1>3
    <2>2. QED
      BY <1>1, <2>1 DEF Adds, LockInv, ArchivedWasSent
  <1>5. OneLock'
    <2> SUFFICES ASSUME NEW a \in d.rows, handoff_state[a] = "completed",
                        NEW t \in Conversation(a, d) \cap d.rows
                 PROVE  \/ handoff_state[t] = "completed" \/ t \in strayed'
                        \/ Conversation(a, d) \cap imported # {}
      BY <1>1 DEF OneLock
    <2>1. a \in Session /\ a \in Conversation(a, d)
      BY ConversationIsClosed DEF Database
    <2>2. s \notin Conversation(a, d)
      BY <1>1, <1>3, <2>1, SameConversation
    <2>3. Conversation(a, d) = Conversation(a, live)
      <3>1. {s} \in SUBSET Session /\ {s} \cap Conversation(a, d) = {}
        BY <2>2
      <3>2. QED
        BY <1>1, <2>1, <3>1, ConversationGrows
    <2>4. a \in live.rows /\ t \in live.rows
      BY <2>1, <2>2 DEF Adds
    <2>5. QED
      BY <1>1, <2>3, <2>4 DEF LockInv, OneLock
  <1>6. QED
    BY <1>2, <1>4, <1>5 DEF LockInv

\* An import, which may reach what is archived.
LEMMA ImportKeepsLock ==
    ASSUME LockInv, HandoffInv', NEW R \in SUBSET Session, NEW M \in SUBSET Session, Import(R, M)
    PROVE  LockInv'
  <1> DEFINE T == R \cup M
  <1>1. /\ live \in Database /\ exported \in [Session -> Nat \cup {-1}]
        /\ brought \in [Session -> Nat] /\ HandoffInv
    BY DEF LockInv, HandoffInv, TypeOK
  <1>2. PICK d \in Database :
          /\ Become(d, T) /\ Adds(d, T) /\ d.rows = live.rows \cup R
          /\ \A s \in Session : d.messages[s] = live.messages[s] + More(s, M)
    BY <1>1, ImportAdds
  <1>3. /\ \A s \in Session \ R : handoff_state'[s] = handoff_state[s]
        /\ \A s \in Session : brought'[s] = brought[s] + More(s, M)
        /\ imported' = imported \cup R
        /\ exported' = exported
    BY <1>1, ImportLeaves
  <1>4. live' = d /\ strayed \subseteq strayed'
    BY <1>2 DEF Become
  <1>5. \A s \in Session : Accounted'[s] = Accounted[s] + More(s, M)
    BY <1>1, <1>3 DEF Accounted, More
  <1>6. AllSettled'
    <2>1. \A s \in Session \ T : Accounted'[s] = Accounted[s]
      BY <1>1, <1>5 DEF Accounted, More
    <2>2. QED
      BY <1>2, <2>1, BecomeSettles
  <1>7. ArchivedWasSent'
    <2> SUFFICES ASSUME NEW s \in Session, handoff_state'[s] = "completed",
                        s \notin imported', s \notin strayed'
                 PROVE  Accounted'[s] = d.messages[s]
      BY <1>4 DEF ArchivedWasSent
    <2>1. Accounted[s] = live.messages[s]
      BY <1>3, <1>4 DEF LockInv, ArchivedWasSent
    <2>2. QED
      BY <1>2, <1>5, <2>1
  <1>8. OneLock'
    <2> SUFFICES ASSUME NEW a \in d.rows, handoff_state'[a] = "completed",
                        NEW t \in Conversation(a, d) \cap d.rows,
                        Conversation(a, d) \cap imported' = {}
                 PROVE  handoff_state'[t] = "completed" \/ t \in strayed'
      BY <1>4 DEF OneLock
    <2>1. a \in Session /\ t \in Session /\ a \in Conversation(a, d)
      BY ConversationIsClosed DEF Database
    <2>2. a \notin R /\ t \notin R /\ a \in live.rows /\ t \in live.rows
      BY <1>2, <1>3, <2>1
    <2>3. Conversation(a, d) = Conversation(a, live)
      <3>1. \A r \in live.rows : d.parent[r] = live.parent[r]
        BY <1>2 DEF Adds
      <3>2. R \cap Conversation(a, d) = {}
        BY <1>3
      <3>3. QED
        BY <1>1, <1>2, <2>1, <3>1, <3>2, SameLinks
    <2>4. handoff_state'[a] = handoff_state[a] /\ handoff_state'[t] = handoff_state[t]
      BY <1>3, <2>1, <2>2
    <2>5. QED
      BY <1>3, <1>4, <2>2, <2>3, <2>4 DEF LockInv, OneLock
  <1>9. QED
    BY <1>6, <1>7, <1>8 DEF LockInv

\* A step of the export: what it reads is what it has snapshotted.
LEMMA ExportSettles ==
    ASSUME NEW x \in Cli, NEW t \in ThreadState, NEW r \in ThreadState, live \in Database,
           Settled(t, live, Accounted, strayed), ExportStep(x, t, r)
    PROVE  Settled(r, live, Accounted, strayed)
  <1>1. x \notin Puller
    BY ThreadAssumption
  <1>2. CASE t.pc = "snapshot"
    BY <1>2 DEF ExportStep, Shape, Settled, Unread
  <1>3. CASE t.pc = "guard"
    BY <1>3 DEF ExportStep, Shape, Settled, Unread
  <1>4. CASE t.pc = "resolve"
    BY <1>4 DEF ExportStep, Shape, Settled, Unread
  <1>5. CASE t.pc = "sessions"
    BY <1>5 DEF ExportStep, Shape, Settled, Unread
  <1>6. CASE t.pc = "messages"
    <2> DEFINE old == Conversation(t.want, t.snap)
               f == [s \in Session |-> IF s \in t.chain THEN t.snap.messages[s] ELSE 0]
    <2>1. /\ r.pc = "write" /\ r.want = t.want
          /\ r.bundle = [sessions |-> t.bundle.sessions, messages |-> f]
      BY <1>1, <1>6 DEF ExportStep, Shape
    <2>2. Unread(t, live, strayed) /\ t.chain = old /\ t.bundle.sessions = old \cap t.snap.rows
      BY <1>6 DEF Settled
    <2>3. \A s \in old : s \in Session /\ f[s] = t.snap.messages[s]
      BY <2>2 DEF Conversation
    <2> HIDE DEF f
    <2>4. Unwritten(r, live, strayed)
      BY <2>1, <2>2, <2>3 DEF Unread, Unwritten
    <2>5. QED
      BY <2>1, <2>4 DEF Settled
  <1>7. QED
    BY <1>2, <1>3, <1>4, <1>5, <1>6 DEF ExportStep

\* The other steps of the command line that write nothing out.
LEMMA CliSettles ==
    ASSUME NEW t \in ThreadState, NEW r \in ThreadState, CliStep(t, r), t.pc # "write",
           Settled(t, live, Accounted, strayed)
    PROVE  Settled(r, live, Accounted, strayed)
  <1>1. CASE r = Idle \/ r.pc = "snapshot" \/ (r.pc = "lock" /\ ~r.mark)
    BY <1>1, IdleType DEF Settled
  <1>2. CASE r.pc = "chain"
    BY <1>2, IdleType DEF CliStep, Shape, Settled, Unlocked, Unmarked
  <1>3. CASE r.pc = "update"
    BY <1>3, IdleType DEF CliStep, Shape, Settled, Unlocked, Unmarked
  <1>4. QED
    BY <1>1, <1>2, <1>3 DEF CliStep, Shape

\* The bundle is written out, by one of several runs that may export the same session.
LEMMA CliWriteKeepsLock ==
    ASSUME LockInv, HandoffInv', NEW x \in Cli, CliWrite(x)
    PROVE  LockInv'
  <1> DEFINE t == thread[x]
             c == Conversation(t.want, live)
  <1>1. /\ x \in Thread /\ t \in ThreadState /\ pc(x) = "write" /\ t.pc = "write"
        /\ t.want \in Session /\ live \in Database
        /\ UNCHANGED <<live, handoff_state, imported, strayed>>
        /\ exported' = [s \in Session |-> IF s \in t.bundle.sessions
                                          THEN t.bundle.messages[s] ELSE exported[s]]
        /\ brought' = [s \in Session |-> IF s \in t.bundle.sessions THEN 0 ELSE brought[s]]
    BY DEF CliWrite, LockInv, HandoffInv, TypeOK, HasSession, Thread, pc, want
  <1>2. Unwritten(t, live, strayed)
    BY <1>1 DEF LockInv, AllSettled, Settled
  <1>3. PICK r \in ThreadState : /\ thread' = [thread EXCEPT ![x] = r]
                                 /\ r.pc = "lock" /\ r.want = t.want
    BY <1>1, GoType DEF LockInv, HandoffInv, CliWrite, Place, want
  <1>4. \A y \in Thread : thread'[y] = IF y = x THEN r ELSE thread[y]
    BY <1>1, <1>3, ThreadUpdate DEF LockInv, HandoffInv
  <1>5. ASSUME NEW s \in Session, c \subseteq strayed => s \notin c
        PROVE  Accounted'[s] = Accounted[s] \/ Accounted'[s] = live.messages[s]
    <2>1. Accounted'[s] = IF s \in t.bundle.sessions THEN t.bundle.messages[s] ELSE Accounted[s]
      <3>1. t.bundle.messages \in [Session -> Nat]
        BY <1>1 DEF ThreadState, Bundle
      <3>2. QED
        BY <1>1, <3>1 DEF Accounted
    <2>2. QED
      BY <1>1, <1>2, <1>5, <2>1 DEF Unwritten
  <1>6. AllSettled'
    <2> SUFFICES ASSUME NEW y \in Cli PROVE Settled(thread'[y], live, Accounted', strayed)
      BY <1>1 DEF AllSettled
    <2>1. CASE y = x
      <3>1. c \subseteq strayed \/ \A s \in c \cap live.rows : Accounted'[s] = live.messages[s]
        <4> SUFFICES ASSUME ~(c \subseteq strayed), NEW s \in c \cap live.rows
                     PROVE  Accounted'[s] = live.messages[s]
          OBVIOUS
        <4>1. s \in Session /\ s \in t.bundle.sessions /\ t.bundle.messages[s] = live.messages[s]
          BY <1>1, <1>2 DEF Unwritten, Database
        <4>2. t.bundle.messages \in [Session -> Nat]
          BY <1>1 DEF ThreadState, Bundle
        <4>3. QED
          BY <1>1, <4>1, <4>2 DEF Accounted
      <3>2. QED
        BY <1>1, <1>3, <1>4, <2>1, <3>1 DEF Settled, Unmarked
    <2>2. CASE y # x
      <3> DEFINE u == thread[y]
                 e == Conversation(u.want, live)
      <3>1. thread'[y] = u /\ Settled(u, live, Accounted, strayed)
        BY <1>4, <2>2 DEF LockInv, AllSettled, Thread
      <3>2. ASSUME u.pc \in {"lock", "chain", "update"}, Unmarked(u, live, Accounted, strayed)
            PROVE  Unmarked(u, live, Accounted', strayed)
        <4> SUFFICES ASSUME ~(e \subseteq strayed), NEW s \in e \cap live.rows
                     PROVE  Accounted'[s] = live.messages[s]
          BY DEF Unmarked
        <4>1. Accounted[s] = live.messages[s] /\ s \in Session
          BY <1>1, <3>2 DEF Unmarked, Database
        <4>2. u.want \in Session
          BY <3>2 DEF LockInv, HandoffInv, HasSession, pc, want, Thread
        <4>3. s \in c => c = e
          BY <1>1, <4>2, SameConversation
        <4>4. QED
          BY <1>5, <4>1, <4>3
      <3>3. QED
        BY <3>1, <3>2 DEF Settled
    <2>3. QED
      BY <2>1, <2>2
  <1>7. ArchivedWasSent'
    <2> SUFFICES ASSUME NEW s \in Session, handoff_state[s] = "completed",
                        s \notin imported, s \notin strayed
                 PROVE  Accounted'[s] = live.messages[s]
      BY <1>1 DEF ArchivedWasSent
    <2>1. Accounted[s] = live.messages[s]
      BY DEF LockInv, ArchivedWasSent
    <2>2. QED
      BY <1>5, <2>1
  <1>8. OneLock'
    BY <1>1 DEF LockInv, OneLock
  <1>9. QED
    BY <1>6, <1>7, <1>8 DEF LockInv

\* The lock is set, or taken off.
LEMMA UpdateKeepsLock ==
    ASSUME LockInv, HandoffInv', NEW x \in Cli, Update(x)
    PROVE  ArchivedWasSent' /\ OneLock'
  <1> DEFINE t == thread[x]
             c == Conversation(t.want, live)
             R == t.chain \cap live.rows
  <1>1. /\ x \in Thread /\ t \in ThreadState /\ t.pc = "update"
        /\ t.want \in Session /\ live \in Database
        /\ UNCHANGED <<live, strayed, exported, brought>> /\ Accounted' = Accounted
        /\ imported' = imported \ R
        /\ handoff_state' = [s \in Session |-> IF s \in R THEN Lock(x) ELSE handoff_state[s]]
        /\ Settled(t, live, Accounted, strayed)
    BY DEF Update, Accounted, LockInv, HandoffInv, TypeOK, HasSession, Thread, pc, want, AllSettled
  <1>2. /\ R \subseteq c
        /\ c \subseteq strayed \/ c \cap live.rows \subseteq R
        /\ R \subseteq Session
    <2>1. t.want \in live.rows => t.want \in c
      BY <1>1, ConversationIsClosed
    <2>2. QED
      BY <1>1, <2>1 DEF Settled, Unlocked, Database
  <1>3. ArchivedWasSent'
    <2> SUFFICES ASSUME NEW s \in Session, handoff_state'[s] = "completed", s \notin strayed
                 PROVE  Accounted[s] = live.messages[s] \/ s \in imported'
      BY <1>1 DEF ArchivedWasSent
    <2>1. CASE s \in R
      <3>1. t.mark
        BY <1>1, <2>1 DEF Lock
      <3>2. QED
        BY <1>1, <1>2, <2>1, <3>1 DEF Settled, Unmarked
    <2>2. CASE s \notin R
      BY <1>1, <2>2 DEF LockInv, ArchivedWasSent
    <2>3. QED
      BY <2>1, <2>2
  <1>4. OneLock'
    <2> SUFFICES ASSUME NEW a \in live.rows, handoff_state'[a] = "completed",
                        NEW s \in Conversation(a, live) \cap live.rows, s \notin strayed,
                        Conversation(a, live) \cap imported' = {}
                 PROVE  handoff_state'[s] = "completed"
      BY <1>1 DEF OneLock
    <2>1. a \in Session /\ s \in Session /\ a \in Conversation(a, live)
      BY <1>1, ConversationIsClosed DEF Database
    <2>2. CASE a \in c
      <3>1. s \in c /\ a \in R /\ s \in R
        BY <1>1, <1>2, <2>1, <2>2, SameConversation
      <3>2. QED
        BY <1>1, <2>1, <3>1
    <2>3. CASE a \notin c
      <3>1. s \notin c
        BY <1>1, <2>1, <2>3, SameConversation
      <3>2. handoff_state'[a] = handoff_state[a] /\ handoff_state'[s] = handoff_state[s]
        BY <1>1, <1>2, <2>1, <2>3, <3>1
      <3>3. R \cap Conversation(a, live) = {}
        BY <1>1, <1>2, <2>1, <2>3, SameConversation
      <3>4. Conversation(a, live) \cap imported = {}
        BY <1>1, <3>3
      <3>5. QED
        BY <3>2, <3>4 DEF LockInv, OneLock
    <2>4. QED
      BY <2>2, <2>3
  <1>5. QED
    BY <1>3, <1>4

\* A step that concerns neither the database nor what was written out.
LEMMA OtherKeepsLock ==
    ASSUME LockInv, HandoffInv', AllSettled',
           UNCHANGED <<live, handoff_state, exported, brought, imported, strayed>>
    PROVE  LockInv'
  BY DEF LockInv, ArchivedWasSent, OneLock, Accounted

\* One run of the command line goes on.
LEMMA CliKeepsLock ==
    ASSUME LockInv, HandoffInv', NEW x \in Cli, NEW s \in Session,
           \/ Export(x) \/ CliWrite(x) \/ CliEnds(x) \/ SetLock(x)
           \/ CliExport(x, s) \/ Release(x, s)
    PROVE  LockInv'
  <1>1. CASE CliWrite(x)
    BY <1>1, CliWriteKeepsLock
  <1>2. ASSUME ~CliWrite(x) PROVE AllSettled'
    <2>1. UNCHANGED <<live, exported, brought, strayed>> /\ Accounted' = Accounted
      BY <1>2, ExportLeaves, CliLeaves DEF Accounted
    <2>2. /\ TypeOK /\ HasSession /\ x \in Thread /\ thread[x] \in ThreadState
          /\ live \in Database /\ Settled(thread[x], live, Accounted, strayed)
      BY DEF LockInv, HandoffInv, TypeOK, Thread, AllSettled
    <2>3. PICK r \in ThreadState : /\ thread' = [thread EXCEPT ![x] = r]
                                   /\ Settled(r, live, Accounted, strayed)
      <3>1. CASE Export(x)
        BY <2>2, <3>1, ExportUpdate, ExportSettles
      <3>2. CASE CliEnds(x) \/ SetLock(x) \/ CliExport(x, s) \/ Release(x, s)
        <4>1. CASE thread[x].pc # "write"
          BY <2>2, <3>2, <4>1, CliUpdate, CliSettles
        <4>2. CASE thread[x].pc = "write"
          <5>1. CliEnds(x)
            BY <3>2, <4>2 DEF SetLock, LockBegin, LockChain, Update, CliExport, Release, pc
          <5>2. QED
            BY <5>1, IdleType DEF CliEnds, Finish, Settled
        <4>3. QED
          BY <4>1, <4>2
      <3>3. QED
        BY <1>2, <3>1, <3>2
    <2>4. \A y \in Thread : thread'[y] = IF y = x THEN r ELSE thread[y]
      BY <2>2, <2>3, ThreadUpdate
    <2>5. \A y \in Cli : Settled(thread'[y], live, Accounted, strayed)
      BY <2>3, <2>4, Zenon DEF LockInv, AllSettled, Thread
    <2>6. QED
      BY <2>1, <2>5 DEF AllSettled
  <1>3. CASE Update(x)
    <2>1. ~CliWrite(x)
      BY <1>3 DEF Update, CliWrite
    <2>2. QED
      BY <1>2, <1>3, <2>1, UpdateKeepsLock DEF LockInv
  <1>4. CASE ~CliWrite(x) /\ ~Update(x)
    <2>1. UNCHANGED <<live, handoff_state, exported, brought, imported, strayed>>
      BY <1>4, ExportLeaves, CliLeaves
    <2>2. QED
      BY <1>2, <1>4, <2>1, OtherKeepsLock
  <1>5. QED
    BY <1>1, <1>3, <1>4

\* The servers and the phones do not touch the command line.
LEMMA PullerKeepsLock ==
    ASSUME LockInv, HandoffInv', NEW x \in Puller,
           Serve(x) \/ Pull(x) \/ TimeOut(x) \/ \E s \in Session : Ask(x, s)
    PROVE  LockInv'
  <1>1. UNCHANGED <<live, handoff_state, exported, brought, imported, strayed>>
    BY ExportLeaves DEF Serve, SendOk, SendBundle, Refuse, Pull, ReadOk, ReadBundle, GiveUp,
       TimeOut, Leave, Ask, done
  <1>2. \A y \in Cli : thread'[y] = thread[y]
    <2>1. TypeOK /\ x \in Thread /\ \A y \in Cli : y \in Thread /\ y # x
      BY ThreadAssumption DEF LockInv, HandoffInv, Thread
    <2>2. CASE Export(x)
      BY <2>1, <2>2, ExportUpdate, ThreadUpdate
    <2>3. CASE ~Export(x)
      BY <2>1, <2>3 DEF Serve, SendOk, SendBundle, Refuse, Pull, ReadOk, ReadBundle, GiveUp,
         TimeOut, Leave, Ask, Go, Finish, TypeOK
    <2>4. QED
      BY <2>2, <2>3
  <1>3. AllSettled'
    BY <1>1, <1>2 DEF LockInv, AllSettled, Accounted
  <1>4. QED
    BY <1>1, <1>3, OtherKeepsLock

LEMMA StepLockInv == LockInv /\ [Next]_vars => LockInv'
  <1> SUFFICES ASSUME LockInv, [Next]_vars PROVE LockInv'
    OBVIOUS
  <1>1. HandoffInv'
    BY StepHandoffInv DEF LockInv
  <1>2. live \in Database
    BY DEF LockInv, HandoffInv, TypeOK
  <1>3. ASSUME NEW s \in Session, NEW p \in Session \cup {NoSession},
               AddMessage(s) \/ AddSession(s, p)
        PROVE  LockInv'
    BY <1>1, <1>2, <1>3, WriteAdds, WriteKeepsLock
  <1>4. ASSUME NEW R \in SUBSET Session, NEW M \in SUBSET Session, Import(R, M)
        PROVE  LockInv'
    BY <1>1, <1>4, ImportKeepsLock
  <1>5. CASE UNCHANGED vars
    BY <1>1, <1>5 DEF vars, done, LockInv, AllSettled, ArchivedWasSent, OneLock, Accounted
  <1>6. ASSUME NEW x \in Cli, Export(x) \/ CliWrite(x) \/ CliEnds(x) \/ SetLock(x)
        PROVE  LockInv'
    <2>1. \E s \in Session : TRUE
      <3>1. x \in Thread /\ pc(x) # "idle"
        BY <1>6 DEF Thread, Export, Snapshot, Guard, Resolve, SelectSessions, SelectMessages,
                    CliWrite, CliEnds, SetLock, LockBegin, LockChain, Update
      <3>2. QED
        BY <3>1 DEF LockInv, HandoffInv, HasSession
    <2>2. QED
      BY <1>1, <1>6, <2>1, CliKeepsLock
  <1>7. QED
    BY <1>1, <1>3, <1>4, <1>5, <1>6, CliKeepsLock, PullerKeepsLock DEF Next

LEMMA InitLockInv == Init => LockInv
  <1> SUFFICES ASSUME Init PROVE LockInv
    OBVIOUS
  <1>1. HandoffInv
    BY InitHandoffInv
  <1>2. AllSettled
    BY IdleType DEF Init, AllSettled, Settled, Thread
  <1>3. ArchivedWasSent /\ OneLock
    <2>1. live.rows \subseteq Session
      BY <1>1 DEF HandoffInv, TypeOK, Database
    <2>2. QED
      BY <2>1 DEF Init, ArchivedWasSent, OneLock
  <1>4. QED
    BY <1>1, <1>2, <1>3 DEF LockInv

-----------------------------------------------------------------------------
(* What follows from it *)

\* The strengthening of the properties below holds in every behaviour.
THEOREM HandoffInvariance == Spec => []HandoffInv
  BY InitHandoffInv, StepHandoffInv, PTL DEF Spec

\* Types, for any number of sessions, phones, writes and requests.
THEOREM HandoffTypes == Spec => []TypeOK
  <1>1. HandoffInv => TypeOK
    BY DEF HandoffInv
  <1>2. QED
    BY HandoffInvariance, <1>1, PTL

\* The bundle on its way to a phone is its conversation as it was at one instant.
THEOREM BundleOfOneInstant == Spec => []BundleIsOneInstant
  <1>1. HandoffInv => BundleIsOneInstant
    BY DEF HandoffInv, Sent, BundleIsOneInstant, Waiting
  <1>2. QED
    BY HandoffInvariance, <1>1, PTL

\* An error or a broken connection never passes for a conversation.
THEOREM NothingIsHalfTaken == Spec => []NothingHalfTaken
  <1>1. HandoffInv => NothingHalfTaken
    BY DEF HandoffInv
  <1>2. QED
    BY HandoffInvariance, <1>1, PTL

\* Between what a handoff of the command line has read and the conversation as it is now
\* there is no difference, or all of the conversation counts as written to.
THEOREM LockInvariance == Spec => []LockInv
  BY InitLockInv, StepLockInv, PTL DEF Spec

\* What is archived was handed off with all its messages but those imports have brought
\* since, through handoffs that overlap, failures and releases; only rows that an import
\* made, and what was written to in the middle of a handoff, may differ.
THEOREM ArchivedAfterSent == Spec => []ArchivedWasSent
  <1>1. LockInv => ArchivedWasSent
    BY DEF LockInv
  <1>2. QED
    BY LockInvariance, <1>1, PTL

\* No conversation is locked by halves, unless an import added a session to it since, or
\* something was written to it in the middle of a handoff.
THEOREM LockedAsOne == Spec => []OneLock
  <1>1. LockInv => OneLock
    BY DEF LockInv
  <1>2. QED
    BY LockInvariance, <1>1, PTL

=============================================================================
