# Hermes Companion: TLA+ models, checks and proofs

The companion runs on a computer next to `hermes`, the agent. A phone pairs with
it and then dispatches tasks to hermes (push, poll, ack), pulls conversations
(handoff) and pushes its own conversations back (reverse sync). This directory
holds specifications of that program: what its parts do step by step, the
properties that make it correct, the TLC runs that check them on small instances,
and the proofs that hold for every size.

Paths below are relative to `src/handoff/` unless they say otherwise.

## 1. The system

### Components, their state and their operations

| Component | State | Operations |
|---|---|---|
| `MeshStore` (`mesh_broker.py`) | `queue.db`: tables `tasks` and `results`; one lock around one SQLite handle | `add_task`, `claim_next_task`, `finish_task`, `requeue_running`, `add_result`, `pending_results`, `mark_delivered`, `close` |
| `MeshBroker` handlers | a daemon thread per connection: hello, request, answer | `push`, `poll`, `ack`, `pair`, `pull`, `push_session` |
| `MeshBroker` worker | one thread, the task in its hands | claim, run hermes (at most 15 minutes), store the answer, finish |
| `MeshBroker` lifecycle | `_running`, socket, worker, store | `start`, `stop` with a grace period, `open_pairing`; the service manager restarts what has crashed |
| `PeerStore` (`handoff_server.py`) | dictionary in memory, `peers.json` on disk, no lock | `add`, `remove`, `is_paired`, `_load`, `_save` |
| Console (`companion_web.py`) | none of its own; reads and writes the broker's | status page, `POST /api/unpair`, `POST /api/open-pairing`, QR encoder |
| `handoff_core.py` | hermes' `state.db` and `memories/*.md` | `resolve_chain`, `export_session`, `export_all`, `import_bundle`, `import_memory`, `import_all` |
| `desktop_export.py` | a private snapshot; the columns `handoff_state`, `archived` of `state.db` | `export_for_handoff`, `mark_handed_off`, `release_handoff` |
| `HandoffServer` (plugin, `__init__.py`, `__main__.py`) | socket, `PeerStore` | serves `pull` to paired phones |
| `pairing.py` | identity file | create or load the identity, QR content, NaCl boxes |
| Launch (`../companion.py`, `companion_app.py`, `mesh_broker.main`) | port, tray icon, `console.url` | start as tray, as console, or reopen the running instance |
| Wire framing (`handoff_server.py`) | none | length-prefixed frames, 64 MiB limit |
| `i18n.py`, packaging, `mesh-start.sh` | none | texts; installation of the service |

### How they interact

Every phone connection is a thread of the broker; it reads `PeerStore`, calls
`MeshStore`, or calls `handoff_core` on hermes' own database, which hermes writes
at the same time. The console's requests are threads of the same process and
share `PeerStore` and the pairing window with them. The worker meets the handlers
only in `MeshStore`. `queue.db`, `peers.json` and `state.db` outlive the process;
everything else dies with it.

### What is hard here

* **Restarts in the middle of a task.** The worker makes three separate store
  calls around a run of up to 15 minutes; a stop, a crash or an exception may come
  between any two. A lost answer is invisible to a unit test.
* **Retries.** The phone repeats a push, a poll or an upload whose answer was lost,
  possibly while the first one still runs.
* **Threads without a lock.** `PeerStore` and the imports rely on nothing but the
  file system and SQLite.
* **Checked, then used.** Trust is looked up at the hello and used after an
  unbounded wait; the keys of a dedup are read before the insert; a memory file is
  read, merged and replaced; a chain is resolved before the transaction that locks it.
* **Others write at the same time.** A bundle is read by several SELECTs, and the
  lock is set after the export, on a database that has gone on. hermes keeps off what
  is locked; imports do not look.
* **Two processes, or one that starts over.** A second launch, a launch on another
  address, and a tray that falls back to the console mode share one home.
* **Foreign data.** Parent links, task ids and time stamps come from other devices.
* **Boundaries.** Count widths, block lengths and reserved areas of the QR code change
  from version to version.

`PROJECT.json` lists every hazard at its line with the properties that guard it.

### What makes each component correct

* Queue: no accepted task is lost, no answer is lost or shown to another phone, one
  answer per life of the process, first in first answered, shutdown does not cut
  the worker off, and in the end every task is answered and acknowledged.
* Trust: only a phone that came through an open window is ever trusted or served; a
  confirmed removal is final; a confirmed pairing survives restarts. (Section 3 names
  the conditions.)
* Merge: an import is all or nothing, loses nothing, adds nothing, and stores no
  message twice.
* Chain: a conversation is carried whole, each session once, and nothing else.
* Handoff: a phone gets its conversation as it was at one instant, or an error; what
  is archived was exported; a conversation is locked as a whole.
* Memory: nothing remembered is lost or doubled, and the homes come to agree.
* Launch: one worker per task, one identity, the saved console address is that of the
  tray that is up, and every launch ends with a broker on its address.
* QR code: the symbol holds the payload and shows every bit where a reader looks.

## 2. Modules

| Module | Models | Role |
|---|---|---|
| `TaskDelivery` | the promise to a phone that dispatches tasks | abstract specification |
| `MeshQueue` | `MeshStore`, the handlers of push/poll/ack, the worker, the process | implements `TaskDelivery` |
| `PeerTrust` | `PeerStore`, hello/pair/any operation, the window, unpair, restarts | component |
| `ConversationMerge` | an import as one atomic union | abstract specification |
| `ImportBundle` | `import_bundle`, statement by statement, several at once | implements `ConversationMerge` |
| `ConversationLookup` | looking up a conversation as one atomic step, while sessions are inserted | abstract specification |
| `ResolveChain` | `resolve_chain`, one SELECT at a time, on a snapshot or on the live database | implements `ConversationLookup` |
| `Handoff` | `export_for_handoff` and `export_session`, `_op_pull` and the plugin's `_handle`, `pull_session`, the command line, `mark_handed_off`, `release_handoff`, and hermes and imports writing | composition; looks conversations up as `ConversationLookup` promises |
| `MemorySync` | `_read_memory`, `merge_memory_text`, `import_memory` in several homes | component |
| `Launch` | `companion.py`, `companion_app.main`, `mesh_broker.main`, `serve`, `load_or_create_identity`, the port | composition of processes; takes the worker from `MeshQueue` in short |
| `QrMatrix` | `qrMatrix` in the page of `companion_web.py`, as far as it decides where things go | pure algorithm against the standard |
| `MC*` | instances for TLC: the bundles, id choices, lines and symmetries | model checking |
| `*Proofs` | theorems of the component of that name | proofs |

Definitions that begin with the comment *Wrong:* are plausible bugs: each takes the
place of the definition after it in one experiment, and TLC then finds the named
property violated. No action uses them.

### MeshQueue

The variables are the columns of the two tables, the process (`broker`, `storeOpen`,
`worker`, `current`) and the phones' side (`reply`, `received`). A store operation
holds `MeshStore._lock` and one transaction and is one operator; a handler makes one
store call and is one action; the worker has a program counter with a place before
each of its store calls and before and after hermes. `stop()` is three actions
(begin, then close the store or leave it open when the grace period is over), so a
handler or the worker may act in between. `WorkerFault` is an exception in the loop,
which has no `try`. A process that ends without `stop()` is `down` and is started again; one
that ends after it (`ended`) is started again only if somebody does so: `stop()` is
reached by Ctrl-C, by the tray's Quit and by a tray that fails, and no service manager
is behind those. Time is a counter that may stand still between two pushes
(`time.time()` may return the same value twice) and never steps back.
`result.run` and the counters `minted`, `starts`, `faults` are observations.

The docstring of `stop()` says that closing the store too early loses the answer for
good. The model shows a milder effect: the task stays `running` and the next start
requeues it, so it is run once more. The order in `stop()` is still right
(`StoreOutlivesWorker`), since within this life the answer would be lost and the
work done twice.

### PeerTrust

A save is three steps (serialise begins, serialise ends, rename), because any thread
may change the dictionary or rename its own copy between them. `DumpEnd` allows
every content that Python's iterator can produce while the dictionary changes
without changing its size, and `DumpRaises` is the `RuntimeError` otherwise. The
answer of `is_paired` at the hello is a local variable of the thread. `admitted`,
`latest`, `revoked`, `welcomed`, `served`, `overlapped`, `unsaved`, `forgotten` and
`behind` are observations: what the phones and the user were told, and what had happened
by then. A confirmation that was overtaken by the opposite change promises nothing
(`latest`).

A start reads the file (`Start`) or cannot (`StartUnread`): then `_load` goes on with
nobody, whether the file is broken for good or could not be opened this once, and the
next save replaces it. `forgotten` are the confirmed phones that are lost in this way,
and those that were confirmed as already known while the file lacked them (`unsaved`,
because the first save failed or was not through; the branch for known phones does not
save), if the process ended before another save brought them into the file. `behind`
holds from a save or load that failed to the next save that goes through.

One assumption is made of the data: a device id stands for one key. The id is made of
the first 8 bytes of the key, so a hello with a known id and another key is a
different phone here.

### ImportBundle

`with conn` of Python's `sqlite3` begins no transaction: the first INSERT does. So an
import reads committed rows until it first inserts, and holds the write lock from
then until its commit. Every SELECT and every INSERT is a step. A message is its
session, a text that stands for role, content and value of the time stamp, and the
form in which the stamp is written, since the natural key is taken of its text and
the REAL column turns an integer into a float. `Fail` may come at every step and
stands for a lock that does not come in time, a full disk, a refused row and the end
of the process.

### ResolveChain

One step per turn of the two loops. `stack` is a set, because the order of the
children is up to the database. `Insert` is another writer of the live database;
with `MaxInserts = 0` the database is the snapshot of an export. The initial states
are all sets of rows with all parent links, cycles and missing parents included. A
conversation is never computed: it is the least set that contains the session and
that no parent link of a row enters or leaves (`Closed`), which is what makes the
specification independent of the algorithm. `ConversationLookup` says what callers see
of all this: one step that returns a set between the conversation as it was at the
call and as it is now.

### Handoff

The two servers answer a pull alike and are one model: a thread that copies the
database, checks the schema, resolves the chain, reads sessions, reads messages, and
sends two frames; `Refuse` is the exception at any of these places, also after the
first frame. The connection is a queue of frames that may break off. The phone reads
the two frames and gives up on an error, an end or a timeout. The command line is the
same export followed by the file and by the lock, which works on the live database:
`LockBegin` and `LockChain` are the beginning and the end of `resolve_chain` there,
and what it returns lies between the conversation at the one and at the other, as
`ConversationLookup` has it; `Update` is the transaction.

Two write to the database meanwhile. Hermes (`AddMessage`, `AddSession`) adds at any
time, except to what is archived as handed off, which is the point of the lock.
`Import` is `import_bundle`, in the one step that `ImportBundle` shows it to be: it
does not look at `handoff_state`, so it adds messages and sessions to archived
conversations as well, and a row it makes brings its own lock columns along.
`views` (what the conversation was at every instant of a pull), `exported` and
`brought` (how many messages of a session were written out, and came by imports
since), `imported` (sessions an import has made and no lock has reached since) and
`strayed` (sessions of conversations written to during a handoff of the command line)
are observations.

### MemorySync

A file is how often each line stands in it; the order of lines and blank lines are
left out. Lines are compared stripped, so several lines have one text. Each home
exports its files one by one, the bundle may arrive any number of times, and an
import reads a file, merges and replaces it in separate steps, between which hermes
and other imports write. A file that cannot be read is passed over in an export and
in an import, both in silence. `kept` (what hermes wrote and what an answered import
has brought) and `clashed` (files replaced by an import that had read an older
content) are observations.

### Launch

A launch is a process that goes from the identity to the port, the requeue, the
console's address and its loop, in the mode `tray` or `console`; where the tray fails
it goes through the same places again as console, in the same process, with whatever
the first broker has left: its worker if hermes outlives the grace period, and its
socket, since closing a socket another thread is blocked on does not end its
listening (Linux). An error before the port is bound is `StartFails`. After it
(`StartFailsBound`) the requeue or the advertisement fails: nobody calls `stop()`, and
the socket, with the worker if it had started, stays in the process that goes on to the
console mode; there an `EADDRINUSE` of zeroconf's own sockets is taken for a second
launch. `Blank`, `Gone` and `Kill` say what dies with a process.

### QrMatrix

Codewords and modules are named by their numbers and places, not by their values. One
step for each stage of `qrMatrix`: version, blocks, patterns, pairs of columns,
format. The properties restate the standard from the reader's side: the table of
capacities, the order in which a reader deals codewords out to blocks, the patterns
it looks for and the two copies of the format. Masks, penalty and Reed-Solomon are
arithmetic on values; the repository's tests compare them with another encoder.

## 3. Runs

| Run | Instance | Distinct states | What it shows |
|---|---|---|---|
| `queue` | 2 phones, 2 tasks, both may name task `a`, 2 starts, 1 fault | 74,337 | every safety property of the queue, that it implements `TaskDelivery`, that every accepted task is retired in the end unless its worker has died or nobody starts the companion again after a stop, and that `stop()` ends |
| `trust` | 2 phones, 2 connections, 1 console request, 2 saves at once, 1 failing save or load, 2 starts | 1,169,000 | trust and service come through the window; removals are final, pairings are kept and the file agrees with memory, under the conditions below |
| `trust_revival` | 2 saves at once, no failing save | | *violated:* a removed phone is trusted again |
| `trust_in_flight` | 1 connection | | *violated:* a removed phone's open connection is still served |
| `imports` | 4 kinds of bundle, 3 imports at once, 6 in all | 176,436 | every import is one atomic union; imports in turn double nothing; what was begun on the phone is stored once |
| `import_retry` | a known conversation, 2 imports at once | | *violated:* a message is stored twice |
| `chain` | 4 ids, every database, 1 insertion during the call | 229,088 | the call ends; the chain is the conversation (between what it was at the call and at the return), each session once; to its callers it is a lookup in one step (`ConversationLookup`) |
| `handoff` | 2 sessions, every database on them, 1 pull or 2 command lines at a time, 2 handoffs or releases, 2 writes of hermes or imports | 2,260,000 | one instant or an error; archived is exported, locked as a whole, under the conditions below |
| `memory` | 2 homes, 1 file, 3 lines of which two have one text, 1 edit, 1 fault, every start content | 324,280 | nothing lost without a clash, nothing doubled, and both homes come to agree |
| `launch` | 2 launches, 2 addresses, 1 task, 1 error before or after the bind | 622,082 | tasks, identity and console address stay consistent; a broker serves in the end |
| `launch_fallback` | the same without an error | | *violated:* the console mode finds the port taken by its own tray |
| `qr` | all 20 versions, filled to the last byte | 884 | capacity, interleaving, layout and format are what a reader expects |

### Bounds

`MaxStarts`, `MaxFaults`, `MaxImports`, `MaxInserts`, `MaxWrites`, `MaxTasks`,
`MaxEdits` and `MaxLaunches` bound counters that the program does not bound.
`MaxFaults` counts every failure of a save, a load or a start; `MaxWrites` those of
hermes and of imports together. Two starts give a crash or stop and the recovery from
it. The last incarnation of the broker is not stopped, so that the properties that speak of the end have one. Two
tasks are needed for the order and two phones for the ownership; neither property
relates three. `MaxSavers` and `MaxBusy` are assumptions about the environment, not
bounds: how many saves, or imports, overlap. Two is enough for everything that
overlapping can break, and the observations `overlapped` and `together` remember
whether it happened, so one run covers both cases. Six imports are more than the four
kinds of bundle, so each kind meets a database that has it. Four ids give the chain a
path, a branch, a cycle with a tail, and two children of a missing parent. `Handoff`
needs two sessions for a lock that could hold half a conversation, a task that
overlaps another, and one write on either side of a SELECT. A pull only reads, and the
lock decides nothing in it, so what it does is checked in behaviours with one pull, and
what the command line does in those without a pulled bundle (`Apart` in `MCHandoff`).
`MemorySync` needs two lines of one text for a merge that could double, a third one that
is new, and unbounded rounds of sync, of which the state graph is finite. Every version of the QR code is filled
to its last byte, with one byte more at the change of the count's width and at the
end; since everything drawn is a function of the version (`DrawnByVersion`), these
payloads stand for all lengths. Apart from liveness, the proofs of section 4 hold for
any value of all of these.

`trust` and `handoff` have a view (`Seen` in their `MC` modules) under which states are
one that no guard and no property of the run tells apart: observations about phones
after saves have overlapped, where the properties promise nothing any more; a session
that was released and one that was never locked. Their numbers of states are rounded,
as they depend a little on the order in which TLC meets such states.

Deadlock is checked in `queue`, `memory` and the trust runs. Elsewhere the system
really stops: phones stop syncing when the bound is reached, a call and an encoding
end, and in `launch` every process may be gone.

### Conditions in the properties

Some promises hold only under a condition, and the condition is part of the property.
Each was put there because TLC showed a behaviour without it:

* `RevokedUnlessOverlap`, `WelcomedStaysTrusted`, `FileIsCurrent`: saves that overlap
  (finding 1).
* `WelcomedStaysTrusted`: the phones in `forgotten`, which a start could not find because
  it could not read the file, or because they were confirmed as already known while the
  file lacked them and no save came before the end. While the process runs a confirmed
  phone is trusted without that exception, failing saves or not.
* `FileIsCurrent`: from a save or load that failed to the next save that goes through
  (`behind`).
* `NoDuplicatesInTurn`: imports at the same time (finding 3), and `SameKey`: a stamp
  on a full second that a bundle writes as an integer, where `str(5)` and `str(5.0)`
  give different natural keys. hermes writes no such stamps.
* `NewIsStoredOnce`: one bundle brings the conversation. With two, the second loads
  its keys before the first commits.
* `RetiredUnlessAbandoned`: an exception in the loop ends the worker for this life; and
  after a `stop()` nobody need start the companion again.
* `StopEnds` promises that a `stop()` comes to its end, and no more.
* `ArchivedWasSent`, `OneLock`: hermes or an import writes to the conversation while a
  command line is between snapshot and lock (`strayed`). This covers a real weakness:
  `_set_lock` resolves the chain again on the live database, so a session that hermes
  adds after the snapshot is archived although no bundle holds it, while the comment at
  `desktop_export.py:149` speaks of the sessions in the bundle's chain.
* `ArchivedWasSent`: messages imports have brought since (`brought` is counted with what
  was exported), and sessions an import has made (`imported`), whose lock came with them.
* `OneLock`: conversations to which an import has added a session since they were
  locked (`imported`). The next lock or release of the conversation takes them in.
* `KeptUnlessClash`: an import replaces what was written since it read.
* `OneRunAtATime`, `RunningIsHeld`, `ConsoleIsFound`: brokers on two addresses share
  one home, or the second one starts while the first one's worker is still in hermes
  (`shared`). `ConsoleIsFound` also excepts errors, and speaks of a tray that is up:
  between its bind and its write, `console.url` still names the tray before it, and a
  second launch at that moment is shown that one.
* `IdentityIsKept`: two first launches at once (`raced`).
* `SomebodyServes`: a socket that was closed and goes on listening (finding 4), an
  error, or an end from outside.

### Fairness

`MeshQueue` assumes weak fairness of the worker's steps (a thread of its own that
waits only for hermes, which has a timeout, and for the store's lock), of `Restart`, the start
after a crash (`mesh-start.sh` installs the service with `Restart=always` or
`KeepAlive`), of the two ends of `stop()` (its join has a timeout) and of `Exit`; and, of the phone app,
that it goes on polling, receiving and acknowledging. It assumes nothing of pushes,
stops, crashes and faults, nor that a companion that was stopped is started again. A phone that never polls again leaves its answers in the
table for ever, which is what the code intends. `ResolveChain` assumes that a loop in
a thread goes on. `MemorySync` assumes that of exports and imports, and of the phone
app and its user that they keep syncing in both directions: without that, homes that
never meet never agree. `Launch` assumes that a process that has started goes on to
its next step; its `stop()` has a time limit. No launch, quit or kill is assumed.

### Disagreements found

Four runs are expected to end in a violation; `PROJECT.json` quotes the sentence of
the repository that each contradicts.

1. `trust_revival`: `PeerStore._save` without a lock; the older of two copies may be
   renamed last.
2. `trust_in_flight`: the trust decision of the hello outlives a removal.
3. `import_retry`: two overlapping imports of a known conversation read the keys
   before either inserts.
4. `launch_fallback`: `stop()` closes a socket on which `accept()` is blocked; the
   port stays taken and the console mode that follows exits with an unhandled
   `OSError`.

The third one was also seen by running `import_bundle` itself with two threads. The
fourth rests on what Linux does with a close during `accept()`.

## 4. Proofs

All theorems are proved with the TLA+ proof system for arbitrary constants that
satisfy the named assumptions of the modules.

**MeshQueueProofs.** `IInv` conjoins the safety properties with what makes them
inductive: rows are whole (`TasksWellFormed`), result ids are fresh and results are
addressed to the owner of their task (`ResultsWellFormed`), phones hold only ids of
their own results (`MailIsOwn`), the worker holds a running task exactly while it
works on it (`WorkerHolds`), what may still be answered in this life has not been
(`NotYetAnswered`), and every task older than the one in the worker's hands has an
answer (`WorkerProgress`, which carries the order over crashes). Without the last two
neither `OneAnswerPerRun` nor `AnsweredInOrder` is preserved by `WorkerAnswer`. There
is one lemma per action, and one for all the control steps that write no row. Every
safety property of the run is a theorem, and `QueueKeepsPromise` is the refinement:
push is `Accept` or a stutter, `add_result` is `Answer`, receiving is `Show`, ack is
`Retire`.

**PeerTrustProofs.** What a thread has serialised, and whom a hello took for paired,
was admitted before; this is preserved by the unlocked saves because a copy is always
a subset of old and present entries. A second invariant speaks of runs without an
overlap: at most one thread saves, its copy is what memory holds, whom a thread is
removing is in neither memory nor file any more, whoever was told that it is paired and is not `forgotten` is in
memory, and in the file unless it counts as `unsaved`, and file and memory agree
whenever nobody saves and the last save or load did not fail. From
it follow `RevocationIsFinal`, `WelcomeIsKept` and `FileAgrees`.

**ImportBundleProofs.** `IInv` says of every importer, at every place in its lists,
that what it has passed over is in the database or in its own transaction
(`MissesNothing`) and that it inserts only what its bundle carries
(`AddsNothingElse`). Both survive the steps of other importers because rows are never
taken away. `Refinement` follows: the commit is the union with the whole bundle, and
every other step is a stutter. `NoMessageTwice` needs `SerialInv`: the keys loaded are
complete for the sessions already loaded. `NewStoredOnce` holds while imports overlap
and needs `NewInv`: who has inserted anything has the write lock (`HoldsLock`); a
conversation is there with all its messages or not at all (`AllOrNothing`); and its
messages are inserted only by who adds its session while it is not there
(`InsertsNew`). So two importers cannot both be past the sessions of one new
conversation.

**ResolveChainProofs.** The invariant speaks of all closed sets instead of computing
one: who has the root has every session the walk came by (`PathKept`), children of
what is collected are collected or on the stack (`Collected`), and all of it belongs
to every closed set with the session in it (`Belongs`). Insertions of other writers
keep it, since the links the call has followed never change. Theorems: `Complete`,
`Sound`, `EachOnce`, and `RootLeads`: the root heads the chain, as `export_session`
expects. `ChainIsLookup` is the refinement of
`ConversationLookup`: the step that ends the call is `Return`, an insertion is an
insertion in both, every other step is a stutter. The returned set contains the
conversation at the call because it is closed under the rows of then
(`DoneReturnsAll`) and lies in the conversation of now by `Belongs`.

**HandoffProofs.** The invariant carries, for every place of an export, what of the
snapshot is already in the bundle, and that the snapshot of a pull is one of the
databases whose view is in `views`; the frames on the wire are nothing, an `ok`, an
`ok` and a bundle, or either with an error. A bundle is then the view of that
snapshot, and not empty, because `Resolve` lets no unknown session through.
Theorems: `HandoffTypes`, `BundleOfOneInstant`, `NothingIsHalfTaken`.

The lock has an invariant of its own, `LockInv`, which rests on conversations being the
components of the graph of parent links: a conversation is the least closed set with a
session in it (`ConversationIsLeast`), two that meet are the same
(`SameConversation`), and where the database grows they only grow
(`ConversationGrows`). `AllSettled` then says of every command line, at each place
between its snapshot and its `UPDATE`, that what it has read is the conversation as it
is now, or the whole conversation counts as written to (`strayed`). A transaction of
hermes or of an import keeps this because it marks every conversation it lands in, also
when new sessions join several of them into one (`AddSettles`, `BecomeSettles`).
`ArchivedWasSent` and `OneLock` are conjuncts: the `UPDATE` of one command line archives
what another one has exported or locked only as a whole or as strayed
(`UpdateKeepsLock`); hermes does not write to what is archived (`WriteKeepsLock`); and an
import that does, is counted in `brought`, or names in `imported` the sessions it makes,
while one that brings messages only leaves every conversation what it was (`SameLinks`,
`ImportKeepsLock`).
Theorems: `LockInvariance`, `ArchivedAfterSent`, `LockedAsOne`.

**MemorySyncProofs.** A merge has the texts of both contents and, if neither doubles
a text, doubles none (lemmas `MergeKeeps`, `MergeIsSingle`). `SingleInv` extends the
second to every copy under way. `Through` says of an import that each file it is
through with has its texts, or was hit by a clash, which is what the answer promises;
it survives the steps of others since no step takes a text out of a file without a
clash (`TextsStay`). Theorems: `MemoryIsKept`, `NoTextDoubles`.

**LaunchProofs.** The invariant ties each process's place to what it holds (identity,
running broker, socket, worker) and says that brokers on one address exclude each
other by the port, so that with `shared` false the running brokers are one, also when one was left behind by
a start that failed. Theorems:
`TaskHasOneWorker`, `RunningTaskIsHeld`, `IdentityStays`, `ConsoleIsNamed`.

**QrMatrixProofs.** The capacities computed from the code's tables are those of the
standard, version by version (`HoldsByCapacity`), so the versions that hold a payload
are those from one on and the least exists (`LeastExists`). `IInv` says that the version
is that one and that codewords and grid are functions of it, whatever the payload and
the mask. The patterns are then a matter of where they are: alignment patterns stand on
even rows and columns, in the outer rows or at least 12 rows from those,
and apart from each other (`AlignSpacing`); format and version stand in places
(`FormatPlaces`, `VersionPlaces`) that no finder, alignment or timing pattern reaches.
On a timing pattern an alignment pattern is drawn over it in the same colours
(`TimingIntact`). The copies of the format, and of the version, have no module in common,
which counts them (`CountedTwice`).

That the codewords can be read back rests on closed forms of two loops. What joins the
rows of the interleaving is a recursive function; `FlattenAt` says where each element
of each row ends up, given the positions at which the rows start. The offset of a block
is a sum over a set (`OffsetIs`). Both are inductions, along a set of numbers
(`Inductive`): the induction theorems of the library take an operator, which the provers
do not instantiate, but the minimum of a set under a well-founded relation
(`WFMin`) does without. The rows have one codeword of each block, the last one of the
data only those of the long blocks (`DataRowIs`); every codeword is one of some block
(`InSomeBlock`), at the place where the reader looks (`DataIs`, `EccIs`, `ReadBack`).

That every bit has a module of its own has two halves. One is the loop invariant
`Filling`, inductive together with `IInv`: what has been filled is what is free right of
the columns that come next, each module once. It needs that two columns are gone through
without repetition (`ZigzagIs`, `KeptOnce`) and that column 6, which the loop jumps over
by going on at 5, has nothing free (`NoDataBesideTiming`). The other is the count. What is
not free (`FreeIs`) is a union of boxes that have nothing in common (`PatternsApart`): three
corners, the timing patterns between them, the two copies of the version, and the
alignment patterns, of which those on a timing pattern count without that row or
column. Each box is a product of intervals, and the size of the grid less the sum of the
boxes is the formula by which the code has chosen the version (`DataAreaCount`).

Theorems: `DrawnByVersion`, `VersionIsLeast`, `PatternsIntact`, `BlocksReadBack`,
`FilledOnce`, `EveryBitShownOnce`.

**Only model-checked.** Liveness (`RetiredUnlessAbandoned`, `StopEnds`, `Returns`,
`Converge`, `SomebodyServes`) is beyond this prover; every safety and action property of a
passing run is stated by a theorem.

## 5. What is not modelled

* Frame lengths and the 64 MiB limit: a mailbox that outgrows a frame can never be
  polled. Sizes would have to be modelled for a case that takes very many answers.
* The status page's reads: three unlocked reads that may disagree for one refresh.
* `HandoffServer`'s own start and stop, and the plugin's tool that starts it: the
  broker's without a worker, and a wrapper.
* Cryptography and encodings (`pairing.py`): library code and pure conversions. A
  request that reaches a handler is taken to come from the phone it names, and a
  frame that was not encrypted for the phone is not taken for one.
* The arithmetic of the QR code: Reed-Solomon, masks, penalty, bit strings.
* hermes: a step that takes bounded time and may fail, and a writer that adds; its
  answers are data. Deletions of sessions, or of memory lines, by hermes.
* The phone app: an external party that sends what the protocol allows.
* mDNS advertisement, the choice of a LAN address, the tray's icon and texts
  (`i18n.py`), packaging: no state that a property could be about. Of
  `mesh-start.sh` the restart policy is used (Fairness).
* Clocks that step back (`created` orders the queue by wall-clock time).
* Windows: `SO_REUSEADDR` lets two sockets share a port there; `Launch` models Linux
  and macOS binding, and Linux closing.
* Columns outside the natural key (`tool_calls`), which the dedup does not see.

## 6. Plan

1. `Handoff` on `ResolveChain` itself (INSTANCE) in place of the interval that
   `LockChain` takes from `ConversationLookup`.
2. The status page's reads against pairing, removal and the queue.
3. A queue whose clock may step back, to say what remains of the order.
