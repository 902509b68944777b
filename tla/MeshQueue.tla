----------------------------- MODULE MeshQueue ------------------------------
(***************************************************************************)
(* The task queue of mesh_broker.py: the MeshStore database, the broker's  *)
(* connection handlers for push, poll and ack, the worker thread that runs *)
(* hermes, and the life of the broker process (start, stop with a grace    *)
(* period, exit, crash).                                                   *)
(*                                                                         *)
(* Every operation of MeshStore holds MeshStore._lock and one SQLite       *)
(* transaction, so it is one step.  The handlers run in threads of their   *)
(* own; push, poll and ack each make one store call, so each is one step   *)
(* too.  The worker makes three store calls with a hermes run of up to 15  *)
(* minutes between them, so it is a machine with a program counter: this   *)
(* is where restarts and stops bite.                                       *)
(*                                                                         *)
(* Prompts and answer texts are left out: nothing here depends on them.    *)
(* A task is its identifier.                                               *)
(*                                                                         *)
(* A definition marked "Wrong:" is a plausible bug in the one after it. No *)
(* action uses it; it is there to be put in that definition's place, and   *)
(* TLC then finds the property violated that guards against the bug.       *)
(***************************************************************************)
EXTENDS Integers, FiniteSets

CONSTANTS
    Phone,       \* the paired phones
    Task,        \* the task identifiers
    Nobody,      \* from_did of an identifier that is not in the table
    ClientId,    \* for every phone, the identifiers it chooses itself for its tasks
    MaxStarts,   \* bound: how often the broker process is started
    MaxFaults    \* bound: how often an exception ends the worker thread

ASSUME NobodyAssumption == Nobody \notin Phone /\ Nobody \notin Task
ASSUME ClientIdAssumption == ClientId \in [Phone -> SUBSET Task]
ASSUME BoundAssumption == MaxStarts \in Nat /\ MaxFaults \in Nat

VARIABLES
    (* queue.db, which survives the process *)
    status,     \* tasks.status; "none" where there is no row
    from_did,   \* tasks.from_did; Nobody where there is no row
    created,    \* tasks.created, on an abstract clock; 0 where there is no row
    results,    \* the rows of table results
    (* the broker process *)
    broker,     \* "serving" is _running; "stopping" is in stop(); "stopped" after it;
                \* "down" has no process; nor has "ended", but there stop() was called
    storeOpen,  \* the SQLite handle is open
    worker,     \* where the worker thread is in _worker_loop
    current,    \* the task the worker took; Nobody when it holds none
    (* the phones and the network *)
    reply,      \* the answer to a phone's poll on its way: a set of result ids
    received,   \* for every phone, the ids of the results it has received
    (* clocks, fresh names and observations *)
    clock,      \* the latest time.time() that add_task has stored
    minted,     \* how many result ids uuid4() has made
    starts,     \* the incarnation of the broker process
    faults      \* how many times an exception has ended a worker

db      == <<status, from_did, created, results>>
process == <<broker, storeOpen, worker, current>>
phones  == <<reply, received>>
ghosts  == <<clock, minted, starts, faults>>
vars    == <<db, process, phones, ghosts>>

MintedId == Task \ UNION {ClientId[p] : p \in Phone}

(***************************************************************************)
(* A row of table results.  `run' is an observation that the table does    *)
(* not have: the incarnation of the process that wrote the row.            *)
(***************************************************************************)
Result == [id : Nat, ref : Task, to_did : Phone, delivered : BOOLEAN, run : Nat]

ResultId == 1 .. minted

TypeOK ==
    /\ status \in [Task -> {"none", "pending", "running", "done"}]
    /\ from_did \in [Task -> Phone \cup {Nobody}]
    /\ created \in [Task -> Nat]
    /\ results \in SUBSET Result
    /\ broker \in {"down", "serving", "stopping", "stopped", "ended"}
    /\ storeOpen \in BOOLEAN
    /\ worker \in {"none", "check", "claim", "hermes", "answer", "finish", "exited", "dead"}
    /\ current \in Task \cup {Nobody}
    /\ reply \in [Phone -> SUBSET Nat]
    /\ received \in [Phone -> SUBSET Nat]
    /\ clock \in Nat
    /\ minted \in Nat
    /\ starts \in 0 .. MaxStarts
    /\ faults \in 0 .. MaxFaults

Init ==
    /\ status = [t \in Task |-> "none"]
    /\ from_did = [t \in Task |-> Nobody]
    /\ created = [t \in Task |-> 0]
    /\ results = {}
    /\ broker = "down"
    /\ storeOpen = FALSE
    /\ worker = "none"
    /\ current = Nobody
    /\ reply = [p \in Phone |-> {}]
    /\ received = [p \in Phone |-> {}]
    /\ clock = 0
    /\ minted = 0
    /\ starts = 0
    /\ faults = 0

-----------------------------------------------------------------------------
(* MeshStore *)

\* Wrong: INSERT OR REPLACE starts a known task again, in the name of the last sender.
AddTaskReplacing(t, p, now) ==
    /\ status' = [status EXCEPT ![t] = "pending"]
    /\ from_did' = [from_did EXCEPT ![t] = p]
    /\ created' = [created EXCEPT ![t] = now]
    /\ clock' = now

\* add_task: INSERT OR IGNORE, so the row of a known id stays as it is.
AddTask(t, p, now) ==
    IF status[t] = "none"
    THEN /\ status' = [status EXCEPT ![t] = "pending"]
         /\ from_did' = [from_did EXCEPT ![t] = p]
         /\ created' = [created EXCEPT ![t] = now]
         /\ clock' = now
    ELSE UNCHANGED <<status, from_did, created, clock>>

Pending == {t \in Task : status[t] = "pending"}

\* Wrong: LIMIT 1 without ORDER BY.
AnyOf(T) == T

\* ORDER BY created LIMIT 1: rows with equal stamps come in any order.
Oldest(T) == {t \in T : \A u \in T : created[t] <= created[u]}

\* Wrong: nothing is requeued, or under a status that no claim looks for.
RequeueNothing == UNCHANGED status
RequeueUnclaimable ==
    status' = [t \in Task |-> IF status[t] = "running" THEN "requeued" ELSE status[t]]

\* requeue_running
RequeueRunning ==
    status' = [t \in Task |-> IF status[t] = "running" THEN "pending" ELSE status[t]]

\* add_result
AddResult(t, p) ==
    /\ minted' = minted + 1
    /\ results' = results \cup
         {[id |-> minted + 1, ref |-> t, to_did |-> p, delivered |-> FALSE, run |-> starts]}

\* Wrong: the results of all phones.
PendingResultsOfAll(p) == {r \in results : ~r.delivered}

\* pending_results
PendingResults(p) == {r \in results : r.to_did = p /\ ~r.delivered}

\* Wrong: not bound to the owner.
MarkDeliveredOfAll(ids, p) ==
    results' = {[r EXCEPT !.delivered = @ \/ r.id \in ids] : r \in results}

\* mark_delivered
MarkDelivered(ids, p) ==
    results' = {[r EXCEPT !.delivered = @ \/ (r.id \in ids /\ r.to_did = p)] : r \in results}

-----------------------------------------------------------------------------
(* Connection handlers.  A handler thread that was accepted before stop()  *)
(* may still act after it, for as long as the process and the store live.  *)

CanServe == broker # "down" /\ storeOpen

(***************************************************************************)
(* _op_push.  The phone either names the task, and may then send the same  *)
(* push again when it missed the answer, or leaves the id to uuid4().  The *)
(* clock is read inside the lock; two pushes may read the same value.      *)
(***************************************************************************)
OpPush(p, t) ==
    /\ CanServe
    /\ \/ t \in ClientId[p]
       \/ t \in MintedId /\ status[t] = "none"
    /\ \E now \in {clock, clock + 1} : AddTask(t, p, now)
    /\ UNCHANGED <<results, process, phones, minted, starts, faults>>

(***************************************************************************)
(* _op_poll.  The answer travels while the store moves on; one that is     *)
(* lost is simply followed by another poll, which replaces it here.        *)
(***************************************************************************)
OpPoll(p) ==
    /\ CanServe
    /\ reply' = [reply EXCEPT ![p] = {r.id : r \in PendingResults(p)}]
    /\ UNCHANGED <<db, process, received, ghosts>>

\* The phone's side of a poll, which is not in this repository.
PhoneReceive(p) ==
    /\ reply[p] # {}
    /\ received' = [received EXCEPT ![p] = @ \cup reply[p]]
    /\ reply' = [reply EXCEPT ![p] = {}]
    /\ UNCHANGED <<db, process, ghosts>>

(***************************************************************************)
(* The ack branch of _handle.  A phone acknowledges what it has received;  *)
(* the ids it sends may also name rows of another phone, which the store   *)
(* must leave alone.                                                       *)
(***************************************************************************)
OpAck(p, ids) ==
    /\ CanServe
    /\ ids # {}
    /\ \A r \in results : r.id \in ids /\ r.to_did = p => r.id \in received[p]
    /\ MarkDelivered(ids, p)
    /\ UNCHANGED <<status, from_did, created, process, phones, ghosts>>

-----------------------------------------------------------------------------
(* _worker_loop *)

WorkerCheck ==
    /\ worker = "check"
    /\ worker' = IF broker = "serving" THEN "claim" ELSE "exited"
    /\ UNCHANGED <<db, broker, storeOpen, current, phones, ghosts>>

\* Wrong: the claim already marks the task done.
WorkerClaimDone ==
    /\ worker = "claim" /\ storeOpen
    /\ \E t \in Oldest(Pending) :
         /\ status' = [status EXCEPT ![t] = "done"]
         /\ current' = t
    /\ worker' = "hermes"
    /\ UNCHANGED <<from_did, created, results, broker, storeOpen, phones, ghosts>>

\* claim_next_task finds a task, the oldest one.
WorkerClaim ==
    /\ worker = "claim" /\ storeOpen
    /\ \E t \in Oldest(Pending) :
         /\ status' = [status EXCEPT ![t] = "running"]
         /\ current' = t
    /\ worker' = "hermes"
    /\ UNCHANGED <<from_did, created, results, broker, storeOpen, phones, ghosts>>

\* claim_next_task finds none; the worker sleeps and looks at _running again.
WorkerIdle ==
    /\ worker = "claim" /\ storeOpen
    /\ Pending = {}
    /\ worker' = "check"
    /\ UNCHANGED <<db, broker, storeOpen, current, phones, ghosts>>

\* _run_hermes returns within 15 minutes, whatever happens to the command.
WorkerHermes ==
    /\ worker = "hermes"
    /\ worker' = "answer"
    /\ UNCHANGED <<db, broker, storeOpen, current, phones, ghosts>>

WorkerAnswer ==
    /\ worker = "answer" /\ storeOpen
    /\ AddResult(current, from_did[current])
    /\ worker' = "finish"
    /\ UNCHANGED <<status, from_did, created, broker, storeOpen, current, phones,
                   clock, starts, faults>>

WorkerFinish ==
    /\ worker = "finish" /\ storeOpen
    /\ status' = [status EXCEPT ![current] = "done"]
    /\ worker' = "check"
    /\ current' = Nobody
    /\ UNCHANGED <<from_did, created, results, broker, storeOpen, phones, ghosts>>

(***************************************************************************)
(* The loop has no try/except: an exception of a store call (disk full,    *)
(* database locked or closed) or of one of its prints ends the thread,     *)
(* while the rest of the broker keeps serving.                             *)
(***************************************************************************)
WorkerFault ==
    /\ worker \in {"claim", "hermes", "answer", "finish"}
    /\ faults < MaxFaults
    /\ worker' = "dead"
    /\ current' = Nobody
    /\ faults' = faults + 1
    /\ UNCHANGED <<db, broker, storeOpen, phones, clock, minted, starts>>

-----------------------------------------------------------------------------
(* Life of the process *)

WorkerAlive == worker \in {"check", "claim", "hermes", "answer", "finish"}

\* A process starts: serve() opens the store, start() requeues and runs the worker.
Start ==
    /\ broker \in {"down", "ended"}
    /\ starts < MaxStarts
    /\ broker' = "serving"
    /\ storeOpen' = TRUE
    /\ RequeueRunning
    /\ worker' = "check"
    /\ current' = Nobody
    /\ starts' = starts + 1
    /\ UNCHANGED <<from_did, created, results, phones, clock, minted, faults>>

\* The service manager, or the first launch, starts it; after a stop() nobody has to.
Restart == broker = "down" /\ Start

\* stop() clears _running and closes the socket.  The last incarnation runs on.
StopBegin ==
    /\ broker = "serving"
    /\ starts < MaxStarts
    /\ broker' = "stopping"
    /\ UNCHANGED <<db, storeOpen, worker, current, phones, ghosts>>

\* Wrong: close the store without waiting for the worker, or wait for a worker that
\* an exception has ended.
StopCloseAtOnce ==
    /\ broker = "stopping"
    /\ broker' = "stopped"
    /\ storeOpen' = FALSE
    /\ UNCHANGED <<db, worker, current, phones, ghosts>>
StopCloseAfterExit ==
    /\ broker = "stopping"
    /\ worker = "exited"
    /\ broker' = "stopped"
    /\ storeOpen' = FALSE
    /\ UNCHANGED <<db, worker, current, phones, ghosts>>

\* The worker has gone, by its loop condition or by an exception: close the store.
StopClose ==
    /\ broker = "stopping"
    /\ ~WorkerAlive
    /\ broker' = "stopped"
    /\ storeOpen' = FALSE
    /\ UNCHANGED <<db, worker, current, phones, ghosts>>

\* The grace period is over and the worker still runs: leave the store open.
StopLeaveOpen ==
    /\ broker = "stopping"
    /\ WorkerAlive
    /\ broker' = "stopped"
    /\ UNCHANGED <<db, storeOpen, worker, current, phones, ghosts>>

\* The end of the process takes the threads, the handle and the connections along.
ProcessGone(how) ==
    /\ broker' = how
    /\ storeOpen' = FALSE
    /\ worker' = "none"
    /\ current' = Nobody
    /\ reply' = [p \in Phone |-> {}]
    /\ UNCHANGED <<db, received, ghosts>>

\* main() returns after stop(); the daemon threads die with the process.
Exit == broker = "stopped" /\ ProcessGone("ended")

\* Power loss, kill, or an error outside the broker.
Crash ==
    /\ broker \notin {"down", "ended"}
    /\ starts < MaxStarts
    /\ ProcessGone(IF broker = "serving" THEN "down" ELSE "ended")

-----------------------------------------------------------------------------
Handler ==
    \E p \in Phone :
        \/ \E t \in Task : OpPush(p, t)
        \/ OpPoll(p)
        \/ PhoneReceive(p)
        \/ \E ids \in SUBSET ResultId : OpAck(p, ids)

WorkerStep ==
    \/ WorkerCheck \/ WorkerClaim \/ WorkerIdle
    \/ WorkerHermes \/ WorkerAnswer \/ WorkerFinish

Lifecycle == Start \/ StopBegin \/ StopClose \/ StopLeaveOpen \/ Exit \/ Crash

Next == Handler \/ WorkerStep \/ WorkerFault \/ Lifecycle

Spec == Init /\ [][Next]_vars

(***************************************************************************)
(* Fairness.  The worker is a thread of its own that only waits for hermes *)
(* (bounded by its timeout) and for the store's lock.  A broker that dies  *)
(* is started again (mesh-start.sh installs it with Restart=always or      *)
(* KeepAlive); one that was stopped, by Quit, Ctrl-C or a failing tray, is *)
(* not: a user may start it, which is not assumed.  stop() is bounded by   *)
(* its grace period.  The phone polls every few seconds for as long as it  *)
(* expects an answer, and acknowledges what it receives; that side is      *)
(* assumed of the phone app.                                               *)
(***************************************************************************)
Fairness ==
    /\ WF_vars(WorkerStep)
    /\ WF_vars(Restart) /\ WF_vars(Exit) /\ WF_vars(StopClose \/ StopLeaveOpen)
    /\ \A p \in Phone :
         /\ WF_vars(OpPoll(p))
         /\ WF_vars(PhoneReceive(p))
         /\ WF_vars(OpAck(p, received[p]))

LiveSpec == Spec /\ Fairness

-----------------------------------------------------------------------------
(* Properties *)

\* A task is marked done only when an answer addressed to the phone that
\* dispatched it is in the results table (finish_task after add_result, and
\* INSERT OR IGNORE never re-owns a task): no restart in between loses the answer.
DoneHasAnswer ==
    \A t \in Task : status[t] = "done" =>
        \E r \in results : r.ref = t /\ r.to_did = from_did[t]

\* The recovery is at-least-once, but within one life of the process a task is
\* answered at most once: a second answer exists only when a restart requeued it.
OneAnswerPerRun ==
    \A r, s \in results : r.ref = s.ref /\ r.run = s.run => r = s

\* Tasks are answered in the order they were dispatched (ORDER BY created, one
\* worker, and a requeued task keeps its place), across crashes and restarts.
AnsweredInOrder ==
    \A t, u \in Task :
        /\ status[t] # "none"
        /\ created[t] < created[u]
        /\ \E r \in results : r.ref = u
        => \E r \in results : r.ref = t

\* A result stops being offered only after the phone it is addressed to has
\* received it: a lost poll answer is offered again, and another phone's ack
\* does not hide it (mark_delivered is bound to to_did).
DeliveredWasReceived ==
    \A r \in results : r.delivered => r.id \in received[r.to_did]

\* stop() never closes the store under a worker that still has store calls to
\* make, however the stop, the grace period and the worker interleave.
StoreOutlivesWorker == WorkerAlive => storeOpen

\* A task that is marked running is in the hands of the worker, or of one that
\* an exception or a shutdown took away, which the next start() repairs.
RunningIsHeld ==
    \A t \in Task : status[t] = "running" =>
        current = t \/ worker \in {"none", "dead"}

\* The queue implements the delivery promise.  A task is retired as soon as
\* one answer to it is marked delivered.
Promise == INSTANCE TaskDelivery WITH
    owner    <- from_did,
    answered <- {r.ref : r \in results},
    seen     <- [p \in Phone |-> {r.ref : r \in {s \in results : s.id \in received[p]}}],
    retired  <- {r.ref : r \in {s \in results : s.delivered}}

PromiseKept == Promise!Spec

\* Every task the broker has accepted is in the end answered to its phone and
\* acknowledged, in spite of crashes, stops, requeues and lost poll answers.
EveryTaskRetired ==
    \A t \in Task : from_did[t] # Nobody ~>
        \E r \in results : r.ref = t /\ r.to_did = from_did[t] /\ r.delivered

\* Only two things can keep an answer from its phone for good: a worker that an exception
\* ended in a process that nobody restarts, and a stop() after which nobody starts again.
RetiredUnlessAbandoned == EveryTaskRetired \/ <>[](worker = "dead") \/ <>[](broker = "ended")

\* stop() ends, if its process does not before: neither it nor its grace period waits for
\* anything that may not happen, be the worker at its end, in hermes or dead.
StopEnds == broker = "stopping" ~> broker \in {"stopped", "ended"}

-----------------------------------------------------------------------------
(***************************************************************************)
(* The inductive invariant behind the safety properties.                   *)
(***************************************************************************)

\* A row of tasks is all there or not there at all, and no stamp is in the future.
TasksWellFormed ==
    \A t \in Task :
        /\ status[t] = "none" <=> from_did[t] = Nobody
        /\ created[t] <= clock

\* Result ids are fresh, a result answers a task of the table and is addressed
\* to its owner, and no row comes from a later process.
ResultsWellFormed ==
    /\ \A r \in results :
         /\ r.id \in ResultId
         /\ r.run <= starts
         /\ from_did[r.ref] = r.to_did
    /\ \A r, s \in results : r.id = s.id => r = s

\* What travels to a phone, and what it has, are results addressed to it.
MailIsOwn ==
    \A p \in Phone :
        \A i \in reply[p] \cup received[p] : \E r \in results : r.id = i /\ r.to_did = p

\* The worker holds a task exactly while it works on it, and that task is running.
WorkerHolds ==
    /\ current \in Task <=> worker \in {"hermes", "answer", "finish"}
    /\ current \in Task => status[current] = "running"
    /\ broker \in {"down", "ended"} => worker = "none"

\* What this process may still answer, it has not answered yet.
NotYetAnswered ==
    \A r \in results :
        status[r.ref] = "pending" \/ (r.ref = current /\ worker \in {"hermes", "answer"})
            => r.run < starts

\* Where the worker stands with respect to the answers of its task and of older ones.
WorkerProgress ==
    /\ worker = "finish" => \E r \in results : r.ref = current
    /\ worker \in {"hermes", "answer"} =>
         \A t \in Task : status[t] # "none" /\ created[t] < created[current] =>
             \E r \in results : r.ref = t

IInv ==
    /\ TypeOK
    /\ TasksWellFormed
    /\ ResultsWellFormed
    /\ MailIsOwn
    /\ StoreOutlivesWorker
    /\ WorkerHolds
    /\ RunningIsHeld
    /\ NotYetAnswered
    /\ WorkerProgress
    /\ DoneHasAnswer
    /\ OneAnswerPerRun
    /\ AnsweredInOrder
    /\ DeliveredWasReceived
=============================================================================
