------------------------------- MODULE Launch -------------------------------
(***************************************************************************)
(* Starting the companion: companion.py tries the tray (companion_app.py)  *)
(* and falls back to the console mode (mesh_broker.main) in the same       *)
(* process.  Both call serve(), which loads or makes the identity, opens   *)
(* the queue and starts a broker: it binds the port and requeues what a    *)
(* dead broker left running.  The port is the only lock between launches:  *)
(* a second tray launch that cannot bind reopens the console of the first, *)
(* whose address it reads from console.url.                                *)
(*                                                                         *)
(* Each launch is a process with one home.  The address it binds is the    *)
(* host's at that moment, or the one of --host.  Of the queue a task is    *)
(* all that matters here; the worker's way from claim to finish, answers   *)
(* and faults of the worker are in MeshQueue.                              *)
(*                                                                         *)
(* A definition marked "Wrong:" is a plausible bug in the one after it;    *)
(* no action uses it.                                                      *)
(***************************************************************************)
EXTENDS Integers, FiniteSets

CONSTANTS
    Address,      \* the addresses a broker can bind the port on
    Task,         \* the tasks phones dispatch
    FirstAddress, \* the name of the one that the first launch finds
    MaxLaunches,  \* bound: how often the companion is launched
    MaxFaults     \* bound: how many launches find a disk or network error

ASSUME AddressAssumption == FirstAddress \in Address
ASSUME TaskAssumption == Task \cap {"none", "loop"} = {}
ASSUME BoundAssumption == MaxLaunches \in Nat /\ MaxFaults \in Nat

Mode == {"tray", "console"}

\* A process is named by its place in the order of the launches.
Launches == 1 .. MaxLaunches
Nobody == 0

VARIABLES
    (* the home, which survives the processes *)
    key,        \* id.key, named by the process that made it
    url,        \* console.url, named by the process that wrote it
    status,     \* tasks.status in queue.db
    (* the processes *)
    proc,       \* see ProcState
    worker,     \* the worker threads: of the tray's broker, and of the console's
    faults,
    (* observations *)
    raced,      \* two processes have been about to make a key at once
    shared      \* a broker has started beside another one

db == <<key, url, status>>
ghosts == <<raced, shared>>
vars == <<db, proc, worker, faults, ghosts>>

ProcState ==
    [pc    : {"none", "key", "newkey", "bind", "start", "web", "up",
              "stopping", "quitting", "busy", "failed", "gone", "killed"},
     mode  : Mode,
     addr  : Address,
     key   : Launches \cup {Nobody},   \* broker.identity
     run   : {"none"} \cup Mode,       \* the broker with _running
     bound : {"none"} \cup Mode]       \* the broker whose socket listens

TypeOK ==
    /\ key \in Launches \cup {Nobody}
    /\ url \in Launches \cup {Nobody}
    /\ status \in [Task -> {"none", "pending", "running", "done"}]
    /\ proc \in [Launches -> ProcState]
    /\ worker \in [Launches -> [Mode -> {"none", "loop"} \cup Task]]
    /\ faults \in 0 .. MaxFaults
    /\ raced \in BOOLEAN /\ shared \in BOOLEAN

NoWorker == [m \in Mode |-> "none"]

\* A process that has no memory, no sockets and no threads.
Blank(place) ==
    [pc |-> place, mode |-> "tray", addr |-> FirstAddress,
     key |-> Nobody, run |-> "none", bound |-> "none"]

\* A new home.
Init ==
    /\ key = Nobody
    /\ url = Nobody
    /\ status = [t \in Task |-> "none"]
    /\ proc = [l \in Launches |-> Blank("none")]
    /\ worker = [l \in Launches |-> NoWorker]
    /\ faults = 0
    /\ raced = FALSE /\ shared = FALSE

-----------------------------------------------------------------------------
pc(l) == proc[l].pc
mode(l) == proc[l].mode
run(l) == proc[l].run
bound(l) == proc[l].bound

Alive(l) == pc(l) \notin {"none", "gone", "killed"}

\* A socket listens on the address of l: perhaps one of l itself.
Taken(l) == \E k \in Launches : bound(k) # "none" /\ proc[k].addr = proc[l].addr

Go(l, place) == proc' = [proc EXCEPT ![l].pc = place]

\* main(argv): the tray, or the console mode where pystray cannot be imported, on the
\* address of --host or the host's at the moment.
Begin(l) ==
    /\ pc(l) = "none"
    /\ \A k \in Launches : k < l => pc(k) # "none"
    /\ \E a \in IF l = 1 THEN {FirstAddress} ELSE Address, m \in Mode :
         proc' = [proc EXCEPT ![l].pc = "key", ![l].addr = a, ![l].mode = m]
    /\ UNCHANGED <<db, worker, faults, ghosts>>

-----------------------------------------------------------------------------
(* load_or_create_identity *)

\* Wrong: a key is made whenever the companion starts.
LookForKeyInVain(l) ==
    /\ pc(l) = "key"
    /\ Go(l, "newkey")
    /\ UNCHANGED <<db, worker, faults, ghosts>>

LookForKey(l) ==
    /\ pc(l) = "key"
    /\ proc' = IF key = Nobody THEN [proc EXCEPT ![l].pc = "newkey"]
               ELSE [proc EXCEPT ![l].pc = "bind", ![l].key = key]
    /\ UNCHANGED <<db, worker, faults, ghosts>>

\* The file is replaced in one step, whether it is still missing or not.
NewKey(l) ==
    /\ pc(l) = "newkey"
    /\ key' = l
    /\ raced' = (raced \/ \E k \in Launches : k # l /\ pc(k) = "newkey")
    /\ proc' = [proc EXCEPT ![l].pc = "bind", ![l].key = l]
    /\ UNCHANGED <<url, status, worker, faults, shared>>

-----------------------------------------------------------------------------
(* MeshBroker.start *)

\* Brokers that the port does not keep apart from one of l: with another address, or
\* stopped, with a worker that is not yet at its end.
Beside(l) ==
    {k \in Launches :
        /\ run(k) # "none" \/ worker[k] # NoWorker
        /\ run(k) = "none" \/ proc[k].addr # proc[l].addr}

\* Wrong: an address in use is bound once more.
BindAnyway(l) ==
    /\ pc(l) = "bind"
    /\ proc' = [proc EXCEPT ![l].pc = "start", ![l].run = mode(l), ![l].bound = mode(l)]
    /\ shared' = (shared \/ Beside(l) # {})
    /\ UNCHANGED <<db, worker, faults, raced>>

Bind(l) ==
    /\ pc(l) = "bind"
    /\ ~Taken(l)
    /\ proc' = [proc EXCEPT ![l].pc = "start", ![l].run = mode(l), ![l].bound = mode(l)]
    /\ shared' = (shared \/ Beside(l) # {})
    /\ UNCHANGED <<db, worker, faults, raced>>

\* EADDRINUSE: the tray takes it for a second launch, shows the console that console.url
\* names, and is done; the console mode fails.
BindTaken(l) ==
    /\ pc(l) = "bind"
    /\ Taken(l)
    /\ Go(l, IF mode(l) = "tray" THEN "busy" ELSE "failed")
    /\ UNCHANGED <<db, worker, faults, ghosts>>

\* serve() raises any other error: companion.py goes on in console mode, which fails
\* with it.  Nobody calls stop(): what serve() has begun stays.
Raise(l) ==
    proc' = IF mode(l) = "tray" THEN [proc EXCEPT ![l].pc = "key", ![l].mode = "console"]
            ELSE [proc EXCEPT ![l].pc = "failed"]

\* Before the port is bound.
StartFails(l) ==
    /\ pc(l) \in {"newkey", "bind"}
    /\ faults < MaxFaults
    /\ faults' = faults + 1
    /\ Raise(l)
    /\ UNCHANGED <<db, worker, ghosts>>

\* requeue_running; the accept loop and the worker thread.
TakeUp(l) ==
    /\ status' = [t \in Task |-> IF status[t] = "running" THEN "pending" ELSE status[t]]
    /\ worker' = [worker EXCEPT ![l][mode(l)] = "loop"]

\* After it: the requeue fails; or the advertisement does when the threads are there, and
\* then also with an EADDRINUSE of its own, which the tray takes for a second launch.
StartFailsBound(l) ==
    /\ pc(l) = "start"
    /\ faults < MaxFaults
    /\ faults' = faults + 1
    /\ \/ Raise(l) /\ UNCHANGED <<status, worker>>
       \/ Raise(l) /\ TakeUp(l)
       \/ mode(l) = "tray" /\ Go(l, "busy") /\ TakeUp(l)
    /\ UNCHANGED <<key, url, ghosts>>

\* Wrong: nothing is requeued.
StartEmptyHanded(l) ==
    /\ pc(l) = "start"
    /\ worker' = [worker EXCEPT ![l][mode(l)] = "loop"]
    /\ Go(l, "web")
    /\ UNCHANGED <<db, faults, ghosts>>

\* The broker takes up its work, and is advertised.
Start(l) ==
    /\ pc(l) = "start"
    /\ TakeUp(l)
    /\ Go(l, "web")
    /\ UNCHANGED <<key, url, faults, ghosts>>

-----------------------------------------------------------------------------
(* The console in the browser, and the tray *)

\* Wrong: an address that was saved before is kept.
WebIfNone(l) ==
    /\ pc(l) = "web"
    /\ url' = IF mode(l) = "tray" /\ url = Nobody THEN l ELSE url
    /\ Go(l, "up")
    /\ UNCHANGED <<key, status, worker, faults, ghosts>>

\* serve_web; the tray's main saves the address.
Web(l) ==
    /\ pc(l) = "web"
    /\ url' = IF mode(l) = "tray" THEN l ELSE url
    /\ Go(l, "up")
    /\ UNCHANGED <<key, status, worker, faults, ghosts>>

\* The console, or the file, cannot be had; the rest goes on without.
WebFails(l) ==
    /\ pc(l) = "web"
    /\ faults < MaxFaults
    /\ faults' = faults + 1
    /\ Go(l, "up")
    /\ UNCHANGED <<db, worker, ghosts>>

\* Wrong: the exception is passed on without a stop of the broker.
TrayFailsUnstopped(l) ==
    /\ pc(l) = "up" /\ mode(l) = "tray"
    /\ proc' = [proc EXCEPT ![l].pc = "key", ![l].mode = "console"]
    /\ UNCHANGED <<db, worker, faults, ghosts>>

\* stop() closes the socket.  Where that does not wake the accept() of the other thread
\* (Linux), the socket listens until the next connection, or the end of the process.
StopBegin(l, place) ==
    \E stays \in BOOLEAN :
        /\ proc' = [proc EXCEPT ![l].pc = place, ![l].run = "none",
                               ![l].bound = IF stays THEN @ ELSE "none"]
        /\ UNCHANGED <<db, worker, faults, ghosts>>

\* Icon or icon.run() raises: stop() begins.
TrayFails(l) == pc(l) = "up" /\ mode(l) = "tray" /\ StopBegin(l, "stopping")

Lingers(l) == bound(l) \notin {"none", run(l)}

\* The connection that wakes the accept(): after it the loop sees _running and ends.
LastConnection(l) ==
    /\ Lingers(l)
    /\ proc' = [proc EXCEPT ![l].bound = "none"]
    /\ UNCHANGED <<db, worker, faults, ghosts>>

\* stop() ends, with the worker gone or the grace period over; then console mode.
FallBack(l) ==
    /\ pc(l) = "stopping"
    /\ proc' = [proc EXCEPT ![l].pc = "key", ![l].mode = "console"]
    /\ UNCHANGED <<db, worker, faults, ghosts>>

\* Quit in the tray, or Ctrl-C: stop() begins.
Quit(l) == pc(l) = "up" /\ StopBegin(l, "quitting")

-----------------------------------------------------------------------------
(* The end of a process, and the workers *)

\* The end of a process: after stop(), at the end of main, by an exception, or at any
\* moment from outside.
Gone(l, how) ==
    /\ proc' = [proc EXCEPT ![l] = Blank(how)]
    /\ worker' = [worker EXCEPT ![l] = NoWorker]
    /\ UNCHANGED <<db, faults, ghosts>>

Exit(l) == pc(l) \in {"quitting", "busy", "failed"} /\ Gone(l, "gone")

Kill(l) == Alive(l) /\ Gone(l, "killed")

\* The worker in its loop has seen _running, sleeps or claims a task.
WorkerClaim(l, m) ==
    /\ worker[l][m] = "loop"
    /\ \E t \in Task :
         /\ status[t] = "pending"
         /\ status' = [status EXCEPT ![t] = "running"]
         /\ worker' = [worker EXCEPT ![l][m] = t]
    /\ UNCHANGED <<key, url, proc, faults, ghosts>>

WorkerEnds(l, m) ==
    /\ worker[l][m] = "loop"
    /\ run(l) # m
    /\ worker' = [worker EXCEPT ![l][m] = "none"]
    /\ UNCHANGED <<db, proc, faults, ghosts>>

\* hermes has run, the answer is stored, the task is done, and the loop looks again.
WorkerFinish(l, m) ==
    /\ worker[l][m] \in Task
    /\ status' = [status EXCEPT ![worker[l][m]] = "done"]
    /\ worker' = [worker EXCEPT ![l][m] = IF run(l) = m THEN "loop" ELSE "none"]
    /\ UNCHANGED <<key, url, proc, faults, ghosts>>

\* A phone dispatches a task to a broker whose threads have started.
Push(t) ==
    /\ status[t] = "none"
    /\ \E l \in Launches : run(l) # "none" /\ worker[l][run(l)] # "none"
    /\ status' = [status EXCEPT ![t] = "pending"]
    /\ UNCHANGED <<key, url, proc, worker, faults, ghosts>>

-----------------------------------------------------------------------------
Serve(l) == LookForKey(l) \/ NewKey(l) \/ Bind(l) \/ BindTaken(l) \/ Start(l)

MainStep(l) ==
    Serve(l) \/ Web(l) \/ FallBack(l) \/ Exit(l)

WorkerStep(l, m) == WorkerClaim(l, m) \/ WorkerEnds(l, m) \/ WorkerFinish(l, m)

Next ==
    \/ \E l \in Launches :
         \/ Begin(l) \/ MainStep(l)
         \/ StartFails(l) \/ StartFailsBound(l) \/ WebFails(l) \/ TrayFails(l) \/ Quit(l) \/ Kill(l)
         \/ LastConnection(l)
         \/ \E m \in Mode : WorkerStep(l, m)
    \/ \E t \in Task : Push(t)

Spec == Init /\ [][Next]_vars

\* A started process goes on; stop() is bounded by its grace period.
LiveSpec == Spec /\ \A l \in Launches : WF_vars(MainStep(l))

-----------------------------------------------------------------------------
(* Properties *)

Holders(t) == {e \in Launches \X Mode : worker[e[1]][e[2]] = t}

\* However often the companion is launched, quits, is killed and falls back to the
\* console mode, a task is run by one worker at a time: as long as the port keeps the
\* brokers apart, which another address, or a stop during a task, prevents.
OneRunAtATime ==
    \A t \in Task : \A d, e \in Holders(t) : d = e \/ shared

\* A task is marked running only while a worker has it, or until the broker that comes
\* next has started: no launch takes a task from a worker or leaves one behind.
RunningIsHeld ==
    \A t \in Task : status[t] = "running" =>
        Holders(t) # {} \/ (\A l \in Launches : pc(l) \notin {"web", "up"}) \/ shared

\* Who has paired with a running broker will know it again after a restart: id.key
\* holds the identity it runs with, unless two first launches made a key at once.
IdentityIsKept ==
    \A l \in Launches : run(l) # "none" => proc[l].key = key \/ raced

\* While a tray is up, console.url names its console, however many launches came before
\* or in between, as long as the port keeps brokers apart and no error was met.  (Between
\* its bind and its write the file still names the one before.)
ConsoleIsFound ==
    \A l \in Launches :
        pc(l) = "up" /\ mode(l) = "tray" => url = l \/ shared \/ faults > 0

Up(l) == pc(l) \in {"start", "web", "up"}

\* A launch ends up with a broker on its address, its own or another's, also when the
\* tray fails after the port was bound: unless it is ended from outside or by an error,
\* or meets a socket that was closed and goes on listening.
SomebodyServes ==
    \A l \in Launches :
        pc(l) \in {"key", "stopping"} ~>
            \/ pc(l) \in {"quitting", "killed"} \/ faults > 0
            \/ \E k \in Launches : Lingers(k)
            \/ \E k \in Launches : Up(k) /\ proc[k].addr = proc[l].addr

\* What the tray's main promises of its broker.stop(): the console mode that follows
\* does not find the port taken by the tray's own broker.
FallbackFindsPortFree ==
    \A l \in Launches : pc(l) = "bind" /\ mode(l) = "console" => bound(l) = "none"
=============================================================================
