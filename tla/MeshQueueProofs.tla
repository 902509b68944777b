-------------------------- MODULE MeshQueueProofs ---------------------------
(***************************************************************************)
(* Proofs about MeshQueue, for every set of phones and tasks and for any   *)
(* number of restarts and worker faults: the inductive invariant IInv, the *)
(* safety properties that follow from it, and the safety part of the       *)
(* refinement of TaskDelivery.                                             *)
(***************************************************************************)
EXTENDS MeshQueue, TLAPS

-----------------------------------------------------------------------------
(* What the store operations do to the results table. *)

\* mark_delivered neither adds, drops nor rewrites a row: it only sets delivered,
\* and only on rows that were asked for and are addressed to the caller.
LEMMA MarkDeliveredRows ==
    ASSUME TypeOK, NEW p, NEW ids, MarkDelivered(ids, p)
    PROVE  /\ \A r \in results' : \E s \in results :
                /\ r.id = s.id /\ r.ref = s.ref /\ r.to_did = s.to_did /\ r.run = s.run
                /\ r.delivered <=> s.delivered \/ (s.id \in ids /\ s.to_did = p)
           /\ \A s \in results : \E r \in results' :
                /\ r.id = s.id /\ r.ref = s.ref /\ r.to_did = s.to_did /\ r.run = s.run
                /\ r.delivered <=> s.delivered \/ (s.id \in ids /\ s.to_did = p)
           /\ results' \in SUBSET Result
  <1> DEFINE Mark(s) == [s EXCEPT !.delivered = @ \/ (s.id \in ids /\ s.to_did = p)]
  <1>1. results' = {Mark(s) : s \in results}
    BY DEF MarkDelivered
  <1>2. ASSUME NEW s \in results
        PROVE  /\ Mark(s) \in Result
               /\ Mark(s).id = s.id /\ Mark(s).ref = s.ref
               /\ Mark(s).to_did = s.to_did /\ Mark(s).run = s.run
               /\ Mark(s).delivered <=> s.delivered \/ (s.id \in ids /\ s.to_did = p)
    <2>1. s \in Result
      BY DEF TypeOK
    <2>2. QED
      BY <2>1 DEF Result
  <1> HIDE DEF Mark
  <1>3. QED
    BY <1>1, <1>2

-----------------------------------------------------------------------------
(* The inductive invariant *)

\* The conjuncts of IInv that speak of the store and the mail only.
StoreInv ==
    /\ TasksWellFormed
    /\ ResultsWellFormed
    /\ MailIsOwn
    /\ DoneHasAnswer
    /\ OneAnswerPerRun
    /\ AnsweredInOrder
    /\ DeliveredWasReceived

\* The conjuncts of IInv that say how the process and the store fit together.
ProcessInv ==
    /\ StoreOutlivesWorker
    /\ WorkerHolds
    /\ RunningIsHeld
    /\ NotYetAnswered
    /\ WorkerProgress

\* The invariant holds of an empty queue.db with no process running.
LEMMA InitIInv == Init => IInv
  <1> SUFFICES ASSUME Init PROVE IInv
    OBVIOUS
  <1> USE NobodyAssumption, BoundAssumption DEF Init, NobodyAssumption, BoundAssumption
  <1>1. TypeOK
    <2>1. reply \in [Phone -> SUBSET Nat] /\ received \in [Phone -> SUBSET Nat]
      BY SMT
    <2>2. status \in [Task -> {"none", "pending", "running", "done"}]
      BY SMT
    <2>3. from_did \in [Task -> Phone \cup {Nobody}] /\ created \in [Task -> Nat]
      BY SMT
    <2>4. starts \in 0 .. MaxStarts /\ faults \in 0 .. MaxFaults
      BY SMT
    <2>5. results \in SUBSET Result
      BY SMT
    <2>6. QED
      BY <2>1, <2>2, <2>3, <2>4, <2>5 DEF TypeOK
  <1>2. StoreInv
    BY DEF StoreInv, TasksWellFormed, ResultsWellFormed, MailIsOwn, DoneHasAnswer,
           OneAnswerPerRun, AnsweredInOrder, DeliveredWasReceived
  <1>3. ProcessInv
    BY DEF ProcessInv, StoreOutlivesWorker, WorkerAlive, WorkerHolds, RunningIsHeld,
           NotYetAnswered, WorkerProgress
  <1>4. QED
    BY <1>1, <1>2, <1>3 DEF IInv, StoreInv, ProcessInv

\* A step that touches neither the store nor what the phones have, and at most
\* drops what is on its way to them, keeps what is said of the store.
LEMMA StoreUntouched ==
    ASSUME StoreInv,
           UNCHANGED <<db, received, clock, minted, starts>>,
           UNCHANGED reply \/ reply' = [p \in Phone |-> {}]
    PROVE  StoreInv'
  BY DEF StoreInv, db, TasksWellFormed, ResultsWellFormed, ResultId, MailIsOwn,
         DoneHasAnswer, OneAnswerPerRun, AnsweredInOrder, DeliveredWasReceived

\* The steps of the worker and of the process that do not write to the store.
ControlStep ==
    \/ WorkerCheck
    \/ WorkerIdle
    \/ WorkerHermes
    \/ WorkerFault
    \/ StopBegin
    \/ StopClose
    \/ StopLeaveOpen
    \/ Exit
    \/ Crash

\* The worker's control steps and the stop, exit and crash of the process leave every
\* row alone; what they do to the worker and the store agrees with ProcessInv.
LEMMA ControlStepIInv == IInv /\ ControlStep => IInv'
  <1> SUFFICES ASSUME TypeOK, StoreInv, ProcessInv, ControlStep
               PROVE  TypeOK' /\ StoreInv' /\ ProcessInv'
    BY DEF IInv, StoreInv, ProcessInv
  <1> USE DEF db, process, phones, ghosts
  <1>1. StoreInv'
    BY StoreUntouched DEF ControlStep, WorkerCheck, WorkerIdle, WorkerHermes, WorkerFault,
       StopBegin, StopClose, StopLeaveOpen, Exit, Crash, ProcessGone
  <1> USE NobodyAssumption, BoundAssumption
      DEF NobodyAssumption, BoundAssumption, ProcessInv, StoreOutlivesWorker, WorkerAlive, WorkerHolds, RunningIsHeld,
          NotYetAnswered, WorkerProgress, TypeOK
  <1>2. CASE WorkerCheck
    BY <1>1, <1>2 DEF WorkerCheck
  <1>3. CASE WorkerIdle
    BY <1>1, <1>3 DEF WorkerIdle
  <1>4. CASE WorkerHermes
    BY <1>1, <1>4 DEF WorkerHermes
  <1>5. CASE WorkerFault
    BY <1>1, <1>5 DEF WorkerFault
  <1>6. CASE StopBegin
    BY <1>1, <1>6 DEF StopBegin
  <1>7. CASE StopClose
    BY <1>1, <1>7 DEF StopClose
  <1>8. CASE StopLeaveOpen
    BY <1>1, <1>8 DEF StopLeaveOpen
  <1>9. CASE Exit
    BY <1>1, <1>9 DEF Exit, ProcessGone
  <1>10. CASE Crash
    BY <1>1, <1>10 DEF Crash, ProcessGone
  <1>11. QED
    BY <1>2, <1>3, <1>4, <1>5, <1>6, <1>7, <1>8, <1>9, <1>10 DEF ControlStep

-----------------------------------------------------------------------------
(* The steps that change the store or the mail, one lemma each.            *)

\* add_task inserts only where there is no row, and stamps it no earlier than any other.
LEMMA OpPushIInv == ASSUME NEW p \in Phone, NEW t \in Task PROVE IInv /\ OpPush(p, t) => IInv'
  <1> SUFFICES ASSUME IInv, OpPush(p, t) PROVE IInv'
    OBVIOUS
  <1> USE NobodyAssumption
      DEF NobodyAssumption, OpPush, AddTask, process, phones, IInv, TypeOK, TasksWellFormed
  <1>1. TypeOK' /\ TasksWellFormed'
    OBVIOUS
  <1>2. ResultsWellFormed' /\ MailIsOwn'
    BY DEF ResultsWellFormed, ResultId, MailIsOwn, Result
  <1>3. WorkerHolds' /\ RunningIsHeld' /\ StoreOutlivesWorker'
    BY DEF WorkerHolds, RunningIsHeld, StoreOutlivesWorker, WorkerAlive
  <1>4. NotYetAnswered'
    BY DEF NotYetAnswered, ResultsWellFormed, Result
  <1>5. WorkerProgress'
    BY DEF WorkerProgress, WorkerHolds
  <1>6. AnsweredInOrder'
    BY DEF AnsweredInOrder, ResultsWellFormed, Result
  <1>7. DoneHasAnswer' /\ OneAnswerPerRun' /\ DeliveredWasReceived'
    BY DEF DoneHasAnswer, OneAnswerPerRun, DeliveredWasReceived
  <1>8. QED
    BY <1>1, <1>2, <1>3, <1>4, <1>5, <1>6, <1>7

\* A poll reads rows of its own phone; nothing in the store moves.
LEMMA OpPollIInv == ASSUME NEW p \in Phone PROVE IInv /\ OpPoll(p) => IInv'
  <1> SUFFICES ASSUME IInv, OpPoll(p) PROVE IInv'
    OBVIOUS
  <1> USE DEF OpPoll, PendingResults, db, process, ghosts, IInv
  <1>1. TypeOK'
    BY DEF TypeOK, Result
  <1>2. MailIsOwn'
    BY DEF MailIsOwn, TypeOK
  <1>3. UNCHANGED <<db, process, received, ghosts>>
    OBVIOUS
  <1>4. QED
    BY <1>1, <1>2, <1>3
       DEF TasksWellFormed, ResultsWellFormed, ResultId, StoreOutlivesWorker, WorkerAlive,
           WorkerHolds, RunningIsHeld, NotYetAnswered, WorkerProgress, DoneHasAnswer,
           OneAnswerPerRun, AnsweredInOrder, DeliveredWasReceived

\* A received answer makes the set of received ids larger, by ids of the phone's own.
LEMMA PhoneReceiveIInv == ASSUME NEW p \in Phone PROVE IInv /\ PhoneReceive(p) => IInv'
  <1> SUFFICES ASSUME IInv, PhoneReceive(p) PROVE IInv'
    OBVIOUS
  <1> USE DEF PhoneReceive, db, process, ghosts, IInv
  <1>1. TypeOK'
    BY DEF TypeOK
  <1>2. MailIsOwn'
    BY DEF MailIsOwn, TypeOK
  <1>3. DeliveredWasReceived'
    BY DEF DeliveredWasReceived, TypeOK, Result
  <1>4. QED
    BY <1>1, <1>2, <1>3
       DEF TasksWellFormed, ResultsWellFormed, ResultId, StoreOutlivesWorker, WorkerAlive,
           WorkerHolds, RunningIsHeld, NotYetAnswered, WorkerProgress, DoneHasAnswer,
           OneAnswerPerRun, AnsweredInOrder

\* An ack sets delivered, on rows of the caller that it has received.
LEMMA OpAckIInv ==
    ASSUME NEW p \in Phone, NEW ids \in SUBSET ResultId
    PROVE  IInv /\ OpAck(p, ids) => IInv'
  <1> SUFFICES ASSUME IInv, OpAck(p, ids) PROVE IInv'
    OBVIOUS
  <1>1. MarkDelivered(ids, p)
        /\ UNCHANGED <<status, from_did, created, process, phones, ghosts>>
    BY DEF OpAck
  <1>2. /\ \A r \in results' : \E s \in results :
             /\ r.id = s.id /\ r.ref = s.ref /\ r.to_did = s.to_did /\ r.run = s.run
             /\ r.delivered <=> s.delivered \/ (s.id \in ids /\ s.to_did = p)
        /\ \A s \in results : \E r \in results' :
             /\ r.id = s.id /\ r.ref = s.ref /\ r.to_did = s.to_did /\ r.run = s.run
        /\ results' \in SUBSET Result
    BY <1>1, MarkDeliveredRows DEF IInv
  <1>3. ASSUME NEW q \in results', NEW r \in results', q.id = r.id PROVE q = r
    <2>1. \E s \in results : q = [s EXCEPT !.delivered = @ \/ (s.id \in ids /\ s.to_did = p)]
      BY <1>1 DEF MarkDelivered
    <2>2. \E s \in results : r = [s EXCEPT !.delivered = @ \/ (s.id \in ids /\ s.to_did = p)]
      BY <1>1 DEF MarkDelivered
    <2>3. QED
      BY <1>3, <2>1, <2>2 DEF IInv, TypeOK, Result, ResultsWellFormed
  <1> USE <1>1, <1>2 DEF process, phones, ghosts, IInv
  <1>4. TypeOK'
    BY DEF TypeOK
  <1>5. TasksWellFormed' /\ StoreOutlivesWorker' /\ WorkerHolds' /\ RunningIsHeld'
    BY DEF TasksWellFormed, StoreOutlivesWorker, WorkerAlive, WorkerHolds, RunningIsHeld
  <1>6. ResultsWellFormed'
    BY <1>3 DEF ResultsWellFormed, ResultId
  <1>7. MailIsOwn'
    BY DEF MailIsOwn
  <1>8. NotYetAnswered' /\ WorkerProgress'
    BY DEF NotYetAnswered, WorkerProgress
  <1>9. DoneHasAnswer'
    BY DEF DoneHasAnswer
  <1>10. OneAnswerPerRun'
    BY <1>3 DEF OneAnswerPerRun, ResultsWellFormed
  <1>11. AnsweredInOrder'
    BY DEF AnsweredInOrder
  <1>12. DeliveredWasReceived'
    BY DEF DeliveredWasReceived, OpAck
  <1>13. QED
    BY <1>4, <1>5, <1>6, <1>7, <1>8, <1>9, <1>10, <1>11, <1>12

\* start() gives every running task back to the queue: the new process holds none,
\* and it has not answered anything yet.
LEMMA StartIInv == IInv /\ Start => IInv'
  <1> SUFFICES ASSUME IInv, Start PROVE IInv'
    OBVIOUS
  <1> USE NobodyAssumption, BoundAssumption
      DEF NobodyAssumption, BoundAssumption, Start, RequeueRunning, phones, IInv, TypeOK
  <1>1. TypeOK' /\ TasksWellFormed'
    BY DEF TasksWellFormed
  <1>2. ResultsWellFormed' /\ MailIsOwn'
    BY DEF ResultsWellFormed, ResultId, MailIsOwn, Result
  <1>3. StoreOutlivesWorker' /\ WorkerHolds' /\ RunningIsHeld'
    BY DEF StoreOutlivesWorker, WorkerAlive, WorkerHolds, RunningIsHeld
  <1>4. NotYetAnswered'
    BY DEF NotYetAnswered, ResultsWellFormed, Result
  <1>5. WorkerProgress'
    BY DEF WorkerProgress
  <1>6. DoneHasAnswer' /\ AnsweredInOrder'
    BY DEF DoneHasAnswer, AnsweredInOrder
  <1>7. OneAnswerPerRun' /\ DeliveredWasReceived'
    BY DEF OneAnswerPerRun, DeliveredWasReceived
  <1>8. QED
    BY <1>1, <1>2, <1>3, <1>4, <1>5, <1>6, <1>7

\* The claimed task is an oldest pending one, and no task is running when the worker
\* claims: so every older task is done, and has its answer.
LEMMA WorkerClaimIInv == IInv /\ WorkerClaim => IInv'
  <1> SUFFICES ASSUME IInv, WorkerClaim PROVE IInv'
    OBVIOUS
  <1>1. PICK c \in Oldest(Pending) : status' = [status EXCEPT ![c] = "running"] /\ current' = c
    BY DEF WorkerClaim
  <1>2. c \in Task /\ status[c] = "pending"
        /\ \A u \in Task : status[u] = "pending" => created[c] <= created[u]
    BY <1>1 DEF Oldest, Pending
  <1> USE <1>1, <1>2, NobodyAssumption
      DEF NobodyAssumption, WorkerClaim, phones, ghosts, IInv, TypeOK
  <1>3. TypeOK' /\ TasksWellFormed'
    BY DEF TasksWellFormed
  <1>4. ResultsWellFormed' /\ MailIsOwn'
    BY DEF ResultsWellFormed, ResultId, MailIsOwn
  <1>5. StoreOutlivesWorker' /\ WorkerHolds' /\ RunningIsHeld'
    BY DEF StoreOutlivesWorker, WorkerAlive, WorkerHolds, RunningIsHeld
  <1>6. NotYetAnswered'
    BY DEF NotYetAnswered, Result
  <1>7. WorkerProgress'
    <2>1. ASSUME NEW t \in Task, status[t] # "none", created[t] < created[c]
          PROVE  status[t] = "done"
      BY <2>1 DEF RunningIsHeld, WorkerHolds
    <2>2. QED
      BY <2>1 DEF WorkerProgress, DoneHasAnswer
  <1>8. DoneHasAnswer' /\ AnsweredInOrder' /\ OneAnswerPerRun' /\ DeliveredWasReceived'
    BY DEF DoneHasAnswer, AnsweredInOrder, OneAnswerPerRun, DeliveredWasReceived
  <1>9. QED
    BY <1>3, <1>4, <1>5, <1>6, <1>7, <1>8

\* The new row is the first answer of this process to its task, and every older
\* task has an answer already.
LEMMA WorkerAnswerIInv == IInv /\ WorkerAnswer => IInv'
  <1> SUFFICES ASSUME IInv, WorkerAnswer PROVE IInv'
    OBVIOUS
  <1> DEFINE row == [id |-> minted + 1, ref |-> current, to_did |-> from_did[current],
                     delivered |-> FALSE, run |-> starts]
  <1>1. results' = results \cup {row} /\ minted' = minted + 1
    BY DEF WorkerAnswer, AddResult
  <1>2. current \in Task /\ status[current] = "running" /\ from_did[current] \in Phone
    BY DEF WorkerAnswer, IInv, TypeOK, WorkerHolds, TasksWellFormed
  <1>3. /\ row \in Result
        /\ row.id = minted + 1 /\ row.ref = current /\ row.to_did = from_did[current]
        /\ ~row.delivered /\ row.run = starts
    BY <1>2 DEF IInv, TypeOK, Result
  <1> HIDE DEF row
  <1> USE <1>1, <1>2, <1>3 DEF WorkerAnswer, phones, IInv, TypeOK
  <1>4. TypeOK' /\ TasksWellFormed'
    BY DEF TasksWellFormed
  <1>5. ResultsWellFormed'
    BY DEF ResultsWellFormed, ResultId
  <1>6. MailIsOwn'
    BY DEF MailIsOwn
  <1>7. StoreOutlivesWorker' /\ WorkerHolds' /\ RunningIsHeld'
    BY DEF StoreOutlivesWorker, WorkerAlive, WorkerHolds, RunningIsHeld
  <1>8. NotYetAnswered' /\ WorkerProgress'
    BY DEF NotYetAnswered, WorkerProgress
  <1>9. OneAnswerPerRun'
    BY DEF OneAnswerPerRun, NotYetAnswered
  <1>10. AnsweredInOrder'
    BY DEF AnsweredInOrder, WorkerProgress
  <1>11. DoneHasAnswer' /\ DeliveredWasReceived'
    BY DEF DoneHasAnswer, DeliveredWasReceived
  <1>12. QED
    BY <1>4, <1>5, <1>6, <1>7, <1>8, <1>9, <1>10, <1>11

\* A task is done when its answer is there.
LEMMA WorkerFinishIInv == IInv /\ WorkerFinish => IInv'
  <1> SUFFICES ASSUME IInv, WorkerFinish PROVE IInv'
    OBVIOUS
  <1> USE NobodyAssumption
      DEF NobodyAssumption, WorkerFinish, phones, ghosts, IInv, TypeOK
  <1>1. TypeOK' /\ TasksWellFormed'
    BY DEF TasksWellFormed, WorkerHolds
  <1>2. ResultsWellFormed' /\ MailIsOwn'
    BY DEF ResultsWellFormed, ResultId, MailIsOwn
  <1>3. StoreOutlivesWorker' /\ WorkerHolds' /\ RunningIsHeld'
    BY DEF StoreOutlivesWorker, WorkerAlive, WorkerHolds, RunningIsHeld
  <1>4. NotYetAnswered' /\ WorkerProgress'
    BY DEF NotYetAnswered, WorkerProgress, Result
  <1>5. DoneHasAnswer'
    BY DEF DoneHasAnswer, WorkerProgress, WorkerHolds, ResultsWellFormed
  <1>6. AnsweredInOrder' /\ OneAnswerPerRun' /\ DeliveredWasReceived'
    BY DEF AnsweredInOrder, OneAnswerPerRun, DeliveredWasReceived, WorkerHolds
  <1>7. QED
    BY <1>1, <1>2, <1>3, <1>4, <1>5, <1>6

\* Every step of the broker, the phones and the process keeps the invariant.
LEMMA StepIInv == IInv /\ [Next]_vars => IInv'
  <1> SUFFICES ASSUME IInv, [Next]_vars PROVE IInv'
    OBVIOUS
  <1>1. CASE Handler
    BY <1>1, OpPushIInv, OpPollIInv, PhoneReceiveIInv, OpAckIInv DEF Handler
  <1>2. CASE WorkerClaim
    BY <1>2, WorkerClaimIInv
  <1>3. CASE WorkerAnswer
    BY <1>3, WorkerAnswerIInv
  <1>4. CASE WorkerFinish
    BY <1>4, WorkerFinishIInv
  <1>5. CASE Start
    BY <1>5, StartIInv
  <1>6. CASE ControlStep
    BY <1>6, ControlStepIInv
  <1>7. CASE UNCHANGED vars
    BY <1>7 DEF vars, db, process, phones, ghosts, IInv, TypeOK, TasksWellFormed,
                ResultsWellFormed, ResultId, MailIsOwn, StoreOutlivesWorker, WorkerAlive,
                WorkerHolds, RunningIsHeld, NotYetAnswered, WorkerProgress, DoneHasAnswer,
                OneAnswerPerRun, AnsweredInOrder, DeliveredWasReceived
  <1>8. QED
    BY <1>1, <1>2, <1>3, <1>4, <1>5, <1>6, <1>7
       DEF Next, WorkerStep, Lifecycle, ControlStep

\* The inductive invariant holds of every behaviour.
THEOREM Invariance == Spec => []IInv
  BY InitIInv, StepIInv, PTL DEF Spec

-----------------------------------------------------------------------------
(* The properties *)

\* Every variable keeps its type.
THEOREM TypeCorrectness == Spec => []TypeOK
  <1>1. IInv => TypeOK
    BY DEF IInv
  <1>2. QED
    BY Invariance, <1>1, PTL

\* No restart, stop or fault leaves a task marked done without its answer.
THEOREM AnswersAreNotLost == Spec => []DoneHasAnswer
  <1>1. IInv => DoneHasAnswer
    BY DEF IInv
  <1>2. QED
    BY Invariance, <1>1, PTL

\* At least once across restarts, at most once within one life of the process.
THEOREM AtMostOnePerRun == Spec => []OneAnswerPerRun
  <1>1. IInv => OneAnswerPerRun
    BY DEF IInv
  <1>2. QED
    BY Invariance, <1>1, PTL

\* The queue is first in, first answered, across restarts.
THEOREM FirstInFirstAnswered == Spec => []AnsweredInOrder
  <1>1. IInv => AnsweredInOrder
    BY DEF IInv
  <1>2. QED
    BY Invariance, <1>1, PTL

\* A result is not withdrawn before its own phone has received it.
THEOREM NothingWithdrawnUnseen == Spec => []DeliveredWasReceived
  <1>1. IInv => DeliveredWasReceived
    BY DEF IInv
  <1>2. QED
    BY Invariance, <1>1, PTL

\* stop() does not close the store under a live worker.
THEOREM OrderlyShutdown == Spec => []StoreOutlivesWorker
  <1>1. IInv => StoreOutlivesWorker
    BY DEF IInv
  <1>2. QED
    BY Invariance, <1>1, PTL

\* Nothing is left marked running that neither the worker holds nor the next start repairs.
THEOREM RunningTaskIsHeld == Spec => []RunningIsHeld
  <1>1. IInv => RunningIsHeld
    BY DEF IInv
  <1>2. QED
    BY Invariance, <1>1, PTL

-----------------------------------------------------------------------------
(* MeshQueue implements TaskDelivery *)

Answered == {r.ref : r \in results}
Seen == [p \in Phone |-> {r.ref : r \in {s \in results : s.id \in received[p]}}]
Retired == {r.ref : r \in {s \in results : s.delivered}}

\* Nothing is dispatched, answered, seen or retired in an empty store.
LEMMA PromiseInit == Init => Promise!Init
  BY DEF Init, Promise!Init

\* A push of a new id is an Accept; any other push changes nothing that is promised.
LEMMA PushIsAccept ==
    ASSUME IInv, NEW p \in Phone, NEW t \in Task, OpPush(p, t)
    PROVE  Promise!Accept(p, t) \/ UNCHANGED Promise!vars
  <1>1. UNCHANGED <<results, received>>
    BY DEF OpPush, phones
  <1>2. UNCHANGED <<Answered, Seen, Retired>>
    BY <1>1 DEF Answered, Seen, Retired
  <1>3. CASE status[t] = "none"
    <2>1. from_did[t] = Nobody /\ from_did' = [from_did EXCEPT ![t] = p]
      BY <1>3 DEF OpPush, AddTask, IInv, TasksWellFormed
    <2>2. QED
      BY <1>2, <2>1 DEF Promise!Accept, Answered, Seen, Retired
  <1>4. CASE status[t] # "none"
    BY <1>2, <1>4 DEF OpPush, AddTask, Promise!vars, Answered, Seen, Retired
  <1>5. QED
    BY <1>3, <1>4

\* What a poll brings a phone are answers to tasks of its own.
LEMMA ReceiveIsShow ==
    ASSUME IInv, NEW p \in Phone, PhoneReceive(p)
    PROVE  \E T \in SUBSET Task : Promise!Show(p, T)
  <1>0. \A r \in results : r.ref \in Task
    BY DEF IInv, TypeOK, Result
  <1>1. PICK T \in SUBSET Task : T = {r.ref : r \in {s \in results : s.id \in reply[p]}}
    BY <1>0
  <1>2. UNCHANGED <<from_did, results>> /\ received' = [received EXCEPT ![p] = @ \cup reply[p]]
    BY DEF PhoneReceive, db
  <1>3. \A t \in T : from_did[t] = p /\ t \in Answered
    BY <1>1 DEF IInv, ResultsWellFormed, MailIsOwn, Answered
  <1>4. Seen' = [Seen EXCEPT ![p] = @ \cup T]
    <2>1. ASSUME NEW q \in Phone PROVE Seen'[q] = [Seen EXCEPT ![p] = @ \cup T][q]
      BY <1>1, <1>2 DEF Seen, IInv, TypeOK
    <2>2. QED
      BY <2>1 DEF Seen
  <1>5. UNCHANGED <<from_did, Answered, Retired>>
    BY <1>2 DEF Answered, Retired
  <1>6. Promise!Show(p, T)
    BY <1>3, <1>4, <1>5 DEF Promise!Show, Answered, Seen, Retired
  <1>7. QED
    BY <1>6

\* An ack retires tasks whose owner, and no other phone, has seen the answer.
LEMMA AckIsRetire ==
    ASSUME IInv, NEW p \in Phone, NEW ids \in SUBSET ResultId, OpAck(p, ids)
    PROVE  \E T \in SUBSET Task : Promise!Retire(p, T)
  <1>0. \A r \in results : r.ref \in Task
    BY DEF IInv, TypeOK, Result
  <1>1. PICK T \in SUBSET Task : T = {r.ref : r \in {s \in results : s.id \in ids /\ s.to_did = p}}
    BY <1>0
  <1>2. /\ \A r \in results' : \E s \in results :
             /\ r.id = s.id /\ r.ref = s.ref /\ r.to_did = s.to_did /\ r.run = s.run
             /\ r.delivered <=> s.delivered \/ (s.id \in ids /\ s.to_did = p)
        /\ \A s \in results : \E r \in results' :
             /\ r.id = s.id /\ r.ref = s.ref /\ r.to_did = s.to_did /\ r.run = s.run
             /\ r.delivered <=> s.delivered \/ (s.id \in ids /\ s.to_did = p)
    BY MarkDeliveredRows DEF OpAck, IInv
  <1>3. UNCHANGED <<from_did, received>>
    BY DEF OpAck, phones
  <1>4. \A t \in T : from_did[t] = p /\ t \in Seen[p]
    BY <1>1 DEF OpAck, IInv, ResultsWellFormed, Seen
  <1>5. Answered' = Answered
    BY <1>2 DEF Answered
  <1>6. Seen' = Seen
    <2>1. ASSUME NEW q \in Phone
          PROVE  {r.ref : r \in {s \in results : s.id \in received[q]}}'
                   = {r.ref : r \in {s \in results : s.id \in received[q]}}
      BY <1>2, <1>3
    <2>2. QED
      BY <2>1 DEF Seen
  <1>7. Retired' = Retired \cup T
    BY <1>1, <1>2 DEF Retired
  <1>8. Promise!Retire(p, T)
    BY <1>3, <1>4, <1>5, <1>6, <1>7 DEF Promise!Retire, Answered, Seen, Retired
  <1>9. QED
    BY <1>8

\* add_result answers a dispatched task; the new row was neither received nor acknowledged.
LEMMA AnswerIsAnswer ==
    ASSUME IInv, WorkerAnswer
    PROVE  \E t \in Task : Promise!Answer(t)
  <1> DEFINE row == [id |-> minted + 1, ref |-> current, to_did |-> from_did[current],
                     delivered |-> FALSE, run |-> starts]
  <1>1. results' = results \cup {row} /\ UNCHANGED <<from_did, received>>
    BY DEF WorkerAnswer, AddResult, phones
  <1>2. PICK t \in Task : t = current /\ from_did[t] # Nobody
    BY DEF WorkerAnswer, IInv, WorkerHolds, TasksWellFormed
  <1>3. row.id = minted + 1 /\ row.ref = current /\ ~row.delivered
    OBVIOUS
  <1>4. \A p \in Phone : row.id \notin received[p]
    BY <1>3 DEF IInv, TypeOK, MailIsOwn, ResultsWellFormed, ResultId
  <1> HIDE DEF row
  <1>5. Answered' = Answered \cup {t}
    BY <1>1, <1>2, <1>3 DEF Answered
  <1>6. Seen' = Seen
    <2>1. ASSUME NEW q \in Phone
          PROVE  {r.ref : r \in {s \in results : s.id \in received[q]}}'
                   = {r.ref : r \in {s \in results : s.id \in received[q]}}
      BY <1>1, <1>4
    <2>2. QED
      BY <2>1 DEF Seen
  <1>7. Retired' = Retired
    BY <1>1, <1>3 DEF Retired
  <1>8. Promise!Answer(t)
    BY <1>1, <1>2, <1>5, <1>6, <1>7 DEF Promise!Answer, Answered, Seen, Retired
  <1>9. QED
    BY <1>8

\* Every step of the queue is a step of the delivery promise or leaves it as it is.
LEMMA PromiseStep == IInv /\ [Next]_vars => [Promise!Next]_(Promise!vars)
  <1> SUFFICES ASSUME IInv, [Next]_vars PROVE Promise!Next \/ UNCHANGED Promise!vars
    OBVIOUS
  <1>1. ASSUME NEW p \in Phone, NEW t \in Task, OpPush(p, t)
        PROVE  Promise!Next \/ UNCHANGED Promise!vars
    BY <1>1, PushIsAccept DEF Promise!Next
  <1>2. ASSUME NEW p \in Phone, PhoneReceive(p)
        PROVE  Promise!Next
    BY <1>2, ReceiveIsShow DEF Promise!Next
  <1>3. ASSUME NEW p \in Phone, NEW ids \in SUBSET ResultId, OpAck(p, ids)
        PROVE  Promise!Next
    BY <1>3, AckIsRetire DEF Promise!Next
  <1>4. CASE WorkerAnswer
    BY <1>4, AnswerIsAnswer DEF Promise!Next
  <1>5. ASSUME UNCHANGED <<from_did, results, received>>
        PROVE  UNCHANGED Promise!vars
    BY <1>5 DEF Promise!vars
  <1>6. ASSUME NEW p \in Phone, OpPoll(p)
        PROVE  UNCHANGED Promise!vars
    BY <1>5, <1>6 DEF OpPoll, db
  <1>7. CASE WorkerClaim \/ WorkerFinish \/ Start
    BY <1>5, <1>7 DEF WorkerClaim, WorkerFinish, Start, phones
  <1>8. CASE ControlStep
    BY <1>5, <1>8 DEF ControlStep, WorkerCheck, WorkerIdle, WorkerHermes, WorkerFault,
       StopBegin, StopClose, StopLeaveOpen, Exit, Crash, ProcessGone, db, phones
  <1>9. CASE UNCHANGED vars
    BY <1>5, <1>9 DEF vars, db, phones
  <1>10. QED
    BY <1>1, <1>2, <1>3, <1>4, <1>6, <1>7, <1>8, <1>9
       DEF Next, Handler, WorkerStep, Lifecycle, ControlStep

\* The queue keeps the delivery promise, in every behaviour.
THEOREM QueueKeepsPromise == Spec => PromiseKept
  BY PromiseInit, PromiseStep, Invariance, PTL DEF Spec, PromiseKept, Promise!Spec

=============================================================================
